------------------------ MODULE Conversations_proofs ------------------------
(***************************************************************************)
(* Proofs about conversations: that they stay well formed from endpoint to *)
(* endpoint, and that Claude's thinking is not shown to others. What       *)
(* each converter makes of a request or an answer is a lemma of its own.   *)
(***************************************************************************)
EXTENDS Conversations, TLAPS

(***************************************************************************)
(* Sequences                                                               *)
(***************************************************************************)
(* One step of a filter, for an element with its mark, and one of a          *)
(* concatenation.                                                            *)
Take(kept, e) == IF e[1] = 1 THEN Append(kept, e[2]) ELSE kept
Join(all, s) == all \o s

InSeq(E, k, s) == s \in Seq(E)

TK == INSTANCE FoldFacts WITH Op <- Take, Keeps <- InSeq
JN == INSTANCE FoldFacts WITH Op <- Join, Keeps <- InSeq

(* What passes a test is a sequence of elements at the places it names, and  *)
(* not a longer one.                                                         *)
LEMMA TakenType ==
  ASSUME NEW E, NEW s \in Seq(E), NEW places
  PROVE  /\ Taken(s, places) \in Seq({s[i] : i \in places \cap DOMAIN s})
         /\ Len(Taken(s, places)) <= Len(s)
  <1> DEFINE m == Len(s)
             S == {s[i] : i \in places \cap DOMAIN s}
             seq == [i \in 1..m |-> <<IF i \in places THEN 1 ELSE 0, s[i]>>]
             Is(f) == f = [i \in 0..m |-> IF i = 0 THEN <<>>
                                          ELSE IF i \in places THEN Append(f[i - 1], s[i])
                                                               ELSE f[i - 1]]
             taken == CHOOSE f : Is(f)
  <1>1. m \in Nat /\ DOMAIN s = 1..m /\ DOMAIN seq = 1..m
    OBVIOUS
  <1>2. \E f : Is(f)
    <2>1. PICK upto : TK!PrefixFolds(upto, m, <<>>, seq)
      <3> HIDE DEF seq, m
      <3> QED
        BY <1>1, TK!FoldUnwound
    <2>2. upto[0] = <<>>
      BY <2>1 DEF TK!PrefixFolds
    <2>3. \A i \in 1..m : upto[i] = IF i \in places THEN Append(upto[i - 1], s[i]) ELSE upto[i - 1]
      <3> TAKE i \in 1..m
      <3>1. upto[i] = Take(upto[i - 1], seq[i])
        BY <2>1 DEF TK!PrefixFolds
      <3>2. seq[i] = <<IF i \in places THEN 1 ELSE 0, s[i]>>
        OBVIOUS
      <3>3. seq[i][2] = s[i] /\ (seq[i][1] = 1 <=> i \in places)
        BY <3>2
      <3> HIDE DEF seq
      <3> QED
        BY <3>1, <3>3 DEF Take
    <2> DEFINE f == [i \in 0..m |-> upto[i]]
    <2>4. Is(f)
      <3>1. \A i \in 0..m : i # 0 => i - 1 \in 0..m /\ i \in 1..m
        BY <1>1
      <3> HIDE DEF m
      <3> QED
        BY <2>2, <2>3, <3>1
    <2> QED
      BY <2>4
  <1>3. Is(taken)
    BY <1>2
  <1>4. Taken(s, places) = taken[m]
    BY DEF Taken
  <1> HIDE DEF taken
  <1>5. taken[0] = <<>>
    BY <1>1, <1>3
  <1>6. \A i \in 1..m : taken[i] = IF i \in places THEN Append(taken[i - 1], s[i]) ELSE taken[i - 1]
    <2>1. \A i \in 1..m : i \in 0..m /\ i # 0
      BY <1>1
    <2> HIDE DEF m
    <2> QED
      BY <1>3, <2>1
  <1> HIDE DEF Is
  <1> DEFINE Good == {i \in 0..m : taken[i] \in Seq(S) /\ Len(taken[i]) <= i}
  <1>7. 0 \in Good
    <2>1. <<>> \in Seq(S) /\ Len(<<>>) = 0
      OBVIOUS
    <2> HIDE DEF S, m
    <2>2. taken[0] \in Seq(S) /\ Len(taken[0]) <= 0
      BY <1>5, <2>1
    <2> QED
      BY <1>1, <2>2
  <1>8. ASSUME NEW n \in 0..m - 1, n \in Good PROVE n + 1 \in Good
    <2>1. n + 1 \in 1..m /\ (n + 1) - 1 = n /\ n + 1 \in 0..m
      BY <1>1
    <2>2. CASE n + 1 \in places
      <3>1. s[n + 1] \in S
        BY <1>1, <2>1, <2>2
      <3>2. taken[n + 1] = Append(taken[n], s[n + 1])
        BY <1>6, <2>1, <2>2
      <3>3. taken[n] \in Seq(S) /\ Len(taken[n]) <= n
        BY <1>8
      <3> HIDE DEF S, m
      <3>4. taken[n + 1] \in Seq(S) /\ Len(taken[n + 1]) <= n + 1
        <4>1. Len(taken[n]) \in Nat /\ n \in Nat
          BY <3>3
        <4> QED
          BY <3>1, <3>2, <3>3, <4>1
      <3> QED
        BY <2>1, <3>4
    <2>3. CASE n + 1 \notin places
      BY <1>6, <1>8, <2>1, <2>3
    <2> QED
      BY <2>2, <2>3
  <1> HIDE DEF Good
  <1>9. m \in Good
    BY <1>1, <1>7, <1>8, TK!Induction
  <1> QED
    BY <1>4, <1>9 DEF Good

(* All elements of sequences that are put together are elements of one.      *)
LEMMA FlattenType ==
  ASSUME NEW E, NEW seqs, NEW m \in Nat, seqs \in [1..m -> Seq(E)]
  PROVE  FlattenSeq(seqs) \in Seq(E)
  <1> DEFINE Is(f) == f = [i \in 1..m |-> IF i = 1 THEN seqs[i] ELSE f[i - 1] \o seqs[i]]
             flat == CHOOSE f : Is(f)
  <1>1. DOMAIN seqs = 1..m /\ Len(seqs) = m /\ \A i \in 1..m : seqs[i] \in Seq(E)
    OBVIOUS
  <1>2. CASE m = 0
    <2>1. seqs \in Seq(E)
      BY <1>1, <1>2
    <2> QED
      BY <1>1, <1>2, <2>1 DEF FlattenSeq
  <1>3. CASE m # 0
    <2>1. PICK upto : JN!PrefixFolds(upto, m, <<>>, seqs)
      BY <1>1, JN!FoldUnwound
    <2>2. upto[0] = <<>>
      BY <2>1 DEF JN!PrefixFolds
    <2>3. \A i \in 1..m : upto[i] = upto[i - 1] \o seqs[i]
      BY <2>1 DEF JN!PrefixFolds, Join
    <2>4. upto[1] = seqs[1]
      <3>1. 1 \in 1..m /\ 1 - 1 = 0
        BY <1>3
      <3>2. upto[1] = <<>> \o seqs[1]
        BY <2>2, <2>3, <3>1
      <3> QED
        BY <1>1, <3>1, <3>2
    <2> DEFINE f0 == [i \in 1..m |-> upto[i]]
    <2>5. Is(f0)
      <3>1. \A i \in 1..m : i # 1 => i - 1 \in 1..m
        OBVIOUS
      <3> QED
        BY <2>3, <2>4, <3>1
    <2>6. Is(flat)
      BY <2>5
    <2>7. FlattenSeq(seqs) = flat[m]
      BY <1>1, <1>3 DEF FlattenSeq
    <2> HIDE DEF flat
    <2>8. \A i \in 1..m : flat[i] = IF i = 1 THEN seqs[i] ELSE flat[i - 1] \o seqs[i]
      BY <2>6
    <2> HIDE DEF Is
    <2> DEFINE Good == {i \in 0..m : i = 0 \/ flat[i] \in Seq(E)}
    <2>9. 0 \in Good /\ \A k \in 0..m : flat[k] \in Seq(E) => k \in Good
      OBVIOUS
    <2>10. ASSUME NEW n \in 0..m - 1, n \in Good PROVE n + 1 \in Good
      <3>1. n + 1 \in 1..m /\ (n + 1) - 1 = n /\ n + 1 \in 0..m
        OBVIOUS
      <3>2. CASE n = 0
        BY <1>1, <2>8, <3>1, <3>2
      <3>3. CASE n # 0
        <4>1. flat[n] \in Seq(E) /\ seqs[n + 1] \in Seq(E)
          BY <1>1, <2>10, <3>1, <3>3
        <4>2. flat[n + 1] = flat[n] \o seqs[n + 1]
          <5>1. \A i \in 1..m, j \in 1..m : i = j + 1 => flat[i] = flat[j] \o seqs[i]
            <6> TAKE i \in 1..m, j \in 1..m
            <6>1. HAVE i = j + 1
            <6>2. i # 1 /\ i - 1 = j
              BY <6>1
            <6> QED
              BY <2>8, <6>2
          <5>2. n \in 1..m
            BY <3>3
          <5> QED
            BY <3>1, <5>1, <5>2
        <4>3. flat[n + 1] \in Seq(E)
          BY <4>1, <4>2
        <4> HIDE DEF Good
        <4> QED
          BY <2>9, <3>1, <4>3
      <3> QED
        BY <3>2, <3>3
    <2> HIDE DEF Good
    <2>11. m \in Good
      BY <2>9, <2>10, JN!Induction
    <2> QED
      BY <1>3, <2>7, <2>11 DEF Good
  <1> QED
    BY <1>2, <1>3

(***************************************************************************)
(* Parts and messages                                                      *)
(***************************************************************************)
Nobody == ""
NoId == ""

Speakers == {"system", "developer", "user", "assistant"}
AllRoles == Speakers \cup {"tool", "model", Nobody}
Kinds    == {"text", "thinking", "tool_use", "result"}

(* What a text is made of, where it is not thinking.                         *)
Symbols == {Word(turn) : turn \in 0..MaxTurns} \cup AllRoles
           \cup {"(thinking...)", "a", "r", "note", "<", "think>", "/think>", Marker}

CallIds   == {Id(n) : n \in 0..MaxCalls + 1} \cup {CounterId(n) : n \in 0..MaxCalls + 1}
             \cup {CallNamed(name) : name \in Names}
Ids       == CallIds \cup {NoId}
ToolNames == Names \cup {NoId}

(* Parts in which only thinking has thoughts in it, and calls have ids.      *)
IsPart(ids, p) ==
    /\ p \in [kind : Kinds, body : Seq(Symbols \cup {"hm"}), id : Ids, name : ToolNames]
    /\ p.kind # "thinking" => p.body \in Seq(Symbols)
    /\ p.kind = "tool_use" => p.id \in ids /\ p.name \in Names

AllParts(ids) == {p \in [kind : Kinds, body : Seq(Symbols \cup {"hm"}), id : Ids, name : ToolNames] :
                    IsPart(ids, p)}

Mine  == AllParts(CallIds)
Shown == {p \in Mine : p.kind # "thinking"}

Messages(P) == [role : AllRoles, plain : BOOLEAN, parts : Seq(P)]

(* No symbol of a text is a thought, and ids are no names of nobody.         *)
LEMMA SymbolFacts == "hm" \notin Symbols /\ NoId \notin CallIds
  <1>1. "hm" \notin Symbols
    <2>1. \A turn \in 0..MaxTurns : Word(turn) # "hm"
      BY WordsAssumption
    <2>2. "hm" # Nobody
      BY Zenon DEF Nobody
    <2> QED
      BY <2>1, <2>2 DEF Symbols, AllRoles, Speakers, Marker
  <1>2. NoId \notin CallIds
    <2>1. NoId \notin {Id(n) : n \in 0..MaxCalls + 1}
      BY Zenon, IdsAssumption DEF NoId
    <2>2. NoId \notin {CounterId(n) : n \in 0..MaxCalls + 1}
      BY Zenon, IdsAssumption DEF NoId
    <2>3. NoId \notin {CallNamed(name) : name \in Names}
      BY Zenon, IdsAssumption DEF NoId
    <2> QED
      BY Zenon, <2>1, <2>2, <2>3 DEF CallIds
  <1> QED
    BY <1>1, <1>2

(* A part with what may be in it.                                            *)
LEMMA PartType ==
  ASSUME NEW ids \in SUBSET Ids, NEW kind \in Kinds, NEW body \in Seq(Symbols),
         NEW id \in Ids, NEW name \in ToolNames, kind = "tool_use" => id \in ids /\ name \in Names
  PROVE  Part(kind, body, id, name) \in AllParts(ids)
  <1>1. body \in Seq(Symbols \cup {"hm"})
    OBVIOUS
  <1> DEFINE p == Part(kind, body, id, name)
  <1>2. p \in [kind : Kinds, body : Seq(Symbols \cup {"hm"}), id : Ids, name : ToolNames]
    BY <1>1 DEF Part
  <1>3. p.kind = kind /\ p.body = body /\ p.id = id /\ p.name = name
    BY DEF Part
  <1> HIDE DEF p
  <1>4. IsPart(ids, p)
    BY <1>2, <1>3 DEF IsPart
  <1> QED
    BY <1>2, <1>4 DEF AllParts, p

(* What is in a part.                                                        *)
LEMMA PartFields ==
  ASSUME NEW ids, NEW p \in AllParts(ids)
  PROVE  /\ p.kind \in Kinds /\ p.id \in Ids /\ p.name \in ToolNames
         /\ p.body \in Seq(Symbols \cup {"hm"})
         /\ p.kind # "thinking" => p.body \in Seq(Symbols)
         /\ p.kind = "tool_use" => p.id \in ids /\ p.name \in Names
  BY DEF AllParts, IsPart

(* A part that is not thinking may be shown to anybody.                      *)
LEMMA ShownPart ==
  ASSUME NEW kind \in Kinds, kind # "thinking", NEW body \in Seq(Symbols),
         NEW id \in Ids, NEW name \in ToolNames, kind = "tool_use" => id \in CallIds /\ name \in Names
  PROVE  Part(kind, body, id, name) \in Shown
  <1>1. CallIds \in SUBSET Ids
    BY DEF Ids
  <1>2. Part(kind, body, id, name) \in Mine
    BY <1>1, PartType DEF Mine
  <1>3. Part(kind, body, id, name).kind = kind
    BY DEF Part
  <1> QED
    BY <1>2, <1>3 DEF Shown

(* What is shown has no thought in it.                                       *)
LEMMA ShownFields ==
  ASSUME NEW p \in Shown
  PROVE  p \in Mine /\ p.kind \in Kinds /\ p.kind # "thinking" /\ p.body \in Seq(Symbols)
  <1>1. p \in Mine /\ p.kind # "thinking"
    BY DEF Shown
  <1> QED
    BY <1>1, PartFields DEF Mine

(* A text of such symbols may be shown.                                      *)
LEMMA TextPartShown ==
  ASSUME NEW body \in Seq(Symbols)
  PROVE  TextPart(body) \in Shown
  <1>1. "text" \in Kinds /\ NoId \in Ids /\ NoId \in ToolNames
    BY DEF Kinds, Ids, ToolNames
  <1>2. Part("text", body, NoId, NoId) \in Shown
    BY <1>1, ShownPart
  <1> QED
    BY Zenon, <1>2 DEF TextPart, NoId

(* What may be shown to others a Claude client has, too.                     *)
LEMMA ShownIsMine == Shown \subseteq Mine /\ Seq(Shown) \subseteq Seq(Mine)
  <1>1. Shown \subseteq Mine
    BY DEF Shown
  <1> HIDE DEF Shown, Mine
  <1> QED
    BY <1>1

(* A message of what is put into it.                                         *)
LEMMA MessageType ==
  ASSUME NEW P, NEW role \in AllRoles, NEW plain \in BOOLEAN, NEW parts \in Seq(P)
  PROVE  /\ Message(role, plain, parts) \in Messages(P)
         /\ Message(role, plain, parts).role = role
         /\ Message(role, plain, parts).parts = parts
  BY DEF Message, Messages

(* What is in a message.                                                     *)
LEMMA MessageFields ==
  ASSUME NEW P, NEW m \in Messages(P)
  PROVE  m.role \in AllRoles /\ m.plain \in BOOLEAN /\ m.parts \in Seq(P)
  BY DEF Messages

(* A message with other parts, or in the other form, is a message.           *)
LEMMA MessageChange ==
  ASSUME NEW P, NEW m \in Messages(P)
  PROVE  /\ \A plain \in BOOLEAN : [m EXCEPT !.plain = plain] \in Messages(P)
         /\ \A plain \in BOOLEAN : [m EXCEPT !.plain = plain].parts = m.parts
         /\ \A parts \in Seq(P) : [m EXCEPT !.parts = parts] \in Messages(P)
         /\ \A parts \in Seq(P) : [m EXCEPT !.parts = parts].parts = parts
  BY DEF Messages

(* The roles of speakers are roles.                                          *)
LEMMA RoleFacts ==
  /\ Speakers \subseteq AllRoles
  /\ \A role \in {"system", "developer", "user", "assistant", "tool"} : role \in AllRoles
  /\ Nobody \in AllRoles
  BY DEF AllRoles, Speakers

(***************************************************************************)
(* Filters                                                                 *)
(***************************************************************************)
(* What is selected is some of the elements, at most as many.                *)
LEMMA Selection ==
  ASSUME NEW E, NEW s \in Seq(E), NEW F, NEW places,
         \A i \in places \cap DOMAIN s : s[i] \in F
  PROVE  Taken(s, places) \in Seq(F) /\ Len(Taken(s, places)) <= Len(s)
  <1> DEFINE S == {s[i] : i \in places \cap DOMAIN s}
  <1>1. S \subseteq F
    OBVIOUS
  <1> HIDE DEF S
  <1>2. Seq(S) \subseteq Seq(F)
    BY <1>1
  <1>3. Taken(s, places) \in Seq(S) /\ Len(Taken(s, places)) <= Len(s)
    BY TakenType DEF S
  <1> QED
    BY <1>2, <1>3

(* The texts among some parts.                                               *)
LEMMA TextsOfType ==
  ASSUME NEW ids, NEW P \in SUBSET AllParts(ids), NEW parts \in Seq(P)
  PROVE  TextsOf(parts) \in Seq({p \in P : p.kind = "text"})
  <1> DEFINE F == {p \in P : p.kind = "text"}
             places == {i \in DOMAIN parts : parts[i].kind = "text"}
  <1>1. \A i \in places \cap DOMAIN parts : parts[i] \in F
    OBVIOUS
  <1>2. TextsOf(parts) = Taken(parts, places)
    BY DEF TextsOf, Only
  <1> HIDE DEF F, places
  <1>3. Taken(parts, places) \in Seq(F)
    BY <1>1, Selection
  <1> QED
    BY <1>2, <1>3 DEF F

(* The calls among some parts, which are not more than the parts.            *)
LEMMA CallsOfType ==
  ASSUME NEW ids, NEW P \in SUBSET AllParts(ids), NEW parts \in Seq(P)
  PROVE  /\ CallsOf(parts) \in Seq({p \in P : p.kind = "tool_use"})
         /\ Len(CallsOf(parts)) <= Len(parts)
  <1> DEFINE F == {p \in P : p.kind = "tool_use"}
             places == {i \in DOMAIN parts : parts[i].kind = "tool_use"}
  <1>1. \A i \in places \cap DOMAIN parts : parts[i] \in F
    OBVIOUS
  <1>2. CallsOf(parts) = Taken(parts, places)
    BY DEF CallsOf, Only
  <1> HIDE DEF F, places
  <1>3. Taken(parts, places) \in Seq(F) /\ Len(Taken(parts, places)) <= Len(parts)
    BY <1>1, Selection
  <1> QED
    BY <1>2, <1>3 DEF F

(* The results among some parts.                                             *)
LEMMA ResultsOfType ==
  ASSUME NEW P, NEW parts \in Seq(P)
  PROVE  ResultsOf(parts) \in Seq({p \in P : p.kind = "result"})
  <1> DEFINE F == {p \in P : p.kind = "result"}
             places == {i \in DOMAIN parts : parts[i].kind = "result"}
  <1>1. \A i \in places \cap DOMAIN parts : parts[i] \in F
    OBVIOUS
  <1>2. ResultsOf(parts) = Taken(parts, places)
    BY DEF ResultsOf, Only
  <1> HIDE DEF F, places
  <1>3. Taken(parts, places) \in Seq(F)
    BY <1>1, Selection
  <1> QED
    BY <1>2, <1>3 DEF F

(* The system's messages, and the others.                                    *)
LEMMA MessagesKept ==
  ASSUME NEW M, NEW ms \in Seq(M)
  PROVE  System(ms) \in Seq(M) /\ Others(ms) \in Seq(M)
  <1> DEFINE S == {i \in DOMAIN ms : ms[i].role = "system"}
             O == {i \in DOMAIN ms : ms[i].role # "system"}
  <1>1. System(ms) = Taken(ms, S) /\ Others(ms) = Taken(ms, O)
    BY DEF System, Others, Only
  <1>2. \A i \in DOMAIN ms : ms[i] \in M
    OBVIOUS
  <1> HIDE DEF S, O
  <1> QED
    BY <1>1, <1>2, Selection

(* The words of the texts among some parts.                                  *)
LEMMA BodiesType ==
  ASSUME NEW ids, NEW parts \in Seq(AllParts(ids)), NEW kind, kind # "thinking"
  PROVE  Bodies(parts, kind) \in Seq(Symbols)
  <1> DEFINE m == Len(parts)
             seqs == [k \in DOMAIN parts |-> IF parts[k].kind = kind THEN parts[k].body ELSE <<>>]
  <1>1. m \in Nat /\ DOMAIN parts = 1..m /\ \A k \in 1..m : parts[k] \in AllParts(ids)
    OBVIOUS
  <1>2. ASSUME NEW k \in 1..m PROVE (IF parts[k].kind = kind THEN parts[k].body ELSE <<>>) \in Seq(Symbols)
    <2>1. parts[k].kind = kind => parts[k].body \in Seq(Symbols)
      BY <1>1, PartFields
    <2>2. <<>> \in Seq(Symbols)
      OBVIOUS
    <2> QED
      BY <2>1, <2>2
  <1>3. seqs \in [1..m -> Seq(Symbols)]
    BY <1>1, <1>2
  <1>4. Bodies(parts, kind) = FlattenSeq(seqs)
    BY DEF Bodies
  <1> HIDE DEF seqs, m
  <1> QED
    BY <1>1, <1>3, <1>4, FlattenType

(* The text that the texts of a message are joined to (claude_openai.go).    *)
LEMMA JoinedType ==
  ASSUME NEW ids, NEW parts \in Seq(AllParts(ids))
  PROVE  Joined(parts) \in Seq(Shown)
  <1>1. TextPart(Bodies(parts, "text")) \in Shown
    BY BodiesType, TextPartShown
  <1>2. Joined(parts) = << >> \/ Joined(parts) = <<TextPart(Bodies(parts, "text"))>>
    BY Zenon DEF Joined
  <1>3. \A p \in Shown : <<p>> \in Seq(Shown)
    OBVIOUS
  <1>4. << >> \in Seq(Shown)
    OBVIOUS
  <1> QED
    BY <1>1, <1>2, <1>3, <1>4

(***************************************************************************)
(* Requests of a Claude client, from which thinking is taken               *)
(***************************************************************************)
(* A singleton, and two sequences put together.                              *)
LEMMA SeqFacts ==
  ASSUME NEW E
  PROVE  /\ << >> \in Seq(E)
         /\ \A e \in E : <<e>> \in Seq(E)
         /\ \A s, t \in Seq(E) : s \o t \in Seq(E)
         /\ \A s \in Seq(E), e \in E : Append(s, e) \in Seq(E)
  <1>1. << >> \in Seq(E) /\ \A e \in E : <<e>> \in Seq(E)
    OBVIOUS
  <1>2. ASSUME NEW s \in Seq(E), NEW t \in Seq(E) PROVE s \o t \in Seq(E)
    OBVIOUS
  <1>3. ASSUME NEW s \in Seq(E), NEW e \in E PROVE Append(s, e) \in Seq(E)
    OBVIOUS
  <1> QED
    BY <1>1, <1>2, <1>3

(* A sequence over a set is one over any larger set.                         *)
LEMMA SubsetSeq ==
  ASSUME NEW E, NEW F, E \subseteq F, NEW s \in Seq(E)
  PROVE  s \in Seq(F)
  OBVIOUS

(* A piece of a sequence.                                                    *)
LEMMA SubSeqType ==
  ASSUME NEW E, NEW s \in Seq(E), NEW i \in Nat, i >= 1, NEW j \in Nat, j <= Len(s)
  PROVE  SubSeq(s, i, j) \in Seq(E)
  OBVIOUS

(* A function on an initial segment is a sequence.                           *)
LEMMA FunctionSeq ==
  ASSUME NEW E, NEW n \in Nat, NEW s \in [1..n -> E]
  PROVE  s \in Seq(E)
  OBVIOUS

(* What stands for thinking that was left out is not thinking.               *)
LEMMA PlaceholderShown == Placeholder \in Shown
  <1>1. <<"(thinking...)">> \in Seq(Symbols)
    BY DEF Symbols
  <1> QED
    BY <1>1, TextPartShown DEF Placeholder

(* The calls and the results of a message have no thinking in them.          *)
LEMMA MinePicked ==
  ASSUME NEW parts \in Seq(Mine)
  PROVE  CallsOf(parts) \in Seq(Shown) /\ ResultsOf(parts) \in Seq(Shown)
  <1>1. {p \in Mine : p.kind = "tool_use"} \subseteq Shown /\ {p \in Mine : p.kind = "result"} \subseteq Shown
    BY DEF Shown
  <1>2. CallsOf(parts) \in Seq({p \in Mine : p.kind = "tool_use"})
    BY CallsOfType DEF Mine
  <1>3. ResultsOf(parts) \in Seq({p \in Mine : p.kind = "result"})
    BY ResultsOfType
  <1> QED
    BY <1>1, <1>2, <1>3, SubsetSeq

(* A message of a Claude client, for chat: its texts, calls and results, and *)
(* of its thinking at most the placeholder.                                  *)
LEMMA ClaudeMessageToOpenAIType ==
  ASSUME NEW m \in Messages(Mine)
  PROVE  ClaudeMessageToOpenAI(m) \in Seq(Messages(Shown))
  <1> DEFINE main == Joined(m.parts) \o CallsOf(m.parts)
             said == IF main = <<>> /\ HasThinking(m.parts) /\ m.role = "assistant"
                     THEN <<Placeholder>> ELSE main
             results == ResultsOf(m.parts)
             answers == [k \in DOMAIN results |-> Message("tool", TRUE, <<results[k]>>)]
             spoken == IF said = <<>> THEN <<>> ELSE <<Message(m.role, TRUE, said)>>
  <1>1. m.role \in AllRoles /\ m.parts \in Seq(Mine)
    BY MessageFields
  <1>2. main \in Seq(Shown)
    <2>1. Joined(m.parts) \in Seq(Shown) /\ CallsOf(m.parts) \in Seq(Shown)
      BY <1>1, JoinedType, MinePicked DEF Mine
    <2> QED
      BY <2>1, SeqFacts
  <1> HIDE DEF main
  <1>3. said \in Seq(Shown)
    BY <1>2, PlaceholderShown, SeqFacts
  <1> HIDE DEF said
  <1>4. spoken \in Seq(Messages(Shown))
    <2>1. Message(m.role, TRUE, said) \in Messages(Shown)
      BY <1>1, <1>3, MessageType
    <2> QED
      BY <2>1, SeqFacts
  <1>5. results \in Seq(Shown)
    BY <1>1, MinePicked
  <1> HIDE DEF results
  <1>6. answers \in Seq(Messages(Shown))
    <2>1. ASSUME NEW k \in DOMAIN results PROVE Message("tool", TRUE, <<results[k]>>) \in Messages(Shown)
      <3>1. <<results[k]>> \in Seq(Shown)
        BY <1>5
      <3>2. "tool" \in AllRoles
        BY RoleFacts
      <3> QED
        BY <3>1, <3>2, MessageType
    <2>2. DOMAIN results = 1..Len(results) /\ Len(results) \in Nat
      BY <1>5
    <2>3. answers \in [1..Len(results) -> Messages(Shown)]
      BY <2>1, <2>2
    <2> QED
      BY <2>2, <2>3, FunctionSeq
  <1>7. ClaudeMessageToOpenAI(m) = spoken \o answers
    BY DEF ClaudeMessageToOpenAI, main, said, results
  <1> HIDE DEF spoken, answers
  <1> QED
    BY <1>4, <1>6, <1>7, SeqFacts

(* The chat request made of a Claude client's has no thinking in it.         *)
LEMMA ClaudeReqToOpenAIType ==
  ASSUME NEW ms \in Seq(Messages(Mine))
  PROVE  ClaudeReqToOpenAI(ms) \in Seq(Messages(Shown))
  <1> DEFINE seqs == [k \in DOMAIN ms |-> ClaudeMessageToOpenAI(ms[k])]
             n == Len(ms)
  <1>1. n \in Nat /\ DOMAIN ms = 1..n /\ \A k \in 1..n : ms[k] \in Messages(Mine)
    OBVIOUS
  <1>2. seqs \in [1..n -> Seq(Messages(Shown))]
    BY <1>1, ClaudeMessageToOpenAIType
  <1> HIDE DEF seqs, n
  <1>3. FlattenSeq(seqs) \in Seq(Messages(Shown))
    BY <1>1, <1>2, FlattenType
  <1> QED
    BY <1>3 DEF ClaudeReqToOpenAI, seqs

(* The items of a message so far.                                            *)
ItemsSoFar(p, k, st) == st \in [role : AllRoles, items : Seq(Messages(Shown))]

IT == INSTANCE FoldFacts WITH Op <- ClaudePartToItem, Keeps <- ItemsSoFar

(* One item more.                                                            *)
LEMMA ItemAppended ==
  ASSUME NEW st, ItemsSoFar(0, 0, st), NEW m \in Messages(Shown)
  PROVE  ItemsSoFar(0, 0, [st EXCEPT !.items = Append(@, m)])
  <1>1. Append(st.items, m) \in Seq(Messages(Shown))
    BY SeqFacts DEF ItemsSoFar
  <1> DEFINE items == Append(st.items, m)
  <1> HIDE DEF items
  <1>2. ItemsSoFar(0, 0, [st EXCEPT !.items = items])
    BY <1>1 DEF ItemsSoFar, items
  <1> QED
    BY <1>2 DEF items

(* A part of a Claude client's message becomes an item, goes on in the last  *)
(* one, or is thinking and is dropped.                                       *)
LEMMA ClaudePartToItemType ==
  ASSUME NEW st, ItemsSoFar(0, 0, st), NEW p \in Mine
  PROVE  ItemsSoFar(0, 0, ClaudePartToItem(st, p))
  <1> DEFINE goesOn == IF st.items = <<>> THEN FALSE ELSE Last(st.items).role = st.role
             n == Len(st.items)
             longer == [st EXCEPT !.items[Len(st.items)].parts = Append(@, p)]
  <1>1. p.kind \in Kinds /\ (p.kind # "thinking" => p \in Shown)
    BY PartFields DEF Mine, Shown
  <1>2. st.role \in AllRoles /\ st.items \in Seq(Messages(Shown))
    BY DEF ItemsSoFar
  <1>3. CASE p.kind = "thinking"
    BY <1>3 DEF ClaudePartToItem
  <1>4. CASE p.kind = "text" /\ goesOn
    <2>1. n \in Nat /\ n \in DOMAIN st.items /\ n >= 1
      BY <1>2, <1>4
    <2> DEFINE m == st.items[n]
               parts == Append(m.parts, p)
               items == [st.items EXCEPT ![n] = [m EXCEPT !.parts = parts]]
    <2>2. m \in Messages(Shown)
      BY <1>2, <2>1
    <2>3. parts \in Seq(Shown)
      <3>1. m.parts \in Seq(Shown)
        BY <2>2, MessageFields
      <3> HIDE DEF m
      <3> QED
        BY <1>1, <1>4, <3>1, SeqFacts
    <2>4. [m EXCEPT !.parts = parts] \in Messages(Shown)
      <3> HIDE DEF m, parts
      <3> QED
        BY <2>2, <2>3, MessageChange
    <2>5. items \in Seq(Messages(Shown))
      <3> DEFINE new == [m EXCEPT !.parts = parts]
      <3> HIDE DEF m, parts, new
      <3>1. [st.items EXCEPT ![n] = new] \in Seq(Messages(Shown))
        BY <1>2, <2>1, <2>4 DEF new
      <3> QED
        BY <3>1 DEF new
    <2>6. ItemsSoFar(0, 0, [st EXCEPT !.items = items])
      <3> HIDE DEF items
      <3> QED
        BY <2>5 DEF ItemsSoFar
    <2>7. longer = [st EXCEPT !.items = items]
      BY DEF ItemsSoFar
    <2>8. ClaudePartToItem(st, p) = longer
      BY Zenon, <1>4 DEF ClaudePartToItem
    <2> QED
      BY <2>6, <2>7, <2>8
  <1>5. CASE p.kind = "text" /\ ~goesOn
    <2> DEFINE m == Message(st.role, FALSE, <<p>>)
    <2>1. ClaudePartToItem(st, p) = [st EXCEPT !.items = Append(@, m)]
      BY Zenon, <1>5 DEF ClaudePartToItem
    <2>2. m \in Messages(Shown)
      <3>1. <<p>> \in Seq(Shown)
        BY <1>1, <1>5, SeqFacts
      <3> QED
        BY <1>2, <3>1, MessageType
    <2> HIDE DEF m
    <2> QED
      BY <2>1, <2>2, ItemAppended
  <1>6. CASE p.kind \notin {"thinking", "text"}
    <2> DEFINE m == Message(Nobody, FALSE, <<p>>)
    <2>1. ClaudePartToItem(st, p) = [st EXCEPT !.items = Append(@, m)]
      BY Zenon, <1>6 DEF ClaudePartToItem, Nobody
    <2>2. m \in Messages(Shown)
      <3>1. <<p>> \in Seq(Shown)
        BY <1>1, <1>6, SeqFacts
      <3> QED
        BY <3>1, RoleFacts, MessageType
    <2> HIDE DEF m
    <2> QED
      BY <2>1, <2>2, ItemAppended
  <1> QED
    BY <1>3, <1>4, <1>5, <1>6

(* The items of a Claude client's message have no thinking in them.          *)
LEMMA ClaudeItemsType ==
  ASSUME NEW m \in Messages(Mine)
  PROVE  convertClaudeMessageToOpenAI2Items(m) \in Seq(Messages(Shown))
  <1> DEFINE base == [role |-> m.role, items |-> <<>>]
             n == Len(m.parts)
  <1>1. m.role \in AllRoles /\ m.parts \in Seq(Mine)
    BY MessageFields
  <1>2. n \in Nat /\ DOMAIN m.parts = 1..n /\ \A k \in 1..n : m.parts[k] \in Mine
    BY <1>1
  <1>3. ItemsSoFar(0, 0, base)
    BY <1>1 DEF ItemsSoFar
  <1>4. \A k \in 1..n : \A x : ItemsSoFar(0, k - 1, x) => ItemsSoFar(0, k, ClaudePartToItem(x, m.parts[k]))
    BY <1>2, ClaudePartToItemType DEF ItemsSoFar
  <1>5. FoldLeft(ClaudePartToItem, base, m.parts) = IT!Fold(base, m.parts)
    BY DEF FoldLeft, MapThenFoldSet, IT!Fold, IT!FoldLeft, IT!MapThenFoldSet, Max, IT!Max
  <1>6. convertClaudeMessageToOpenAI2Items(m) = IT!Fold(base, m.parts).items
    BY <1>5 DEF convertClaudeMessageToOpenAI2Items
  <1> HIDE DEF base, n
  <1>7. ItemsSoFar(0, n, IT!Fold(base, m.parts))
    BY <1>2, <1>3, <1>4, IT!FoldKeeps
  <1> QED
    BY <1>6, <1>7 DEF ItemsSoFar

(* The responses request made of a Claude client's has no thinking in it.    *)
LEMMA ClaudeReqToOpenAI2Type ==
  ASSUME NEW ms \in Seq(Messages(Mine))
  PROVE  ClaudeReqToOpenAI2(ms) \in Seq(Messages(Shown))
  <1> DEFINE seqs == [k \in DOMAIN ms |-> convertClaudeMessageToOpenAI2Items(ms[k])]
             n == Len(ms)
  <1>1. n \in Nat /\ DOMAIN ms = 1..n /\ \A k \in 1..n : ms[k] \in Messages(Mine)
    OBVIOUS
  <1>2. seqs \in [1..n -> Seq(Messages(Shown))]
    BY <1>1, ClaudeItemsType
  <1> HIDE DEF seqs, n
  <1>3. FlattenSeq(seqs) \in Seq(Messages(Shown))
    BY <1>1, <1>2, FlattenType
  <1> QED
    BY <1>3 DEF ClaudeReqToOpenAI2, seqs

(***************************************************************************)
(* Requests between the dialects of OpenAI, in which nobody thinks         *)
(***************************************************************************)
(* Messages in which something is said.                                      *)
Full(P) == {m \in Messages(P) : m.parts # <<>>}

(* A message in which something is said has a first part.                    *)
LEMMA FirstPart ==
  ASSUME NEW P, NEW m \in Full(P)
  PROVE  m \in Messages(P) /\ m.role \in AllRoles /\ m.parts \in Seq(P) /\ m.parts[1] \in P
  <1>1. m \in Messages(P) /\ m.parts # <<>>
    BY DEF Full
  <1>2. m.role \in AllRoles /\ m.parts \in Seq(P)
    BY <1>1, MessageFields
  <1> QED
    BY <1>1, <1>2

(* What is gathered so far.                                                  *)
Gathered(P, k, st) ==
    st \in [out : Seq(Messages(P)), uses : Seq(P), results : Seq(P)]

GA == INSTANCE FoldFacts WITH Op <- GatherForChat, Keeps <- Gathered

(* One message more.                                                         *)
LEMMA PutOut ==
  ASSUME NEW P, NEW st, Gathered(P, 0, st), NEW m \in Messages(P)
  PROVE  Gathered(P, 0, [st EXCEPT !.out = Append(@, m)])
  <1> DEFINE out == Append(st.out, m)
  <1>1. out \in Seq(Messages(P))
    BY SeqFacts DEF Gathered
  <1> HIDE DEF out
  <1>2. Gathered(P, 0, [st EXCEPT !.out = out])
    BY <1>1 DEF Gathered
  <1> QED
    BY <1>2 DEF out

(* The calls that were gathered become a message of the assistant's.         *)
LEMMA FlushUsesType ==
  ASSUME NEW P, NEW st, Gathered(P, 0, st)
  PROVE  Gathered(P, 0, FlushUses(st))
  <1>1. CASE st.uses = <<>>
    BY <1>1 DEF FlushUses
  <1>2. CASE st.uses # <<>>
    <2> DEFINE m == Message("assistant", FALSE, st.uses)
               out == Append(st.out, m)
    <2>1. m \in Messages(P)
      BY RoleFacts, MessageType DEF Gathered
    <2>2. out \in Seq(Messages(P))
      <3> HIDE DEF m
      <3> QED
        BY <2>1, SeqFacts DEF Gathered
    <2>3. FlushUses(st) = [st EXCEPT !.out = Append(@, m), !.uses = <<>>]
      BY <1>2 DEF FlushUses
    <2> HIDE DEF m
    <2>4. FlushUses(st) = [st EXCEPT !.out = out, !.uses = <<>>]
      BY <2>3
    <2> HIDE DEF out
    <2>5. << >> \in Seq(P)
      BY SeqFacts
    <2> QED
      BY <2>2, <2>4, <2>5 DEF Gathered
  <1> QED
    BY <1>1, <1>2

(* One item of a responses request is gathered for chat.                     *)
LEMMA GatherForChatType ==
  ASSUME NEW st, Gathered(Shown, 0, st), NEW m \in Full(Shown)
  PROVE  Gathered(Shown, 0, GatherForChat(st, m))
  <1> DEFINE p == m.parts[1]
             left == FlushUses(st)
             role == IF m.role = "developer" THEN "system" ELSE m.role
             seen == IF m.plain /\ m.role # "system" THEN <<>> ELSE Joined(m.parts)
             answer == Message("tool", TRUE, <<p>>)
             text == Message(role, TRUE, seen)
  <1>1. m.role \in AllRoles /\ m.parts \in Seq(Shown) /\ p \in Shown
    BY FirstPart
  <1>2. Gathered(Shown, 0, left)
    BY FlushUsesType
  <1>3. role \in AllRoles
    BY <1>1, RoleFacts
  <1>4. seen \in Seq(Shown)
    <2>1. m.parts \in Seq(Mine)
      BY <1>1, ShownIsMine
    <2>2. Joined(m.parts) \in Seq(Shown)
      BY <2>1, JoinedType DEF Mine
    <2> QED
      BY <2>2, SeqFacts
  <1>5. CASE p.kind = "tool_use"
    <2> DEFINE uses == Append(st.uses, p)
    <2>1. uses \in Seq(Shown)
      <3> HIDE DEF p
      <3> QED
        BY <1>1, SeqFacts DEF Gathered
    <2>2. GatherForChat(st, m) = [st EXCEPT !.uses = uses]
      <3>1. GatherForChat(st, m) = [st EXCEPT !.uses = Append(@, p)]
        BY Zenon, <1>5 DEF GatherForChat
      <3> QED
        BY <3>1 DEF Gathered
    <2> HIDE DEF uses
    <2> QED
      BY <2>1, <2>2 DEF Gathered
  <1>6. CASE p.kind = "result"
    <2>1. answer \in Messages(Shown)
      <3> HIDE DEF p
      <3>1. <<p>> \in Seq(Shown)
        BY <1>1, SeqFacts
      <3> QED
        BY <3>1, RoleFacts, MessageType
    <2>2. GatherForChat(st, m) = [left EXCEPT !.out = Append(@, answer)]
      BY Zenon, <1>6 DEF GatherForChat
    <2> HIDE DEF answer, left, p
    <2>3. Gathered(Shown, 0, [left EXCEPT !.out = Append(@, answer)])
      BY <1>2, <2>1, PutOut
    <2> QED
      BY <2>2, <2>3
  <1>7. CASE p.kind \notin {"tool_use", "result"}
    <2>1. text \in Messages(Shown)
      <3> HIDE DEF role, seen
      <3> QED
        BY <1>3, <1>4, MessageType
    <2>2. GatherForChat(st, m) = [left EXCEPT !.out = Append(@, text)]
      BY Zenon, <1>7 DEF GatherForChat
    <2> HIDE DEF text, left, p, seen, role
    <2>3. Gathered(Shown, 0, [left EXCEPT !.out = Append(@, text)])
      BY <1>2, <2>1, PutOut
    <2> QED
      BY <2>2, <2>3
  <1> QED
    BY <1>5, <1>6, <1>7

(* A chat request that is made of one in the responses dialect shows what    *)
(* that one did.                                                             *)
LEMMA OpenAI2ReqToOpenAIType ==
  ASSUME NEW ms \in Seq(Full(Shown))
  PROVE  OpenAI2ReqToOpenAI(ms) \in Seq(Messages(Shown))
  <1> DEFINE n == Len(ms)
             fold == GA!Fold(Gathering, ms)
  <1>1. n \in Nat /\ DOMAIN ms = 1..n /\ \A k \in 1..n : ms[k] \in Full(Shown)
    OBVIOUS
  <1>2. Gathered(Shown, 0, Gathering)
    BY SeqFacts DEF Gathered, Gathering
  <1>3. \A k \in 1..n : \A x : Gathered(Shown, k - 1, x) => Gathered(Shown, k, GatherForChat(x, ms[k]))
    BY <1>1, GatherForChatType DEF Gathered
  <1>4. FoldLeft(GatherForChat, Gathering, ms) = fold
    BY DEF FoldLeft, MapThenFoldSet, GA!Fold, GA!FoldLeft, GA!MapThenFoldSet, Max, GA!Max
  <1>5. OpenAI2ReqToOpenAI(ms) = FlushUses(fold).out
    BY <1>4 DEF OpenAI2ReqToOpenAI
  <1>6. Gathered(Shown, n, fold)
    <2> HIDE DEF n
    <2> QED
      BY <1>1, <1>2, <1>3, GA!FoldKeeps
  <1> HIDE DEF fold
  <1>7. Gathered(Shown, 0, FlushUses(fold))
    BY <1>6, FlushUsesType DEF Gathered
  <1> QED
    BY <1>5, <1>7 DEF Gathered

(* A message of a chat client, as an item.                                   *)
LEMMA ChatMessageToItemType ==
  ASSUME NEW m \in Messages(Shown)
  PROVE  ChatMessageToItem(m) \in Messages(Shown)
  <1> DEFINE places == {i \in DOMAIN m.parts : m.parts[i].kind \in {"text", "result"}}
             strings == Taken(m.parts, places)
             texts == [k \in DOMAIN strings |-> TextPart(strings[k].body)]
             parts == IF m.plain THEN texts ELSE <<>>
  <1>1. m.role \in AllRoles /\ m.parts \in Seq(Shown)
    BY MessageFields
  <1>2. strings \in Seq(Shown)
    <2>1. \A i \in DOMAIN m.parts : m.parts[i] \in Shown
      BY <1>1
    <2> HIDE DEF places
    <2> QED
      BY <1>1, <2>1, Selection
  <1>3. Len(strings) \in Nat /\ DOMAIN strings = 1..Len(strings)
    BY <1>2
  <1>4. \A k \in DOMAIN strings : TextPart(strings[k].body) \in Shown
    <2> HIDE DEF strings
    <2> QED
      BY <1>2, ShownFields, TextPartShown
  <1>5. texts \in Seq(Shown)
    <2> HIDE DEF strings
    <2>1. texts \in [1..Len(strings) -> Shown]
      BY <1>3, <1>4
    <2> QED
      BY <1>3, <2>1, FunctionSeq
  <1>6. ChatMessageToItem(m) = Message(m.role, FALSE, parts)
    BY DEF ChatMessageToItem, Only
  <1> HIDE DEF texts
  <1>7. parts \in Seq(Shown)
    BY <1>5, SeqFacts
  <1> HIDE DEF parts
  <1> QED
    BY <1>1, <1>6, <1>7, MessageType

(* A responses request that is made of one of chat shows what that one did.  *)
LEMMA OpenAIReqToOpenAI2Type ==
  ASSUME NEW ms \in Seq(Messages(Shown))
  PROVE  OpenAIReqToOpenAI2(ms) \in Seq(Messages(Shown))
  <1> DEFINE others == Others(ms)
             system == System(ms)
             places == {i \in DOMAIN system : system[i].plain}
             seen == Taken(system, places)
             first == IF seen = <<>> THEN <<>> ELSE <<Last(seen)>>
             items == [k \in DOMAIN others |-> ChatMessageToItem(others[k])]
  <1>1. others \in Seq(Messages(Shown)) /\ system \in Seq(Messages(Shown))
    BY MessagesKept
  <1>2. OpenAIReqToOpenAI2(ms) = first \o items
    BY DEF OpenAIReqToOpenAI2, Only
  <1> HIDE DEF others, system
  <1>3. seen \in Seq(Messages(Shown))
    <2>1. \A i \in DOMAIN system : system[i] \in Messages(Shown)
      BY <1>1
    <2> HIDE DEF places
    <2> QED
      BY <1>1, <2>1, Selection
  <1> HIDE DEF seen
  <1>4. first \in Seq(Messages(Shown))
    <2>1. seen # <<>> => Last(seen) \in Messages(Shown)
      BY <1>3 DEF Last
    <2> QED
      BY <2>1, SeqFacts
  <1>5. items \in Seq(Messages(Shown))
    <2>1. Len(others) \in Nat /\ DOMAIN others = 1..Len(others)
      BY <1>1
    <2>2. \A k \in DOMAIN others : ChatMessageToItem(others[k]) \in Messages(Shown)
      BY <1>1, ChatMessageToItemType
    <2>3. items \in [1..Len(others) -> Messages(Shown)]
      BY <2>1, <2>2
    <2> QED
      BY <2>1, <2>3, FunctionSeq
  <1> HIDE DEF first, items
  <1> QED
    BY <1>2, <1>4, <1>5, SeqFacts

(***************************************************************************)
(* Requests for Claude and for Gemini, in which thinking is a part apart   *)
(***************************************************************************)
(* Parts in which only thinking has thoughts in it, whatever their ids.      *)
Apart == AllParts(Ids)

(* What a Claude client has, and what may be shown, is such.                 *)
LEMMA MineApart ==
  /\ Mine \subseteq Apart /\ Shown \subseteq Apart
  /\ Messages(Mine) \subseteq Messages(Apart) /\ Messages(Shown) \subseteq Messages(Apart)
  /\ Full(Shown) \subseteq Full(Apart) /\ Full(Apart) \subseteq Messages(Apart)
  <1>1. CallIds \subseteq Ids
    BY DEF Ids
  <1>2. Mine \subseteq Apart
    BY <1>1 DEF Mine, Apart, AllParts, IsPart
  <1>3. Shown \subseteq Apart
    BY <1>2 DEF Shown
  <1> HIDE DEF Mine, Shown, Apart
  <1>4. ASSUME NEW P, P \subseteq Apart PROVE Messages(P) \subseteq Messages(Apart)
    <2>1. Seq(P) \subseteq Seq(Apart)
      BY <1>4
    <2> QED
      BY <2>1 DEF Messages
  <1>5. Messages(Mine) \subseteq Messages(Apart) /\ Messages(Shown) \subseteq Messages(Apart)
    BY <1>2, <1>3, <1>4
  <1> QED
    BY <1>2, <1>3, <1>5 DEF Full

(* A part with another id and name is still apart.                           *)
LEMMA ApartChange ==
  ASSUME NEW p \in Apart, NEW name \in ToolNames
  PROVE  /\ [p EXCEPT !.id = NoId] \in Apart
         /\ p.kind # "tool_use" => [p EXCEPT !.id = NoId, !.name = name] \in Apart
  <1>1. NoId \in Ids
    BY DEF Ids
  <1> QED
    BY <1>1 DEF Apart, AllParts, IsPart

(* The names of the calls so far, and the parts with those names.            *)
NameSets == UNION {[ids -> ToolNames] : ids \in SUBSET Ids}

Responded(p, k, st) ==
    /\ st \in [names : NameSets, parts : Seq(Apart)]
    /\ k > 0 => st.parts # <<>>

RS == INSTANCE FoldFacts WITH Op <- Respond, Keeps <- Responded

(* A name more.                                                              *)
LEMMA NamesGrow ==
  ASSUME NEW names \in NameSets, NEW id \in Ids, NEW name \in ToolNames
  PROVE  Named(names, id, name) \in NameSets
  <1>1. PICK ids \in SUBSET Ids : names \in [ids -> ToolNames]
    BY DEF NameSets
  <1>2. Named(names, id, name) \in [{id} \cup ids -> ToolNames]
    BY <1>1 DEF Named
  <1> QED
    BY <1>2 DEF NameSets

(* One part more, without its id, and a result with its name.                *)
LEMMA RespondType ==
  ASSUME NEW k \in Nat, NEW st, Responded(0, k, st), NEW p \in Apart
  PROVE  Responded(0, k + 1, Respond(st, p))
  <1>1. st.names \in NameSets /\ st.parts \in Seq(Apart) /\ st = [names |-> st.names, parts |-> st.parts]
    BY DEF Responded
  <1>2. ASSUME NEW names \in NameSets, NEW q \in Apart
        PROVE  Responded(0, k + 1, [names |-> names, parts |-> Append(st.parts, q)])
    <2>1. Append(st.parts, q) \in Seq(Apart) /\ Append(st.parts, q) # <<>>
      BY <1>1
    <2> QED
      BY <2>1 DEF Responded
  <1>3. CASE p.kind = "tool_use"
    <2>1. p.id \in Ids /\ p.name \in Names /\ p.name \in ToolNames
      BY <1>3, PartFields DEF Apart, ToolNames
    <2>2. [p EXCEPT !.id = NoId] \in Apart
      BY <2>1, ApartChange
    <2>3. Named(st.names, p.id, p.name) \in NameSets
      BY <1>1, <2>1, NamesGrow
    <2>4. Respond(st, p) = [names |-> Named(st.names, p.id, p.name), parts |-> Append(st.parts, [p EXCEPT !.id = NoId])]
      BY Zenon, <1>3 DEF Respond, NoId
    <2> QED
      BY <1>2, <2>2, <2>3, <2>4
  <1>4. CASE p.kind = "result"
    <2> DEFINE name == IF p.id \in DOMAIN st.names THEN st.names[p.id] ELSE NoId
               q == [p EXCEPT !.id = NoId, !.name = name]
    <2>1. name \in ToolNames
      <3>1. PICK ids \in SUBSET Ids : st.names \in [ids -> ToolNames]
        BY <1>1 DEF NameSets
      <3> QED
        BY <3>1 DEF ToolNames
    <2>2. Respond(st, p) = [st EXCEPT !.parts = Append(@, q)]
      BY Zenon, <1>4 DEF Respond, NoId
    <2> HIDE DEF name
    <2>3. q \in Apart
      BY <1>4, <2>1, ApartChange
    <2> HIDE DEF q
    <2>4. Respond(st, p) = [names |-> st.names, parts |-> Append(st.parts, q)]
      BY <1>1, <2>2
    <2> QED
      BY <1>1, <1>2, <2>3, <2>4
  <1>5. CASE p.kind \notin {"tool_use", "result"}
    <2>1. Respond(st, p) = [st EXCEPT !.parts = Append(@, p)]
      BY Zenon, <1>5 DEF Respond
    <2>2. Respond(st, p) = [names |-> st.names, parts |-> Append(st.parts, p)]
      BY <1>1, <2>1
    <2> QED
      BY <1>1, <1>2, <2>2
  <1> QED
    BY <1>3, <1>4, <1>5

(* The contents so far; M are the messages that they are among.              *)
Contents(M, k, st) == st \in [names : NameSets, contents : Seq(M)]

GC == INSTANCE FoldFacts WITH Op <- GeminiContent, Keeps <- Contents

(* One content more, with something in it if the message had.                *)
LEMMA GeminiContentType ==
  ASSUME NEW M \in {Messages(Apart), Full(Apart)}, NEW st, Contents(M, 0, st), NEW m \in M
  PROVE  Contents(M, 0, GeminiContent(st, m))
  <1> DEFINE base == [names |-> st.names, parts |-> <<>>]
             n == Len(m.parts)
             read == RS!Fold(base, m.parts)
             content == [m EXCEPT !.parts = read.parts]
  <1>1. st.names \in NameSets /\ st.contents \in Seq(M)
    BY DEF Contents
  <1>2. m \in Messages(Apart) /\ m.parts \in Seq(Apart)
    BY MineApart, MessageFields
  <1>3. n \in Nat /\ DOMAIN m.parts = 1..n /\ \A k \in 1..n : m.parts[k] \in Apart
    BY <1>2
  <1>4. Responded(0, 0, base)
    BY <1>1, SeqFacts DEF Responded
  <1>5. FoldLeft(Respond, base, m.parts) = read
    BY DEF FoldLeft, MapThenFoldSet, RS!Fold, RS!FoldLeft, RS!MapThenFoldSet, Max, RS!Max
  <1> HIDE DEF base
  <1>6. \A k \in 1..n : \A x : Responded(0, k - 1, x) => Responded(0, k, Respond(x, m.parts[k]))
    <2> TAKE k \in 1..n
    <2>1. TAKE x
    <2>2. HAVE Responded(0, k - 1, x)
    <2>3. k - 1 \in Nat /\ (k - 1) + 1 = k /\ m.parts[k] \in Apart
      BY <1>3
    <2>4. Responded(0, (k - 1) + 1, Respond(x, m.parts[k]))
      BY <2>2, <2>3, RespondType
    <2> QED
      BY <2>3, <2>4
  <1>7. Responded(0, n, read)
    <2> HIDE DEF n
    <2> QED
      BY <1>3, <1>4, <1>6, RS!FoldKeeps
  <1>8. GeminiContent(st, m) = [names |-> read.names, contents |-> Append(st.contents, content)]
    BY <1>5 DEF GeminiContent, base
  <1> HIDE DEF read
  <1>9. read.names \in NameSets /\ read.parts \in Seq(Apart) /\ (m.parts # <<>> => read.parts # <<>>)
    BY <1>3, <1>7 DEF Responded
  <1>10. content \in Messages(Apart) /\ content.parts = read.parts
    BY <1>2, <1>9, MessageChange
  <1> HIDE DEF content
  <1>11. content \in M
    BY <1>9, <1>10 DEF Full
  <1>12. Append(st.contents, content) \in Seq(M)
    BY <1>1, <1>11, SeqFacts
  <1> QED
    BY <1>8, <1>9, <1>12 DEF Contents

(* The contents of a request for Gemini.                                     *)
LEMMA WithNamesType ==
  ASSUME NEW M \in {Messages(Apart), Full(Apart)}, NEW ms \in Seq(M)
  PROVE  WithNames(ms) \in Seq(M)
  <1> DEFINE n == Len(ms)
             base == [names |-> <<>>, contents |-> <<>>]
             fold == GC!Fold(base, ms)
  <1>1. n \in Nat /\ DOMAIN ms = 1..n /\ \A k \in 1..n : ms[k] \in M
    OBVIOUS
  <1>2. Contents(M, 0, base)
    <2>1. <<>> \in [{} -> ToolNames] /\ {} \in SUBSET Ids
      OBVIOUS
    <2>2. <<>> \in NameSets
      BY <2>1 DEF NameSets
    <2> QED
      BY <2>2, SeqFacts DEF Contents
  <1>3. \A k \in 1..n : \A x : Contents(M, k - 1, x) => Contents(M, k, GeminiContent(x, ms[k]))
    BY <1>1, GeminiContentType DEF Contents
  <1>4. WithNames(ms) = fold.contents
    BY DEF WithNames, FoldLeft, MapThenFoldSet, GC!Fold, GC!FoldLeft, GC!MapThenFoldSet, Max, GC!Max
  <1>5. Contents(M, n, fold)
    <2> HIDE DEF n, base
    <2> QED
      BY <1>1, <1>2, <1>3, GC!FoldKeeps
  <1> HIDE DEF fold
  <1> QED
    BY <1>4, <1>5 DEF Contents

(* In Gemini's roles.                                                        *)
LEMMA InRolesType ==
  ASSUME NEW P, NEW ms \in Seq(Messages(P))
  PROVE  InRoles(ms) \in Seq(Messages(P))
  <1>1. Len(ms) \in Nat /\ DOMAIN ms = 1..Len(ms) /\ \A k \in DOMAIN ms : ms[k] \in Messages(P)
    OBVIOUS
  <1>2. ASSUME NEW m \in Messages(P) PROVE [m EXCEPT !.role = GeminiRole(@)] \in Messages(P)
    <2>1. GeminiRole(m.role) \in AllRoles
      BY MessageFields DEF GeminiRole, AllRoles, Speakers
    <2> QED
      BY <2>1 DEF Messages
  <1>3. InRoles(ms) \in [1..Len(ms) -> Messages(P)]
    BY <1>1, <1>2 DEF InRoles
  <1> QED
    BY <1>1, <1>3, FunctionSeq

(* The system prompt, where it is a string.                                  *)
LEMMA StringSystemType ==
  ASSUME NEW ms \in Seq(Messages(Shown))
  PROVE  StringSystem(ms) \in Seq(Messages(Shown))
  <1> DEFINE system == System(ms)
             places == {i \in DOMAIN system : system[i].plain}
             seen == Taken(system, places)
             bodies == [k \in DOMAIN seen |-> Bodies(seen[k].parts, "text")]
             text == FlattenSeq(bodies)
  <1>1. system \in Seq(Messages(Shown))
    BY MessagesKept
  <1>2. StringSystem(ms) = IF seen = <<>> THEN <<>> ELSE <<Message("system", TRUE, <<TextPart(text)>>)>>
    BY DEF StringSystem, Only
  <1> HIDE DEF system
  <1>3. seen \in Seq(Messages(Shown))
    <2>1. \A i \in DOMAIN system : system[i] \in Messages(Shown)
      BY <1>1
    <2> HIDE DEF places
    <2> QED
      BY <1>1, <2>1, Selection
  <1> HIDE DEF seen
  <1>4. Len(seen) \in Nat /\ DOMAIN seen = 1..Len(seen) /\ \A k \in DOMAIN seen : seen[k] \in Messages(Shown)
    BY <1>3
  <1>5. ASSUME NEW k \in DOMAIN seen PROVE Bodies(seen[k].parts, "text") \in Seq(Symbols)
    <2>1. seen[k].parts \in Seq(Shown)
      BY <1>4, MessageFields
    <2>2. seen[k].parts \in Seq(Mine)
      BY <2>1, ShownIsMine
    <2> QED
      BY <2>2, BodiesType DEF Mine
  <1>6. bodies \in [1..Len(seen) -> Seq(Symbols)]
    BY <1>4, <1>5
  <1> HIDE DEF bodies
  <1>7. text \in Seq(Symbols)
    BY <1>4, <1>6, FlattenType
  <1> HIDE DEF text
  <1>8. <<TextPart(text)>> \in Seq(Shown)
    BY <1>7, TextPartShown, SeqFacts
  <1>9. Message("system", TRUE, <<TextPart(text)>>) \in Messages(Shown)
    BY <1>8, RoleFacts, MessageType
  <1> QED
    BY <1>2, <1>9, SeqFacts

(* A message of a chat client, for Claude.                                   *)
LEMMA ChatMessageToClaudeType ==
  ASSUME NEW m \in Messages(Shown)
  PROVE  ChatMessageToClaude(m) \in Messages(Shown)
  <1> DEFINE said == (IF m.plain THEN TextsOf(m.parts) ELSE <<>>) \o CallsOf(m.parts)
  <1>1. m.role \in AllRoles /\ m.parts \in Seq(Shown)
    BY MessageFields
  <1>2. Shown \in SUBSET AllParts(CallIds)
    BY ShownIsMine DEF Mine
  <1>3. TextsOf(m.parts) \in Seq(Shown) /\ CallsOf(m.parts) \in Seq(Shown)
    <2>1. TextsOf(m.parts) \in Seq({p \in Shown : p.kind = "text"})
      BY <1>1, <1>2, TextsOfType
    <2>2. CallsOf(m.parts) \in Seq({p \in Shown : p.kind = "tool_use"})
      BY <1>1, <1>2, CallsOfType
    <2>3. {p \in Shown : p.kind = "text"} \subseteq Shown /\ {p \in Shown : p.kind = "tool_use"} \subseteq Shown
      OBVIOUS
    <2> QED
      BY <2>1, <2>2, <2>3, SubsetSeq
  <1>4. said \in Seq(Shown)
    BY <1>3, SeqFacts
  <1>5. Message("user", FALSE, m.parts) \in Messages(Shown) /\ Message(m.role, FALSE, said) \in Messages(Shown)
    BY <1>1, <1>4, RoleFacts, MessageType
  <1>6. ChatMessageToClaude(m) \in {Message("user", FALSE, m.parts), Message(m.role, FALSE, said), m}
    BY Zenon DEF ChatMessageToClaude
  <1> HIDE DEF said
  <1> QED
    BY <1>5, <1>6

(* A chat client's request, for Claude and for Gemini.                       *)
LEMMA ChatApartType ==
  ASSUME NEW ms \in Seq(Messages(Shown))
  PROVE  OpenAIReqToClaude(ms) \in Seq(Messages(Apart)) /\ OpenAIReqToGemini(ms) \in Seq(Messages(Apart))
  <1> DEFINE said == Others(ms)
             system == StringSystem(ms)
             claude == [k \in DOMAIN said |-> ChatMessageToClaude(said[k])]
             gemini == InRoles(WithNames(said))
  <1>1. said \in Seq(Messages(Shown)) /\ system \in Seq(Messages(Shown))
    BY MessagesKept, StringSystemType
  <1>2. OpenAIReqToClaude(ms) = system \o claude /\ OpenAIReqToGemini(ms) = system \o gemini
    BY DEF OpenAIReqToClaude, OpenAIReqToGemini
  <1> HIDE DEF said, system
  <1>3. said \in Seq(Messages(Apart)) /\ system \in Seq(Messages(Apart))
    BY <1>1, MineApart, SubsetSeq
  <1>4. claude \in Seq(Messages(Apart))
    <2>1. Len(said) \in Nat /\ DOMAIN said = 1..Len(said) /\ \A k \in DOMAIN said : said[k] \in Messages(Shown)
      BY <1>1
    <2>2. \A k \in DOMAIN said : ChatMessageToClaude(said[k]) \in Messages(Apart)
      BY <2>1, ChatMessageToClaudeType, MineApart
    <2>3. claude \in [1..Len(said) -> Messages(Apart)]
      BY <2>1, <2>2
    <2> QED
      BY <2>1, <2>3, FunctionSeq
  <1>5. gemini \in Seq(Messages(Apart))
    BY <1>3, WithNamesType, InRolesType
  <1> HIDE DEF claude, gemini
  <1> QED
    BY <1>2, <1>3, <1>4, <1>5, SeqFacts

(* The results that were gathered become a message of the user's.            *)
LEMMA FlushResultsType ==
  ASSUME NEW P, NEW st, Gathered(P, 0, st)
  PROVE  Gathered(P, 0, FlushResults(st))
  <1>1. CASE st.results = <<>>
    BY <1>1 DEF FlushResults
  <1>2. CASE st.results # <<>>
    <2> DEFINE m == Message("user", FALSE, st.results)
               out == Append(st.out, m)
    <2>1. m \in Messages(P)
      BY RoleFacts, MessageType DEF Gathered
    <2>2. out \in Seq(Messages(P))
      <3> HIDE DEF m
      <3> QED
        BY <2>1, SeqFacts DEF Gathered
    <2>3. FlushResults(st) = [st EXCEPT !.out = Append(@, m), !.results = <<>>]
      BY <1>2 DEF FlushResults
    <2> HIDE DEF m
    <2>4. FlushResults(st) = [st EXCEPT !.out = out, !.results = <<>>]
      BY <2>3
    <2> HIDE DEF out
    <2>5. << >> \in Seq(P)
      BY SeqFacts
    <2> QED
      BY <2>2, <2>4, <2>5 DEF Gathered
  <1> QED
    BY <1>1, <1>2

GT == INSTANCE FoldFacts WITH Op <- Gather, Keeps <- Gathered

(* One item of a responses request is gathered for Claude or Gemini.         *)
LEMMA GatherType ==
  ASSUME NEW P, NEW st, Gathered(P, 0, st), NEW m \in Full(P)
  PROVE  Gathered(P, 0, Gather(st, m))
  <1> DEFINE p == m.parts[1]
             left == FlushResults(FlushUses(st))
             calls == FlushUses(st)
  <1>1. m \in Messages(P) /\ p \in P
    BY FirstPart
  <1>2. Gathered(P, 0, calls) /\ Gathered(P, 0, left)
    BY FlushUsesType, FlushResultsType
  <1>3. CASE p.kind = "tool_use"
    <2> DEFINE uses == Append(st.uses, p)
    <2>1. uses \in Seq(P)
      <3> HIDE DEF p
      <3> QED
        BY <1>1, SeqFacts DEF Gathered
    <2>2. Gather(st, m) = [st EXCEPT !.uses = uses]
      <3>1. Gather(st, m) = [st EXCEPT !.uses = Append(@, p)]
        BY Zenon, <1>3 DEF Gather
      <3> QED
        BY <3>1 DEF Gathered
    <2> HIDE DEF uses
    <2> QED
      BY <2>1, <2>2 DEF Gathered
  <1>4. CASE p.kind = "result"
    <2> DEFINE results == Append(calls.results, p)
    <2>1. Gather(st, m) = [calls EXCEPT !.results = Append(@, p)]
      BY Zenon, <1>4 DEF Gather
    <2> HIDE DEF calls, p
    <2>2. results \in Seq(P)
      BY <1>1, <1>2, SeqFacts DEF Gathered
    <2>3. Gather(st, m) = [calls EXCEPT !.results = results]
      BY <1>2, <2>1 DEF Gathered
    <2> HIDE DEF results
    <2> QED
      BY <1>2, <2>2, <2>3 DEF Gathered
  <1>5. CASE p.kind \notin {"tool_use", "result"}
    <2>1. Gather(st, m) = [left EXCEPT !.out = Append(@, m)]
      BY Zenon, <1>5 DEF Gather
    <2> HIDE DEF left
    <2> QED
      BY <1>1, <1>2, <2>1, PutOut
  <1> QED
    BY <1>3, <1>4, <1>5

(* A responses client's request, for Claude.                                 *)
LEMMA GatheredForClaude ==
  ASSUME NEW P, NEW ms \in Seq(Full(P))
  PROVE  convertOpenAI2InputToClaude(ms) \in Seq(Messages(P))
  <1> DEFINE n == Len(ms)
             fold == GT!Fold(Gathering, ms)
             left == FlushResults(FlushUses(fold))
  <1>1. n \in Nat /\ DOMAIN ms = 1..n /\ \A k \in 1..n : ms[k] \in Full(P)
    OBVIOUS
  <1>2. Gathered(P, 0, Gathering)
    BY SeqFacts DEF Gathered, Gathering
  <1>3. \A k \in 1..n : \A x : Gathered(P, k - 1, x) => Gathered(P, k, Gather(x, ms[k]))
    BY <1>1, GatherType DEF Gathered
  <1>4. convertOpenAI2InputToClaude(ms) = left.out
    BY DEF convertOpenAI2InputToClaude, FoldLeft, MapThenFoldSet, GT!Fold, GT!FoldLeft, GT!MapThenFoldSet, Max, GT!Max
  <1>5. Gathered(P, n, fold)
    <2> HIDE DEF n
    <2> QED
      BY <1>1, <1>2, <1>3, GT!FoldKeeps
  <1> HIDE DEF fold
  <1>6. Gathered(P, 0, left)
    <2>1. Gathered(P, 0, fold)
      BY <1>5 DEF Gathered
    <2> QED
      BY <2>1, FlushUsesType, FlushResultsType
  <1> HIDE DEF left
  <1> QED
    BY <1>4, <1>6 DEF Gathered

(* A responses client's request, for Claude and for Gemini.                  *)
LEMMA ResponsesApartType ==
  ASSUME NEW ms \in Seq(Full(Shown))
  PROVE  OpenAI2ReqToClaude(ms) \in Seq(Messages(Apart)) /\ OpenAI2ReqToGemini(ms) \in Seq(Messages(Apart))
  <1>1. ms \in Seq(Full(Apart))
    BY MineApart, SubsetSeq
  <1>2. convertOpenAI2InputToClaude(ms) \in Seq(Messages(Apart))
    BY <1>1, GatheredForClaude
  <1>3. WithNames(ms) \in Seq(Full(Apart))
    BY <1>1, WithNamesType
  <1>4. convertOpenAI2InputToClaude(WithNames(ms)) \in Seq(Messages(Apart))
    BY <1>3, GatheredForClaude
  <1> QED
    BY <1>2, <1>4, InRolesType DEF OpenAI2ReqToClaude, OpenAI2ReqToGemini

(* A request without its interrupted calls.                                  *)
LEMMA DropType ==
  ASSUME NEW P, NEW ms \in Seq(Messages(P))
  PROVE  dropIncompleteToolCalls(ms) \in Seq(Messages(P))
  <1> DEFINE n == Len(ms)
             places == {i \in DOMAIN ms[n].parts : ~Incomplete(ms[n].parts[i])}
             kept == Taken(ms[n].parts, places)
  <1>1. CASE ms = <<>>
    BY <1>1 DEF dropIncompleteToolCalls
  <1>2. CASE ms # <<>>
    <2>1. n \in Nat /\ n >= 1 /\ n \in DOMAIN ms /\ ms[n] \in Messages(P)
      BY <1>2
    <2>2. dropIncompleteToolCalls(ms) \in {ms, SubSeq(ms, 1, n - 1), [ms EXCEPT ![n].parts = kept]}
      BY Zenon DEF dropIncompleteToolCalls, Only
    <2>3. SubSeq(ms, 1, n - 1) \in Seq(Messages(P))
      <3>1. 1 \in Nat /\ n - 1 \in Nat /\ n - 1 <= Len(ms)
        BY <2>1
      <3> QED
        BY <3>1, SubSeqType
    <2>4. [ms EXCEPT ![n].parts = kept] \in Seq(Messages(P))
      <3> DEFINE m == ms[n]
                 parts == kept
                 new == [m EXCEPT !.parts = parts]
      <3>1. m.parts \in Seq(P) /\ \A i \in DOMAIN m.parts : m.parts[i] \in P
        BY <2>1, MessageFields
      <3>2. parts \in Seq(P)
        <4> HIDE DEF places
        <4> QED
          BY <3>1, Selection
      <3>3. new \in Messages(P)
        <4> HIDE DEF parts, m
        <4> QED
          BY <2>1, <3>2, MessageChange DEF m
      <3>4. [ms EXCEPT ![n].parts = kept] = [ms EXCEPT ![n] = new]
        BY DEF new
      <3> HIDE DEF new
      <3> QED
        BY <2>1, <3>3, <3>4
    <2> HIDE DEF n, kept
    <2> QED
      BY <2>2, <2>3, <2>4
  <1> QED
    BY <1>1, <1>2

(***************************************************************************)
(* Prompts                                                                 *)
(***************************************************************************)
TurnSet == [role : AllRoles, body : Seq(Symbols)]

(* A text that is cut, at its end or at its beginning.                       *)
LEMMA CutType ==
  ASSUME NEW E, NEW s \in Seq(E), NEW n \in Nat
  PROVE  Cut(s, n) \in Seq(E) /\ LastOf(s, n) \in Seq(E)
  <1>1. Len(s) \in Nat
    OBVIOUS
  <1>2. Cut(s, n) \in Seq(E)
    <2> DEFINE j == IF Len(s) < n THEN Len(s) ELSE n
    <2>1. j \in Nat /\ j <= Len(s)
      BY <1>1
    <2> HIDE DEF j
    <2>2. SubSeq(s, 1, j) \in Seq(E)
      BY <2>1, SubSeqType
    <2> QED
      BY <2>2 DEF Cut, j
  <1>3. LastOf(s, n) \in Seq(E)
    <2> DEFINE i == IF Len(s) > n THEN Len(s) - n + 1 ELSE 1
    <2>1. i \in Nat /\ i >= 1
      BY <1>1
    <2> HIDE DEF i
    <2>2. SubSeq(s, i, Len(s)) \in Seq(E)
      BY <1>1, <2>1, SubSeqType
    <2> QED
      BY <2>2 DEF LastOf, i
  <1> QED
    BY <1>2, <1>3

(* Turns written one after the other.                                        *)
LEMMA WrittenType ==
  ASSUME NEW turns \in Seq(TurnSet)
  PROVE  Written(turns) \in Seq(Symbols)
  <1> DEFINE n == Len(turns)
             seqs == [k \in DOMAIN turns |-> <<turns[k].role>> \o turns[k].body]
  <1>1. n \in Nat /\ DOMAIN turns = 1..n
    OBVIOUS
  <1>2. ASSUME NEW k \in 1..n PROVE <<turns[k].role>> \o turns[k].body \in Seq(Symbols)
    <2>1. turns[k] \in TurnSet
      BY <1>1
    <2>2. turns[k].role \in Symbols /\ turns[k].body \in Seq(Symbols)
      BY <2>1 DEF TurnSet, Symbols
    <2> QED
      BY <2>2, SeqFacts
  <1>3. seqs \in [1..n -> Seq(Symbols)]
    BY <1>1, <1>2
  <1> HIDE DEF n, seqs
  <1>4. FlattenSeq(seqs) \in Seq(Symbols)
    BY <1>1, <1>3, FlattenType
  <1> QED
    BY <1>4 DEF Written, seqs

(* The newest turns that fit, of which the last is always one: the first     *)
(* place from which on they do exists, and they are turns.                   *)
LEMMA KeptType ==
  ASSUME NEW turns \in Seq(TurnSet), turns # <<>>, NEW budget
  PROVE  Kept(turns, budget) \in Seq(TurnSet)
  <1> DEFINE n == Len(turns)
             fits(k) == SizeOf(SubSeq(turns, k, n)) <= budget
             First(k) == (k = n \/ fits(k)) /\ \A j \in 1..n : j < k => ~fits(j)
             S == {k \in 1..n : k = n \/ fits(k)}
             chosen == CHOOSE k \in 1..n : First(k)
  <1>1. n \in Nat /\ n >= 1
    OBVIOUS
  <1>2. \E k \in 1..n : First(k)
    <2>1. S \in SUBSET Nat /\ n \in S
      BY <1>1
    <2> HIDE DEF S
    <2>2. PICK k \in S : \A j \in S : k <= j
      BY <2>1, TK!LeastOfNaturals
    <2>3. k \in 1..n /\ (k = n \/ fits(k))
      BY <2>2 DEF S
    <2>4. ASSUME NEW j \in 1..n, j < k PROVE ~fits(j)
      <3>1. SUFFICES ASSUME fits(j) PROVE FALSE
        OBVIOUS
      <3>2. j \in S
        BY <3>1 DEF S
      <3> QED
        BY <1>1, <2>2, <2>3, <2>4, <3>2
    <2> QED
      BY <2>3, <2>4
  <1> HIDE DEF First, n
  <1>3. chosen \in 1..n
    BY <1>2
  <1>4. Kept(turns, budget) = SubSeq(turns, chosen, n)
    BY DEF Kept, First, n
  <1> HIDE DEF chosen
  <1>5. chosen \in Nat /\ chosen >= 1 /\ n <= Len(turns)
    BY <1>1, <1>3 DEF n
  <1> QED
    BY <1>1, <1>4, <1>5, SubSeqType

(* A turn of what is put into it.                                            *)
LEMMA TurnType ==
  ASSUME NEW role \in AllRoles, NEW body \in Seq(Symbols)
  PROVE  Turn(role, body) \in TurnSet
  BY DEF Turn, TurnSet

(* A history that was compacted: the system's turns, the note, and the       *)
(* newest of the others.                                                     *)
LEMMA CompactedType ==
  ASSUME NEW turns \in Seq(TurnSet)
  PROVE  Compacted(turns) \in Seq(TurnSet)
  <1> DEFINE system == Taken(turns, {i \in DOMAIN turns : IsSystem(turns[i])})
             others == Taken(turns, {i \in DOMAIN turns : ~IsSystem(turns[i])})
             left == IF MaxPrompt > SizeOf(system) THEN MaxPrompt - SizeOf(system) ELSE 0
             budget == IF left < MinBudget THEN MinBudget ELSE left
             kept == IF others = <<>> THEN <<>> ELSE Kept(others, budget)
  <1>1. \A i \in DOMAIN turns : turns[i] \in TurnSet
    OBVIOUS
  <1>2. system \in Seq(TurnSet) /\ others \in Seq(TurnSet)
    <2> DEFINE S == {i \in DOMAIN turns : IsSystem(turns[i])}
               O == {i \in DOMAIN turns : ~IsSystem(turns[i])}
    <2> HIDE DEF S, O
    <2>1. Taken(turns, S) \in Seq(TurnSet) /\ Taken(turns, O) \in Seq(TurnSet)
      BY <1>1, Selection
    <2> QED
      BY <2>1 DEF S, O
  <1>3. Compacted(turns) = Append(system, Note) \o kept
    BY DEF Compacted, Only
  <1> HIDE DEF system, others, budget
  <1>4. kept \in Seq(TurnSet)
    BY <1>2, KeptType, SeqFacts
  <1>5. Note \in TurnSet
    <2>1. "system" \in AllRoles /\ <<"note">> \in Seq(Symbols)
      BY DEF AllRoles, Speakers, Symbols
    <2> QED
      BY <2>1, TurnType DEF Note
  <1> HIDE DEF kept
  <1>6. Append(system, Note) \in Seq(TurnSet)
    BY <1>2, <1>5, SeqFacts
  <1> QED
    BY <1>3, <1>4, <1>6, SeqFacts

(* The prompt for 1min.AI, compacted or cut or as it is.                     *)
LEMMA FormatType ==
  ASSUME NEW turns \in Seq(TurnSet)
  PROVE  FormatOneMinAIPrompt(turns) \in Seq(Symbols)
  <1>1. MaxPrompt \in Nat /\ MaxPrompt + Slack \in Nat
    BY PromptsAssumption
  <1>2. CASE Len(turns) = 1 /\ turns[1].role = "user"
    <2>1. turns[1].body \in Seq(Symbols)
      <3>1. turns[1] \in TurnSet
        BY <1>2
      <3> QED
        BY <3>1 DEF TurnSet
    <2>2. Cut(turns[1].body, MaxPrompt) \in Seq(Symbols)
      BY <1>1, <2>1, CutType
    <2> QED
      BY <1>2, <2>2 DEF FormatOneMinAIPrompt
  <1>3. CASE ~(Len(turns) = 1 /\ turns[1].role = "user")
    <2> DEFINE shown == IF SizeOf(turns) > MaxPrompt /\ Len(turns) > 2 THEN Compacted(turns) ELSE turns
    <2>1. FormatOneMinAIPrompt(turns) = Cut(Written(shown), MaxPrompt + Slack)
      BY <1>3 DEF FormatOneMinAIPrompt
    <2>2. shown \in Seq(TurnSet)
      BY CompactedType
    <2> HIDE DEF shown
    <2> QED
      BY <1>1, <2>1, <2>2, WrittenType, CutType
  <1> QED
    BY <1>2, <1>3

(* The turn that a joined text is, if there is one.                          *)
LEMMA TurnsOfType ==
  ASSUME NEW role \in AllRoles, NEW texts \in Seq(Shown)
  PROVE  TurnsOf(role, texts) \in Seq(TurnSet)
  <1>1. texts # <<>> => Turn(role, texts[1].body) \in TurnSet
    <2>1. texts # <<>> => texts[1] \in Shown
      OBVIOUS
    <2> QED
      BY <2>1, ShownFields, TurnType
  <1> QED
    BY <1>1, SeqFacts DEF TurnsOf

(* The roles of turns are roles.                                             *)
LEMMA TurnRoleType ==
  ASSUME NEW role \in AllRoles
  PROVE  TurnRole(role) \in AllRoles
  BY RoleFacts DEF TurnRole

(* The turns of a Claude client's message for 1min.AI: its texts and         *)
(* results.                                                                  *)
LEMMA ClaudeTurnsType ==
  ASSUME NEW m \in Messages(Mine)
  PROVE  ClaudeTurns(m) \in Seq(TurnSet)
  <1> DEFINE results == ResultsOf(m.parts)
             answers == [k \in DOMAIN results |-> Turn("tool", results[k].body)]
  <1>1. m.role \in AllRoles /\ m.parts \in Seq(Mine)
    BY MessageFields
  <1>2. results \in Seq(Shown)
    BY <1>1, MinePicked
  <1>3. TurnsOf(m.role, Joined(m.parts)) \in Seq(TurnSet)
    BY <1>1, JoinedType, TurnsOfType DEF Mine
  <1>4. ClaudeTurns(m) = TurnsOf(m.role, Joined(m.parts)) \o answers
    BY DEF ClaudeTurns
  <1> HIDE DEF results
  <1>5. answers \in Seq(TurnSet)
    <2>1. Len(results) \in Nat /\ DOMAIN results = 1..Len(results)
      BY <1>2
    <2>2. \A k \in DOMAIN results : Turn("tool", results[k].body) \in TurnSet
      BY <1>2, ShownFields, RoleFacts, TurnType
    <2>3. answers \in [1..Len(results) -> TurnSet]
      BY <2>1, <2>2
    <2> QED
      BY <2>1, <2>3, FunctionSeq
  <1> HIDE DEF answers
  <1> QED
    BY <1>3, <1>4, <1>5, SeqFacts

(* The turns of a message of an OpenAI client.                               *)
LEMMA OpenAITurnsType ==
  ASSUME NEW m \in Full(Shown)
  PROVE  ChatTurns(m) \in Seq(TurnSet) /\ ResponsesTurns(m) \in Seq(TurnSet)
  <1>1. m.role \in AllRoles /\ m.parts \in Seq(Shown) /\ m.parts[1] \in Shown
    BY FirstPart
  <1>2. TurnsOf(TurnRole(m.role), Joined(m.parts)) \in Seq(TurnSet)
    <2>1. m.parts \in Seq(Mine)
      BY <1>1, ShownIsMine
    <2>2. Joined(m.parts) \in Seq(Shown)
      BY <2>1, JoinedType DEF Mine
    <2> QED
      BY <1>1, <2>2, TurnRoleType, TurnsOfType
  <1>3. <<Turn("tool", m.parts[1].body)>> \in Seq(TurnSet)
    <2>1. Turn("tool", m.parts[1].body) \in TurnSet
      BY <1>1, ShownFields, RoleFacts, TurnType
    <2> QED
      BY <2>1, SeqFacts
  <1>4. ChatTurns(m) \in Seq(TurnSet)
    BY <1>2, <1>3 DEF ChatTurns
  <1>5. ResponsesTurns(m) \in Seq(TurnSet)
    BY <1>2, SeqFacts DEF ResponsesTurns
  <1> QED
    BY <1>4, <1>5

(* One of the shortest of some texts is one of them.                         *)
LEMMA ShortestType ==
  ASSUME NEW texts \in Seq(Shown), texts # <<>>
  PROVE  Shortest(texts) \in Shown
  <1> DEFINE n == Len(texts)
             size(k) == Len(texts[k].body)
             sizes == {size(k) : k \in 1..n}
             least(k) == \A j \in DOMAIN texts : size(k) <= size(j)
  <1>1. n \in Nat /\ n >= 1 /\ DOMAIN texts = 1..n /\ \A k \in 1..n : texts[k] \in Shown
    OBVIOUS
  <1>2. \A k \in 1..n : size(k) \in Nat
    BY <1>1, ShownFields
  <1> HIDE DEF n, size
  <1>3. sizes \in SUBSET Nat /\ size(1) \in sizes
    BY <1>1, <1>2
  <1>4. PICK s \in sizes : \A t \in sizes : s <= t
    <2> HIDE DEF sizes
    <2> QED
      BY <1>3, TK!LeastOfNaturals
  <1>5. \E k \in DOMAIN texts : least(k)
    BY <1>1, <1>4
  <1>6. Shortest(texts) = texts[CHOOSE k \in DOMAIN texts : least(k)]
    BY DEF Shortest, size
  <1> HIDE DEF least
  <1> QED
    BY <1>1, <1>5, <1>6

(* What a user typed is text that is shown.                                  *)
LEMMA QuestionType ==
  ASSUME NEW m \in Messages(Mine)
  PROVE  extractUserQuestion(m) \in Seq(Shown)
  <1> DEFINE texts == TextsOf(m.parts)
             places == {i \in DOMAIN texts : ~isSystemInjection(texts[i].body)}
             typed == Taken(texts, places)
  <1>1. m.parts \in Seq(Mine)
    BY MessageFields
  <1>2. texts \in Seq(Shown)
    <2>1. texts \in Seq({p \in Mine : p.kind = "text"})
      BY <1>1, TextsOfType DEF Mine
    <2>2. {p \in Mine : p.kind = "text"} \subseteq Shown
      BY DEF Shown
    <2> QED
      BY <2>1, <2>2, SubsetSeq
  <1>3. extractUserQuestion(m) = IF m.plain \/ typed # <<>> \/ texts = <<>> THEN Joined(typed)
                                 ELSE <<Shortest(texts)>>
    BY DEF extractUserQuestion, Only
  <1> HIDE DEF texts, places
  <1>4. typed \in Seq(Mine)
    <2>1. \A i \in DOMAIN texts : texts[i] \in Mine
      BY <1>2, ShownFields
    <2> QED
      BY <1>2, <2>1, Selection
  <1> HIDE DEF typed
  <1>5. Joined(typed) \in Seq(Shown)
    BY <1>4, JoinedType DEF Mine
  <1>6. texts # <<>> => <<Shortest(texts)>> \in Seq(Shown)
    BY <1>2, ShortestType, SeqFacts
  <1> QED
    BY <1>3, <1>5, <1>6

(* The turns of a message for Duo: the system prompt condensed, of a user's  *)
(* message the question.                                                     *)
LEMMA DuoTurnsType ==
  ASSUME NEW m \in Messages(Mine)
  PROVE  DuoTurns(m) \in Seq(TurnSet)
  <1>1. m.role \in AllRoles /\ m.parts \in Seq(Mine)
    BY MessageFields
  <1>2. TurnsOf(m.role, Joined(m.parts)) \in Seq(TurnSet)
    BY <1>1, JoinedType, TurnsOfType DEF Mine
  <1>3. TurnsOf(m.role, extractUserQuestion(m)) \in Seq(TurnSet)
    BY <1>1, QuestionType, TurnsOfType
  <1>4. TurnsOf(m.role, condensed(m)) \in Seq(TurnSet)
    <2> DEFINE text == condensedSystemPrompt(Bodies(m.parts, "text"))
    <2>1. Bodies(m.parts, "text") \in Seq(Symbols)
      BY <1>1, BodiesType DEF Mine
    <2>2. MaxSystem \in Nat
      BY PromptsAssumption
    <2>3. text \in Seq(Symbols)
      BY <2>1, <2>2, CutType, SeqFacts DEF condensedSystemPrompt
    <2>4. condensed(m) = IF text = <<>> THEN <<>> ELSE <<TextPart(text)>>
      BY DEF condensed
    <2> HIDE DEF text
    <2>5. condensed(m) \in Seq(Shown)
      BY <2>3, <2>4, TextPartShown, SeqFacts
    <2> QED
      BY <1>1, <2>5, TurnsOfType
  <1> QED
    BY <1>2, <1>3, <1>4 DEF DuoTurns

(* The prompts for the upstreams that are asked with one text.               *)
LEMMA ClaudePromptType ==
  ASSUME NEW ms \in Seq(Messages(Mine))
  PROVE  /\ ClaudeReqToOneMinAI(ms) \in Seq(Symbols)
         /\ extractGitLabDuoHistory(ms) \in Seq(Symbols)
  <1> DEFINE n == Len(ms)
             seqs == [k \in DOMAIN ms |-> ClaudeTurns(ms[k])]
             duo == [k \in DOMAIN ms |-> DuoTurns(ms[k])]
  <1>1. n \in Nat /\ DOMAIN ms = 1..n /\ \A k \in 1..n : ms[k] \in Messages(Mine)
    OBVIOUS
  <1>2. seqs \in [1..n -> Seq(TurnSet)] /\ duo \in [1..n -> Seq(TurnSet)]
    BY <1>1, ClaudeTurnsType, DuoTurnsType
  <1> HIDE DEF n, seqs, duo
  <1>3. FlattenSeq(seqs) \in Seq(TurnSet) /\ FlattenSeq(duo) \in Seq(TurnSet)
    BY <1>1, <1>2, FlattenType
  <1>4. ClaudeReqToOneMinAI(ms) = FormatOneMinAIPrompt(FlattenSeq(seqs))
    BY DEF ClaudeReqToOneMinAI, AllTurns, seqs
  <1>5. extractGitLabDuoHistory(ms) = LastOf(Written(FlattenSeq(duo)), MaxGoal)
    BY DEF extractGitLabDuoHistory, AllTurns, truncateGoal, duo
  <1>6. MaxGoal \in Nat
    BY PromptsAssumption
  <1> QED
    BY <1>3, <1>4, <1>5, <1>6, FormatType, WrittenType, CutType

(* The prompts made of requests in the dialects of OpenAI.                   *)
LEMMA OpenAIPromptType ==
  ASSUME NEW ms \in Seq(Full(Shown))
  PROVE  /\ OpenAIReqToOneMinAI(ms) \in Seq(Symbols)
         /\ OpenAI2ReqToOneMinAI(ms) \in Seq(Symbols)
  <1> DEFINE n == Len(ms)
             chat == [k \in DOMAIN ms |-> ChatTurns(ms[k])]
             responses == [k \in DOMAIN ms |-> ResponsesTurns(ms[k])]
  <1>1. n \in Nat /\ DOMAIN ms = 1..n /\ \A k \in 1..n : ms[k] \in Full(Shown)
    OBVIOUS
  <1>2. chat \in [1..n -> Seq(TurnSet)] /\ responses \in [1..n -> Seq(TurnSet)]
    BY <1>1, OpenAITurnsType
  <1> HIDE DEF n, chat, responses
  <1>3. FlattenSeq(chat) \in Seq(TurnSet) /\ FlattenSeq(responses) \in Seq(TurnSet)
    BY <1>1, <1>2, FlattenType
  <1>4. OpenAIReqToOneMinAI(ms) = FormatOneMinAIPrompt(FlattenSeq(chat))
    BY DEF OpenAIReqToOneMinAI, AllTurns, chat
  <1>5. OpenAI2ReqToOneMinAI(ms) = FormatOneMinAIPrompt(FlattenSeq(responses))
    BY DEF OpenAI2ReqToOneMinAI, AllTurns, responses
  <1> QED
    BY <1>3, <1>4, <1>5, FormatType

(***************************************************************************)
(* The invariant                                                           *)
(***************************************************************************)
Utterances(P) == [by : Speakers, turn : 0..MaxTurns, part : P]

(* Only a conversation in Claude's dialect has thinking in it.               *)
PartsOf(dialect) == IF dialect = "claude" THEN Mine ELSE Shown

InOrder == \A j, k \in DOMAIN conv : j <= k => conv[j].turn <= conv[k].turn

OneSpeaker == \A j, k \in DOMAIN conv : conv[j].turn = conv[k].turn => conv[j].by = conv[k].by

ConversationInvariant ==
    /\ client \in [dialect : Clients, plain : BOOLEAN]
    /\ upstream \in Upstreams \cup {Nobody}
    /\ conv \in Seq(Utterances(PartsOf(client.dialect)))
    /\ InOrder
    /\ OneSpeaker

(***************************************************************************)
(* How clients lay a conversation out                                      *)
(***************************************************************************)
ClaudeMessage(u) == Message(u.by, FALSE, <<u.part>>)
ChatMessage(u) == Message(IF u.part.kind = "result" THEN "tool" ELSE u.by,
                          client.plain \/ u.part.kind = "result", <<u.part>>)
ResponsesMessage(u) == Message(IF u.part.kind = "text" THEN u.by ELSE "",
                               client.plain /\ u.by # "assistant", <<u.part>>)

Grow(ms, part) == [ms EXCEPT ![Len(ms)].parts = Append(@, part)]

LayClaude(ms, k) ==
    IF k > 1 /\ conv[k - 1].by = conv[k].by THEN Grow(ms, conv[k].part)
    ELSE Append(ms, ClaudeMessage(conv[k]))
LayChat(ms, k) ==
    IF k > 1 /\ (conv[k - 1].by = "assistant" /\ conv[k].by = "assistant") THEN Grow(ms, conv[k].part)
    ELSE Append(ms, ChatMessage(conv[k]))
LayResponses(ms, k) ==
    IF k > 1 /\ FALSE THEN Grow(ms, conv[k].part) ELSE Append(ms, ResponsesMessage(conv[k]))

Laid(P, k, ms) == ms \in Seq(Full(P)) /\ (k > 0 => ms # <<>>)

LC == INSTANCE FoldFacts WITH Op <- LayClaude, Keeps <- Laid
LH == INSTANCE FoldFacts WITH Op <- LayChat, Keeps <- Laid
LR == INSTANCE FoldFacts WITH Op <- LayResponses, Keeps <- Laid

(* Whatever the dialect, what was said is laid out as a message of one part. *)
LEMMA UtteranceMessages ==
  ASSUME NEW P, NEW u \in Utterances(P), client.plain \in BOOLEAN
  PROVE  ClaudeMessage(u) \in Full(P) /\ ChatMessage(u) \in Full(P) /\ ResponsesMessage(u) \in Full(P)
  <1>1. u.by \in AllRoles /\ u.part \in P
    BY RoleFacts DEF Utterances
  <1>2. <<u.part>> \in Seq(P) /\ <<u.part>> # <<>>
    BY <1>1
  <1>3. ASSUME NEW role \in AllRoles, NEW plain \in BOOLEAN PROVE Message(role, plain, <<u.part>>) \in Full(P)
    <2> DEFINE parts == <<u.part>>
    <2> HIDE DEF parts
    <2>1. parts \in Seq(P) /\ parts # <<>>
      BY <1>2 DEF parts
    <2>2. Message(role, plain, parts) \in Messages(P) /\ Message(role, plain, parts).parts = parts
      BY <2>1, MessageType
    <2>3. Message(role, plain, parts) \in Full(P)
      BY <2>1, <2>2 DEF Full
    <2> QED
      BY <2>3 DEF parts
  <1>4. ClaudeMessage(u) \in Full(P)
    BY <1>1, <1>3 DEF ClaudeMessage
  <1>5. ChatMessage(u) \in Full(P)
    <2> DEFINE role == IF u.part.kind = "result" THEN "tool" ELSE u.by
               plain == client.plain \/ u.part.kind = "result"
    <2>1. role \in AllRoles /\ plain \in BOOLEAN
      BY <1>1, RoleFacts
    <2> HIDE DEF role, plain
    <2>2. Message(role, plain, <<u.part>>) \in Full(P)
      BY <1>3, <2>1
    <2> QED
      BY <2>2 DEF ChatMessage, role, plain
  <1>6. ResponsesMessage(u) \in Full(P)
    <2> DEFINE role == IF u.part.kind = "text" THEN u.by ELSE Nobody
               plain == client.plain /\ u.by # "assistant"
    <2>1. role \in AllRoles /\ plain \in BOOLEAN
      BY <1>1, RoleFacts
    <2>2. ResponsesMessage(u) = Message(role, plain, <<u.part>>)
      BY Zenon DEF ResponsesMessage, Nobody
    <2> HIDE DEF role, plain
    <2> QED
      BY <1>3, <2>1, <2>2
  <1> QED
    BY <1>4, <1>5, <1>6

(* The last message grows by a part.                                         *)
LEMMA GrowLaid ==
  ASSUME NEW P, NEW k, NEW ms, ms \in Seq(Full(P)), ms # <<>>, NEW part \in P
  PROVE  Laid(P, k, Grow(ms, part))
  <1> DEFINE n == Len(ms)
             m == ms[n]
             parts == Append(m.parts, part)
             new == [m EXCEPT !.parts = parts]
  <1>1. n \in Nat /\ n >= 1 /\ n \in DOMAIN ms /\ m \in Full(P)
    OBVIOUS
  <1>2. m \in Messages(P) /\ m.parts \in Seq(P)
    BY <1>1, MessageFields DEF Full
  <1> HIDE DEF m
  <1>3. parts \in Seq(P) /\ parts # <<>>
    <2>1. Len(parts) = Len(m.parts) + 1 /\ Len(m.parts) \in Nat
      BY <1>2
    <2>2. parts # <<>>
      <3>1. Len(<<>>) = 0
        OBVIOUS
      <3> HIDE DEF parts
      <3> QED
        BY <2>1, <3>1
    <2> QED
      BY <1>2, <2>2, SeqFacts
  <1> HIDE DEF parts
  <1>4. new \in Full(P)
    BY <1>2, <1>3, MessageChange DEF Full
  <1>5. Grow(ms, part) = [ms EXCEPT ![n] = new]
    BY DEF Grow, m, parts
  <1> HIDE DEF new
  <1>6. [ms EXCEPT ![n] = new] \in Seq(Full(P)) /\ Len([ms EXCEPT ![n] = new]) = n
    BY <1>1, <1>4
  <1>7. Grow(ms, part) # <<>>
    BY <1>1, <1>5, <1>6
  <1> QED
    BY <1>5, <1>6, <1>7 DEF Laid

(* Another message is laid out.                                              *)
LEMMA AppendLaid ==
  ASSUME NEW P, NEW k, NEW ms \in Seq(Full(P)), NEW m \in Full(P)
  PROVE  Laid(P, k, Append(ms, m))
  <1>1. Append(ms, m) \in Seq(Full(P)) /\ Len(Append(ms, m)) = Len(ms) + 1 /\ Len(ms) \in Nat
    OBVIOUS
  <1>2. Append(ms, m) # <<>>
    BY <1>1
  <1> QED
    BY <1>1, <1>2 DEF Laid

(* The clients lay out messages with something in them, of the parts that    *)
(* were said.                                                                *)
LEMMA LaidOut ==
  ASSUME NEW P, conv \in Seq(Utterances(P)), client.plain \in BOOLEAN
  PROVE  /\ Lay(LAMBDA u : Message(u.by, FALSE, <<u.part>>), LAMBDA u, w : u.by = w.by) \in Seq(Full(P))
         /\ ChatLays \in Seq(Full(P))
         /\ ResponsesLays \in Seq(Full(P))
  <1> DEFINE n == Len(conv)
             seq == [k \in DOMAIN conv |-> k]
  <1>1. n \in Nat /\ DOMAIN conv = 1..n /\ DOMAIN seq = 1..n /\ \A k \in 1..n : seq[k] = k
    OBVIOUS
  <1>2. \A k \in 1..n : conv[k] \in Utterances(P) /\ conv[k].part \in P
    <2>1. \A k \in 1..n : conv[k] \in Utterances(P)
      BY <1>1
    <2>2. \A u \in Utterances(P) : u.part \in P
      BY DEF Utterances
    <2> QED
      BY <2>1, <2>2
  <1>3. Laid(P, 0, <<>>)
    BY SeqFacts DEF Laid
  <1>4. ASSUME NEW k \in 1..n, NEW ms, Laid(P, k - 1, ms)
        PROVE  /\ Laid(P, k, LayClaude(ms, seq[k]))
               /\ Laid(P, k, LayChat(ms, seq[k]))
               /\ Laid(P, k, LayResponses(ms, seq[k]))
    <2>1. ms \in Seq(Full(P)) /\ (k > 1 => ms # <<>>)
      BY <1>1, <1>4 DEF Laid
    <2>2. k > 1 => Laid(P, k, Grow(ms, conv[k].part))
      BY <1>2, <2>1, GrowLaid
    <2>3. /\ Laid(P, k, Append(ms, ClaudeMessage(conv[k])))
          /\ Laid(P, k, Append(ms, ChatMessage(conv[k])))
          /\ Laid(P, k, Append(ms, ResponsesMessage(conv[k])))
      BY <1>2, <2>1, UtteranceMessages, AppendLaid
    <2> QED
      BY <1>1, <2>2, <2>3 DEF LayClaude, LayChat, LayResponses
  <1>5. Lay(LAMBDA u : Message(u.by, FALSE, <<u.part>>), LAMBDA u, w : u.by = w.by) = LC!Fold(<<>>, seq)
    BY DEF Lay, LayClaude, Grow, ClaudeMessage, FoldLeft, MapThenFoldSet, LC!Fold, LC!FoldLeft, LC!MapThenFoldSet, Max, LC!Max
  <1>6. ChatLays = LH!Fold(<<>>, seq)
    BY DEF ChatLays, Lay, LayChat, Grow, ChatMessage, FoldLeft, MapThenFoldSet, LH!Fold, LH!FoldLeft, LH!MapThenFoldSet, Max, LH!Max
  <1>7. ResponsesLays = LR!Fold(<<>>, seq)
    BY Zenon DEF ResponsesLays, Lay, LayResponses, Grow, ResponsesMessage, FoldLeft, MapThenFoldSet, LR!Fold, LR!FoldLeft, LR!MapThenFoldSet, Max, LR!Max
  <1> HIDE DEF n, seq
  <1>8. Laid(P, n, LC!Fold(<<>>, seq))
    BY <1>1, <1>3, <1>4, LC!FoldKeeps
  <1>9. Laid(P, n, LH!Fold(<<>>, seq))
    BY <1>1, <1>3, <1>4, LH!FoldKeeps
  <1>10. Laid(P, n, LR!Fold(<<>>, seq))
    BY <1>1, <1>3, <1>4, LR!FoldKeeps
  <1> QED
    BY <1>5, <1>6, <1>7, <1>8, <1>9, <1>10 DEF Laid

(* So do Claude clients, some of whose texts are strings.                    *)
LEMMA ClaudeLaysType ==
  ASSUME NEW P, conv \in Seq(Utterances(P)), client.plain \in BOOLEAN
  PROVE  ClaudeLays \in Seq(Messages(P))
  <1> DEFINE ms == Lay(LAMBDA u : Message(u.by, FALSE, <<u.part>>), LAMBDA u, w : u.by = w.by)
             string(m) == client.plain /\ m.role # "assistant" /\ Len(m.parts) = 1 /\ TextsOf(m.parts) # <<>>
             lays == [k \in DOMAIN ms |-> [ms[k] EXCEPT !.plain = string(ms[k])]]
  <1>1. ms \in Seq(Full(P))
    BY LaidOut
  <1>2. ClaudeLays = lays
    BY DEF ClaudeLays
  <1> HIDE DEF ms
  <1>3. Len(ms) \in Nat /\ DOMAIN ms = 1..Len(ms) /\ \A k \in DOMAIN ms : ms[k] \in Messages(P)
    BY <1>1 DEF Full
  <1>4. \A k \in DOMAIN ms : string(ms[k]) \in BOOLEAN
    OBVIOUS
  <1> HIDE DEF string
  <1>5. \A k \in DOMAIN ms : [ms[k] EXCEPT !.plain = string(ms[k])] \in Messages(P)
    BY <1>3, <1>4, MessageChange
  <1>6. lays \in [1..Len(ms) -> Messages(P)]
    BY <1>3, <1>5
  <1> HIDE DEF lays
  <1> QED
    BY <1>2, <1>3, <1>6, FunctionSeq

(***************************************************************************)
(* What the upstream is shown                                              *)
(***************************************************************************)
HeardSet(P) == {[by |-> By(m, p), part |-> p] : m \in Messages(P), p \in P}

Hears(us, m) == us \o HeardIn(m)

Heard(P, k, us) == us \in Seq(HeardSet(P))

HR == INSTANCE FoldFacts WITH Op <- Hears, Keeps <- Heard

(* The upstream reads the parts of the request.                              *)
LEMMA ReadParts ==
  ASSUME NEW P, Sent \in Seq(Messages(P))
  PROVE  \A u \in Range(Read) : u.part \in P
  <1> DEFINE n == Len(Sent)
             ms == Sent
             us == Read
  <1>1. n \in Nat /\ DOMAIN ms = 1..n /\ \A k \in 1..n : ms[k] \in Messages(P)
    OBVIOUS
  <1> HIDE DEF n, ms, us
  <1>2. ASSUME NEW m \in Messages(P) PROVE HeardIn(m) \in Seq(HeardSet(P))
    <2>1. Len(m.parts) \in Nat /\ DOMAIN m.parts = 1..Len(m.parts) /\ \A j \in DOMAIN m.parts : m.parts[j] \in P
      BY MessageFields
    <2>2. \A j \in DOMAIN m.parts : [by |-> By(m, m.parts[j]), part |-> m.parts[j]] \in HeardSet(P)
      BY <2>1 DEF HeardSet
    <2>3. HeardIn(m) \in [1..Len(m.parts) -> HeardSet(P)]
      BY <2>1, <2>2 DEF HeardIn
    <2> QED
      BY <2>1, <2>3, FunctionSeq
  <1>3. Heard(P, 0, <<>>)
    BY SeqFacts DEF Heard
  <1>4. \A k \in 1..n : \A x : Heard(P, k - 1, x) => Heard(P, k, Hears(x, ms[k]))
    BY <1>1, <1>2, SeqFacts DEF Heard, Hears
  <1>5. Heard(P, n, HR!Fold(<<>>, ms))
    BY <1>1, <1>3, <1>4, HR!FoldKeeps
  <1>6. Read = HR!Fold(<<>>, ms)
    BY DEF Read, Hears, ms, FoldLeft, MapThenFoldSet, HR!Fold, HR!FoldLeft, HR!MapThenFoldSet, Max, HR!Max
  <1>7. us \in Seq(HeardSet(P))
    BY <1>5, <1>6 DEF Heard, us
  <1>8. \A k \in DOMAIN us : us[k] \in HeardSet(P)
    BY <1>7
  <1>9. \A h \in HeardSet(P) : h.part \in P
    BY DEF HeardSet
  <1>10. \A u \in Range(us) : u.part \in P
    BY <1>8, <1>9 DEF Range
  <1> QED
    BY <1>10 DEF us

(* The request that a client sends is in its dialect, with thinking only if  *)
(* that is Claude's.                                                         *)
LEMMA RequestType ==
  ASSUME ConversationInvariant
  PROVE  /\ client.dialect = "claude" => Request \in Seq(Messages(Mine))
         /\ client.dialect # "claude" => Request \in Seq(Full(Shown))
         /\ Request \in Seq(Messages(Mine))
         /\ client.dialect \in {"claude", "chat", "responses"}
         /\ Asks => upstream \in {"claude", "chat", "responses", "gemini", "1minai", "duo"}
  <1>1. client.dialect \in {"claude", "chat", "responses"} /\ client.plain \in BOOLEAN
    BY DialectsAssumption DEF ConversationInvariant
  <1>2. Asks => upstream \in {"claude", "chat", "responses", "gemini", "1minai", "duo"}
    <2>1. Asks => upstream # Nobody
      BY Zenon DEF Asks, Nobody
    <2> QED
      BY <2>1, DialectsAssumption DEF ConversationInvariant
  <1>3. Seq(Full(Shown)) \subseteq Seq(Messages(Mine))
    <2>1. Messages(Shown) \subseteq Messages(Mine)
      <3>1. ASSUME NEW m \in Messages(Shown) PROVE m \in Messages(Mine)
        BY ShownIsMine DEF Messages
      <3> QED
        BY <3>1
    <2>2. Full(Shown) \subseteq Messages(Mine)
      BY <2>1 DEF Full
    <2> QED
      BY <2>2, SubsetSeq
  <1>4. CASE client.dialect = "claude"
    <2>1. conv \in Seq(Utterances(Mine))
      BY <1>4 DEF ConversationInvariant, PartsOf
    <2>2. ClaudeLays \in Seq(Messages(Mine))
      BY <1>1, <2>1, ClaudeLaysType
    <2>3. Request = ClaudeLays
      BY <1>4 DEF Request
    <2> QED
      BY <1>1, <1>2, <1>4, <2>2, <2>3
  <1>5. CASE client.dialect # "claude"
    <2>1. conv \in Seq(Utterances(Shown))
      BY <1>5 DEF ConversationInvariant, PartsOf
    <2>2. ChatLays \in Seq(Full(Shown)) /\ ResponsesLays \in Seq(Full(Shown))
      BY <1>1, <2>1, LaidOut
    <2>3. Request = ChatLays \/ Request = ResponsesLays
      BY <1>1, <1>5 DEF Request
    <2>4. Request \in Seq(Full(Shown))
      BY <2>2, <2>3
    <2> QED
      BY <1>1, <1>2, <1>3, <1>5, <2>4
  <1> QED
    BY <1>4, <1>5

(* What is sent to another provider, thinking has been taken out of.         *)
LEMMA SentShown ==
  ASSUME ConversationInvariant, upstream \in {"chat", "responses"}
  PROVE  Sent \in Seq(Messages(Shown))
  <1>1. Sent = TransformRequest
    BY DEF Sent, To
  <1>2. Seq(Full(Shown)) \subseteq Seq(Messages(Shown))
    BY SubsetSeq DEF Full
  <1>3. CASE client.dialect = "claude"
    <2>1. Request \in Seq(Messages(Mine))
      BY RequestType
    <2>2. TransformRequest = ClaudeReqToOpenAI(Request) \/ TransformRequest = ClaudeReqToOpenAI2(Request)
      BY <1>3 DEF TransformRequest, To
    <2> QED
      BY <1>1, <2>1, <2>2, ClaudeReqToOpenAIType, ClaudeReqToOpenAI2Type
  <1>4. CASE client.dialect # "claude"
    <2>1. Request \in Seq(Full(Shown)) /\ Request \in Seq(Messages(Shown))
      BY <1>2, <1>4, RequestType
    <2>2. client.dialect \in {"chat", "responses"}
      BY <1>4, RequestType
    <2>3. \/ TransformRequest = Request
          \/ TransformRequest = OpenAI2ReqToOpenAI(Request)
          \/ TransformRequest = OpenAIReqToOpenAI2(Request)
      BY <2>2 DEF TransformRequest, To
    <2> QED
      BY <1>1, <2>1, <2>3, OpenAI2ReqToOpenAIType, OpenAIReqToOpenAI2Type
  <1> QED
    BY <1>3, <1>4

(* What is sent to Claude or to Gemini has thoughts only in thinking.        *)
LEMMA SentApart ==
  ASSUME ConversationInvariant, upstream \in {"claude", "gemini"}
  PROVE  Sent \in Seq(Messages(Apart))
  <1>1. Sent = TransformRequest \/ Sent = dropIncompleteToolCalls(TransformRequest)
    BY DEF Sent
  <1>2. TransformRequest \in Seq(Messages(Apart))
    <2>1. Request \in Seq(Messages(Apart))
      BY RequestType, MineApart, SubsetSeq
    <2>2. CASE client.dialect = "claude"
      <3>1. TransformRequest = Request \/ TransformRequest = ClaudeReqToGemini(Request)
        BY <2>2 DEF TransformRequest, To
      <3>2. ClaudeReqToGemini(Request) \in Seq(Messages(Apart))
        BY <2>1, WithNamesType, InRolesType DEF ClaudeReqToGemini
      <3> QED
        BY <2>1, <3>1, <3>2
    <2>3. CASE client.dialect = "chat"
      <3>1. TransformRequest = OpenAIReqToClaude(Request) \/ TransformRequest = OpenAIReqToGemini(Request)
        BY <2>3 DEF TransformRequest, To
      <3>2. Request \in Seq(Messages(Shown))
        <4>1. Request \in Seq(Full(Shown))
          BY <2>3, RequestType
        <4> QED
          BY <4>1, SubsetSeq DEF Full
      <3> QED
        BY <3>1, <3>2, ChatApartType
    <2>4. CASE client.dialect = "responses"
      <3>1. TransformRequest = OpenAI2ReqToClaude(Request) \/ TransformRequest = OpenAI2ReqToGemini(Request)
        BY <2>4 DEF TransformRequest, To
      <3>2. Request \in Seq(Full(Shown))
        BY <2>4, RequestType
      <3> QED
        BY <3>1, <3>2, ResponsesApartType
    <2> QED
      BY <2>2, <2>3, <2>4, RequestType
  <1> QED
    BY <1>1, <1>2, DropType

(* The one text that 1min.AI or Duo gets has no thinking in it.              *)
LEMMA PromptShown ==
  ASSUME ConversationInvariant, upstream \in {"1minai", "duo"}
  PROVE  Prompt \in Seq(Symbols)
  <1>1. CASE upstream = "duo"
    <2>1. Prompt = extractGitLabDuoHistory(Request)
      BY <1>1 DEF Prompt, To
    <2> QED
      BY <2>1, RequestType, ClaudePromptType
  <1>2. CASE upstream = "1minai" /\ client.dialect = "claude"
    <2>1. Prompt = ClaudeReqToOneMinAI(Request)
      BY <1>2 DEF Prompt, To
    <2> QED
      BY <2>1, RequestType, ClaudePromptType
  <1>3. CASE upstream = "1minai" /\ client.dialect # "claude"
    <2>1. client.dialect \in {"chat", "responses"} /\ Request \in Seq(Full(Shown))
      BY <1>3, RequestType
    <2>2. Prompt = OpenAIReqToOneMinAI(Request) \/ Prompt = OpenAI2ReqToOneMinAI(Request)
      BY <1>3, <2>1 DEF Prompt, To
    <2> QED
      BY <2>1, <2>2, OpenAIPromptType
  <1> QED
    BY <1>1, <1>2, <1>3

(* Whatever a text without thoughts is made of, it does not think.           *)
LEMMA NoThoughts ==
  ASSUME NEW body \in Seq(Symbols)
  PROVE  ~Thinks(body)
  <1>1. \A k \in DOMAIN body : body[k] \in Symbols
    OBVIOUS
  <1> QED
    BY <1>1, SymbolFacts DEF Thinks

(* In a conversation that has thinking only where there is a word for it,    *)
(* thoughts are only shown as thinking, and only to Claude and Gemini.       *)
LEMMA ThinkingHome ==
  ASSUME ConversationInvariant
  PROVE  ThinkingStaysHome
  <1>1. SUFFICES ASSUME Asks
                 PROVE  IF Prompted THEN ~Thinks(Prompt)
                        ELSE \A u \in Range(Read) :
                                Thinks(u.part.body) => u.part.kind = "thinking" /\ upstream \in {"claude", "gemini"}
    BY Zenon DEF ThinkingStaysHome
  <1>2. upstream \in {"claude", "chat", "responses", "gemini", "1minai", "duo"}
    BY <1>1, RequestType
  <1>3. CASE upstream \in {"1minai", "duo"}
    BY <1>3, PromptShown, NoThoughts DEF Prompted
  <1>4. CASE upstream \in {"chat", "responses"}
    <2>1. ASSUME NEW u \in Range(Read) PROVE ~Thinks(u.part.body)
      <3>1. u.part \in Shown
        BY <1>4, SentShown, ReadParts
      <3> QED
        BY <3>1, ShownFields, NoThoughts
    <2>2. ~Prompted
      BY <1>4 DEF Prompted
    <2> QED
      BY <2>1, <2>2
  <1>5. CASE upstream \in {"claude", "gemini"}
    <2>1. ASSUME NEW u \in Range(Read), Thinks(u.part.body) PROVE u.part.kind = "thinking"
      <3>1. u.part \in AllParts(Ids)
        BY <1>5, SentApart, ReadParts DEF Apart
      <3>2. u.part.kind # "thinking" => u.part.body \in Seq(Symbols)
        BY <3>1, PartFields
      <3> QED
        BY <2>1, <3>2, NoThoughts
    <2>2. ~Prompted
      BY <1>5 DEF Prompted
    <2> QED
      BY <1>5, <2>1, <2>2
  <1> QED
    BY <1>2, <1>3, <1>4, <1>5

(***************************************************************************)
(* Answers                                                                 *)
(***************************************************************************)
(* A text that is split at its tags.                                         *)
RunSet == [inside : BOOLEAN, body : Seq(Symbols)]

Scanned(p, k, scan) ==
    /\ scan \in [runs : Seq(RunSet), held : Seq(Symbols)]
    /\ Len(scan.runs) >= 1

SN == INSTANCE FoldFacts WITH Op <- Scan, Keeps <- Scanned

(* One symbol more is scanned for tags.                                      *)
LEMMA ScanType ==
  ASSUME NEW scan, Scanned(0, 0, scan), NEW y \in Symbols
  PROVE  Scanned(0, 0, Scan(scan, y))
  <1> DEFINE n == Len(scan.runs)
  <1>1. /\ scan.runs \in Seq(RunSet) /\ scan.held \in Seq(Symbols)
        /\ n \in Nat /\ n >= 1 /\ n \in DOMAIN scan.runs
    BY DEF Scanned
  <1>2. scan.runs[n] \in RunSet
    BY <1>1
  <1>3. scan.runs[n].inside \in BOOLEAN /\ scan.runs[n].body \in Seq(Symbols)
    BY <1>2 DEF RunSet
  <1>4. \A runs, held : runs \in Seq(RunSet) /\ Len(runs) >= 1 /\ held \in Seq(Symbols)
                          => Scanned(0, 0, [runs |-> runs, held |-> held])
    BY DEF Scanned
  <1>5. ASSUME NEW more \in Seq(Symbols)
        PROVE  LET grown == [scan.runs EXCEPT ![n].body = @ \o more]
               IN  grown \in Seq(RunSet) /\ Len(grown) >= 1
    <2> DEFINE body == scan.runs[n].body \o more
               run == [scan.runs[n] EXCEPT !.body = body]
               grown == [scan.runs EXCEPT ![n].body = @ \o more]
    <2>1. body \in Seq(Symbols)
      BY <1>3, SeqFacts
    <2>2. grown = [scan.runs EXCEPT ![n] = run]
      OBVIOUS
    <2> HIDE DEF body
    <2>3. run \in RunSet
      BY <1>2, <2>1 DEF RunSet
    <2> HIDE DEF run, grown
    <2>4. [scan.runs EXCEPT ![n] = run] \in Seq(RunSet) /\ Len([scan.runs EXCEPT ![n] = run]) = n
      BY <1>1, <2>3
    <2> QED
      BY <1>1, <2>2, <2>4 DEF grown
  <1>6. ASSUME NEW inside \in BOOLEAN
        PROVE  LET more == Append(scan.runs, [inside |-> inside, body |-> <<>>])
               IN  more \in Seq(RunSet) /\ Len(more) >= 1
    <2> DEFINE run == [inside |-> inside, body |-> <<>>]
    <2>1. run \in RunSet
      BY SeqFacts DEF RunSet
    <2> HIDE DEF run
    <2>2. Append(scan.runs, run) \in Seq(RunSet) /\ Len(Append(scan.runs, run)) = n + 1
      BY <1>1, <2>1
    <2> QED
      BY <1>1, <2>2 DEF run
  <1> DEFINE tag == scan.held # <<>> /\ y = (IF Inside(scan) THEN "/think>" ELSE "think>")
             grown(more) == [scan.runs EXCEPT ![n].body = @ \o more]
             opened == Append(scan.runs, [inside |-> ~Inside(scan), body |-> <<>>])
  <1>7. Scan(scan, y) = IF tag THEN [runs |-> opened, held |-> <<>>]
                        ELSE IF y = "<" THEN [runs |-> grown(scan.held), held |-> <<y>>]
                        ELSE [runs |-> grown(Append(scan.held, y)), held |-> <<>>]
    BY DEF Scan
  <1>8. opened \in Seq(RunSet) /\ Len(opened) >= 1
    BY <1>6
  <1>9. /\ grown(scan.held) \in Seq(RunSet) /\ Len(grown(scan.held)) >= 1
        /\ grown(Append(scan.held, y)) \in Seq(RunSet) /\ Len(grown(Append(scan.held, y))) >= 1
    <2>1. Append(scan.held, y) \in Seq(Symbols)
      BY <1>1, SeqFacts
    <2> QED
      BY <1>1, <1>5, <2>1
  <1>10. << >> \in Seq(Symbols) /\ <<y>> \in Seq(Symbols)
    BY SeqFacts
  <1> HIDE DEF tag, grown, opened
  <1> QED
    BY <1>4, <1>7, <1>8, <1>9, <1>10

(* A text with tags is split into texts and thinking (think_tags.go).        *)
LEMMA SplitType ==
  ASSUME NEW text \in Seq(Symbols)
  PROVE  splitThinkTaggedText(text) \in Seq(Mine)
  <1> DEFINE m == Len(text)
             base == ScanFrom(FALSE)
             scan == FoldLeft(Scan, base, text)
             n == Len(scan.runs)
             kind(k) == IF k < n /\ scan.runs[k].inside THEN "thinking" ELSE "text"
             body(k) == IF k < n THEN scan.runs[k].body ELSE scan.runs[k].body \o scan.held
             block(k) == [kind |-> kind(k), body |-> body(k), id |-> "", name |-> ""]
             blocks == [k \in 1..n |-> block(k)]
             places == {i \in DOMAIN blocks : blocks[i].body # <<>>}
  <1>1. m \in Nat /\ DOMAIN text = 1..m /\ \A k \in 1..m : text[k] \in Symbols
    OBVIOUS
  <1>2. Scanned(0, 0, base)
    <2> DEFINE run == [inside |-> FALSE, body |-> <<>>]
    <2>1. run \in RunSet
      BY SeqFacts DEF RunSet
    <2> HIDE DEF run
    <2>2. <<run>> \in Seq(RunSet) /\ Len(<<run>>) = 1
      BY <2>1
    <2>3. base = [runs |-> <<run>>, held |-> <<>>]
      BY DEF ScanFrom, run
    <2> HIDE DEF base
    <2> QED
      BY <2>2, <2>3, SeqFacts DEF Scanned
  <1>3. \A k \in 1..m : \A x : Scanned(0, k - 1, x) => Scanned(0, k, Scan(x, text[k]))
    BY <1>1, ScanType DEF Scanned
  <1>4. scan = SN!Fold(base, text)
    BY DEF FoldLeft, MapThenFoldSet, SN!Fold, SN!FoldLeft, SN!MapThenFoldSet, Max, SN!Max
  <1>5. splitThinkTaggedText(text) = Taken(blocks, places)
    BY Zenon DEF splitThinkTaggedText, Only
  <1> HIDE DEF m, base, scan
  <1>6. Scanned(0, m, scan)
    <2>1. Scanned(0, m, SN!Fold(base, text))
      BY <1>1, <1>2, <1>3, SN!FoldKeeps
    <2> QED
      BY <1>4, <2>1
  <1>7. /\ n \in Nat /\ DOMAIN scan.runs = 1..n /\ scan.held \in Seq(Symbols)
        /\ \A k \in 1..n : scan.runs[k] \in RunSet
    BY <1>6 DEF Scanned
  <1>8. ASSUME NEW k \in 1..n PROVE block(k) \in Mine
    <2>1. scan.runs[k].body \in Seq(Symbols)
      BY <1>7 DEF RunSet
    <2>2. body(k) \in Seq(Symbols)
      BY <1>7, <2>1, SeqFacts
    <2>3. kind(k) \in Kinds /\ kind(k) # "tool_use"
      BY DEF Kinds
    <2>4. NoId \in Ids /\ NoId \in ToolNames /\ CallIds \in SUBSET Ids
      BY DEF Ids, ToolNames
    <2> HIDE DEF kind, body
    <2>5. Part(kind(k), body(k), NoId, NoId) \in Mine
      BY <2>2, <2>3, <2>4, PartType DEF Mine
    <2>6. block(k) = Part(kind(k), body(k), NoId, NoId)
      BY Zenon DEF Part, NoId
    <2> QED
      BY Zenon, <2>5, <2>6
  <1> HIDE DEF block, n
  <1>9. blocks \in Seq(Mine)
    <2>1. blocks \in [1..n -> Mine]
      BY <1>8
    <2> QED
      BY <1>7, <2>1, FunctionSeq
  <1> HIDE DEF blocks
  <1>10. \A i \in DOMAIN blocks : blocks[i] \in Mine
    BY <1>9
  <1> HIDE DEF places
  <1>11. Taken(blocks, places) \in Seq(Mine)
    BY <1>9, <1>10, Selection
  <1> QED
    BY <1>5, <1>11

(* An answer for a chat client is a text and the calls.                      *)
LEMMA TextThenCallsType ==
  ASSUME NEW parts \in Seq(Mine)
  PROVE  TextThenCalls(parts) \in Seq(Shown)
  <1> DEFINE text == Part("text", Bodies(parts, "text"), "", "")
  <1>1. text \in Shown
    <2>1. Bodies(parts, "text") \in Seq(Symbols)
      BY BodiesType DEF Mine
    <2>2. TextPart(Bodies(parts, "text")) \in Shown
      BY <2>1, TextPartShown
    <2> QED
      BY Zenon, <2>2 DEF TextPart
  <1>2. TextThenCalls(parts) = <<text>> \o CallsOf(parts)
    BY Zenon DEF TextThenCalls
  <1> HIDE DEF text
  <1>3. <<text>> \in Seq(Shown)
    BY <1>1, SeqFacts
  <1> QED
    BY <1>2, <1>3, MinePicked, SeqFacts

(* Gemini's calls, which have no ids.                                        *)
Raw == {p \in AllParts(Ids) : p.kind \in {"text", "tool_use"}}

(* A call of Gemini's that is given an id can be answered; its texts may be  *)
(* shown.                                                                    *)
LEMMA IdGiven ==
  ASSUME NEW p \in Raw, NEW id \in CallIds
  PROVE  /\ p.kind = "text" => p \in Shown
         /\ p.kind = "tool_use" => [p EXCEPT !.id = id] \in Shown /\ p.name \in Names
  <1>1. /\ p \in AllParts(Ids) /\ p.kind \in {"text", "tool_use"}
        /\ p \in [kind : Kinds, body : Seq(Symbols \cup {"hm"}), id : Ids, name : ToolNames]
    BY DEF Raw, AllParts
  <1>2. /\ p.kind # "thinking" /\ p.body \in Seq(Symbols)
        /\ p.kind = "tool_use" => p.name \in Names
    BY <1>1, PartFields
  <1>3. CASE p.kind = "text"
    <2>1. IsPart(CallIds, p)
      BY <1>1, <1>2, <1>3 DEF IsPart
    <2> QED
      BY <1>1, <1>2, <1>3, <2>1 DEF Shown, Mine, AllParts
  <1>4. CASE p.kind = "tool_use"
    <2> DEFINE q == [p EXCEPT !.id = id]
    <2>1. /\ q \in [kind : Kinds, body : Seq(Symbols \cup {"hm"}), id : Ids, name : ToolNames]
          /\ q.kind = p.kind /\ q.body = p.body /\ q.name = p.name /\ q.id = id
      BY <1>1 DEF Ids
    <2> HIDE DEF q
    <2>2. IsPart(CallIds, q)
      BY <1>2, <2>1 DEF IsPart
    <2>3. q \in Shown
      BY <1>2, <2>1, <2>2 DEF Shown, Mine, AllParts
    <2> QED
      BY <1>2, <1>4, <2>3 DEF q
  <1> QED
    BY <1>1, <1>3, <1>4

(* What clients get of an answer of Gemini's, whose calls are named or       *)
(* numbered by the proxy.                                                    *)
LEMMA GeminiType ==
  ASSUME NEW parts \in Seq(Raw), Len(parts) <= MaxCalls + 2
  PROVE  /\ GeminiRespToClaude(parts) \in Seq(Shown)
         /\ TextsOf(parts) \in Seq(Shown)
         /\ Numbered(CallsOf(parts)) \in Seq(Shown)
  <1>1. Raw \in SUBSET AllParts(Ids)
    BY DEF Raw
  <1>2. GeminiRespToClaude(parts) \in Seq(Shown)
    <2>1. Len(parts) \in Nat /\ DOMAIN parts = 1..Len(parts) /\ \A k \in DOMAIN parts : parts[k] \in Raw
      OBVIOUS
    <2>2. \A name \in Names : CallNamed(name) \in CallIds
      BY DEF CallIds
    <2>3. ASSUME NEW k \in DOMAIN parts
          PROVE  (IF parts[k].kind = "text" THEN parts[k]
                  ELSE [parts[k] EXCEPT !.id = CallNamed(parts[k].name)]) \in Shown
      <3>1. parts[k] \in Raw /\ parts[k].kind \in {"text", "tool_use"}
        BY <2>1 DEF Raw
      <3>2. parts[k].kind = "text" => parts[k] \in Shown
        <4>1. Id(0) \in CallIds
          BY BoundsAssumption DEF CallIds
        <4> QED
          BY <3>1, <4>1, IdGiven
      <3>3. parts[k].kind = "tool_use" => [parts[k] EXCEPT !.id = CallNamed(parts[k].name)] \in Shown
        <4>1. parts[k].kind = "tool_use" => parts[k].name \in Names
          BY <1>1, <3>1, PartFields
        <4> QED
          BY <2>2, <3>1, <4>1, IdGiven
      <3> QED
        BY <3>1, <3>2, <3>3
    <2>4. GeminiRespToClaude(parts) \in [1..Len(parts) -> Shown]
      BY <2>1, <2>3 DEF GeminiRespToClaude
    <2> QED
      BY <2>1, <2>4, FunctionSeq
  <1>3. TextsOf(parts) \in Seq(Shown)
    <2>1. {p \in Raw : p.kind = "text"} \subseteq Shown
      <3>1. Id(0) \in CallIds
        BY BoundsAssumption DEF CallIds
      <3> QED
        BY <3>1, IdGiven
    <2>2. TextsOf(parts) \in Seq({p \in Raw : p.kind = "text"})
      BY <1>1, TextsOfType
    <2> QED
      BY <2>1, <2>2, SubsetSeq
  <1>4. Numbered(CallsOf(parts)) \in Seq(Shown)
    <2> DEFINE calls == CallsOf(parts)
               C == {p \in Raw : p.kind = "tool_use"}
    <2>1. calls \in Seq(C) /\ Len(calls) <= Len(parts)
      BY <1>1, CallsOfType
    <2> HIDE DEF calls
    <2>2. Len(calls) \in Nat /\ DOMAIN calls = 1..Len(calls) /\ \A k \in DOMAIN calls : calls[k] \in C
      BY <2>1
    <2>3. ASSUME NEW k \in DOMAIN calls PROVE [calls[k] EXCEPT !.id = CounterId(k - 1)] \in Shown
      <3>1. k - 1 \in 0..MaxCalls + 1
        BY <2>1, <2>2, BoundsAssumption
      <3>2. CounterId(k - 1) \in CallIds
        BY <3>1 DEF CallIds
      <3> QED
        BY <2>2, <3>2, IdGiven
    <2>4. Numbered(calls) \in [1..Len(calls) -> Shown]
      BY <2>2, <2>3 DEF Numbered
    <2>5. Numbered(calls) \in Seq(Shown)
      BY <2>2, <2>4, FunctionSeq
    <2> QED
      BY <2>5 DEF calls
  <1> QED
    BY <1>2, <1>3, <1>4

(* What a client gets of an answer, thinking only if it is a Claude client.  *)
LEMMA WholeType ==
  ASSUME NEW from, NEW to \in {"claude", "chat", "responses"}, NEW parts,
         from # "gemini" => parts \in Seq(PartsOf(to)),
         from = "gemini" => parts \in Seq(Raw) /\ Len(parts) <= MaxCalls + 2
  PROVE  Whole(from, to, parts) \in Seq(PartsOf(to))
  <1>1. from # "gemini" => parts \in Seq(Mine)
    BY ShownIsMine DEF PartsOf
  <1>2. Seq(Shown) \subseteq Seq(PartsOf(to))
    BY ShownIsMine DEF PartsOf
  <1>3. CASE to = "claude" /\ from = "chat"
    <2>1. Whole(from, to, parts) = splitThinkTaggedText(Bodies(parts, "text")) \o CallsOf(parts)
      BY <1>3 DEF Whole, OpenAIRespToClaude
    <2>2. Bodies(parts, "text") \in Seq(Symbols)
      BY <1>1, <1>3, BodiesType DEF Mine
    <2>3. splitThinkTaggedText(Bodies(parts, "text")) \in Seq(Mine) /\ CallsOf(parts) \in Seq(Mine)
      BY <1>1, <1>3, <2>2, SplitType, MinePicked, ShownIsMine
    <2>4. PartsOf(to) = Mine
      BY <1>3 DEF PartsOf
    <2> QED
      BY <2>1, <2>3, <2>4, SeqFacts
  <1>4. CASE to = "claude" /\ from = "responses"
    <2> DEFINE seqs == [k \in DOMAIN parts |-> IF parts[k].kind = "text" THEN splitThinkTaggedText(parts[k].body)
                                               ELSE <<parts[k]>>]
               n == Len(parts)
    <2>1. Whole(from, to, parts) = FlattenSeq(seqs)
      BY <1>4 DEF Whole, OpenAI2RespToClaude
    <2>2. parts \in Seq(Mine)
      BY <1>1, <1>4
    <2>3. n \in Nat /\ DOMAIN parts = 1..n /\ \A k \in 1..n : parts[k] \in Mine
      BY <2>2
    <2>4. ASSUME NEW k \in 1..n
          PROVE  (IF parts[k].kind = "text" THEN splitThinkTaggedText(parts[k].body) ELSE <<parts[k]>>) \in Seq(Mine)
      <3>1. parts[k] \in Mine
        BY <2>3
      <3>2. parts[k].kind = "text" => parts[k].body \in Seq(Symbols)
        BY <3>1, PartFields DEF Mine
      <3> QED
        BY <3>1, <3>2, SplitType, SeqFacts
    <2>5. seqs \in [1..n -> Seq(Mine)]
      BY <2>3, <2>4
    <2> HIDE DEF seqs, n
    <2>6. FlattenSeq(seqs) \in Seq(Mine)
      BY <2>3, <2>5, FlattenType
    <2>7. PartsOf(to) = Mine
      BY <1>4 DEF PartsOf
    <2> QED
      BY <2>1, <2>6, <2>7
  <1>5. CASE from = "gemini"
    <2>1. /\ GeminiRespToClaude(parts) \in Seq(Shown)
          /\ TextsOf(parts) \in Seq(Shown)
          /\ Numbered(CallsOf(parts)) \in Seq(Shown)
      BY <1>5, GeminiType
    <2>2. TextsOf(parts) \o Numbered(CallsOf(parts)) \in Seq(Shown)
      BY <2>1, SeqFacts
    <2>3. TextThenCalls(TextsOf(parts) \o Numbered(CallsOf(parts))) \in Seq(Shown)
      BY <2>2, TextThenCallsType, ShownIsMine
    <2>4. \/ Whole(from, to, parts) = GeminiRespToClaude(parts)
          \/ Whole(from, to, parts) = TextThenCalls(TextsOf(parts) \o Numbered(CallsOf(parts)))
          \/ Whole(from, to, parts) = TextsOf(parts) \o Numbered(CallsOf(parts))
      BY <1>5 DEF Whole, GeminiRespToOpenAI, GeminiRespToOpenAI2
    <2> QED
      BY <1>2, <2>1, <2>2, <2>3, <2>4
  <1>6. CASE to # "claude" /\ from \in {"claude", "chat", "responses"} /\ from # to
    <2>1. parts \in Seq(Mine)
      BY <1>1, <1>6
    <2>2. TextThenCalls(parts) \in Seq(Shown)
      BY <2>1, TextThenCallsType
    <2>3. TextsOf(parts) \o CallsOf(parts) \in Seq(Shown)
      <3>1. TextsOf(parts) \in Seq({p \in Mine : p.kind = "text"})
        BY <2>1, TextsOfType DEF Mine
      <3>2. {p \in Mine : p.kind = "text"} \subseteq Shown
        BY DEF Shown
      <3>3. TextsOf(parts) \in Seq(Shown)
        BY <3>1, <3>2, SubsetSeq
      <3> QED
        BY <2>1, <3>3, MinePicked, SeqFacts
    <2>4. Whole(from, to, parts) = TextThenCalls(parts) \/ Whole(from, to, parts) = TextsOf(parts) \o CallsOf(parts)
      BY <1>6 DEF Whole, ClaudeRespToOpenAI, OpenAI2RespToOpenAI, ClaudeRespToOpenAI2, OpenAIRespToOpenAI2
    <2> QED
      BY <1>2, <2>2, <2>3, <2>4
  <1>7. CASE from = to \/ from \notin {"claude", "chat", "responses", "gemini"}
    <2>1. Whole(from, to, parts) = parts
      BY <1>7 DEF Whole
    <2> QED
      BY <1>7, <2>1
  <1>8. CASE to = "claude" /\ from = "claude"
    BY <1>7, <1>8
  <1> QED
    BY <1>3, <1>4, <1>5, <1>6, <1>7

(***************************************************************************)
(* The conversation keeps its invariant                                    *)
(***************************************************************************)
LEMMA WordsType ==
  ASSUME NEW turn \in 0..MaxTurns, NEW size \in Nat
  PROVE  TextOf(turn, size) \in Shown
  <1> DEFINE body == [k \in 1..size |-> Word(turn)]
  <1>1. Word(turn) \in Symbols
    BY DEF Symbols
  <1>2. body \in [1..size -> Symbols]
    BY <1>1
  <1>3. TextOf(turn, size) = TextPart(body)
    BY DEF TextOf
  <1> HIDE DEF body
  <1>4. body \in Seq(Symbols)
    BY <1>2, FunctionSeq
  <1> QED
    BY <1>3, <1>4, TextPartShown

(* The turn that is on is the last one, and none is later.                   *)
LEMMA TurnsLast ==
  ASSUME ConversationInvariant
  PROVE  /\ Turns \in 0..MaxTurns
         /\ \A k \in DOMAIN conv : conv[k].turn <= Turns
  <1>1. CASE conv = <<>>
    <2>1. Turns = 0
      BY <1>1 DEF Turns
    <2>2. DOMAIN conv = {}
      BY <1>1
    <2> QED
      BY <2>1, <2>2, BoundsAssumption
  <1>2. CASE conv # <<>>
    <2> DEFINE P == PartsOf(client.dialect)
               n == Len(conv)
    <2>1. conv \in Seq(Utterances(P))
      BY DEF ConversationInvariant
    <2> HIDE DEF P
    <2>2. n \in Nat /\ n >= 1 /\ DOMAIN conv = 1..n /\ n \in DOMAIN conv /\ conv[n] \in Utterances(P)
      BY <1>2, <2>1
    <2>3. Turns = conv[n].turn
      BY <1>2 DEF Turns, Last
    <2>4. \A k \in DOMAIN conv : k <= n
      BY <2>2
    <2>5. \A k \in DOMAIN conv : conv[k].turn <= conv[n].turn
      BY <2>2, <2>4 DEF ConversationInvariant, InOrder
    <2>6. conv[n].turn \in 0..MaxTurns
      BY <2>2 DEF Utterances
    <2> QED
      BY <2>3, <2>5, <2>6
  <1> QED
    BY <1>1, <1>2

(* Whoever speaks next, in the client's dialect, speaks after all the others.*)
LEMMA SaysKeeps ==
  ASSUME ConversationInvariant, Turns < MaxTurns, NEW by \in Speakers,
         NEW parts \in Seq(PartsOf(client.dialect)), Says(by, parts),
         client' = client, upstream' \in Upstreams \cup {Nobody}
  PROVE  ConversationInvariant'
  <1> DEFINE P == PartsOf(client.dialect)
             more == [k \in DOMAIN parts |-> Utterance(by, Turns + 1, parts[k])]
             n == Len(conv)
             m == Len(parts)
             turn == Turns + 1
  <1>1. /\ conv \in Seq(Utterances(P)) /\ parts \in Seq(P)
        /\ n \in Nat /\ DOMAIN conv = 1..n /\ m \in Nat /\ DOMAIN parts = 1..m
    BY DEF ConversationInvariant
  <1>2. turn \in 0..MaxTurns /\ \A k \in 1..n : conv[k].turn < turn
    <2>1. \A k \in 1..n : conv[k] \in Utterances(P)
      BY <1>1
    <2>2. \A k \in 1..n : conv[k].turn \in 0..MaxTurns
      BY <2>1 DEF Utterances
    <2>3. Turns \in 0..MaxTurns /\ \A k \in 1..n : conv[k].turn <= Turns
      BY <1>1, TurnsLast
    <2> HIDE DEF n
    <2> QED
      BY <2>2, <2>3, BoundsAssumption
  <1>3. client'.dialect = client.dialect
    OBVIOUS
  <1>4. conv' = conv \o more
    BY DEF Says
  <1> HIDE DEF turn
  <1>5. \A k \in 1..m : more[k] = Utterance(by, turn, parts[k])
    BY <1>1 DEF turn
  <1>6. \A k \in 1..m : more[k] \in Utterances(P) /\ more[k].turn = turn /\ more[k].by = by
    <2>1. \A k \in 1..m : parts[k] \in P
      BY <1>1
    <2> HIDE DEF more, P, m
    <2>2. ASSUME NEW part \in P
          PROVE  /\ Utterance(by, turn, part) \in Utterances(P)
                 /\ Utterance(by, turn, part).turn = turn
                 /\ Utterance(by, turn, part).by = by
      BY <1>2 DEF Utterance, Utterances
    <2> HIDE DEF Utterance
    <2> QED
      BY <1>5, <2>1, <2>2
  <1>7. DOMAIN more = 1..m
    BY <1>1
  <1> HIDE DEF more, P, m
  <1>8. more \in Seq(Utterances(P)) /\ Len(more) = m
    <2>1. more \in [1..m -> Utterances(P)]
      <3>1. more = [k \in 1..m |-> more[k]]
        BY <1>1, <1>7 DEF more
      <3> QED
        BY <1>6, <3>1
    <2> QED
      BY <1>1, <1>7, <2>1
  <1>9. conv' \in Seq(Utterances(P))
    BY <1>1, <1>4, <1>8, SeqFacts
  <1>10. /\ DOMAIN conv' = 1..n + m
         /\ \A k \in 1..n + m : IF k <= n THEN conv'[k] = conv[k] ELSE k - n \in 1..m /\ conv'[k] = more[k - n]
    BY <1>1, <1>4, <1>8
  <1> HIDE DEF n
  <1>11. \A k \in 1..n + m : IF k <= n THEN k \in 1..n /\ conv'[k] = conv[k]
                             ELSE conv'[k].turn = turn /\ conv'[k].by = by
    BY <1>1, <1>6, <1>10
  <1>12. InOrder'
    <2>1. ASSUME NEW j \in 1..n + m, NEW k \in 1..n + m, j <= k PROVE conv'[j].turn <= conv'[k].turn
      <3>1. CASE k <= n
        <4>1. j <= n
          BY <1>1, <2>1, <3>1
        <4>2. j \in 1..n /\ k \in 1..n /\ conv'[j] = conv[j] /\ conv'[k] = conv[k]
          BY <1>11, <3>1, <4>1
        <4>3. conv[j].turn <= conv[k].turn
          BY <1>1, <2>1, <4>2 DEF ConversationInvariant, InOrder
        <4> QED
          BY <4>2, <4>3
      <3>2. CASE ~(k <= n) /\ j <= n
        <4>1. j \in 1..n /\ conv'[j] = conv[j] /\ conv'[k].turn = turn
          BY <1>11, <3>2
        <4>2. conv[j].turn < turn /\ conv[j].turn \in 0..MaxTurns
          <5>1. conv[j] \in Utterances(P)
            BY <1>1, <4>1
          <5>2. conv[j].turn \in 0..MaxTurns
            BY <5>1 DEF Utterances
          <5> QED
            BY <1>2, <4>1, <5>2
        <4>3. conv[j].turn <= turn
          BY <1>2, <4>2, BoundsAssumption
        <4> QED
          BY <4>1, <4>3
      <3>3. CASE ~(k <= n) /\ ~(j <= n)
        <4>1. conv'[j].turn = turn /\ conv'[k].turn = turn
          BY <1>11, <3>3
        <4> QED
          BY <1>2, <4>1, BoundsAssumption
      <3> QED
        BY <3>1, <3>2, <3>3
    <2> QED
      BY <1>10, <2>1 DEF InOrder
  <1>13. OneSpeaker'
    <2>1. ASSUME NEW j \in 1..n + m, NEW k \in 1..n + m, conv'[j].turn = conv'[k].turn
          PROVE  conv'[j].by = conv'[k].by
      <3>1. \A i \in 1..n : conv[i].turn # turn
        <4>1. ASSUME NEW i \in 1..n PROVE conv[i].turn # turn
          <5>1. conv[i] \in Utterances(P)
            BY <1>1
          <5>2. conv[i].turn \in 0..MaxTurns
            BY <5>1 DEF Utterances
          <5> QED
            BY <1>2, <5>2, BoundsAssumption
        <4> QED
          BY <4>1
      <3>2. CASE j <= n /\ k <= n
        <4>1. j \in 1..n /\ k \in 1..n /\ conv'[j] = conv[j] /\ conv'[k] = conv[k]
          BY <1>11, <3>2
        <4> QED
          BY <1>1, <2>1, <4>1 DEF ConversationInvariant, OneSpeaker
      <3>3. CASE ~(j <= n) /\ ~(k <= n)
        BY <1>11, <3>3
      <3>4. CASE j <= n /\ ~(k <= n)
        BY <1>11, <2>1, <3>1, <3>4
      <3>5. CASE ~(j <= n) /\ k <= n
        BY <1>11, <2>1, <3>1, <3>5
      <3> QED
        BY <3>2, <3>3, <3>4, <3>5
    <2> QED
      BY <1>10, <2>1 DEF OneSpeaker
  <1>14. upstream' \in Upstreams \cup {Nobody} /\ client' \in [dialect : Clients, plain : BOOLEAN]
    BY DEF ConversationInvariant
  <1>15. conv' \in Seq(Utterances(PartsOf(client'.dialect)))
    BY <1>3, <1>9 DEF P
  <1> QED
    BY <1>12, <1>13, <1>14, <1>15 DEF ConversationInvariant, Nobody

(* Conversations begin with a system prompt, or with nothing.                *)
LEMMA ConversationStarts == Init => ConversationInvariant
  <1>1. SUFFICES ASSUME Init PROVE ConversationInvariant
    OBVIOUS
  <1>2. PICK dialect \in Clients, plain \in BOOLEAN :
          client = [dialect |-> dialect, plain |-> plain]
    BY Zenon, <1>1 DEF Init
  <1>3. upstream = Nobody
    BY Zenon, <1>1 DEF Init, Nobody
  <1>4. conv = <<>> \/ \E by \in {"system", "developer"} : conv = <<Utterance(by, 0, TextOf(0, 1))>>
    <2>1. PICK by \in {Nobody, "system", "developer"} :
            conv = IF by = Nobody THEN <<>> ELSE <<Utterance(by, 0, TextOf(0, 1))>>
      BY Zenon, <1>1 DEF Init, Nobody
    <2> QED
      BY Zenon, <2>1
  <1> DEFINE P == PartsOf(client.dialect)
  <1>5. client \in [dialect : Clients, plain : BOOLEAN]
    BY <1>2
  <1>6. CASE conv = <<>>
    <2>1. DOMAIN conv = {} /\ conv \in Seq(Utterances(P))
      BY <1>6
    <2> QED
      BY <1>3, <1>5, <2>1 DEF ConversationInvariant, InOrder, OneSpeaker
  <1>7. ASSUME NEW by \in {"system", "developer"}, conv = <<Utterance(by, 0, TextOf(0, 1))>>
        PROVE  ConversationInvariant
    <2> DEFINE u == Utterance(by, 0, TextOf(0, 1))
               text == TextOf(0, 1)
    <2>1. text \in P
      BY WordsType, BoundsAssumption, ShownIsMine DEF PartsOf
    <2> HIDE DEF text, P
    <2>2. Utterance(by, 0, text) \in Utterances(P)
      BY <2>1, BoundsAssumption DEF Utterance, Utterances, Speakers
    <2>3. u \in Utterances(P)
      BY <2>2 DEF text
    <2>4. conv = <<u>>
      BY <1>7
    <2> HIDE DEF u
    <2>5. conv \in Seq(Utterances(P)) /\ DOMAIN conv = {1}
      BY <2>3, <2>4
    <2>6. conv[1].turn \in 0..MaxTurns
      BY <2>3, <2>4 DEF Utterances
    <2>7. InOrder /\ OneSpeaker
      BY <2>5, <2>6, BoundsAssumption DEF InOrder, OneSpeaker
    <2> QED
      BY <1>3, <1>5, <2>5, <2>7 DEF ConversationInvariant, P
  <1> QED
    BY <1>4, <1>6, <1>7

(* The parts of some utterances.                                             *)
LEMMA PartsSaid ==
  ASSUME NEW P, NEW us \in Seq(Utterances(P))
  PROVE  [k \in DOMAIN us |-> us[k].part] \in Seq(P)
  <1>1. Len(us) \in Nat /\ DOMAIN us = 1..Len(us) /\ \A k \in 1..Len(us) : us[k] \in Utterances(P)
    OBVIOUS
  <1>2. \A u \in Utterances(P) : u.part \in P
    BY DEF Utterances
  <1>3. [k \in DOMAIN us |-> us[k].part] \in [1..Len(us) -> P]
    BY <1>1, <1>2
  <1> QED
    BY <1>1, <1>3, FunctionSeq

(* The next request is of the invariant, whatever the user says in it.       *)
LEMMA RequestsKeep ==
  ASSUME ConversationInvariant, NEW parts \in Seq(PartsOf(client.dialect)), Requests(parts)
  PROVE  ConversationInvariant'
  <1>1. Turns < MaxTurns /\ upstream' \in Endpoints /\ Says("user", parts) /\ client' = client
    BY DEF Requests
  <1>2. upstream' \in Upstreams \cup {Nobody}
    BY <1>1 DEF Endpoints
  <1>3. "user" \in Speakers
    BY DEF Speakers
  <1> HIDE DEF ConversationInvariant
  <1> QED
    BY <1>1, <1>2, <1>3, SaysKeeps

(* The text of the next turn.                                                *)
LEMMA WordSaid ==
  ASSUME ConversationInvariant, Turns < MaxTurns, NEW size \in Nat
  PROVE  TextOf(Turns + 1, size) \in Shown /\ <<TextOf(Turns + 1, size)>> \in Seq(Shown)
  <1> DEFINE turn == Turns + 1
  <1>1. turn \in 0..MaxTurns
    <2>1. Turns \in 0..MaxTurns
      BY TurnsLast
    <2> QED
      BY <2>1, BoundsAssumption
  <1> HIDE DEF turn
  <1>2. TextOf(turn, size) \in Shown
    BY <1>1, WordsType
  <1>3. <<TextOf(turn, size)>> \in Seq(Shown)
    BY <1>2, SeqFacts
  <1> QED
    BY <1>2, <1>3 DEF turn

(* The user says something, and the client asks.                             *)
LEMMA UserSaysKeeps ==
  ASSUME ConversationInvariant, UserSays
  PROVE  ConversationInvariant'
  <1>0. PICK size \in Sizes : \E parts \in Questions(Turns + 1, size) : Requests(parts)
    BY DEF UserSays
  <1>1. PICK parts \in Questions(Turns + 1, size) : Requests(parts)
    BY <1>0
  <1>2. size \in Nat /\ Turns < MaxTurns
    BY <1>1, BoundsAssumption DEF Requests
  <1> DEFINE text == TextOf(Turns + 1, size)
  <1>3. text \in Shown
    BY <1>2, WordSaid
  <1>4. parts \in {<<text>>, <<Marked(text)>>, <<Reminder, text>>}
    BY <1>1 DEF Questions
  <1> HIDE DEF text
  <1>5. <<Marker>> \in Seq(Symbols) /\ text.body \in Seq(Symbols)
    BY <1>3, ShownFields DEF Symbols
  <1>6. Reminder \in Shown /\ Marked(text) \in Shown
    BY <1>5, SeqFacts, TextPartShown DEF Reminder, Marked
  <1>7. parts \in Seq(Shown)
    <2>1. \A p, q \in Shown : <<p>> \in Seq(Shown) /\ <<p, q>> \in Seq(Shown)
      BY SeqFacts
    <2> QED
      BY <1>3, <1>4, <1>6, <2>1
  <1>8. parts \in Seq(PartsOf(client.dialect))
    BY <1>7, ShownIsMine DEF PartsOf
  <1> QED
    BY <1>1, <1>8, RequestsKeep

(* The calls that wait for their results are calls with ids and names.       *)
LEMMA PendingType ==
  ASSUME ConversationInvariant
  PROVE  Pending \in Seq({p \in Mine : p.kind = "tool_use"})
  <1> DEFINE C == {p \in Mine : p.kind = "tool_use"}
             P == PartsOf(client.dialect)
             last == [k \in DOMAIN LastTurn |-> LastTurn[k].part]
             places == {i \in DOMAIN conv : conv[i].turn = Turns}
  <1>1. conv \in Seq(Utterances(P)) /\ P \subseteq Mine
    BY ShownIsMine DEF ConversationInvariant, PartsOf
  <1>2. LastTurn = Taken(conv, places)
    BY DEF LastTurn, Only
  <1> HIDE DEF P, places
  <1>3. \A i \in DOMAIN conv : conv[i] \in Utterances(P)
    BY <1>1
  <1>4. LastTurn \in Seq(Utterances(P))
    BY <1>1, <1>2, <1>3, Selection
  <1>5. last \in Seq(P)
    BY <1>4, PartsSaid
  <1>6. Pending = <<>> \/ Pending = CallsOf(last)
    BY DEF Pending
  <1> HIDE DEF last
  <1>7. last \in Seq(Mine)
    BY <1>1, <1>5, SubsetSeq
  <1>8. CallsOf(last) \in Seq(C)
    BY <1>7, CallsOfType DEF Mine
  <1> HIDE DEF C
  <1>9. Pending \in Seq(C)
    BY <1>6, <1>8, SeqFacts
  <1> QED
    BY <1>9 DEF C

(* The results come back, in either order, maybe with a word.                *)
LEMMA ToolsReturnKeeps ==
  ASSUME ConversationInvariant, ToolsReturn
  PROVE  ConversationInvariant'
  <1> DEFINE n == Len(Pending)
             result(k) == Part("result", <<"r">>, Pending[k].id, Pending[k].name)
             results(turned) == [k \in 1..n |-> result(IF turned THEN n + 1 - k ELSE k)]
             words(word) == IF word THEN <<TextOf(Turns + 1, 1)>> ELSE <<>>
  <1>1. PICK turned \in BOOLEAN, word \in BOOLEAN : Requests(results(turned) \o words(word))
    BY DEF ToolsReturn
  <1>2. Turns < MaxTurns
    BY <1>1 DEF Requests
  <1>3. /\ n \in Nat /\ DOMAIN Pending = 1..n
        /\ \A k \in 1..n : Pending[k] \in Mine /\ Pending[k].kind = "tool_use"
    BY PendingType
  <1>4. ASSUME NEW k \in 1..n PROVE result(k) \in Shown
    <2> DEFINE id == Pending[k].id
               name == Pending[k].name
               body == <<"r">>
    <2>1. id \in Ids /\ name \in ToolNames
      BY <1>3, PartFields DEF Mine
    <2>2. body \in Seq(Symbols)
      BY DEF Symbols
    <2> HIDE DEF id, name, body
    <2>3. Part("result", body, id, name) \in Shown
      BY <2>1, <2>2, ShownPart DEF Kinds
    <2> QED
      BY <2>3 DEF id, name, body
  <1> HIDE DEF result, n
  <1>5. results(turned) \in Seq(Shown)
    <2>1. \A k \in 1..n : (IF turned THEN n + 1 - k ELSE k) \in 1..n
      BY <1>3
    <2>2. results(turned) \in [1..n -> Shown]
      BY <1>4, <2>1
    <2> QED
      BY <1>3, <2>2, FunctionSeq
  <1>6. words(word) \in Seq(Shown)
    BY <1>2, WordSaid, SeqFacts
  <1> DEFINE parts == results(turned) \o words(word)
  <1> HIDE DEF results, words
  <1>7. parts \in Seq(Shown)
    BY <1>5, <1>6, SeqFacts
  <1> HIDE DEF parts
  <1>8. parts \in Seq(PartsOf(client.dialect))
    BY <1>7, ShownIsMine DEF PartsOf
  <1>9. Requests(parts)
    BY <1>1 DEF parts
  <1> QED
    BY <1>8, <1>9, RequestsKeep

(* Calls are given the ids that are next.                                    *)
LEMMA CallsSaid ==
  ASSUME ConversationInvariant
  PROVE  /\ Len(CallsOf(Parts)) \in Nat
         /\ \A k \in Nat : Len(CallsOf(Parts)) + k <= MaxCalls + 1 => FreshId(k) \in CallIds
  <1> DEFINE P == PartsOf(client.dialect)
             n == Len(CallsOf(Parts))
  <1>1. conv \in Seq(Utterances(P)) /\ P \subseteq Mine
    BY ShownIsMine DEF ConversationInvariant, PartsOf
  <1> HIDE DEF P
  <1>2. Parts \in Seq(Mine)
    <2>1. Parts \in Seq(P)
      BY <1>1, PartsSaid DEF Parts
    <2> HIDE DEF Parts
    <2> QED
      BY <1>1, <2>1, SubsetSeq
  <1>3. CallsOf(Parts) \in Seq(Shown)
    BY <1>2, MinePicked
  <1>4. n \in Nat
    <2>1. \A s \in Seq(Shown) : Len(s) \in Nat
      OBVIOUS
    <2> QED
      BY <1>3, <2>1
  <1>5. ASSUME NEW k \in Nat, n + k <= MaxCalls + 1 PROVE FreshId(k) \in CallIds
    <2>1. n + k \in 0..MaxCalls + 1
      BY <1>4, <1>5, BoundsAssumption
    <2> HIDE DEF n
    <2>2. Id(n + k) \in CallIds
      BY <2>1 DEF CallIds
    <2> QED
      BY <2>2 DEF FreshId, n
  <1> QED
    BY <1>4, <1>5

(* An answer in any upstream's dialect comes back in the client's: a call    *)
(* has an id by then, though Gemini gives none, and thinking is only said to *)
(* those who have a word for it.                                             *)
LEMMA AnswersKeep ==
  ASSUME ConversationInvariant, Answers
  PROVE  ConversationInvariant'
  <1> DEFINE id(k) == IF To("gemini") THEN "" ELSE FreshId(k)
             calls(n, names) == [k \in 1..n |-> Part("tool_use", <<"a">>, id(k), names[k])]
             thought(thinks) == IF thinks THEN <<Thought>> ELSE <<>>
             spoken(speaks) == IF speaks THEN <<TextOf(Turns + 1, 1)>> ELSE <<>>
             said(thinks, speaks, n, names) == thought(thinks) \o spoken(speaks) \o calls(n, names)
             N == Len(CallsOf(Parts))
             P == PartsOf(client.dialect)
  <1>0. PICK thinks \in BOOLEAN, speaks \in BOOLEAN, n \in 0..MaxCalls - N : \E names \in [1..n -> Names] :
          /\ Asks /\ Turns < MaxTurns
          /\ thinks => To("claude") /\ client.dialect = "claude"
          /\ Says("assistant", Remembered(said(thinks, speaks, n, names)))
          /\ upstream' = ""
          /\ client' = client
    BY Zenon DEF Answers
  <1>1. PICK names \in [1..n -> Names] :
          /\ Asks /\ Turns < MaxTurns
          /\ thinks => To("claude") /\ client.dialect = "claude"
          /\ Says("assistant", Remembered(said(thinks, speaks, n, names)))
          /\ upstream' = ""
          /\ client' = client
    BY Zenon, <1>0
  <1>2. N \in Nat /\ n \in Nat /\ n + N <= MaxCalls
    <2>1. N \in Nat
      BY CallsSaid
    <2> HIDE DEF N
    <2> QED
      BY <2>1, BoundsAssumption
  <1>3. upstream' = Nobody
    BY Zenon, <1>1 DEF Nobody
  <1>4. \A k \in 1..n : FreshId(k) \in CallIds
    <2>1. \A k \in Nat : N + k <= MaxCalls + 1 => FreshId(k) \in CallIds
      BY CallsSaid
    <2> HIDE DEF N
    <2>2. \A k \in 1..n : k \in Nat /\ N + k <= MaxCalls + 1
      BY <1>2, BoundsAssumption
    <2> QED
      BY <2>1, <2>2
  <1>5. \A k \in 1..n : names[k] \in Names
    OBVIOUS
  <1> HIDE DEF N
  <1>6. spoken(speaks) \in Seq(Shown) /\ Len(spoken(speaks)) <= 1
    <2>1. <<TextOf(Turns + 1, 1)>> \in Seq(Shown)
      BY <1>1, WordSaid
    <2> QED
      BY <2>1, SeqFacts
  <1> DEFINE heard == said(thinks, speaks, n, names)
  <1>7. upstream # "gemini" => heard \in Seq(P)
    <2>1. SUFFICES ASSUME upstream # "gemini" PROVE heard \in Seq(P)
      OBVIOUS
    <2>2. \A k \in 1..n : id(k) = FreshId(k)
      BY Zenon, <2>1 DEF To
    <2>3. ASSUME NEW k \in 1..n PROVE Part("tool_use", <<"a">>, id(k), names[k]) \in Shown
      <3> DEFINE body == <<"a">>
                 i == id(k)
                 name == names[k]
      <3>1. i \in CallIds
        BY Zenon, <1>4, <2>2
      <3>2. body \in Seq(Symbols)
        BY DEF Symbols
      <3>3. name \in Names
        BY <1>5
      <3> HIDE DEF body, i, name
      <3>4. i \in Ids /\ name \in ToolNames /\ "tool_use" \in Kinds /\ "tool_use" # "thinking"
        BY <3>1, <3>3 DEF Ids, ToolNames, Kinds
      <3>5. Part("tool_use", body, i, name) \in Shown
        BY <3>1, <3>2, <3>3, <3>4, ShownPart
      <3> QED
        BY <3>5 DEF body, i, name
    <2> HIDE DEF id
    <2>4. calls(n, names) \in Seq(Shown)
      <3>1. calls(n, names) \in [1..n -> Shown]
        BY <2>3
      <3> QED
        BY <1>2, <3>1, FunctionSeq
    <2>5. spoken(speaks) \in Seq(P) /\ calls(n, names) \in Seq(P)
      BY <1>6, <2>4, ShownIsMine DEF PartsOf
    <2>6. thought(thinks) \in Seq(P)
      <3>1. Thought \in Mine
        <4> DEFINE body == <<"hm">>
        <4>1. body \in Seq(Symbols \cup {"hm"})
          OBVIOUS
        <4> HIDE DEF body
        <4>2. LET p == [kind |-> "thinking", body |-> body, id |-> NoId, name |-> NoId] IN p \in Mine
          BY <4>1 DEF Mine, AllParts, IsPart, Kinds, Ids, ToolNames
        <4>3. Thought = [kind |-> "thinking", body |-> body, id |-> NoId, name |-> NoId]
          BY Zenon DEF Thought, Part, NoId, body
        <4> QED
          BY Zenon, <4>2, <4>3
      <3>2. thinks => P = Mine
        BY <1>1 DEF PartsOf
      <3> HIDE DEF P
      <3>3. thinks => <<Thought>> \in Seq(P)
        BY <3>1, <3>2, SeqFacts
      <3> QED
        BY <3>3, SeqFacts
    <2> HIDE DEF thought, spoken, calls, P
    <2> QED
      BY <2>5, <2>6, SeqFacts
  <1>8. upstream = "gemini" => heard \in Seq(Raw) /\ Len(heard) <= MaxCalls + 2
    <2>1. SUFFICES ASSUME upstream = "gemini" PROVE heard \in Seq(Raw) /\ Len(heard) <= MaxCalls + 2
      OBVIOUS
    <2>2. \A k \in 1..n : id(k) = NoId
      BY Zenon, <2>1 DEF To, NoId
    <2>3. ASSUME NEW k \in 1..n PROVE Part("tool_use", <<"a">>, id(k), names[k]) \in Raw
      <3> DEFINE body == <<"a">>
                 i == id(k)
                 name == names[k]
      <3>1. i = NoId
        BY Zenon, <2>2
      <3>2. body \in Seq(Symbols)
        BY DEF Symbols
      <3>3. name \in Names
        BY <1>5
      <3> HIDE DEF body, i, name
      <3>4. i \in Ids /\ name \in ToolNames /\ "tool_use" \in Kinds /\ Ids \in SUBSET Ids
        BY <3>1, <3>3 DEF Ids, ToolNames, Kinds
      <3>5. Part("tool_use", body, i, name) \in AllParts(Ids)
        BY <3>2, <3>3, <3>4, PartType
      <3>6. Part("tool_use", body, i, name).kind = "tool_use"
        BY DEF Part
      <3>7. Part("tool_use", body, i, name) \in Raw
        BY <3>5, <3>6 DEF Raw
      <3> QED
        BY <3>7 DEF body, i, name
    <2> HIDE DEF id
    <2>4. calls(n, names) \in Seq(Raw) /\ Len(calls(n, names)) = n
      <3>1. calls(n, names) \in [1..n -> Raw]
        BY <2>3
      <3>2. Len(calls(n, names)) = n
        BY <1>2
      <3> QED
        BY <1>2, <3>1, <3>2, FunctionSeq
    <2>5. spoken(speaks) \in Seq(Raw)
      <3>1. TextOf(Turns + 1, 1) \in Shown /\ TextOf(Turns + 1, 1).kind = "text"
        BY <1>1, WordSaid DEF TextOf, TextPart, Part
      <3>2. Shown \subseteq AllParts(Ids)
        BY DEF Shown, Mine, AllParts, IsPart, Ids
      <3>3. TextOf(Turns + 1, 1) \in Raw
        BY <3>1, <3>2 DEF Raw
      <3> QED
        BY <3>3, SeqFacts
    <2>6. thought(thinks) = <<>>
      BY <1>1, <2>1 DEF To
    <2> DEFINE a == spoken(speaks)
               b == calls(n, names)
    <2>7. heard = <<>> \o a \o b
      BY <2>6
    <2> HIDE DEF spoken, calls, thought, heard, a, b
    <2>8. a \in Seq(Raw) /\ b \in Seq(Raw) /\ Len(a) <= 1 /\ Len(b) = n
      BY <1>6, <2>4, <2>5 DEF a, b
    <2> HIDE DEF Raw
    <2>9. <<>> \o a \o b \in Seq(Raw) /\ Len(<<>> \o a \o b) <= n + 1
      BY <1>2, <2>8
    <2> QED
      BY <1>2, <2>7, <2>9, BoundsAssumption
  <1> HIDE DEF heard
  <1>9. client.dialect \in {"claude", "chat", "responses"}
    BY RequestType
  <1>10. Remembered(heard) \in Seq(P)
    <2> DEFINE whole == Whole(upstream, client.dialect, heard)
               places == {i \in DOMAIN whole : whole[i].kind = "tool_use" \/ whole[i].body # <<>>}
    <2>1. whole \in Seq(P)
      BY <1>7, <1>8, <1>9, WholeType
    <2>2. Remembered(heard) = Taken(whole, places)
      BY DEF Remembered, Only
    <2> HIDE DEF whole, P, places
    <2>3. \A i \in DOMAIN whole : whole[i] \in P
      BY <2>1
    <2> QED
      BY <2>1, <2>2, <2>3, Selection
  <1>11. Says("assistant", Remembered(heard))
    BY Zenon, <1>1 DEF heard
  <1>12. "assistant" \in Speakers /\ client' = client /\ Turns < MaxTurns
    BY <1>1 DEF Speakers
  <1>13. upstream' \in Upstreams \cup {Nobody}
    BY <1>3
  <1> HIDE DEF ConversationInvariant
  <1> QED
    BY <1>10, <1>11, <1>12, <1>13, SaysKeeps

(* An answer is stopped in a call.                                           *)
LEMMA UserInterruptsKeeps ==
  ASSUME ConversationInvariant, UserInterrupts
  PROVE  ConversationInvariant'
  <1> DEFINE call(name) == Part("tool_use", <<>>, FreshId(1), name)
             spoken(speaks) == IF speaks THEN <<TextOf(Turns + 1, 1)>> ELSE <<>>
             P == PartsOf(client.dialect)
  <1>1. PICK name \in Names, speaks \in BOOLEAN :
          /\ Turns < MaxTurns /\ Len(CallsOf(Parts)) <= MaxCalls
          /\ Says("assistant", spoken(speaks) \o <<call(name)>>)
          /\ upstream' \in Endpoints
          /\ client' = client
    BY DEF UserInterrupts
  <1>2. FreshId(1) \in CallIds
    <2> DEFINE n == Len(CallsOf(Parts))
    <2>1. n \in Nat /\ n <= MaxCalls
      BY <1>1, CallsSaid
    <2> HIDE DEF n
    <2>2. 1 \in Nat /\ n + 1 <= MaxCalls + 1
      BY <2>1, BoundsAssumption
    <2> QED
      BY <2>2, CallsSaid DEF n
  <1>3. call(name) \in Shown
    <2> DEFINE i == FreshId(1)
    <2>1. i \in CallIds /\ i \in Ids /\ name \in ToolNames /\ "tool_use" \in Kinds /\ "tool_use" # "thinking"
      BY <1>2 DEF Ids, ToolNames, Kinds
    <2> HIDE DEF i
    <2>2. Part("tool_use", <<>>, i, name) \in Shown
      BY <2>1, ShownPart, SeqFacts
    <2> QED
      BY <2>2 DEF i
  <1>4. spoken(speaks) \in Seq(Shown)
    BY <1>1, WordSaid, SeqFacts
  <1> DEFINE parts == spoken(speaks) \o <<call(name)>>
  <1> HIDE DEF spoken, call
  <1>5. parts \in Seq(Shown)
    BY <1>3, <1>4, SeqFacts
  <1> HIDE DEF parts
  <1>6. parts \in Seq(PartsOf(client.dialect))
    BY <1>5, ShownIsMine DEF PartsOf
  <1>7. Says("assistant", parts) /\ client' = client /\ Turns < MaxTurns
    BY <1>1 DEF parts
  <1>8. "assistant" \in Speakers /\ upstream' \in Upstreams \cup {Nobody}
    BY <1>1 DEF Speakers, Endpoints
  <1> HIDE DEF ConversationInvariant
  <1> QED
    BY <1>6, <1>7, <1>8, SaysKeeps

(* Every step keeps the invariant.                                           *)
LEMMA InvariantStep == ConversationInvariant /\ [Next]_vars => ConversationInvariant'
  <1> SUFFICES ASSUME ConversationInvariant, [Next]_vars PROVE ConversationInvariant'
    OBVIOUS
  <1>1. CASE UserSays
    BY <1>1, UserSaysKeeps
  <1>2. CASE ToolsReturn
    BY <1>2, ToolsReturnKeeps
  <1>3. CASE Answers
    BY <1>3, AnswersKeep
  <1>4. CASE UserInterrupts
    BY <1>4, UserInterruptsKeeps
  <1>5. CASE UNCHANGED vars
    BY <1>5 DEF vars, ConversationInvariant, InOrder, OneSpeaker
  <1> QED
    BY <1>1, <1>2, <1>3, <1>4, <1>5 DEF Next

(* The type invariant is part of it.                                         *)
LEMMA Typed == ConversationInvariant => TypeOK
  <1> SUFFICES ASSUME ConversationInvariant PROVE TypeOK
    OBVIOUS
  <1> DEFINE P == PartsOf(client.dialect)
  <1>1. client \in [dialect : Clients, plain : BOOLEAN]
    BY DEF ConversationInvariant
  <1>2. upstream \in Upstreams \cup {""}
    <2>1. upstream \in Upstreams \cup {Nobody}
      BY DEF ConversationInvariant
    <2> QED
      BY Zenon, <2>1 DEF Nobody
  <1>3. Turns \in 0..MaxTurns
    BY TurnsLast
  <1>4. ASSUME NEW k \in DOMAIN conv
        PROVE  /\ conv[k].by \in {"system", "developer", "user", "assistant"}
               /\ conv[k].part.kind \in {"text", "thinking", "tool_use", "result"}
               /\ conv[k].part.kind = "tool_use" => conv[k].part.id # ""
               /\ conv[k].part.kind = "thinking" => client.dialect = "claude"
               /\ k > 1 => conv[k - 1].turn <= conv[k].turn
    <2>1. conv \in Seq(Utterances(P))
      BY DEF ConversationInvariant
    <2> HIDE DEF P
    <2>2. conv[k] \in Utterances(P)
      BY <2>1
    <2>3. conv[k].by \in Speakers /\ conv[k].part \in P
      BY <2>2 DEF Utterances
    <2>4. conv[k].part \in Mine /\ (client.dialect # "claude" => conv[k].part \in Shown)
      BY <2>3, ShownIsMine DEF P, PartsOf
    <2>5. conv[k].part.kind \in Kinds /\ (conv[k].part.kind = "tool_use" => conv[k].part.id \in CallIds)
      BY <2>4, PartFields DEF Mine
    <2>6. conv[k].part.kind = "tool_use" => conv[k].part.id # ""
      <3>1. NoId \notin CallIds
        BY SymbolFacts
      <3> QED
        BY Zenon, <2>5, <3>1 DEF NoId
    <2>7. conv[k].part.kind = "thinking" => client.dialect = "claude"
      BY <2>4, ShownFields
    <2>8. k > 1 => conv[k - 1].turn <= conv[k].turn
      <3>1. k > 1 => k - 1 \in DOMAIN conv /\ k - 1 <= k
        BY <2>1
      <3> QED
        BY <3>1 DEF ConversationInvariant, InOrder
    <2>9. conv[k].by \in {"system", "developer", "user", "assistant"}
      BY <2>3 DEF Speakers
    <2>10. conv[k].part.kind \in {"text", "thinking", "tool_use", "result"}
      BY <2>5 DEF Kinds
    <2> QED
      BY Zenon, <2>6, <2>7, <2>8, <2>9, <2>10
  <1>5. \A j, k \in DOMAIN conv : conv[j].turn = conv[k].turn => conv[j].by = conv[k].by
    BY DEF ConversationInvariant, OneSpeaker
  <1> QED
    BY Zenon, <1>1, <1>2, <1>3, <1>4, <1>5 DEF TypeOK

(* In every conversation, whatever endpoints its turns went to, turns are in *)
(* order and each of one speaker, calls can be answered, and only Claude     *)
(* clients have thinking.                                                    *)
THEOREM InvariantHolds == Spec => []ConversationInvariant
  BY ConversationStarts, InvariantStep, PTL DEF Spec

(* Every variable keeps its type, and the conversation stays one.            *)
THEOREM TypeInvariant == Spec => []TypeOK
  BY InvariantHolds, Typed, PTL

(* Claude's thinking, which a Claude client sends again with every request,  *)
(* is shown to no upstream of chat, responses, 1min.AI or Duo: the           *)
(* converters to chat and responses drop it (claude_openai.go,               *)
(* claude_openai2.go), and so do the prompts, whatever the turns before were *)
(* converted from.                                                           *)
THEOREM ThinkingAtHome == Spec => []ThinkingStaysHome
  BY InvariantHolds, ThinkingHome, PTL
=============================================================================
