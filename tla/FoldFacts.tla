----------------------------- MODULE FoldFacts -----------------------------
(***************************************************************************)
(* What is true of a fold over a sequence, whatever the operator that is   *)
(* folded. The provers cannot be given an operator as an argument, so the  *)
(* operator is a constant here: a module with proofs about some fold       *)
(* instantiates this one with the operator of that fold.                   *)
(***************************************************************************)
EXTENDS Integers, Sequences, SequencesExt, SequenceTheorems, WellFoundedInduction, TLAPS

CONSTANTS
    Op(_, _),         \* what is folded
    Keeps(_, _, _)    \* Keeps(p, k, x): x, got from k elements, is as p says

Fold(base, seq) == FoldLeft(Op, base, seq)

(***************************************************************************)
(* Induction over a finite sequence                                        *)
(***************************************************************************)

(* A set of naturals that is not empty has a least element.                  *)
LEMMA LeastOfNaturals ==
  ASSUME NEW S \in SUBSET Nat, S # {}
  PROVE  \E n \in S : \A m \in S : n <= m
  <1>1. PICK n \in S : \A m \in S : <<m, n>> \notin OpToRel(<, Nat)
    BY NatLessThanWellFounded, WFMin
  <1>2. \A m \in S : ~ (m < n)
    BY <1>1 DEF OpToRel
  <1> QED
    BY <1>2

(* A set of naturals with 0 that is closed under the next number, up to m.   *)
LEMMA Induction ==
  ASSUME NEW S, 0 \in S, NEW m \in Nat,
         \A n \in 0..m - 1 : n \in S => n + 1 \in S
  PROVE  m \in S
  <1> DEFINE Out == {n \in 0..m : n \notin S}
  <1>1. SUFFICES ASSUME m \notin S PROVE FALSE
    OBVIOUS
  <1>2. Out \in SUBSET Nat /\ Out # {}
    BY <1>1
  <1>3. PICK n \in Out : \A k \in Out : n <= k
    <2> HIDE DEF Out
    <2> QED
      BY <1>2, LeastOfNaturals
  <1>4. n # 0 /\ n \in 0..m /\ n \notin S
    OBVIOUS
  <1>5. n - 1 \in 0..m - 1 /\ n - 1 \notin Out
    BY <1>3, <1>4
  <1>6. n - 1 \in S
    BY <1>5
  <1> QED
    BY <1>4, <1>5, <1>6

(* The largest number of a set of the first n + 1 is n + 1, if it is there.  *)
LEMMA MaxOfInterval ==
  ASSUME NEW n \in Nat, NEW s \in SUBSET (1..n + 1)
  PROVE  /\ n + 1 \in s => Max(s) = n + 1
         /\ n + 1 \notin s => s \in SUBSET (1..n)
  <1>1. ASSUME n + 1 \in s PROVE Max(s) = n + 1
    <2>1. \A y \in s : n + 1 >= y
      OBVIOUS
    <2>2. \A x \in s : (\A y \in s : x >= y) => x = n + 1
      <3> TAKE x \in s
      <3>1. HAVE \A y \in s : x >= y
      <3>2. x >= n + 1 /\ n + 1 >= x
        BY <1>1, <2>1, <3>1
      <3>3. x \in Nat
        OBVIOUS
      <3> QED
        BY <3>2, <3>3
    <2> QED
      BY <1>1, <2>1, <2>2 DEF Max
  <1>2. ASSUME n + 1 \notin s PROVE s \in SUBSET (1..n)
    BY <1>2
  <1> QED
    BY <1>1, <1>2

(***************************************************************************)
(* A fold is defined by a function on the subsets of the domain, from      *)
(* which the greatest element is taken away at every step. There is one.   *)
(***************************************************************************)
Unwinds(it, m, base, seq) ==
    it = [s \in SUBSET (1..m) |-> IF s = {} THEN base ELSE Op(it[s \ {Max(s)}], seq[Max(s)])]

(* The recursive function by which a fold over a set is defined does exist.  *)
LEMMA UnwindingExists ==
  ASSUME NEW m \in Nat, NEW base, NEW seq
  PROVE  \E it : Unwinds(it, m, base, seq)
  <1> DEFINE S == {n \in Nat : \E it : Unwinds(it, n, base, seq)}
  <1>1. 0 \in S
    <2>1. Unwinds([s \in SUBSET (1..0) |-> base], 0, base, seq)
      BY DEF Unwinds
    <2> QED
      BY <2>1
  <1>2. ASSUME NEW n \in 0..m - 1, n \in S PROVE n + 1 \in S
    <2>1. PICK it : Unwinds(it, n, base, seq)
      BY <1>2
    <2> DEFINE D == SUBSET (1..n + 1)
               new == [s \in D |-> IF n + 1 \in s THEN Op(it[s \ {n + 1}], seq[n + 1]) ELSE it[s]]
    <2>2. ASSUME NEW s \in D
          PROVE  new[s] = IF s = {} THEN base ELSE Op(new[s \ {Max(s)}], seq[Max(s)])
      <3>1. n \in Nat
        OBVIOUS
      <3>2. CASE n + 1 \in s
        <4>1. Max(s) = n + 1
          BY <3>1, <3>2, MaxOfInterval
        <4>2. s \ {n + 1} \in D /\ n + 1 \notin s \ {n + 1}
          OBVIOUS
        <4>3. new[s \ {n + 1}] = it[s \ {n + 1}]
          BY <4>2
        <4>4. new[s] = Op(it[s \ {n + 1}], seq[n + 1])
          BY <3>2
        <4> HIDE DEF new
        <4> QED
          BY <4>1, <4>3, <4>4, <3>2
      <3>3. CASE n + 1 \notin s
        <4>1. s \in SUBSET (1..n)
          BY <3>1, <3>3, MaxOfInterval
        <4>2. it[s] = IF s = {} THEN base ELSE Op(it[s \ {Max(s)}], seq[Max(s)])
          BY <2>1, <4>1 DEF Unwinds
        <4>3. new[s] = it[s]
          BY <3>3
        <4>4. s # {} => new[s \ {Max(s)}] = it[s \ {Max(s)}]
          BY <3>3
        <4> HIDE DEF new
        <4> QED
          BY <4>2, <4>3, <4>4
      <3> QED
        BY <3>2, <3>3
    <2>3. new = [s \in D |-> new[s]]
      OBVIOUS
    <2> HIDE DEF new
    <2>4. Unwinds(new, n + 1, base, seq)
      BY <2>2, <2>3 DEF Unwinds
    <2> QED
      BY <2>4
  <1> HIDE DEF S
  <1>3. m \in S
    BY <1>1, <1>2, Induction
  <1> QED
    BY <1>3 DEF S

(* The folds of the prefixes of a sequence, one from the other.              *)
PrefixFolds(upto, m, base, seq) ==
    /\ upto[0] = base
    /\ \A k \in 1..m : upto[k] = Op(upto[k - 1], seq[k])

(* A fold over a sequence is the last of the folds over its beginnings, and  *)
(* each of these is the one before it with one element more.                 *)
LEMMA FoldUnwound ==
  ASSUME NEW base, NEW m \in Nat, NEW seq, DOMAIN seq = 1..m
  PROVE  \E upto : PrefixFolds(upto, m, base, seq) /\ upto[m] = Fold(base, seq)
  <1> DEFINE It == CHOOSE it : Unwinds(it, m, base, seq)
             upto == [k \in 0..m |-> It[1..k]]
  <1>1. Fold(base, seq) = It[1..m]
    BY DEF FoldLeft, MapThenFoldSet, Fold, Unwinds
  <1>2. Unwinds(It, m, base, seq)
    BY UnwindingExists
  <1> HIDE DEF It
  <1>3. upto[0] = base
    BY <1>2 DEF Unwinds
  <1>4. ASSUME NEW k \in 1..m PROVE upto[k] = Op(upto[k - 1], seq[k])
    <2>1. k - 1 \in Nat /\ (k - 1) + 1 = k
      OBVIOUS
    <2>2. Max(1..k) = k
      BY <2>1, MaxOfInterval
    <2>3. (1..k) \ {k} = 1..k - 1
      BY <2>1
    <2>4. 1..k \in SUBSET (1..m) /\ 1..k # {}
      <3>1. k \in Nat /\ k \in 1..k /\ k <= m
        OBVIOUS
      <3> QED
        BY <3>1
    <2>5. It[1..k] = Op(It[1..k - 1], seq[k])
      BY <2>2, <2>3, <2>4, <1>2 DEF Unwinds
    <2> QED
      BY <2>1, <2>5
  <1>5. upto[m] = Fold(base, seq)
    BY <1>1
  <1> HIDE DEF upto
  <1> QED
    BY <1>3, <1>4, <1>5 DEF PrefixFolds

(***************************************************************************)
(* The facts                                                               *)
(***************************************************************************)

(* What holds at first and is kept by every element holds of the fold.       *)
LEMMA FoldKeeps ==
  ASSUME NEW p, NEW base, NEW m \in Nat, NEW seq, DOMAIN seq = 1..m,
         Keeps(p, 0, base),
         \A k \in 1..m : \A x : Keeps(p, k - 1, x) => Keeps(p, k, Op(x, seq[k]))
  PROVE  Keeps(p, m, Fold(base, seq))
  <1>1. PICK upto : PrefixFolds(upto, m, base, seq) /\ upto[m] = Fold(base, seq)
    BY FoldUnwound
  <1> DEFINE S == {k \in 0..m : Keeps(p, k, upto[k])}
  <1>2. 0 \in S
    BY <1>1 DEF PrefixFolds
  <1>3. ASSUME NEW n \in 0..m - 1, n \in S PROVE n + 1 \in S
    <2>1. n + 1 \in 1..m /\ (n + 1) - 1 = n
      OBVIOUS
    <2>2. Keeps(p, n + 1, Op(upto[n], seq[n + 1]))
      BY <1>3, <2>1
    <2>3. upto[n + 1] = Op(upto[n], seq[n + 1])
      BY <1>1, <2>1 DEF PrefixFolds
    <2> QED
      BY <2>1, <2>2, <2>3
  <1> HIDE DEF S
  <1>4. m \in S
    BY <1>2, <1>3, Induction
  <1> QED
    BY <1>1, <1>4 DEF S

(* Nothing is folded into nothing, and the last element last.                *)
LEMMA FoldEmpty ==
  ASSUME NEW base
  PROVE  Fold(base, << >>) = base
  <1>1. DOMAIN << >> = 1..0
    OBVIOUS
  <1> QED
    BY <1>1, FoldUnwound DEF PrefixFolds

(* Two folds that agree on their first elements agree so far.                *)
LEMMA PrefixesAgree ==
  ASSUME NEW n \in Nat, NEW f, NEW g, NEW s, NEW t, NEW base,
         PrefixFolds(f, n, base, s), PrefixFolds(g, n, base, t),
         \A k \in 1..n : s[k] = t[k]
  PROVE  f[n] = g[n]
  <1> DEFINE S == {k \in 0..n : f[k] = g[k]}
  <1>1. 0 \in S
    BY DEF PrefixFolds
  <1>2. ASSUME NEW k \in 0..n - 1, k \in S PROVE k + 1 \in S
    <2>1. k + 1 \in 1..n /\ (k + 1) - 1 = k
      OBVIOUS
    <2> QED
      BY <1>2, <2>1 DEF PrefixFolds
  <1> HIDE DEF S
  <1>3. n \in S
    BY <1>1, <1>2, Induction
  <1> QED
    BY <1>3 DEF S

(* To fold over one element more is to fold, and then to apply the operator  *)
(* once.                                                                     *)
LEMMA FoldAppend ==
  ASSUME NEW base, NEW E, NEW s \in Seq(E), NEW e
  PROVE  Fold(base, Append(s, e)) = Op(Fold(base, s), e)
  <1> DEFINE n == Len(s)
             t == Append(s, e)
  <1>1. n \in Nat /\ DOMAIN s = 1..n
    OBVIOUS
  <1>2. DOMAIN t = 1..n + 1 /\ t[n + 1] = e /\ \A k \in 1..n : s[k] = t[k]
    OBVIOUS
  <1> HIDE DEF n, t
  <1>3. PICK f : PrefixFolds(f, n, base, s) /\ f[n] = Fold(base, s)
    BY <1>1, FoldUnwound
  <1>4. PICK g : PrefixFolds(g, n + 1, base, t) /\ g[n + 1] = Fold(base, t)
    <2>1. n + 1 \in Nat
      BY <1>1
    <2> QED
      BY <1>2, <2>1, FoldUnwound
  <1>5. f[n] = g[n]
    <2>1. PrefixFolds(g, n, base, t)
      BY <1>1, <1>4 DEF PrefixFolds
    <2> QED
      BY <1>1, <1>2, <1>3, <2>1, PrefixesAgree
  <1>6. n + 1 \in 1..n + 1 /\ (n + 1) - 1 = n
    BY <1>1
  <1>7. g[n + 1] = Op(g[n], e)
    BY <1>2, <1>4, <1>6 DEF PrefixFolds
  <1> QED
    BY <1>3, <1>4, <1>5, <1>7 DEF t
=============================================================================
