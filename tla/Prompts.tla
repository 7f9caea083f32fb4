------------------------------ MODULE Prompts ------------------------------
(* The upstreams that are asked with one text: the prompt of 1min.AI         *)
(* (FormatOneMinAIPrompt) and the goal of a GitLab Duo workflow              *)
(* (extractGitLabDuoHistory, truncateGoal). Each has room for so much, and   *)
(* leaves out what is old.                                                   *)
EXTENDS Naturals, Sequences, SequencesExt, Filters

CONSTANTS
    MaxPrompt,     \* maxOneMinAIPromptBytes, which the budget of the turns is made from
    MinBudget,     \* 20000: what the turns get however long the system prompt is
    Slack,         \* 5000: what a prompt may have beyond that, its tags and the note
    MaxGoal,       \* gitlabGoalMaxLen
    MaxSystem      \* 800: what a goal has of the system prompt

ASSUME PromptsAssumption == {MaxPrompt, MinBudget, Slack, MaxGoal, MaxSystem} \subseteq Nat

Turn(role, body) == [role |-> role, body |-> body]

IsSystem(turn) == turn.role = "system"

Cut(text, n) == SubSeq(text, 1, IF Len(text) < n THEN Len(text) ELSE n)

LastOf(text, n) == SubSeq(text, IF Len(text) > n THEN Len(text) - n + 1 ELSE 1, Len(text))

SizeOf(turns) == FoldLeft(LAMBDA n, t : n + Len(t.body), 0, turns)

(* A turn is written after its tag, which costs one symbol here and 9 to 16  *)
(* bytes in the code, and which nobody counts before the prompt is cut.      *)
Written(turns) == FlattenSeq([k \in DOMAIN turns |-> <<turns[k].role>> \o turns[k].body])

-----------------------------------------------------------------------------
(* 1min.AI                                                                   *)

Note == Turn("system", <<"note">>)

\* Mutant: the oldest turns that fit are kept.
KeptOldest(turns, budget) ==
    LET n == Len(turns)
        fits(k) == SizeOf(SubSeq(turns, 1, k)) <= budget
    IN  SubSeq(turns, 1, CHOOSE k \in 1..n : /\ k = 1 \/ fits(k)
                                             /\ \A j \in 1..n : j > k => ~fits(j))

(* The newest turns that fit, and the newest one even if it does not.        *)
Kept(turns, budget) ==
    LET n == Len(turns)
        fits(k) == SizeOf(SubSeq(turns, k, n)) <= budget
    IN  SubSeq(turns, CHOOSE k \in 1..n : /\ k = n \/ fits(k)
                                          /\ \A j \in 1..n : j < k => ~fits(j), n)

Compacted(turns) ==
    LET system == Only(turns, IsSystem)
        others == Only(turns, LAMBDA t : ~IsSystem(t))
        left   == IF MaxPrompt > SizeOf(system) THEN MaxPrompt - SizeOf(system) ELSE 0
        budget == IF left < MinBudget THEN MinBudget ELSE left
    IN  Append(system, Note) \o (IF others = <<>> THEN <<>> ELSE Kept(others, budget))

(* The last cut takes the end of the prompt, which is what was said last.    *)
FormatOneMinAIPrompt(turns) ==
    IF Len(turns) = 1 /\ turns[1].role = "user" THEN Cut(turns[1].body, MaxPrompt)
    ELSE Cut(Written(IF SizeOf(turns) > MaxPrompt /\ Len(turns) > 2 THEN Compacted(turns) ELSE turns),
             MaxPrompt + Slack)

-----------------------------------------------------------------------------
(* GitLab Duo: the question is at the end, the goal keeps its tail.          *)

(* What Claude Code puts into a conversation begins with a marker:           *)
(* <system-reminder>, <context>, SessionStart:.                              *)
Marker == "mark"

isSystemInjection(text) == text # <<>> /\ text[1] = Marker

(* The lines of a system prompt that are no markup; a prompt is one line.    *)
condensedSystemPrompt(text) == IF isSystemInjection(text) THEN <<>> ELSE Cut(text, MaxSystem)

truncateGoal(turns) == LastOf(Written(turns), MaxGoal)
=============================================================================
