----------------------------- MODULE MCDuoPool -----------------------------
(* Small instances of DuoPool for TLC.                                       *)
EXTENDS DuoPool, TLC

CONSTANTS c1, c2, t1, g1

TwoCallers == {c1, c2}
OneConversation == {g1}
SamePair == (c1 :> g1) @@ (c2 :> g1)
OneToken == {t1}
NoHolders == {}
Pairs == Tokens \X Conversations
=============================================================================
