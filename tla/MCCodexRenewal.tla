--------------------------- MODULE MCCodexRenewal ---------------------------
(* Small instances of CodexRenewal for TLC.                                  *)
EXTENDS CodexRenewal, TLC

CONSTANTS t1, t2, r1, r2, admin, none

OneToken == {t1}
TwoTokens == {t1, t2}
TwoRequests == {r1, r2}
TwoHolders == TwoRequests \cup {admin}

\* Symmetry is used in the run that checks safety only.
RequestSymmetry == Permutations(TwoRequests)

PastedRows == {FreshRow}
CodexRows == {[FreshRow EXCEPT !.refresh = TRUE, !.expires = Horizon]}

NoTimes == {}
LongReset == {Horizon}
FullTerm == {Horizon}

Upkeep == {"remark", "import", "delete", "clear"}
NoActs == {}

EveryAnswer == AnswerKinds
OkOther == {"ok", "other"}
OkUnauthorized == {"ok", "unauthorized"}
=============================================================================
