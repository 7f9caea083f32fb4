---------------------------- MODULE MCTokenPool ----------------------------
(* Small instances of TokenPool for TLC.                                     *)
EXTENDS TokenPool, TLC

CONSTANTS t1, t2, t3, r1, r2, r3, admin, none

TwoTokens == {t1, t2}
OneRequest == {r1}
TwoRequests == {r1, r2}
ThreeRequests == {r1, r2, r3}
OneHolder == {r1, admin}
TwoHolders == TwoRequests \cup {admin}
ThreeHolders == ThreeRequests \cup {admin}

PastedRows == {FreshRow}
CodexRow == [FreshRow EXCEPT !.refresh = TRUE, !.expires = Horizon]
CodexRows == {CodexRow}

NoTimes == {}
LongReset == {Horizon}
KeepOrHorizon == {Null, Horizon}

NoActs == {}
RemarkEdits == {"remark"}

ForbiddenUsage == {"forbidden", "usage"}
OkUsage == {"ok", "usage"}
OkUnauthorized == {"ok", "unauthorized"}
=============================================================================
