--------------------------- MODULE MCRequestLoop ---------------------------
(* Small instances of RequestLoop for TLC.                                   *)
EXTENDS RequestLoop, TLC

CONSTANTS t1, t2, t3, t4, r1, r2, none

NoneAtAll == {}
OneToken == {t1}
TwoTokens == {t1, t2}
ThreeTokens == {t1, t2, t3}
FourTokens == {t1, t2, t3, t4}
OneRequest == {r1}
TwoRequests == {r1, r2}
Symmetry == Permutations(TwoRequests)

\* Endpoint 1 has a pool, endpoint 2 a key.
SecondOnly == {2}
PoolThenKey == <<Tokens, {}>>

\* Two pools, then a key.
ThirdOnly == {3}
TwoPoolsThenKey == <<{t1, t2, t3}, {t4}, {}>>

\* Two endpoints with a key each.
BothKeys == {1, 2}
NoPools == <<{}, {}>>

PastedRows == {FreshRow}
UsedRows == {FreshRow,
             [FreshRow EXCEPT !.failures = 1],
             [FreshRow EXCEPT !.status = "cooldown", !.cooldown = 1, !.failures = 1],
             [FreshRow EXCEPT !.status = "invalid", !.failures = 1]}

OneTick == {1}
UpToHorizon == 1..Horizon

EveryAnswer == AnswerKinds
QuotaAnswers == {"usage", "stream"}
WalkAnswers == {"usage", "stream", "body", "bad"}
DeadAnswers == {"unauthorized"}
QuotaThenServer == {"usage", "server"}
StreamAnswers == {"stream"}
BodyAnswers == {"body"}
BadBodyAnswers == {"badbody"}

EveryDisturbance == DisturbanceKinds
Pinning == {"pin"}
HangUps == {"hangup"}
HangUpsAndTime == {"hangup", "time"}
HangUpsAndSwitches == {"hangup", "switch"}
Switches == {"switch"}
=============================================================================
