--------------------------- MODULE MCAdminConfig ---------------------------
(* Small instances of AdminConfig for TLC.                                   *)
EXTENDS AdminConfig, TLC

CONSTANTS a, b, key, p, q, h1, h2, none

TwoNames == {a, b}
OneKey == {key}
NoKeys == {}
OnePort == {p}
TwoPorts == {p, q}
OneHandler == {h1}
TwoHandlers == {h1, h2}

\* Any request, met by one that makes or deletes an endpoint.
AnyAndRows == [h \in TwoHandlers |-> IF h = h1 THEN RequestKinds ELSE {"create", "delete"}]
ToggleAndPort == [h \in OneHandler |-> {"toggle", "port"}]
EndpointEdits == [h \in OneHandler |-> {"create", "edit", "delete"}]

EveryTraffic == TrafficKinds
NoTraffic == {}
Failures == {"fail"}

\* Of every short list, Enabled is what the loop of getEnabledEndpoints collects.
ASSUME EnabledSelects ==
    \A n \in 0..4 : \A list \in [1..n -> [name : TwoNames, enabled : BOOLEAN]] :
        Enabled(list) = SelectSeq(list, LAMBDA e : e.enabled)
=============================================================================
