---------------------------- MODULE SingleFlight ----------------------------
(***************************************************************************)
(* What the deduplication of identical requests promises.  At any time at  *)
(* most one flight is open per key.  A caller opens a flight or joins the  *)
(* open one; when the flight closes it has one verdict, and every caller   *)
(* aboard gets that verdict, unless it leaves early.                       *)
(***************************************************************************)
CONSTANTS Callers, Keys, Verdicts, None

VARIABLES
    open,      \* the leader of the flight that is open for each key, or None
    aboard,    \* the leader of the flight each caller is on, or None
    verdict,   \* the verdict of the flight each caller leads, or None
    got        \* what each caller went away with: a verdict, "left", or None

vars == <<open, aboard, verdict, got>>

Init ==
    /\ open = [k \in Keys |-> None]
    /\ aboard = [c \in Callers |-> None]
    /\ verdict = [c \in Callers |-> None]
    /\ got = [c \in Callers |-> None]

\* c opens a flight of its own.
Depart(c, k) ==
    /\ aboard[c] = None /\ open[k] = None
    /\ open' = [open EXCEPT ![k] = c]
    /\ aboard' = [aboard EXCEPT ![c] = c]
    /\ UNCHANGED <<verdict, got>>

Board(c, k) ==
    /\ aboard[c] = None /\ open[k] # None
    /\ aboard' = [aboard EXCEPT ![c] = open[k]]
    /\ UNCHANGED <<open, verdict, got>>

\* The flight closes with a verdict.
Land(c, k, v) ==
    /\ open[k] = c
    /\ open' = [open EXCEPT ![k] = None]
    /\ verdict' = [verdict EXCEPT ![c] = v]
    /\ UNCHANGED <<aboard, got>>

Deliver(c) ==
    /\ aboard[c] # None /\ got[c] = None
    /\ verdict[aboard[c]] # None
    /\ got' = [got EXCEPT ![c] = verdict[aboard[c]]]
    /\ UNCHANGED <<open, aboard, verdict>>

\* A passenger leaves; the leader does not.
Leave(c) ==
    /\ aboard[c] \notin {None, c} /\ got[c] = None
    /\ got' = [got EXCEPT ![c] = "left"]
    /\ UNCHANGED <<open, aboard, verdict>>

Next ==
    \E c \in Callers :
        \/ \E k \in Keys : Depart(c, k) \/ Board(c, k) \/ \E v \in Verdicts : Land(c, k, v)
        \/ Deliver(c) \/ Leave(c)

Spec == Init /\ [][Next]_vars
=============================================================================
