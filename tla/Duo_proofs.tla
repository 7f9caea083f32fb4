------------------------------ MODULE Duo_proofs ------------------------------
(***************************************************************************)
(* GitLab Duo: the registry of flights, the workflow client that its       *)
(* leaders run, and the composition of both with the pool of tokens.       *)
(***************************************************************************)
EXTENDS DuoPool, CredentialStore_proofs, SequenceTheorems, WellFoundedInduction, FiniteSetTheorems

(***************************************************************************)
(* The registry of flights, for any number of callers and keys: its        *)
(* invariants, and that it keeps the promise of SingleFlight.              *)
(***************************************************************************)

\* Where the flight of a caller points in each phase.
FlightOK ==
    \A c \in Callers :
        /\ caller[c].phase = "new" <=> caller[c].flight = None
        /\ Leading(c) \/ caller[c].phase = "closing" => caller[c].flight = c
        /\ Leading(c) => caller[c].key \in Keys
        /\ caller[c].phase = "waiting" => caller[c].flight # c

\* A flight is done exactly when its leader is, and then holds what it published.
DoneOK ==
    \A c \in Callers :
        /\ c \in done <=> (caller[c].phase = "over" /\ caller[c].flight = c)
        /\ c \in done => result[c] = caller[c].published

IInv == TypeOK /\ RegistryExact /\ FlightOK /\ DoneOK

(* The initial state satisfies the inductive invariant: nobody has asked yet. *)
LEMMA InitInv == Init => IInv
  BY InflightAssumption
     DEF Init, IInv, TypeOK, RegistryExact, FlightOK, DoneOK, NewCaller, CallerStates,
         Phases, Results, Leading

(* Every step preserves the inductive invariant. *)
LEMMA StepInv == IInv /\ [Next]_vars => IInv'
  <1> SUFFICES ASSUME IInv, [Next]_vars PROVE IInv'
    OBVIOUS
  <1> USE InflightAssumption DEF IInv
  <1>1. ASSUME NEW c \in Callers, NEW k \in Keys, Lead(c, k) PROVE IInv'
    <2> USE <1>1 DEF Lead
    <2>1. TypeOK'
      <3>1. caller[c] \in CallerStates
        BY DEF TypeOK
      <3>2. caller'[c] \in CallerStates
        BY <3>1 DEF TypeOK, CallerStates, Phases, Results
      <3>3. caller' = [caller EXCEPT ![c] = caller'[c]]
        BY DEF TypeOK
      <3> QED
        BY <3>2, <3>3 DEF TypeOK
    <2>2. \A e \in Callers \ {c} : caller'[e] = caller[e]
      BY DEF TypeOK
    <2>3. RegistryExact'
      BY <2>2 DEF TypeOK, CallerStates, RegistryExact, FlightOK, Leading
    <2>4. FlightOK'
      BY <2>2 DEF TypeOK, CallerStates, FlightOK, RegistryExact, Leading
    <2>5. DoneOK'
      BY <2>2 DEF TypeOK, CallerStates, DoneOK, FlightOK, Leading
    <2> QED
      BY <2>1, <2>3, <2>4, <2>5
  <1>2. ASSUME NEW c \in Callers, NEW k \in Keys, Join(c, k) PROVE IInv'
    <2> USE <1>2 DEF Join
    <2>1. TypeOK'
      <3>1. caller[c] \in CallerStates
        BY DEF TypeOK
      <3>2. caller'[c] \in CallerStates
        BY <3>1 DEF TypeOK, CallerStates, Phases, Results
      <3>3. caller' = [caller EXCEPT ![c] = caller'[c]]
        BY DEF TypeOK
      <3> QED
        BY <3>2, <3>3 DEF TypeOK
    <2>2. \A e \in Callers \ {c} : caller'[e] = caller[e]
      BY DEF TypeOK
    <2>3. RegistryExact'
      BY <2>2 DEF TypeOK, CallerStates, RegistryExact, FlightOK, Leading
    <2>4. FlightOK'
      BY <2>2 DEF TypeOK, CallerStates, FlightOK, RegistryExact, Leading
    <2>5. DoneOK'
      BY <2>2 DEF TypeOK, CallerStates, DoneOK, FlightOK, Leading
    <2> QED
      BY <2>1, <2>3, <2>4, <2>5
  <1>3. ASSUME NEW c \in Callers, WorkSucceeds(c) PROVE IInv'
    <2> USE <1>3 DEF WorkSucceeds, Working
    <2>1. TypeOK'
      <3>1. caller[c] \in CallerStates
        BY DEF TypeOK
      <3>2. caller'[c] \in CallerStates
        BY <3>1 DEF TypeOK, CallerStates, Phases, Results
      <3>3. caller' = [caller EXCEPT ![c] = caller'[c]]
        BY DEF TypeOK
      <3> QED
        BY <3>2, <3>3 DEF TypeOK
    <2>2. \A e \in Callers \ {c} : caller'[e] = caller[e]
      BY DEF TypeOK
    <2>3. RegistryExact'
      BY <2>2 DEF TypeOK, CallerStates, RegistryExact, FlightOK, Leading
    <2>4. FlightOK'
      BY <2>2 DEF TypeOK, CallerStates, FlightOK, RegistryExact, Leading
    <2>5. DoneOK'
      BY <2>2 DEF TypeOK, CallerStates, DoneOK, FlightOK, Leading
    <2> QED
      BY <2>1, <2>3, <2>4, <2>5
  <1>4. ASSUME NEW c \in Callers, AnswerWritten(c) PROVE IInv'
    <2> USE <1>4 DEF AnswerWritten
    <2>1. TypeOK'
      <3>1. caller[c] \in CallerStates
        BY DEF TypeOK
      <3>2. caller'[c] \in CallerStates
        BY <3>1 DEF TypeOK, CallerStates, Phases, Results
      <3>3. caller' = [caller EXCEPT ![c] = caller'[c]]
        BY DEF TypeOK
      <3> QED
        BY <3>2, <3>3 DEF TypeOK
    <2>2. \A e \in Callers \ {c} : caller'[e] = caller[e]
      BY DEF TypeOK
    <2>3. RegistryExact'
      BY <2>2 DEF TypeOK, CallerStates, RegistryExact, FlightOK, Leading
    <2>4. FlightOK'
      BY <2>2 DEF TypeOK, CallerStates, FlightOK, RegistryExact, Leading
    <2>5. DoneOK'
      BY <2>2 DEF TypeOK, CallerStates, DoneOK, FlightOK, Leading
    <2> QED
      BY <2>1, <2>3, <2>4, <2>5
  <1>5. ASSUME NEW c \in Callers, WorkRetried(c) PROVE IInv'
    <2> USE <1>5 DEF WorkRetried
    <2>1. TypeOK'
      <3>1. caller[c] \in CallerStates
        BY DEF TypeOK
      <3>2. caller'[c] \in CallerStates
        BY <3>1 DEF TypeOK, CallerStates, Phases, Results
      <3>3. caller' = [caller EXCEPT ![c] = caller'[c]]
        BY DEF TypeOK
      <3> QED
        BY <3>2, <3>3 DEF TypeOK
    <2>2. \A e \in Callers \ {c} : caller'[e] = caller[e]
      BY DEF TypeOK
    <2>3. RegistryExact'
      BY <2>2 DEF TypeOK, CallerStates, RegistryExact, FlightOK, Leading
    <2>4. FlightOK'
      BY <2>2 DEF TypeOK, CallerStates, FlightOK, RegistryExact, Leading
    <2>5. DoneOK'
      BY <2>2 DEF TypeOK, CallerStates, DoneOK, FlightOK, Leading
    <2> QED
      BY <2>1, <2>3, <2>4, <2>5
  <1>6. ASSUME NEW c \in Callers, WorkFails(c) PROVE IInv'
    <2> USE <1>6 DEF WorkFails, Working
    <2>1. TypeOK'
      <3>1. caller[c] \in CallerStates
        BY DEF TypeOK
      <3>2. caller'[c] \in CallerStates
        <4>1. PICK error \in {"error", "credit"} :
                caller' = [caller EXCEPT
                  ![c].phase = "leaving", ![c].published = error,
                  ![c].reply = IF error = "error" /\ ~ caller[c].live THEN "silence" ELSE error]
          OBVIOUS
        <4> QED
          BY <3>1, <4>1 DEF TypeOK, CallerStates, Phases, Results
      <3>3. caller' = [caller EXCEPT ![c] = caller'[c]]
        BY DEF TypeOK
      <3> QED
        BY <3>2, <3>3 DEF TypeOK
    <2>2. \A e \in Callers \ {c} : caller'[e] = caller[e]
      BY DEF TypeOK
    <2>3. RegistryExact'
      BY <2>2 DEF TypeOK, CallerStates, RegistryExact, FlightOK, Leading
    <2>4. FlightOK'
      BY <2>2 DEF TypeOK, CallerStates, FlightOK, RegistryExact, Leading
    <2>5. DoneOK'
      BY <2>2 DEF TypeOK, CallerStates, DoneOK, FlightOK, Leading
    <2> QED
      BY <2>1, <2>3, <2>4, <2>5
  <1>7. ASSUME NEW c \in Callers, Panic(c) PROVE IInv'
    <2> USE <1>7 DEF Panic, Working
    <2>1. TypeOK'
      <3>1. caller[c] \in CallerStates
        BY DEF TypeOK
      <3>2. caller'[c] \in CallerStates
        BY <3>1 DEF TypeOK, CallerStates, Phases, Results
      <3>3. caller' = [caller EXCEPT ![c] = caller'[c]]
        BY DEF TypeOK
      <3> QED
        BY <3>2, <3>3 DEF TypeOK
    <2>2. \A e \in Callers \ {c} : caller'[e] = caller[e]
      BY DEF TypeOK
    <2>3. RegistryExact'
      BY <2>2 DEF TypeOK, CallerStates, RegistryExact, FlightOK, Leading
    <2>4. FlightOK'
      BY <2>2 DEF TypeOK, CallerStates, FlightOK, RegistryExact, Leading
    <2>5. DoneOK'
      BY <2>2 DEF TypeOK, CallerStates, DoneOK, FlightOK, Leading
    <2> QED
      BY <2>1, <2>3, <2>4, <2>5
  <1>8. ASSUME NEW c \in Callers, Unregister(c) PROVE IInv'
    <2> USE <1>8 DEF Unregister
    <2>1. TypeOK'
      <3>1. caller[c] \in CallerStates
        BY DEF TypeOK
      <3>2. caller'[c] \in CallerStates
        BY <3>1 DEF TypeOK, CallerStates, Phases, Results
      <3>3. caller' = [caller EXCEPT ![c] = caller'[c]]
        BY DEF TypeOK
      <3> QED
        BY <3>2, <3>3 DEF TypeOK
    <2>2. \A e \in Callers \ {c} : caller'[e] = caller[e]
      BY DEF TypeOK
    <2>3. RegistryExact'
      BY <2>2 DEF TypeOK, CallerStates, RegistryExact, FlightOK, Leading
    <2>4. FlightOK'
      BY <2>2 DEF TypeOK, CallerStates, FlightOK, RegistryExact, Leading
    <2>5. DoneOK'
      BY <2>2 DEF TypeOK, CallerStates, DoneOK, FlightOK, Leading
    <2> QED
      BY <2>1, <2>3, <2>4, <2>5
  <1>9. ASSUME NEW c \in Callers, Close(c) PROVE IInv'
    <2> USE <1>9 DEF Close
    <2>1. TypeOK'
      <3>1. caller[c] \in CallerStates
        BY DEF TypeOK
      <3>2. caller'[c] \in CallerStates
        BY <3>1 DEF TypeOK, CallerStates, Phases, Results
      <3>3. caller' = [caller EXCEPT ![c] = caller'[c]]
        BY DEF TypeOK
      <3>4. result' \in [Callers -> Results \cup {None}]
        BY <3>1 DEF TypeOK, CallerStates
      <3> QED
        BY <3>2, <3>3, <3>4 DEF TypeOK
    <2>2. \A e \in Callers \ {c} : caller'[e] = caller[e]
      BY DEF TypeOK
    <2>3. RegistryExact'
      BY <2>2 DEF TypeOK, CallerStates, RegistryExact, FlightOK, Leading
    <2>4. FlightOK'
      BY <2>2 DEF TypeOK, CallerStates, FlightOK, RegistryExact, Leading
    <2>5. DoneOK'
      BY <2>2 DEF TypeOK, CallerStates, DoneOK, FlightOK, Leading
    <2> QED
      BY <2>1, <2>3, <2>4, <2>5
  <1>10. ASSUME NEW c \in Callers, Woken(c) PROVE IInv'
    <2> USE <1>10 DEF Woken
    <2>1. TypeOK'
      <3>1. caller[c] \in CallerStates
        BY DEF TypeOK
      <3>2. caller'[c] \in CallerStates
        BY <3>1 DEF TypeOK, CallerStates, Phases, Results
      <3>3. caller' = [caller EXCEPT ![c] = caller'[c]]
        BY DEF TypeOK
      <3> QED
        BY <3>2, <3>3 DEF TypeOK
    <2>2. \A e \in Callers \ {c} : caller'[e] = caller[e]
      BY DEF TypeOK
    <2>3. RegistryExact'
      BY <2>2 DEF TypeOK, CallerStates, RegistryExact, FlightOK, Leading
    <2>4. FlightOK'
      BY <2>2 DEF TypeOK, CallerStates, FlightOK, RegistryExact, Leading
    <2>5. DoneOK'
      BY <2>2 DEF TypeOK, CallerStates, DoneOK, FlightOK, Leading
    <2> QED
      BY <2>1, <2>3, <2>4, <2>5
  <1>11. ASSUME NEW c \in Callers, GiveUpWaiting(c) PROVE IInv'
    <2> USE <1>11 DEF GiveUpWaiting
    <2>1. TypeOK'
      <3>1. caller[c] \in CallerStates
        BY DEF TypeOK
      <3>2. caller'[c] \in CallerStates
        BY <3>1 DEF TypeOK, CallerStates, Phases, Results
      <3>3. caller' = [caller EXCEPT ![c] = caller'[c]]
        BY DEF TypeOK
      <3> QED
        BY <3>2, <3>3 DEF TypeOK
    <2>2. \A e \in Callers \ {c} : caller'[e] = caller[e]
      BY DEF TypeOK
    <2>3. RegistryExact'
      BY <2>2 DEF TypeOK, CallerStates, RegistryExact, FlightOK, Leading
    <2>4. FlightOK'
      BY <2>2 DEF TypeOK, CallerStates, FlightOK, RegistryExact, Leading
    <2>5. DoneOK'
      BY <2>2 DEF TypeOK, CallerStates, DoneOK, FlightOK, Leading
    <2> QED
      BY <2>1, <2>3, <2>4, <2>5
  <1>12. ASSUME NEW c \in Callers, Expire(c) PROVE IInv'
    <2> USE <1>12 DEF Expire
    <2>1. TypeOK'
      <3>1. caller[c] \in CallerStates
        BY DEF TypeOK
      <3>2. caller'[c] \in CallerStates
        BY <3>1 DEF TypeOK, CallerStates, Phases, Results
      <3>3. caller' = [caller EXCEPT ![c] = caller'[c]]
        BY DEF TypeOK
      <3> QED
        BY <3>2, <3>3 DEF TypeOK
    <2>2. \A e \in Callers \ {c} : caller'[e] = caller[e]
      BY DEF TypeOK
    <2>3. RegistryExact'
      BY <2>2 DEF TypeOK, CallerStates, RegistryExact, FlightOK, Leading
    <2>4. FlightOK'
      BY <2>2 DEF TypeOK, CallerStates, FlightOK, RegistryExact, Leading
    <2>5. DoneOK'
      BY <2>2 DEF TypeOK, CallerStates, DoneOK, FlightOK, Leading
    <2> QED
      BY <2>1, <2>3, <2>4, <2>5
  <1>13. CASE UNCHANGED vars
    BY <1>13 DEF vars, TypeOK, RegistryExact, FlightOK, DoneOK, Leading
  <1> QED
    BY <1>1, <1>2, <1>3, <1>4, <1>5, <1>6, <1>7, <1>8, <1>9, <1>10, <1>11, <1>12, <1>13
       DEF Next, Proceed

(* The inductive invariant holds in every reachable state. *)
THEOREM Invariance == Spec => []IInv
  BY InitInv, StepInv, PTL DEF Spec

(* Every variable of the registry keeps its type. *)
THEOREM TypeInvariant == Spec => []TypeOK
  <1>1. IInv => TypeOK
    BY DEF IInv
  <1> QED
    BY <1>1, Invariance, PTL

(* The entry of a key is always the flight of the one leader that has yet to *)
(* publish it: acquire and publish never touch another leader's entry.       *)
THEOREM RegistryInvariant == Spec => []RegistryExact
  <1>1. IInv => RegistryExact
    BY DEF IInv
  <1> QED
    BY <1>1, Invariance, PTL

(* Identical requests never run two workflows at a time, since both leaders  *)
(* would own the one entry of their key.                                     *)
THEOREM OneWorkflow == Spec => []OneWorkflowPerKey
  <1>1. IInv => OneWorkflowPerKey
    BY DEF IInv, RegistryExact, OneWorkflowPerKey, Leading, Working
  <1> QED
    BY <1>1, Invariance, PTL

(* A channel is closed once, after the result has been written: no waiter of *)
(* a flight reads the zero result.                                           *)
THEOREM ResultBeforeClose == Spec => []WokenWithResult
  <1>1. IInv => WokenWithResult
    <2> SUFFICES ASSUME IInv, NEW c \in Callers
                 PROVE /\ c \in done => result[c] # None /\ result[c] = caller[c].published
                       /\ caller[c].phase = "closing" \/ Leading(c) => c \notin done
      BY DEF WokenWithResult
    <2>1. caller[c].published \in Results
      BY DEF IInv, TypeOK, CallerStates
    <2> QED
      BY <2>1, InflightAssumption DEF IInv, DoneOK, Leading
  <1> QED
    BY <1>1, Invariance, PTL

-----------------------------------------------------------------------------
(* The registry implements SingleFlight.                                     *)

\* What the refinement maps aboard, verdict and got to.
Flown == [e \in Callers |-> caller[e].flight]
Told == [e \in Callers |-> Verdict(e)]
Gone == [e \in Callers |-> Got(e)]

(* Before anyone has asked, no flight is open and nobody is aboard one. *)
LEMMA InitRefines == Init => Promise!Init
  BY DEF Init, Promise!Init, NewCaller, Verdict, Got, Landed

(* What the abstract state of every other caller owes to one caller's step:  *)
(* a step that leaves the flight, and what the others show, alone.           *)
LEMMA Untouched ==
  ASSUME NEW c \in Callers, \A e \in Callers \ {c} : caller'[e] = caller[e]
  PROVE  /\ \A e \in Callers \ {c} : Verdict(e)' = Verdict(e) /\ Got(e)' = Got(e)
         /\ \A e \in Callers \ {c} : caller'[e].flight = caller[e].flight
  BY DEF Verdict, Got, Landed

(* Every step of the registry is a step of SingleFlight or changes nothing   *)
(* there: the flight lands when its entry goes, and its leader is delivered  *)
(* to when the channel is closed.                                            *)
LEMMA StepRefines == IInv /\ [Next]_vars => [Promise!Next]_(Promise!vars)
  <1> SUFFICES ASSUME IInv, [Next]_vars PROVE [Promise!Next]_(Promise!vars)
    OBVIOUS
  <1> USE InflightAssumption DEF IInv, Flown, Told, Gone
  <1>0. \A c \in Callers : caller[c] \in CallerStates
    BY DEF TypeOK
  <1>1. ASSUME NEW c \in Callers, NEW k \in Keys, Lead(c, k) PROVE [Promise!Next]_(Promise!vars)
    <2> USE <1>1 DEF Lead
    <2>1. \A e \in Callers \ {c} : caller'[e] = caller[e]
      BY DEF TypeOK
    <2>2. caller[c].flight = None
      BY <1>0, <2>1, Untouched DEF TypeOK, CallerStates, FlightOK, Leading, Verdict, Got, Landed
    <2>3. Flown' = [Flown EXCEPT ![c] = c]
      BY <1>0, <2>1, Untouched DEF TypeOK, CallerStates, FlightOK, Leading, Verdict, Got, Landed
    <2>4. Told' = Told /\ Gone' = Gone
      BY <1>0, <2>1, Untouched DEF TypeOK, CallerStates, FlightOK, Leading, Verdict, Got, Landed
    <2>5. Promise!Depart(c, k)
      BY <2>2, <2>3, <2>4 DEF Promise!Depart
    <2> QED
      BY <2>5 DEF Promise!Next
  <1>2. ASSUME NEW c \in Callers, NEW k \in Keys, Join(c, k) PROVE [Promise!Next]_(Promise!vars)
    <2> USE <1>2 DEF Join
    <2>1. \A e \in Callers \ {c} : caller'[e] = caller[e]
      BY DEF TypeOK
    <2>2. caller[c].flight = None
      BY <1>0, <2>1, Untouched DEF TypeOK, CallerStates, FlightOK, Leading, Verdict, Got, Landed
    <2>3. Flown' = [Flown EXCEPT ![c] = calls[k]]
      BY <1>0, <2>1, Untouched DEF TypeOK, CallerStates, FlightOK, Leading, Verdict, Got, Landed
    <2>4. Told' = Told /\ Gone' = Gone
      BY <1>0, <2>1, Untouched DEF TypeOK, CallerStates, FlightOK, Leading, Verdict, Got, Landed
    <2>5. Promise!Board(c, k)
      BY <2>2, <2>3, <2>4 DEF Promise!Board
    <2> QED
      BY <2>5 DEF Promise!Next
  <1>3. ASSUME NEW c \in Callers, WorkSucceeds(c) PROVE [Promise!Next]_(Promise!vars)
    <2> USE <1>3 DEF WorkSucceeds, Working
    <2>1. \A e \in Callers \ {c} : caller'[e] = caller[e]
      BY DEF TypeOK
    <2>2. \A e \in Callers : /\ caller'[e].flight = caller[e].flight
                            /\ Verdict(e)' = Verdict(e) /\ Got(e)' = Got(e)
      BY <1>0, <2>1, Untouched DEF TypeOK, CallerStates, FlightOK, Leading, Verdict, Got, Landed
    <2> QED
      BY <2>2 DEF Promise!vars
  <1>4. ASSUME NEW c \in Callers, AnswerWritten(c) PROVE [Promise!Next]_(Promise!vars)
    <2> USE <1>4 DEF AnswerWritten
    <2>1. \A e \in Callers \ {c} : caller'[e] = caller[e]
      BY DEF TypeOK
    <2>2. \A e \in Callers : /\ caller'[e].flight = caller[e].flight
                            /\ Verdict(e)' = Verdict(e) /\ Got(e)' = Got(e)
      BY <1>0, <2>1, Untouched DEF TypeOK, CallerStates, FlightOK, Leading, Verdict, Got, Landed
    <2> QED
      BY <2>2 DEF Promise!vars
  <1>5. ASSUME NEW c \in Callers, WorkRetried(c) PROVE [Promise!Next]_(Promise!vars)
    <2> USE <1>5 DEF WorkRetried
    <2>1. \A e \in Callers \ {c} : caller'[e] = caller[e]
      BY DEF TypeOK
    <2>2. \A e \in Callers : /\ caller'[e].flight = caller[e].flight
                            /\ Verdict(e)' = Verdict(e) /\ Got(e)' = Got(e)
      BY <1>0, <2>1, Untouched DEF TypeOK, CallerStates, FlightOK, Leading, Verdict, Got, Landed
    <2> QED
      BY <2>2 DEF Promise!vars
  <1>6. ASSUME NEW c \in Callers, WorkFails(c) PROVE [Promise!Next]_(Promise!vars)
    <2> USE <1>6 DEF WorkFails, Working
    <2>1. \A e \in Callers \ {c} : caller'[e] = caller[e]
      BY DEF TypeOK
    <2>2. \A e \in Callers : /\ caller'[e].flight = caller[e].flight
                            /\ Verdict(e)' = Verdict(e) /\ Got(e)' = Got(e)
      BY <1>0, <2>1, Untouched DEF TypeOK, CallerStates, FlightOK, Leading, Verdict, Got, Landed
    <2> QED
      BY <2>2 DEF Promise!vars
  <1>7. ASSUME NEW c \in Callers, Panic(c) PROVE [Promise!Next]_(Promise!vars)
    <2> USE <1>7 DEF Panic, Working
    <2>1. \A e \in Callers \ {c} : caller'[e] = caller[e]
      BY DEF TypeOK
    <2>2. \A e \in Callers : /\ caller'[e].flight = caller[e].flight
                            /\ Verdict(e)' = Verdict(e) /\ Got(e)' = Got(e)
      BY <1>0, <2>1, Untouched DEF TypeOK, CallerStates, FlightOK, Leading, Verdict, Got, Landed
    <2> QED
      BY <2>2 DEF Promise!vars
  <1>8. ASSUME NEW c \in Callers, Unregister(c) PROVE [Promise!Next]_(Promise!vars)
    <2> USE <1>8 DEF Unregister
    <2>1. \A e \in Callers \ {c} : caller'[e] = caller[e]
      BY DEF TypeOK
    <2> DEFINE k == caller[c].key
    <2>2. k \in Keys /\ calls[k] = c
      BY DEF FlightOK, RegistryExact, Leading
    <2>3. Told' = [Told EXCEPT ![c] = caller[c].published]
      <3>1. Verdict(c)' = caller[c].published
        BY <1>0 DEF TypeOK, CallerStates, FlightOK, Leading, Verdict, Got, Landed
      <3> QED
        BY <2>1, <3>1, Untouched
    <2>4. Flown' = Flown /\ Gone' = Gone
      BY <1>0, <2>1, Untouched DEF TypeOK, CallerStates, FlightOK, Leading, Verdict, Got, Landed
    <2>5. caller[c].published \in Results
      BY <1>0 DEF CallerStates
    <2>6. Promise!Land(c, k, caller[c].published)
      BY <2>2, <2>3, <2>4 DEF Promise!Land
    <2> QED
      BY <2>2, <2>5, <2>6 DEF Promise!Next
  <1>9. ASSUME NEW c \in Callers, Close(c) PROVE [Promise!Next]_(Promise!vars)
    <2> USE <1>9 DEF Close
    <2>1. \A e \in Callers \ {c} : caller'[e] = caller[e]
      BY DEF TypeOK
    <2>2. /\ caller[c].flight = c /\ Got(c) = None
          /\ Verdict(c) = caller[c].published /\ caller[c].published \in Results
      BY <1>0 DEF TypeOK, CallerStates, FlightOK, Leading, Verdict, Got, Landed
    <2>3. Gone' = [Gone EXCEPT ![c] = Verdict(c)]
      <3>1. Got(c)' = Verdict(c)
        BY <1>0, <2>2 DEF TypeOK, CallerStates, FlightOK, Leading, Verdict, Got, Landed
      <3> QED
        BY <2>1, <3>1, Untouched
    <2>4. Flown' = Flown /\ Told' = Told
      BY <1>0, <2>1, <2>2, Untouched DEF TypeOK, CallerStates, FlightOK, Leading, Verdict, Got, Landed
    <2>5. Promise!Deliver(c)
      BY <2>2, <2>3, <2>4 DEF Promise!Deliver
    <2> QED
      BY <2>5 DEF Promise!Next
  <1>10. ASSUME NEW c \in Callers, Woken(c) PROVE [Promise!Next]_(Promise!vars)
    <2> USE <1>10 DEF Woken
    <2>1. \A e \in Callers \ {c} : caller'[e] = caller[e]
      BY DEF TypeOK
    <2> DEFINE f == caller[c].flight
    <2>2. f \in Callers /\ f # c /\ Got(c) = None
      BY <1>0 DEF TypeOK, CallerStates, FlightOK, Leading, Verdict, Got, Landed
    <2>3. Verdict(f) = result[f] /\ Verdict(f) \in Results
      BY <1>0, <2>2 DEF TypeOK, CallerStates, FlightOK, Leading, Verdict, Got, Landed, DoneOK
    <2>4. Gone' = [Gone EXCEPT ![c] = Verdict(f)]
      <3>1. /\ caller'[c].phase = "over" /\ caller'[c].flight = f
            /\ caller'[c].reply = result[f] /\ result[f] # "canceled"
        BY <1>0, <2>2, <2>3 DEF TypeOK, CallerStates, Results
      <3>2. Got(c)' = Verdict(f)
        BY <2>2, <2>3, <3>1 DEF Got
      <3> QED
        BY <2>1, <3>2, Untouched
    <2>5. Flown' = Flown /\ Told' = Told
      BY <1>0, <2>1, <2>2, Untouched DEF TypeOK, CallerStates, FlightOK, Leading, Verdict, Got, Landed
    <2>6. Promise!Deliver(c)
      BY <2>2, <2>3, <2>4, <2>5 DEF Promise!Deliver
    <2> QED
      BY <2>6 DEF Promise!Next
  <1>11. ASSUME NEW c \in Callers, GiveUpWaiting(c) PROVE [Promise!Next]_(Promise!vars)
    <2> USE <1>11 DEF GiveUpWaiting
    <2>1. \A e \in Callers \ {c} : caller'[e] = caller[e]
      BY DEF TypeOK
    <2>2. caller[c].flight \notin {None, c} /\ Got(c) = None
      BY <1>0 DEF TypeOK, CallerStates, FlightOK, Leading, Verdict, Got, Landed
    <2>3. Gone' = [Gone EXCEPT ![c] = "left"]
      <3>1. Got(c)' = "left"
        BY <1>0, <2>2 DEF TypeOK, CallerStates, FlightOK, Leading, Verdict, Got, Landed
      <3> QED
        BY <2>1, <3>1, Untouched
    <2>4. Flown' = Flown /\ Told' = Told
      BY <1>0, <2>1, <2>2, Untouched DEF TypeOK, CallerStates, FlightOK, Leading, Verdict, Got, Landed
    <2>5. Promise!Leave(c)
      BY <2>2, <2>3, <2>4 DEF Promise!Leave
    <2> QED
      BY <2>5 DEF Promise!Next
  <1>12. ASSUME NEW c \in Callers, Expire(c) PROVE [Promise!Next]_(Promise!vars)
    <2> USE <1>12 DEF Expire
    <2>1. \A e \in Callers \ {c} : caller'[e] = caller[e]
      BY DEF TypeOK
    <2>2. \A e \in Callers : /\ caller'[e].flight = caller[e].flight
                            /\ Verdict(e)' = Verdict(e) /\ Got(e)' = Got(e)
      BY <1>0, <2>1, Untouched DEF TypeOK, CallerStates, FlightOK, Leading, Verdict, Got, Landed
    <2> QED
      BY <2>2 DEF Promise!vars
  <1>13. CASE UNCHANGED vars
    BY <1>13 DEF vars, Promise!vars, Verdict, Got, Landed
  <1> QED
    BY <1>1, <1>2, <1>3, <1>4, <1>5, <1>6, <1>7, <1>8, <1>9, <1>10, <1>11, <1>12, <1>13
       DEF Next, Proceed

(* The registry of gitlabduo_dedup.go implements SingleFlight: at most one   *)
(* flight is open per key, and everybody aboard gets its one verdict.        *)
THEOREM Refinement == Spec => ImplementsSingleFlight
  BY InitRefines, StepRefines, Invariance, PTL
     DEF Spec, ImplementsSingleFlight, Promise!Spec

(***************************************************************************)
(* The workflow client, for any number of callers and keys, any statuses   *)
(* GitLab may refuse with and logs of any length: it spends a second       *)
(* credit only after a first that gave nothing, and hands out the last     *)
(* word of a workflow that finished.                                       *)
(***************************************************************************)

(* A set of entries of a log, unless it is empty, has a last one: sets of    *)
(* later entries cannot shrink for ever.                                     *)
LEMMA LastExists ==
  ASSUME NEW n \in Nat, NEW S \in SUBSET (1..n), S # {}
  PROVE  \E k \in S : \A j \in S : j <= k
  <1> DEFINE After(k) == {j \in S : j > k}
             All == {After(k) : k \in S}
  <1>1. IsFiniteSet(S)
    <2>1. IsFiniteSet(1..n)
      BY FS_Interval
    <2> QED
      BY <2>1, FS_Subset
  <1>2. IsWellFoundedOn(StrictSubsetOrdering(S), SUBSET S)
    BY <1>1, FS_StrictSubsetOrderingWellFounded, FS_FiniteSubsetsOfFinite
  <1>3. All \subseteq SUBSET S /\ All # {}
    OBVIOUS
  <1>4. PICK T \in All : \A U \in All : <<U, T>> \notin StrictSubsetOrdering(S)
    BY <1>2, <1>3, WFMin
  <1>5. PICK k \in S : T = After(k)
    OBVIOUS
  <1>6. ASSUME NEW j \in S, ~ (j <= k) PROVE FALSE
    <2>1. j > k
      BY <1>6
    <2>2. ASSUME NEW i \in S, i > j PROVE i > k
      BY <2>1, <2>2
    <2>3. After(j) \subseteq After(k)
      BY <2>2
    <2>4. j \in After(k) /\ j \notin After(j)
      BY <2>1
    <2>5. <<After(j), T>> \in StrictSubsetOrdering(S)
      BY <2>3, <2>4, <1>5 DEF StrictSubsetOrdering
    <2>6. After(j) \in All
      OBVIOUS
    <2> QED
      BY <2>5, <2>6, <1>4
  <1> QED
    BY <1>6

(* The answer that is taken from a log is an entry of it, or none.           *)
LEMMA AnswerInLog ==
  ASSUME NEW log \in Seq(Entries)
  PROVE  extractAnswerFromCheckpoint(log) \in 0..Len(log)
  <1>1. ASSUME NEW kinds, OfKinds(log, kinds) # {}
        PROVE  LastIn(OfKinds(log, kinds)) \in 1..Len(log)
    <2>1. OfKinds(log, kinds) \in SUBSET (1..Len(log)) /\ Len(log) \in Nat
      BY DEF OfKinds
    <2>2. \E k \in OfKinds(log, kinds) : \A j \in OfKinds(log, kinds) : j <= k
      BY <1>1, <2>1, LastExists
    <2>3. LastIn(OfKinds(log, kinds)) \in OfKinds(log, kinds)
      BY <2>2 DEF LastIn
    <2> QED
      BY <2>1, <2>3
  <1> QED
    BY <1>1 DEF extractAnswerFromCheckpoint, NoAnswer

(* The answer taken from a log that ends in a final message is that message. *)
LEMMA LastWordTaken ==
  ASSUME NEW log \in Seq(Entries), log # <<>>, log[Len(log)].kind = "final"
  PROVE  extractAnswerFromCheckpoint(log) = Len(log)
  <1> DEFINE finals == OfKinds(log, {"final"})
  <1>1. Len(log) \in finals /\ finals \subseteq 1..Len(log) /\ Len(log) \in Nat
    BY DEF OfKinds
  <1>2. \A k \in finals : (\A j \in finals : j <= k) => k = Len(log)
    BY <1>1
  <1>3. \A j \in finals : j <= Len(log)
    BY <1>1
  <1>4. LastIn(finals) = Len(log)
    BY <1>1, <1>2, <1>3 DEF LastIn
  <1> QED
    BY <1>1, <1>4 DEF extractAnswerFromCheckpoint

(* A log goes on as a log, within its bound.                                 *)
LEMMA LogGoesOn ==
  ASSUME NEW log \in Seq(Entries), Len(log) <= MaxLog,
         NEW more \in Continuations(log)
  PROVE  more \in Seq(Entries) /\ Len(more) <= MaxLog
  <1> USE WorkflowAssumption
  <1>1. CASE more = log
    BY <1>1
  <1>2. CASE log # <<>> /\ more = [log EXCEPT ![Len(log)].full = TRUE]
    <2>1. Len(log) \in 1..Len(log) /\ log[Len(log)] \in Entries
      BY <1>2
    <2>2. [log[Len(log)] EXCEPT !.full = TRUE] \in Entries
      BY <2>1 DEF Entries
    <2> QED
      BY <1>2, <2>1, <2>2
  <1>3. ASSUME Len(log) # MaxLog, NEW e \in Entries,
               more = Append([k \in DOMAIN log |-> [log[k] EXCEPT !.full = TRUE]], e)
        PROVE  more \in Seq(Entries) /\ Len(more) <= MaxLog
    <2> DEFINE written == [k \in DOMAIN log |-> [log[k] EXCEPT !.full = TRUE]]
    <2>1. ASSUME NEW k \in 1..Len(log) PROVE [log[k] EXCEPT !.full = TRUE] \in Entries
      <3>1. log[k] \in Entries
        BY ElementOfSeq
      <3> QED
        BY <3>1 DEF Entries
    <2>2. written \in [1..Len(log) -> Entries] /\ Len(log) \in Nat
      BY <2>1, LenProperties
    <2>3. written \in Seq(Entries)
      BY <2>2, SeqDef
    <2>4. Len(written) = Len(log)
      BY <2>2
    <2> HIDE DEF written
    <2>5. Append(written, e) \in Seq(Entries) /\ Len(Append(written, e)) = Len(log) + 1
      BY <2>3, <2>4
    <2> QED
      BY <2>2, <2>5, <1>3 DEF written
  <1> QED
    BY <1>1, <1>2, <1>3 DEF Continuations

-----------------------------------------------------------------------------
(* What the workflow client does is what DuoInflight says of leaders.        *)

(* Every step of the client is a step of DuoInflight, or one inside of       *)
(* runDuoWorkflow that nobody else sees.                                     *)
LEMMA StepOfInflight == [WorkflowNext]_<<flightVars, workflowVars>> => [Next]_vars
  <1> SUFFICES ASSUME WorkflowNext PROVE [Next]_vars
    BY DEF vars, flightVars
  <1> USE DEF flightVars, vars
  <1>1. ASSUME NEW c \in Callers, Arrive(c) PROVE [Next]_vars
    BY <1>1 DEF Arrive, Next
  <1>2. ASSUME NEW c \in Callers, Elsewhere(c) PROVE [Next]_vars
    BY <1>2 DEF Elsewhere, Next, Proceed
  <1>3. ASSUME NEW c \in Callers, WorkflowStep(c) PROVE [Next]_vars
    <2>1. CASE Create(c)
      BY <2>1 DEF Create
    <2>2. CASE CreateUnanswered(c)
      BY <2>2 DEF CreateUnanswered
    <2>3. CASE Access(c) \/ Dial(c) \/ StartRequest(c)
      BY <2>3 DEF Access, Dial, StartRequest
    <2>4. CASE Refuse(c) \/ Unreachable(c)
      BY <2>4 DEF Refuse, Refused, Unreachable
    <2>5. CASE ReadCheckpoint(c)
      BY <2>5 DEF ReadCheckpoint
    <2>6. CASE ReadCloses(c) \/ ReadBreaks(c)
      BY <2>6 DEF ReadCloses, ReadBreaks
    <2>7. CASE ReturnedAnswer(c)
      BY <2>7 DEF ReturnedAnswer, Next, Proceed
    <2>8. CASE Retry(c)
      BY <2>8 DEF Retry, Next, Proceed
    <2>9. CASE ReturnedError(c)
      BY <2>9 DEF ReturnedError, Next, Proceed
    <2>10. CASE PanicAtWork(c)
      BY <2>10 DEF PanicAtWork, Next, Proceed
    <2> QED
      BY <1>3, <2>1, <2>2, <2>3, <2>4, <2>5, <2>6, <2>7, <2>8, <2>9, <2>10 DEF WorkflowStep
  <1> QED
    BY <1>1, <1>2, <1>3 DEF WorkflowNext

-----------------------------------------------------------------------------
(* What is known of a leader between two steps of its workflow: a second     *)
(* workflow is only begun while nothing was heard of the first, and an       *)
(* answer is held as soon as there is one.                                   *)
Holding(c) ==
    LET f == flow[c]
        g == gitlab[c]
    IN  /\ Len(g.log) <= MaxLog
        /\ caller[c].phase \in {"new", "working"} => g.created <= 1
        /\ caller[c].phase = "new" => f = Called /\ g = NthWorkflow(0)
        /\ At(c, "create") => g.created <= (IF caller[c].phase = "working" THEN 0 ELSE 1)
        /\ Working(c) /\ f.step \in {"create", "access", "dial", "start"} => ~ g.heard
        /\ At(c, "read") /\ g.heard => f.answer # NoAnswer
        /\ At(c, "returned") /\ f.error # None => ~ g.heard
        /\ Working(c) /\ f.step # "returned" => f.error = None /\ g.end # "finished"
        /\ At(c, "returned") /\ g.end = "finished" =>
              f.error = None /\ f.answer = Len(g.log) /\ f.full

WInv ==
    /\ IInv
    /\ WorkflowTypeOK
    /\ \A c \in Callers : Holding(c)

(* At the start no caller has a workflow.                                    *)
LEMMA WorkflowInitInv == WorkflowInit => WInv
  <1> SUFFICES ASSUME WorkflowInit PROVE WInv
    OBVIOUS
  <1> USE WorkflowAssumption DEF WorkflowInit
  <1>1. IInv
    BY InitInv
  <1>2. Called \in Flows /\ Called.step = "create" /\ Called.error = None
    BY DEF Called, Flows, Steps, NoAnswer
  <1>3. NthWorkflow(0) \in Workflows /\ Len(NthWorkflow(0).log) = 0
    BY EmptySeq DEF NthWorkflow, Workflows, Ends
  <1>4. NthWorkflow(0).created = 0 /\ ~ NthWorkflow(0).heard /\ NthWorkflow(0).end = "running"
    BY DEF NthWorkflow
  <1>5. ASSUME NEW c \in Callers PROVE Holding(c)
    <2>1. flow[c] = Called /\ gitlab[c] = NthWorkflow(0) /\ caller[c].phase = "new"
      BY DEF Init, NewCaller
    <2> QED
      BY <2>1, <1>2, <1>3, <1>4 DEF Holding, At, Working
  <1> QED
    BY <1>1, <1>2, <1>3, <1>5 DEF WInv, WorkflowTypeOK

(* A step of one caller leaves what is known of the others as it is.         *)
LEMMA OthersHold ==
  ASSUME WInv, NEW c \in Callers, NEW f \in Flows, NEW g \in Workflows,
         flow' = [flow EXCEPT ![c] = f], gitlab' = [gitlab EXCEPT ![c] = g],
         \A e \in Callers \ {c} : caller'[e] = caller[e],
         Holding(c)'
  PROVE  WorkflowTypeOK' /\ \A e \in Callers : Holding(e)'
  <1> USE DEF WInv, WorkflowTypeOK
  <1>1. \A e \in Callers \ {c} : flow'[e] = flow[e] /\ gitlab'[e] = gitlab[e]
    OBVIOUS
  <1>2. \A e \in Callers \ {c} : Holding(e)'
    BY <1>1 DEF Holding, At, Working
  <1> QED
    BY <1>2

(* A step that neither begins work nor touches the workflow changes nothing  *)
(* of what is known.                                                         *)
LEMMA RestHolds ==
  ASSUME WInv, NEW c \in Callers, UNCHANGED workflowVars,
         \A e \in Callers \ {c} : caller'[e] = caller[e],
         \/ caller'[c].phase \notin {"new", "working", "retrying"}
         \/ caller'[c].phase = caller[c].phase
  PROVE  WorkflowTypeOK' /\ \A e \in Callers : Holding(e)'
  <1> USE DEF WInv, WorkflowTypeOK
  <1>1. flow' = flow /\ gitlab' = gitlab
    BY DEF workflowVars
  <1>2. Holding(c)'
    BY <1>1 DEF Holding, At, Working
  <1>3. flow' = [flow EXCEPT ![c] = flow[c]] /\ gitlab' = [gitlab EXCEPT ![c] = gitlab[c]]
    BY <1>1
  <1>4. flow[c] \in Flows /\ gitlab[c] \in Workflows
    OBVIOUS
  <1> QED
    BY <1>2, <1>3, <1>4, OthersHold

(* A caller that arrives, to lead or to join, starts no workflow.            *)
LEMMA ArriveHolds ==
  ASSUME WInv, NEW c \in Callers, Arrive(c)
  PROVE  WorkflowTypeOK' /\ \A e \in Callers : Holding(e)'
  <1> USE DEF WInv, WorkflowTypeOK
  <1>1. flow' = flow /\ gitlab' = gitlab
    BY DEF Arrive, workflowVars
  <1>2. caller[c] \in CallerStates /\ caller[c].phase = "new"
    BY DEF Arrive, Lead, Join, IInv, TypeOK
  <1>3. /\ caller'[c].phase \in {"working", "waiting"}
        /\ \A e \in Callers \ {c} : caller'[e] = caller[e]
    BY <1>2 DEF Arrive, Lead, Join, IInv, TypeOK, CallerStates
  <1>4. Holding(c)'
    BY <1>1, <1>2, <1>3 DEF Holding, At, Working, NthWorkflow, Called
  <1>5. flow' = [flow EXCEPT ![c] = flow[c]] /\ gitlab' = [gitlab EXCEPT ![c] = gitlab[c]]
    BY <1>1
  <1>6. flow[c] \in Flows /\ gitlab[c] \in Workflows
    OBVIOUS
  <1> QED
    BY <1>3, <1>4, <1>5, <1>6, OthersHold

(* A step of a caller outside the workflow leaves all workflows alone.       *)
LEMMA ElsewhereHolds ==
  ASSUME WInv, NEW c \in Callers, Elsewhere(c)
  PROVE  WorkflowTypeOK' /\ \A e \in Callers : Holding(e)'
  <1>1. caller[c] \in CallerStates /\ caller \in [Callers -> CallerStates]
    BY DEF WInv, IInv, TypeOK
  <1>2. /\ \A e \in Callers \ {c} : caller'[e] = caller[e]
        /\ \/ caller'[c].phase \notin {"new", "working", "retrying"}
           \/ caller'[c].phase = caller[c].phase
    BY <1>1 DEF Elsewhere, AnswerWritten, Unregister, Close, Woken, GiveUpWaiting, Expire, Panic,
                CallerStates
  <1> QED
    BY <1>2, RestHolds DEF Elsewhere

(* What a call of runDuoWorkflow knows when it returns an error: it has      *)
(* nothing to answer with.                                                   *)
LEMMA ErrorHolds ==
  ASSUME WInv, NEW c \in Callers, NEW error \in Errors, NEW g \in Workflows,
         Working(c), flow[c].step # "returned", UNCHANGED flightVars,
         ReturnsError(c, error), gitlab' = [gitlab EXCEPT ![c] = g],
         ~ g.heard, g.end # "finished", Len(g.log) <= MaxLog,
         caller[c].phase = "working" => g.created <= 1
  PROVE  WorkflowTypeOK' /\ \A e \in Callers : Holding(e)'
  <1> USE DEF WInv, WorkflowTypeOK
  <1> DEFINE f == [flow[c] EXCEPT !.step = "returned", !.error = error, !.answer = NoAnswer]
  <1>1. f \in Flows /\ f.step = "returned"
    <2>1. flow[c] \in Flows /\ 0 \in 0..MaxLog
      BY WorkflowAssumption
    <2> QED
      BY <2>1 DEF Flows, Steps, NoAnswer
  <1>2. flow' = [flow EXCEPT ![c] = f]
    BY DEF ReturnsError
  <1> HIDE DEF f
  <1>3. caller' = caller /\ flow'[c] = f /\ gitlab'[c] = g
    BY <1>2 DEF flightVars
  <1>4. Holding(c)'
    BY <1>1, <1>3 DEF Holding, At, Working
  <1> QED
    BY <1>1, <1>2, <1>3, <1>4, OthersHold

(* The calls to GitLab up to the start request.                              *)
LEMMA CallsHold ==
  ASSUME WInv, NEW c \in Callers,
         \/ Create(c) \/ CreateUnanswered(c) \/ Access(c) \/ Dial(c) \/ StartRequest(c)
         \/ Refuse(c) \/ Unreachable(c)
  PROVE  WorkflowTypeOK' /\ \A e \in Callers : Holding(e)'
  <1> USE DEF WInv, WorkflowTypeOK
  <1>1. flow[c] \in Flows /\ gitlab[c] \in Workflows /\ Holding(c)
    OBVIOUS
  <1>2. gitlab = [gitlab EXCEPT ![c] = gitlab[c]]
    OBVIOUS
  <1> DEFINE next == NthWorkflow(gitlab[c].created + 1)
  <1>3. ASSUME At(c, "create")
        PROVE  /\ next \in Workflows /\ Len(next.log) <= MaxLog /\ ~ next.heard /\ next.end # "finished"
               /\ caller[c].phase = "working" => next.created <= 1
    <2>1. /\ gitlab[c].created \in 0..1
          /\ caller[c].phase = "working" => gitlab[c].created = 0
      BY <1>1, <1>3 DEF Holding, Workflows
    <2>2. <<>> \in Seq(Entries) /\ Len(<<>>) = 0
      BY EmptySeq
    <2> QED
      BY <2>1, <2>2, WorkflowAssumption DEF NthWorkflow, Workflows, Ends
  <1>4. CASE Create(c)
    <2> DEFINE f == [flow[c] EXCEPT !.step = "access"]
    <2>1. f \in Flows /\ f.step = "access" /\ f.error = flow[c].error
      BY <1>1 DEF Flows, Steps
    <2>2. flow' = [flow EXCEPT ![c] = f] /\ gitlab' = [gitlab EXCEPT ![c] = next] /\ caller' = caller
      BY <1>4 DEF Create, NewWorkflow, Goes, flightVars
    <2>3. At(c, "create")
      BY <1>4 DEF Create
    <2> HIDE DEF f, next
    <2>4. flow'[c] = f /\ gitlab'[c] = next
      BY <2>2
    <2>5. Working(c) /\ caller[c].phase # "new" /\ flow[c].error = None
      BY <1>1, <2>3 DEF At, Working, Holding
    <2>6. Holding(c)'
      BY <1>3, <2>1, <2>2, <2>3, <2>4, <2>5 DEF Holding, At, Working
    <2> QED
      BY <1>3, <2>1, <2>2, <2>3, <2>6, OthersHold
  <1>5. CASE CreateUnanswered(c)
    <2>1. PICK says \in {"", "lost"} : ReturnsError(c, Error("create", 0, says))
      BY <1>5 DEF CreateUnanswered
    <2>2. Error("create", 0, says) \in Errors
      BY DEF Error, Errors, Steps
    <2>3. /\ At(c, "create") /\ UNCHANGED flightVars
          /\ gitlab' = [gitlab EXCEPT ![c] = next]
      BY <1>5 DEF CreateUnanswered, NewWorkflow
    <2>4. Working(c) /\ flow[c].step # "returned"
      BY <2>3 DEF At
    <2> HIDE DEF next
    <2> QED
      BY <1>3, <2>1, <2>2, <2>3, <2>4, ErrorHolds
  <1>6. ASSUME NEW from, NEW to, <<from, to>> \in {<<"access", "dial">>, <<"dial", "start">>, <<"start", "read">>},
               At(c, from), Goes(c, to), UNCHANGED <<flightVars, gitlab>>
        PROVE  WorkflowTypeOK' /\ \A e \in Callers : Holding(e)'
    <2> DEFINE f == [flow[c] EXCEPT !.step = to]
    <2>1. f \in Flows /\ f.step = to /\ f.error = flow[c].error /\ to \in {"dial", "start", "read"} /\ from \in {"access", "dial", "start"}
      BY <1>1, <1>6 DEF Flows, Steps
    <2>2. flow' = [flow EXCEPT ![c] = f] /\ gitlab' = gitlab /\ caller' = caller
      BY <1>6 DEF Goes, flightVars
    <2> HIDE DEF f
    <2>3. flow'[c] = f
      BY <2>2
    <2>4. Holding(c)'
      BY <1>1, <1>6, <2>1, <2>2, <2>3 DEF Holding, At, Working
    <2> QED
      BY <1>1, <1>2, <2>1, <2>2, <2>4, OthersHold
  <1>7. CASE Access(c) \/ Dial(c) \/ StartRequest(c)
    BY <1>6, <1>7 DEF Access, Dial, StartRequest
  <1>8. ASSUME NEW step \in {"create", "access", "dial", "start"}, NEW error \in Errors,
               At(c, step), ReturnsError(c, error), UNCHANGED <<flightVars, gitlab>>
        PROVE  WorkflowTypeOK' /\ \A e \in Callers : Holding(e)'
    <2>1. /\ ~ gitlab[c].heard /\ gitlab[c].end # "finished" /\ Len(gitlab[c].log) <= MaxLog
          /\ caller[c].phase = "working" => gitlab[c].created <= 1
      BY <1>1, <1>8 DEF Holding, At
    <2>2. Working(c) /\ flow[c].step # "returned" /\ UNCHANGED flightVars
      BY <1>8 DEF At
    <2>3. gitlab' = [gitlab EXCEPT ![c] = gitlab[c]]
      BY <1>8
    <2> QED
      BY <1>1, <1>8, <2>1, <2>2, <2>3, ErrorHolds
  <1>9. CASE Refuse(c)
    <2>1. PICK step \in {"create", "access", "dial"}, code \in Codes, says \in {"", "credit"} :
             Refused(c, step, Error(step, code, says))
      BY <1>9 DEF Refuse
    <2>2. Error(step, code, says) \in Errors
      BY DEF Error, Errors, Steps
    <2> QED
      BY <1>8, <2>1, <2>2 DEF Refused
  <1>10. CASE Unreachable(c)
    <2>1. PICK step \in {"create", "access", "dial", "start"}, says \in {"", "lost"} :
             /\ At(c, step)
             /\ ReturnsError(c, Error(step, 0, says))
             /\ UNCHANGED <<flightVars, gitlab>>
      BY <1>10 DEF Unreachable
    <2>2. Error(step, 0, says) \in Errors
      BY DEF Error, Errors, Steps
    <2> QED
      BY <1>8, <2>1, <2>2
  <1> QED
    BY <1>4, <1>5, <1>7, <1>9, <1>10

(* A checkpoint that is read: the answer taken from it is in the log.        *)
LEMMA CheckpointHolds ==
  ASSUME WInv, NEW c \in Callers, ReadCheckpoint(c)
  PROVE  WorkflowTypeOK' /\ \A e \in Callers : Holding(e)'
  <1> USE DEF WInv, WorkflowTypeOK
  <1>1. flow[c] \in Flows /\ gitlab[c] \in Workflows /\ Holding(c)
    OBVIOUS
  <1>2. PICK log \in Continuations(gitlab[c].log) : \E end \in Ending(log), bare \in BOOLEAN :
          LET k      == extractAnswerFromCheckpoint(log)
              takes  == ~ bare /\ k # NoAnswer
              silent == end # "running" /\ ~ takes /\ flow[c].answer = NoAnswer
          IN  /\ bare => end \in {"running", "failed"}
              /\ gitlab' = [gitlab EXCEPT ![c].log = log, ![c].heard = @ \/ takes, ![c].end = end]
              /\ flow' = [flow EXCEPT
                   ![c].step   = IF end = "running" THEN "read" ELSE "returned",
                   ![c].answer = IF takes THEN k ELSE @,
                   ![c].full   = IF takes THEN log[k].full ELSE @,
                   ![c].error  = IF silent THEN Silence ELSE None]
    BY DEF ReadCheckpoint
  <1> DEFINE k == extractAnswerFromCheckpoint(log)
  <1>3. PICK end \in Ending(log), bare \in BOOLEAN :
          LET takes  == ~ bare /\ k # NoAnswer
              silent == end # "running" /\ ~ takes /\ flow[c].answer = NoAnswer
          IN  /\ bare => end \in {"running", "failed"}
              /\ gitlab' = [gitlab EXCEPT ![c].log = log, ![c].heard = @ \/ takes, ![c].end = end]
              /\ flow' = [flow EXCEPT
                   ![c].step   = IF end = "running" THEN "read" ELSE "returned",
                   ![c].answer = IF takes THEN k ELSE @,
                   ![c].full   = IF takes THEN log[k].full ELSE @,
                   ![c].error  = IF silent THEN Silence ELSE None]
    BY <1>2
  <1>4. log \in Seq(Entries) /\ Len(log) <= MaxLog
    <2>1. gitlab[c].log \in Seq(Entries) /\ Len(gitlab[c].log) <= MaxLog
      BY <1>1 DEF Workflows, Holding
    <2> QED
      BY <2>1, LogGoesOn
  <1>5. k \in 0..Len(log) /\ Len(log) \in Nat
    BY <1>4, AnswerInLog
  <1>6. k # NoAnswer => log[k] \in Entries /\ log[k].full \in BOOLEAN
    <2>1. ASSUME k # NoAnswer PROVE log[k] \in Entries
      BY <1>4, <1>5, <2>1, ElementOfSeq DEF NoAnswer
    <2> QED
      BY <2>1 DEF Entries
  <1>7. end \in Ends
    BY DEF Ending, Ends
  <1>8. end = "finished" => k = Len(log) /\ k # NoAnswer /\ log[k].full
    <2> SUFFICES ASSUME end = "finished" PROVE k = Len(log) /\ k # NoAnswer /\ log[k].full
      OBVIOUS
    <2>1. log # <<>> /\ log[Len(log)].full /\ log[Len(log)].kind = "final"
      BY DEF Ending
    <2>2. Len(log) # 0
      BY <1>4, <2>1, EmptySeq
    <2> QED
      BY <1>4, <2>1, <2>2, LastWordTaken DEF NoAnswer
  <1> HIDE DEF k
  <1> DEFINE takes  == ~ bare /\ k # NoAnswer
             silent == end # "running" /\ ~ takes /\ flow[c].answer = NoAnswer
             f == [flow[c] EXCEPT
                     !.step   = IF end = "running" THEN "read" ELSE "returned",
                     !.answer = IF takes THEN k ELSE @,
                     !.full   = IF takes THEN log[k].full ELSE @,
                     !.error  = IF silent THEN Silence ELSE None]
             g == [gitlab[c] EXCEPT !.log = log, !.heard = @ \/ takes, !.end = end]
  <1>9. flow' = [flow EXCEPT ![c] = f] /\ gitlab' = [gitlab EXCEPT ![c] = g]
    BY <1>3
  <1>10. /\ f.step = IF end = "running" THEN "read" ELSE "returned"
         /\ f.answer = IF takes THEN k ELSE flow[c].answer
         /\ f.full = IF takes THEN log[k].full ELSE flow[c].full
         /\ f.error = IF silent THEN Silence ELSE None
    BY <1>1 DEF Flows
  <1>11. f \in Flows
    <2>1. Silence \in Errors
      BY DEF Silence, Error, Errors
    <2>2. flow[c].answer \in 0..MaxLog /\ k \in Nat /\ (takes => k \in 0..MaxLog)
      BY <1>1, <1>4, <1>5, WorkflowAssumption DEF Flows
    <2>3. (IF takes THEN log[k].full ELSE flow[c].full) \in BOOLEAN
      BY <1>1, <1>6 DEF Flows
    <2>4. (IF takes THEN k ELSE flow[c].answer) \in 0..MaxLog
      BY <2>2
    <2>5. (IF silent THEN Silence ELSE None) \in Errors \cup {None}
      BY <2>1
    <2>6. (IF end = "running" THEN "read" ELSE "returned") \in Steps
      BY DEF Steps
    <2> HIDE DEF takes, silent
    <2> QED
      BY <1>1, <2>3, <2>4, <2>5, <2>6 DEF Flows
  <1>12. /\ g \in Workflows /\ g.log = log /\ g.end = end /\ g.created = gitlab[c].created
         /\ g.heard <=> gitlab[c].heard \/ takes
    <2>1. (gitlab[c].heard \/ takes) \in BOOLEAN
      OBVIOUS
    <2> HIDE DEF takes
    <2> QED
      BY <1>1, <1>4, <1>7, <2>1 DEF Workflows
  <1>13. caller' = caller /\ Working(c) /\ caller[c].phase # "new" /\ At(c, "read")
    BY DEF ReadCheckpoint, flightVars, At, Working
  <1> HIDE DEF f, g
  <1>14. flow'[c] = f /\ gitlab'[c] = g
    BY <1>9
  <1>15. gitlab[c].heard => flow[c].answer # NoAnswer
    BY <1>1, <1>13 DEF Holding
  <1>16. end = "finished" => takes
    BY <1>3, <1>8
  <1>17. caller[c].phase = "working" => gitlab[c].created <= 1
    BY <1>1 DEF Holding
  <1>18. Holding(c)'
    <2>1. Len(g.log) <= MaxLog /\ (caller[c].phase = "working" => g.created <= 1)
      BY <1>4, <1>12, <1>17
    <2>2. f.step = "read" /\ g.heard => f.answer # NoAnswer
      BY <1>10, <1>12, <1>15
    <2>3. f.step = "returned" /\ f.error # None => ~ g.heard
      BY <1>10, <1>12, <1>15
    <2>4. f.step # "returned" => f.error = None /\ g.end # "finished"
      BY <1>10, <1>12
    <2>5. f.step = "returned" /\ g.end = "finished" =>
            f.error = None /\ f.answer = Len(g.log) /\ f.full
      BY <1>8, <1>10, <1>12, <1>16
    <2>6. f.step \in {"read", "returned"}
      BY <1>10
    <2> HIDE DEF takes, silent
    <2> QED
      BY <1>13, <1>14, <2>1, <2>2, <2>3, <2>4, <2>5, <2>6 DEF Holding, At, Working
  <1> QED
    BY <1>9, <1>11, <1>12, <1>13, <1>18, OthersHold

(* A stream that is cut, by a close or by an error.                          *)
LEMMA CutHolds ==
  ASSUME WInv, NEW c \in Callers, ReadCloses(c) \/ ReadBreaks(c)
  PROVE  WorkflowTypeOK' /\ \A e \in Callers : Holding(e)'
  <1> USE DEF WInv, WorkflowTypeOK
  <1>1. flow[c] \in Flows /\ gitlab[c] \in Workflows /\ Holding(c)
    OBVIOUS
  <1> DEFINE g == [gitlab[c] EXCEPT !.end = "cut"]
  <1>2. /\ g \in Workflows /\ g.end = "cut" /\ g.log = gitlab[c].log
        /\ g.created = gitlab[c].created
        /\ g.heard <=> gitlab[c].heard
    BY <1>1 DEF Workflows, Ends
  <1>3. gitlab' = [gitlab EXCEPT ![c] = g]
    BY DEF ReadCloses, ReadBreaks, Cut
  <1>4. At(c, "read") /\ Working(c) /\ flow[c].step = "read" /\ UNCHANGED flightVars
    BY DEF ReadCloses, ReadBreaks, At
  <1> HIDE DEF g
  <1>5. /\ Len(g.log) <= MaxLog
        /\ caller[c].phase = "working" => g.created <= 1
        /\ gitlab[c].heard => flow[c].answer # NoAnswer
        /\ flow[c].error = None
    BY <1>1, <1>2, <1>4 DEF Holding
  <1>6. CASE flow[c].answer = NoAnswer
    <2>1. PICK error \in {Silence, Error("read", 0, "")} : ReturnsError(c, error)
      BY <1>6 DEF ReadCloses, ReadBreaks
    <2>2. Silence \in Errors /\ Error("read", 0, "") \in Errors
      BY DEF Silence, Error, Errors, Steps
    <2>3. ~ g.heard /\ g.end # "finished" /\ flow[c].step # "returned"
      BY <1>2, <1>4, <1>5, <1>6
    <2> QED
      BY <1>2, <1>3, <1>4, <1>5, <2>1, <2>2, <2>3, ErrorHolds
  <1>7. CASE flow[c].answer # NoAnswer
    <2> DEFINE f == [flow[c] EXCEPT !.step = "returned"]
    <2>1. f \in Flows /\ f.step = "returned" /\ f.error = flow[c].error
      BY <1>1 DEF Flows, Steps
    <2>2. flow' = [flow EXCEPT ![c] = f]
      BY <1>7 DEF ReadCloses, ReadBreaks, Goes
    <2> HIDE DEF f
    <2>3. flow'[c] = f /\ gitlab'[c] = g /\ caller' = caller
      BY <1>3, <1>4, <2>2 DEF flightVars
    <2>4. Holding(c)'
      BY <1>1, <1>2, <1>4, <1>5, <2>1, <2>3 DEF Holding, At, Working
    <2> QED
      BY <1>2, <1>3, <2>1, <2>2, <2>3, <2>4, OthersHold
  <1> QED
    BY <1>6, <1>7

(* A retry starts with a new workflow, the second and last.                  *)
LEMMA RetryHolds ==
  ASSUME WInv, NEW c \in Callers, Retry(c)
  PROVE  WorkflowTypeOK' /\ \A e \in Callers : Holding(e)'
  <1> USE DEF WInv, WorkflowTypeOK
  <1>1. /\ flow[c] \in Flows /\ gitlab[c] \in Workflows /\ Holding(c)
        /\ caller \in [Callers -> CallerStates]
    BY DEF IInv, TypeOK
  <1>2. /\ At(c, "returned") /\ flow[c].error # None /\ caller[c].phase = "working"
        /\ gitlab' = gitlab /\ flow' = [flow EXCEPT ![c] = Called]
    BY DEF Retry, WorkRetried
  <1>3. Called \in Flows /\ Called.step = "create" /\ Called.error = None
    BY WorkflowAssumption DEF Called, Flows, Steps, NoAnswer
  <1>4. flow'[c] = Called /\ gitlab'[c] = gitlab[c]
    BY <1>2
  <1>5. /\ caller'[c].phase = "retrying"
        /\ \A e \in Callers \ {c} : caller'[e] = caller[e]
    BY <1>1 DEF Retry, WorkRetried, CallerStates
  <1>6. /\ ~ gitlab[c].heard /\ gitlab[c].end # "finished"
        /\ gitlab[c].created <= 1 /\ Len(gitlab[c].log) <= MaxLog
    BY <1>1, <1>2 DEF Holding
  <1>7. Holding(c)'
    BY <1>3, <1>4, <1>5, <1>6 DEF Holding, At, Working
  <1>8. gitlab' = [gitlab EXCEPT ![c] = gitlab[c]]
    BY <1>2
  <1> QED
    BY <1>1, <1>2, <1>3, <1>5, <1>7, <1>8, OthersHold

(* A caller that leaves, with an answer, an error or a panic.                *)
LEMMA LeavingHolds ==
  ASSUME WInv, NEW c \in Callers, ReturnedAnswer(c) \/ ReturnedError(c) \/ PanicAtWork(c)
  PROVE  WorkflowTypeOK' /\ \A e \in Callers : Holding(e)'
  <1> USE DEF WInv, WorkflowTypeOK
  <1>1. /\ flow[c] \in Flows /\ gitlab[c] \in Workflows /\ Holding(c)
        /\ caller \in [Callers -> CallerStates]
    BY DEF IInv, TypeOK
  <1>2. /\ Working(c) /\ Leaves(c)
        /\ caller'[c].phase \in {"answering", "leaving"}
        /\ \A e \in Callers \ {c} : caller'[e] = caller[e]
    BY <1>1 DEF ReturnedAnswer, ReturnedError, PanicAtWork, WorkSucceeds, WorkFails, Panic, CallerStates
  <1> DEFINE f == [Called EXCEPT !.error = IF caller'[c].published = "credit" THEN flow[c].error ELSE None]
             g == NthWorkflow(gitlab[c].created)
  <1>3. flow' = [flow EXCEPT ![c] = f] /\ gitlab' = [gitlab EXCEPT ![c] = g]
    BY <1>2 DEF Leaves
  <1>4. f \in Flows
    <2>1. (IF caller'[c].published = "credit" THEN flow[c].error ELSE None) \in Errors \cup {None}
      BY <1>1 DEF Flows
    <2>2. Called \in Flows
      BY WorkflowAssumption DEF Called, Flows, Steps, NoAnswer
    <2> QED
      BY <2>1, <2>2 DEF Flows
  <1>5. g \in Workflows /\ Len(g.log) <= MaxLog
    <2>1. <<>> \in Seq(Entries) /\ Len(<<>>) = 0 /\ gitlab[c].created \in 0..2
      BY <1>1, EmptySeq DEF Workflows
    <2> QED
      BY <2>1, WorkflowAssumption DEF NthWorkflow, Workflows, Ends
  <1> HIDE DEF f, g
  <1>6. flow'[c] = f /\ gitlab'[c] = g
    BY <1>3
  <1>7. Holding(c)'
    BY <1>2, <1>5, <1>6 DEF Holding, At, Working
  <1> QED
    BY <1>2, <1>3, <1>4, <1>5, <1>7, OthersHold

(* Every step keeps what is known.                                           *)
LEMMA WorkflowStepInv == WInv /\ [WorkflowNext]_<<flightVars, workflowVars>> => WInv'
  <1> SUFFICES ASSUME WInv, [WorkflowNext]_<<flightVars, workflowVars>> PROVE WInv'
    OBVIOUS
  <1>1. IInv'
    BY StepOfInflight, StepInv DEF WInv
  <1>2. WorkflowTypeOK' /\ \A e \in Callers : Holding(e)'
    <2>1. CASE UNCHANGED <<flightVars, workflowVars>>
      BY <2>1 DEF WInv, WorkflowTypeOK, Holding, At, Working, flightVars, workflowVars
    <2>2. ASSUME NEW c \in Callers, Arrive(c) \/ WorkflowStep(c) \/ Elsewhere(c)
          PROVE  WorkflowTypeOK' /\ \A e \in Callers : Holding(e)'
      BY <2>2, ArriveHolds, ElsewhereHolds, CallsHold, CheckpointHolds, CutHolds, RetryHolds, LeavingHolds
         DEF WorkflowStep
    <2> QED
      BY <2>1, <2>2 DEF WorkflowNext
  <1> QED
    BY <1>1, <1>2 DEF WInv

(* The invariant of the workflow client holds in every behaviour.            *)
LEMMA WorkflowInvariance == WorkflowSpec => []WInv
  BY WorkflowInitInv, WorkflowStepInv, PTL DEF WorkflowSpec

-----------------------------------------------------------------------------
(* The theorems.                                                             *)

(* Every variable of the workflow client keeps its type: there are never     *)
(* more than two workflows, and no answer that is not in the log.            *)
THEOREM WorkflowTypeInvariant == WorkflowSpec => []WorkflowTypeOK
  <1>1. WInv => WorkflowTypeOK
    BY DEF WInv
  <1> QED
    BY <1>1, WorkflowInvariance, PTL

(* A second workflow, and its credit, is only spent when the first gave      *)
(* nothing to answer with, and a third one never.                            *)
THEOREM CreditsSaved == WorkflowSpec => AnswersKept
  <1>1. ASSUME WInv, [WorkflowNext]_<<flightVars, workflowVars>>, NEW c \in Callers,
               gitlab'[c].created > gitlab[c].created
        PROVE  gitlab[c].created < 2 /\ ~ gitlab[c].heard
    <2>1. gitlab \in [Callers -> Workflows] /\ gitlab[c].created \in 0..2 /\ Holding(c)
      BY <1>1 DEF WInv, WorkflowTypeOK, Workflows
    <2>2. CASE At(c, "create")
      BY <2>1, <2>2 DEF Holding, At, Working
    <2>3. CASE ~ At(c, "create")
      <3>1. gitlab'[c].created = gitlab[c].created
        <4>1. ASSUME NEW d \in Callers, Arrive(d) \/ Elsewhere(d) PROVE gitlab' = gitlab
          BY <4>1 DEF Arrive, Elsewhere, workflowVars
        <4>2. ASSUME NEW d \in Callers, d # c, WorkflowStep(d) PROVE gitlab'[c] = gitlab[c]
          BY <2>1, <4>2 DEF WorkflowStep, Create, CreateUnanswered, Access, Dial, StartRequest, Refuse,
             Refused, Unreachable, ReadCheckpoint, ReadCloses, ReadBreaks, Cut, ReturnedAnswer, Retry,
             ReturnedError, PanicAtWork, Leaves, NewWorkflow
        <4>3. ASSUME WorkflowStep(c) PROVE gitlab'[c].created = gitlab[c].created
          <5>1. CASE Create(c) \/ CreateUnanswered(c)
            BY <2>3, <5>1 DEF Create, CreateUnanswered
          <5>2. CASE Access(c) \/ Dial(c) \/ StartRequest(c) \/ Refuse(c) \/ Unreachable(c) \/ Retry(c)
            BY <5>2 DEF Access, Dial, StartRequest, Refuse, Refused, Unreachable, Retry
          <5>3. CASE ReadCloses(c) \/ ReadBreaks(c)
            <6>1. gitlab' = [gitlab EXCEPT ![c].end = "cut"]
              BY <5>3 DEF ReadCloses, ReadBreaks, Cut
            <6> QED
              BY <2>1, <6>1 DEF Workflows
          <5>5. CASE ReadCheckpoint(c)
            <6>1. PICK log \in Continuations(gitlab[c].log) : \E end \in Ending(log), bare \in BOOLEAN :
                    LET k      == extractAnswerFromCheckpoint(log)
                        takes  == ~ bare /\ k # NoAnswer
                        silent == end # "running" /\ ~ takes /\ flow[c].answer = NoAnswer
                    IN  /\ bare => end \in {"running", "failed"}
                        /\ gitlab' = [gitlab EXCEPT ![c].log = log, ![c].heard = @ \/ takes, ![c].end = end]
                        /\ flow' = [flow EXCEPT
                             ![c].step   = IF end = "running" THEN "read" ELSE "returned",
                             ![c].answer = IF takes THEN k ELSE @,
                             ![c].full   = IF takes THEN log[k].full ELSE @,
                             ![c].error  = IF silent THEN Silence ELSE None]
              BY <5>5 DEF ReadCheckpoint
            <6> DEFINE answers == extractAnswerFromCheckpoint(log) # NoAnswer
            <6>2. PICK end \in Ending(log), bare \in BOOLEAN :
                    gitlab' = [gitlab EXCEPT ![c].log = log, ![c].heard = @ \/ (~ bare /\ answers), ![c].end = end]
              BY <6>1
            <6> HIDE DEF answers
            <6> QED
              BY <2>1, <6>2 DEF Workflows
          <5>4. CASE ReturnedAnswer(c) \/ ReturnedError(c) \/ PanicAtWork(c)
            BY <2>1, <5>4 DEF ReturnedAnswer, ReturnedError, PanicAtWork, Leaves, NthWorkflow
          <5> QED
            BY <4>3, <5>1, <5>2, <5>3, <5>4, <5>5 DEF WorkflowStep
        <4>4. UNCHANGED <<flightVars, workflowVars>> => gitlab' = gitlab
          BY DEF workflowVars
        <4> QED
          BY <1>1, <4>1, <4>2, <4>3, <4>4 DEF WorkflowNext
      <3> QED
        BY <1>1, <2>1, <3>1
    <2> QED
      BY <2>2, <2>3
  <1>2. WInv /\ [WorkflowNext]_<<flightVars, workflowVars>>
        => [\A c \in Callers : gitlab'[c].created > gitlab[c].created =>
               gitlab[c].created < 2 /\ ~ gitlab[c].heard]_workflowVars
    BY <1>1
  <1> QED
    BY <1>2, WorkflowInvariance, PTL DEF WorkflowSpec, AnswersKept

(* Whoever is answered after its workflow finished has the last entry of the *)
(* log, and all of it.                                                       *)
THEOREM LastWord == WorkflowSpec => LastWordDelivered
  <1>1. ASSUME WInv, [WorkflowNext]_<<flightVars, workflowVars>>, NEW c \in Callers,
               caller[c].published # "answer", caller'[c].published = "answer",
               gitlab[c].end = "finished"
        PROVE  flow[c].answer = Len(gitlab[c].log) /\ flow[c].full
    <2>1. caller \in [Callers -> CallerStates] /\ caller[c] \in CallerStates /\ Holding(c)
      BY <1>1 DEF WInv, IInv, TypeOK
    <2>2. ReturnedAnswer(c)
      <3>1. ASSUME NEW d \in Callers, Arrive(d) \/ Elsewhere(d) PROVE FALSE
        <4>1. CASE Arrive(d)
          BY <1>1, <2>1, <4>1 DEF Arrive, Lead, Join, CallerStates
        <4>2. CASE AnswerWritten(d) \/ Unregister(d) \/ Close(d) \/ Expire(d)
          BY <1>1, <2>1, <4>2 DEF AnswerWritten, Unregister, Close, Expire, CallerStates
        <4>3. CASE Woken(d) \/ GiveUpWaiting(d) \/ Panic(d)
          BY <1>1, <2>1, <4>3 DEF Woken, GiveUpWaiting, Panic, CallerStates
        <4> QED
          BY <3>1, <4>1, <4>2, <4>3 DEF Elsewhere
      <3>2. ASSUME NEW d \in Callers, WorkflowStep(d), ~ ReturnedAnswer(d) PROVE FALSE
        <4>1. CASE Retry(d) \/ ReturnedError(d) \/ PanicAtWork(d)
          BY <1>1, <2>1, <4>1 DEF Retry, WorkRetried, ReturnedError, WorkFails, PanicAtWork, Panic, CallerStates
        <4>2. CASE UNCHANGED flightVars
          BY <1>1, <4>2 DEF flightVars
        <4> QED
          BY <3>2, <4>1, <4>2 DEF WorkflowStep, Create, CreateUnanswered, Access, Dial, StartRequest,
             Refuse, Refused, Unreachable, ReadCheckpoint, ReadCloses, ReadBreaks
      <3>3. ASSUME NEW d \in Callers, d # c, ReturnedAnswer(d) PROVE FALSE
        BY <1>1, <2>1, <3>3 DEF ReturnedAnswer, WorkSucceeds, CallerStates
      <3>4. ~ UNCHANGED <<flightVars, workflowVars>>
        BY <1>1 DEF flightVars
      <3> QED
        BY <1>1, <3>1, <3>2, <3>3, <3>4 DEF WorkflowNext
    <2>3. At(c, "returned")
      BY <2>2 DEF ReturnedAnswer
    <2> QED
      BY <1>1, <2>1, <2>3 DEF Holding
  <1>2. WInv /\ [WorkflowNext]_<<flightVars, workflowVars>>
        => [\A c \in Callers :
               (caller[c].published # "answer" /\ caller'[c].published = "answer"
                  /\ gitlab[c].end = "finished")
               => flow[c].answer = Len(gitlab[c].log) /\ flow[c].full]_<<flightVars, workflowVars>>
    BY <1>1
  <1> QED
    BY <1>2, WorkflowInvariance, PTL DEF WorkflowSpec, LastWordDelivered

(***************************************************************************)
(* The composition of pool, workflow client and registry, for any callers, *)
(* conversations and tokens.                                               *)
(***************************************************************************)

(* Nobody deletes a token here, whoever is past its arrival has claimed one, *)
(* and one that was found to have no credits is out of the pool.             *)
Claimed(c) ==
    /\ caller[c].phase # "new" => claimed[c] \in Tokens
    /\ flow[c].error = NoCredits => claimed[c] \in Tokens /\ rows[claimed[c]].status = "invalid"

PoolInv ==
    /\ StoreInv
    /\ \A t \in Tokens : Stored(t)
    /\ WInv
    /\ claimed \in [Callers -> Tokens \cup {None}]
    /\ \A c \in Callers : Claimed(c)

(* At the start every row is fresh and nothing is claimed.                   *)
LEMMA PoolInitInv == PoolInit => PoolInv
  <1> SUFFICES ASSUME PoolInit PROVE PoolInv
    OBVIOUS
  <1> USE DEF PoolInit
  <1>1. StoreInv /\ \A t \in Tokens : Stored(t)
    BY FreshRowType DEF StoreInv, StoreTypeOK, DeletedTokenStaysGone, Stored, Lives, Nodes
  <1>2. WInv
    BY WorkflowInitInv
  <1>3. ASSUME NEW c \in Callers PROVE Claimed(c)
    <2>1. caller[c].phase = "new" /\ flow[c].error = None
      BY DEF WorkflowInit, Init, NewCaller, Called
    <2>2. None # NoCredits
      <3>1. NoCredits \in Errors
        BY DuoPoolAssumption DEF NoCredits, Error, Errors, Steps
      <3> QED
        BY <3>1, WorkflowAssumption
    <2> QED
      BY <2>1, <2>2 DEF Claimed
  <1> QED
    BY <1>1, <1>2, <1>3 DEF PoolInv

-----------------------------------------------------------------------------
(* A step of one caller is its own.                                          *)

(* Whoever takes a step of the client has arrived before, and the others and *)
(* their workflows stay where they are.                                      *)
LEMMA OwnStep ==
  ASSUME WInv, NEW c \in Callers, WorkflowStep(c) \/ Elsewhere(c)
  PROVE  /\ caller[c].phase # "new"
         /\ \A e \in Callers \ {c} : caller'[e] = caller[e] /\ flow'[e] = flow[e]
  <1> USE DEF WInv, IInv, TypeOK, WorkflowTypeOK, CallerStates
  <1>1. CASE Create(c) \/ CreateUnanswered(c) \/ Access(c) \/ Dial(c) \/ StartRequest(c)
    BY <1>1 DEF Create, CreateUnanswered, Access, Dial, StartRequest, At, Working, Goes, ReturnsError, flightVars
  <1>2. CASE Refuse(c) \/ Unreachable(c)
    BY <1>2 DEF Refuse, Refused, Unreachable, At, Working, ReturnsError, flightVars
  <1>3. CASE ReadCheckpoint(c)
    BY <1>3 DEF ReadCheckpoint, At, Working, flightVars
  <1>4. CASE ReadCloses(c) \/ ReadBreaks(c)
    BY <1>4 DEF ReadCloses, ReadBreaks, At, Working, Goes, ReturnsError, flightVars
  <1>5. CASE ReturnedAnswer(c)
    BY <1>5 DEF ReturnedAnswer, WorkSucceeds, Leaves, At, Working
  <1>6. CASE Retry(c)
    BY <1>6 DEF Retry, WorkRetried, At, Working
  <1>7. CASE ReturnedError(c)
    BY <1>7 DEF ReturnedError, WorkFails, Leaves, At, Working
  <1>8. CASE PanicAtWork(c)
    BY <1>8 DEF PanicAtWork, Panic, Leaves, Working
  <1>9. CASE Elsewhere(c)
    <2>1. flow' = flow
      BY <1>9 DEF Elsewhere, workflowVars
    <2>2. CASE AnswerWritten(c) \/ Unregister(c) \/ Close(c) \/ Expire(c)
      BY <2>1, <2>2 DEF AnswerWritten, Unregister, Close, Expire
    <2>3. CASE Woken(c) \/ GiveUpWaiting(c) \/ Panic(c)
      BY <2>1, <2>3 DEF Woken, GiveUpWaiting, Panic, Working
    <2> QED
      BY <1>9, <2>2, <2>3 DEF Elsewhere
  <1> QED
    BY <1>1, <1>2, <1>3, <1>4, <1>5, <1>6, <1>7, <1>8, <1>9 DEF WorkflowStep

(* Only a refused creation leaves the error that says the token has no       *)
(* credits.                                                                  *)
LEMMA CreditsFromCreate ==
  ASSUME WInv, NEW c \in Callers, GoesOn(c), flow'[c].error = NoCredits
  PROVE  flow[c].error = NoCredits
  <1> USE DEF WInv, WorkflowTypeOK
  <1>1. flow[c] \in Flows /\ None # NoCredits
    <2>1. NoCredits \in Errors
      BY DuoPoolAssumption DEF NoCredits, Error, Errors, Steps
    <2> QED
      BY <2>1, WorkflowAssumption
  <1>2. ~ At(c, "create")
    BY DEF GoesOn
  <1>3. NoCredits.at = "create" /\ Silence.at = "silence"
    BY DEF NoCredits, Silence, Error
  <1>4. CASE Create(c) \/ CreateUnanswered(c)
    BY <1>2, <1>4 DEF Create, CreateUnanswered
  <1>5. CASE Access(c) \/ Dial(c) \/ StartRequest(c)
    BY <1>1, <1>5 DEF Access, Dial, StartRequest, Goes, Flows
  <1>6. ASSUME NEW at \in {"access", "dial", "start", "read"}, NEW status, NEW says,
               flow' = [flow EXCEPT ![c].step = "returned", ![c].error = Error(at, status, says),
                                    ![c].answer = NoAnswer]
        PROVE  FALSE
    <2>1. Error(at, status, says).at = at
      BY DEF Error
    <2>2. flow'[c].error = Error(at, status, says)
      BY <1>1, <1>6 DEF Flows
    <2> QED
      BY <1>3, <2>1, <2>2
  <1>7. CASE Refuse(c) \/ Unreachable(c)
    <2>1. CASE Refuse(c)
      <3>1. PICK step \in {"create", "access", "dial"}, code \in Codes, says \in {"", "credit"} :
              Refused(c, step, Error(step, code, says))
        BY <2>1 DEF Refuse
      <3>2. step # "create"
        BY <1>2, <3>1 DEF Refused
      <3> QED
        BY <1>6, <3>1, <3>2 DEF Refused, ReturnsError
    <2>2. CASE Unreachable(c)
      <3>1. PICK step \in {"create", "access", "dial", "start"}, says \in {"", "lost"} :
              At(c, step) /\ ReturnsError(c, Error(step, 0, says))
        BY <2>2 DEF Unreachable
      <3>2. step # "create"
        BY <1>2, <3>1
      <3> QED
        BY <1>6, <3>1, <3>2 DEF ReturnsError
    <2> QED
      BY <1>7, <2>1, <2>2
  <1>8. CASE ReadCheckpoint(c)
    <2>1. PICK log \in Continuations(gitlab[c].log) : \E end \in Ending(log), bare \in BOOLEAN :
            LET k      == extractAnswerFromCheckpoint(log)
                takes  == ~ bare /\ k # NoAnswer
                silent == end # "running" /\ ~ takes /\ flow[c].answer = NoAnswer
            IN  /\ bare => end \in {"running", "failed"}
                /\ gitlab' = [gitlab EXCEPT ![c].log = log, ![c].heard = @ \/ takes, ![c].end = end]
                /\ flow' = [flow EXCEPT
                     ![c].step   = IF end = "running" THEN "read" ELSE "returned",
                     ![c].answer = IF takes THEN k ELSE @,
                     ![c].full   = IF takes THEN log[k].full ELSE @,
                     ![c].error  = IF silent THEN Silence ELSE None]
      BY <1>8 DEF ReadCheckpoint
    <2>2. flow'[c].error \in {Silence, None}
      BY <1>1, <2>1 DEF Flows
    <2> QED
      BY <1>1, <1>3, <2>2
  <1>9. CASE ReadCloses(c) \/ ReadBreaks(c)
    <2>1. \/ Goes(c, "returned")
          \/ ReturnsError(c, Silence)
          \/ ReturnsError(c, Error("read", 0, ""))
      BY <1>9 DEF ReadCloses, ReadBreaks
    <2>2. CASE Goes(c, "returned")
      BY <1>1, <2>2 DEF Goes, Flows
    <2>3. CASE ReturnsError(c, Silence)
      <3>1. flow'[c].error = Silence
        BY <1>1, <2>3 DEF ReturnsError, Flows
      <3> QED
        BY <1>3, <3>1
    <2>4. CASE ReturnsError(c, Error("read", 0, ""))
      BY <1>6, <2>4 DEF ReturnsError
    <2> QED
      BY <2>1, <2>2, <2>3, <2>4
  <1>10. CASE ReturnedAnswer(c) \/ ReturnedError(c) \/ PanicAtWork(c)
    <2>1. flow'[c].error \in {flow[c].error, None}
      BY <1>1, <1>10 DEF ReturnedAnswer, ReturnedError, PanicAtWork, Leaves, Called
    <2> QED
      BY <1>1, <2>1
  <1>11. CASE Retry(c)
    BY <1>1, <1>11 DEF Retry, Called
  <1>12. CASE Elsewhere(c)
    BY <1>12 DEF Elsewhere, workflowVars
  <1> QED
    BY <1>4, <1>5, <1>7, <1>8, <1>9, <1>10, <1>11, <1>12 DEF GoesOn, WorkflowStep

-----------------------------------------------------------------------------
(* The steps.                                                                *)

(* What the pool adds to the workflow client is not seen by it.              *)
LEMMA StepOfWorkflow ==
  PoolInv /\ [PoolNext]_poolVars => [WorkflowNext]_<<flightVars, workflowVars>>
  <1> SUFFICES ASSUME PoolInv, PoolNext PROVE [WorkflowNext]_<<flightVars, workflowVars>>
    BY DEF poolVars, duoVars
  <1>1. ASSUME NEW c \in Callers, ClaimToken(c) PROVE UNCHANGED <<flightVars, workflowVars>>
    BY <1>1 DEF ClaimToken, duoVars
  <1>2. ASSUME NEW c \in Callers, Acquire(c) PROVE Arrive(c)
    <2>1. <<claimed[c], ConversationOf[c]>> \in Keys
      BY <1>2, DuoPoolAssumption DEF Acquire, PoolInv
    <2> QED
      BY <1>2, <2>1 DEF Acquire, Arrive
  <1>3. ASSUME NEW c \in Callers, OutOfCredits(c) PROVE WorkflowStep(c)
    BY <1>3, DuoPoolAssumption DEF OutOfCredits, WorkflowStep, Refuse, NoCredits
  <1>4. ASSUME NEW c \in Callers, GoesOn(c) PROVE WorkflowStep(c) \/ Elsewhere(c)
    BY <1>4 DEF GoesOn
  <1> QED
    BY <1>1, <1>2, <1>3, <1>4 DEF PoolNext, WorkflowNext

(* One step per action of the composition.                                   *)
LEMMA PoolStepInv == PoolInv /\ [PoolNext]_poolVars => PoolInv'
  <1> SUFFICES ASSUME PoolInv, [PoolNext]_poolVars PROVE PoolInv'
    OBVIOUS
  <1>1. WInv'
    BY StepOfWorkflow, WorkflowStepInv DEF PoolInv
  <1>2. ASSUME NEW c \in Callers, ClaimToken(c) PROVE PoolInv'
    <2>1. PICK t \in Tokens : Claim(Tokens, t, {}) /\ claimed' = [claimed EXCEPT ![c] = t]
      BY <1>2 DEF ClaimToken
    <2>2. StoreInv'
      BY <2>1, ClaimKeeps DEF PoolInv
    <2>3. UNCHANGED <<rows, life, caller, flow>>
      BY <1>2, <2>1 DEF ClaimToken, Claim, duoVars, flightVars, workflowVars
    <2>4. ASSUME NEW e \in Callers PROVE Claimed(e)'
      BY <1>2, <2>1, <2>3, DuoPoolAssumption DEF ClaimToken, PoolInv, Claimed
    <2> QED
      BY <1>1, <2>1, <2>2, <2>3, <2>4 DEF PoolInv, Stored
  <1>3. ASSUME NEW c \in Callers, Acquire(c) PROVE PoolInv'
    <2>1. UNCHANGED <<storeVars, claimed, flow>> /\ claimed[c] \in Tokens
      BY <1>3 DEF Acquire, PoolInv, workflowVars
    <2>2. \A e \in Callers \ {c} : caller'[e] = caller[e]
      BY <1>3 DEF Acquire, Lead, Join, PoolInv, WInv, IInv, TypeOK
    <2>3. ASSUME NEW e \in Callers PROVE Claimed(e)'
      BY <2>1, <2>2 DEF PoolInv, Claimed, storeVars
    <2> QED
      BY <1>1, <2>1, <2>3 DEF PoolInv, StoreInv, StoreTypeOK, DeletedTokenStaysGone, Stored, storeVars
  <1>4. ASSUME NEW c \in Callers, OutOfCredits(c) PROVE PoolInv'
    <2>1. WorkflowStep(c)
      BY <1>4, DuoPoolAssumption DEF OutOfCredits, WorkflowStep, Refuse, NoCredits
    <2>2. caller[c].phase # "new" /\ \A e \in Callers \ {c} : caller'[e] = caller[e] /\ flow'[e] = flow[e]
      BY <2>1, OwnStep DEF PoolInv
    <2>3. claimed[c] \in Tokens /\ UNCHANGED <<claimed, life>>
      BY <1>4, <2>2 DEF OutOfCredits, MarkFailure, PoolInv, Claimed
    <2>4. /\ rows' = [rows EXCEPT ![claimed[c]] = AfterFailure(rows[claimed[c]], 403)]
          /\ Write(claimed[c], AfterFailure(rows[claimed[c]], 403))
          /\ rows \in [Tokens -> Rows]
      <3>1. Write(claimed[c], AfterFailure(rows[claimed[c]], 403))
        BY <1>4 DEF OutOfCredits, MarkFailure
      <3>2. Stored(claimed[c]) /\ rows \in [Tokens -> Rows]
        BY <2>3 DEF PoolInv, StoreInv, StoreTypeOK
      <3> QED
        BY <3>1, <3>2 DEF Write
    <2>5. ASSUME NEW row \in Rows PROVE AfterFailure(row, 403).status = "invalid"
      <3>1. Blamed(row) \in Rows
        BY MarkType
      <3>2. AfterFailure(row, 403) = [Blamed(row) EXCEPT !.status = "invalid"]
        BY DEF AfterFailure
      <3> QED
        BY <3>1, <3>2 DEF Rows
    <2>6. StoreInv'
      <3>1. AfterFailure(rows[claimed[c]], 403) \in Rows
        BY <2>3, <2>4, MarkType
      <3>2. /\ rows' \in [Tokens -> Rows]
            /\ \A u \in Tokens : life[u] = "deleted" => rows'[u] = FreshRow
        BY <2>3, <2>4, <3>1, WriteKeeps DEF PoolInv
      <3>3. Drop({}) /\ UNCHANGED life
        BY <1>4 DEF OutOfCredits, MarkFailure
      <3> QED
        BY <3>2, <3>3, DropKeeps DEF PoolInv
    <2>7. ASSUME NEW e \in Callers PROVE Claimed(e)'
      <3>1. flow'[e].error = NoCredits /\ e # c => flow[e].error = NoCredits
        BY <2>2
      <3>2. caller'[e].phase # "new" => claimed[e] \in Tokens
        BY <2>2, <2>3 DEF PoolInv, Claimed
      <3>3. flow'[e].error = NoCredits => claimed[e] \in Tokens /\ rows'[claimed[e]].status = "invalid"
        BY <2>3, <2>4, <2>5, <3>1 DEF PoolInv, Claimed
      <3> QED
        BY <2>3, <3>2, <3>3 DEF Claimed
    <2> QED
      BY <1>1, <2>3, <2>6, <2>7 DEF PoolInv, Stored
  <1>5. ASSUME NEW c \in Callers, GoesOn(c) PROVE PoolInv'
    <2>1. caller[c].phase # "new" /\ \A e \in Callers \ {c} : caller'[e] = caller[e] /\ flow'[e] = flow[e]
      BY <1>5, OwnStep DEF GoesOn, PoolInv
    <2>2. UNCHANGED <<storeVars, claimed>>
      BY <1>5 DEF GoesOn
    <2>3. ASSUME NEW e \in Callers PROVE Claimed(e)'
      <3>1. flow'[e].error = NoCredits => flow[e].error = NoCredits
        BY <1>5, <2>1, CreditsFromCreate DEF PoolInv
      <3> QED
        BY <2>1, <2>2, <3>1 DEF PoolInv, Claimed, storeVars
    <2> QED
      BY <1>1, <2>2, <2>3 DEF PoolInv, StoreInv, StoreTypeOK, DeletedTokenStaysGone, Stored, storeVars
  <1>6. CASE UNCHANGED poolVars
    BY <1>1, <1>6 DEF PoolInv, StoreInv, StoreTypeOK, DeletedTokenStaysGone, Stored, Claimed,
       poolVars, duoVars, storeVars, flightVars, workflowVars
  <1> QED
    BY <1>2, <1>3, <1>4, <1>5, <1>6 DEF PoolNext

(* The invariant of the composition holds in every behaviour.                *)
LEMMA PoolInvariance == PoolSpec => []PoolInv
  BY PoolInitInv, PoolStepInv, PTL DEF PoolSpec

-----------------------------------------------------------------------------
(* The theorems.                                                             *)

(* Every variable of the composition keeps its type.                         *)
THEOREM PoolTypeInvariant == PoolSpec => []PoolTypeOK
  <1>1. PoolInv => PoolTypeOK
    BY DEF PoolInv, StoreInv, WInv, IInv, PoolTypeOK
  <1> QED
    BY <1>1, PoolInvariance, PTL

(* The pool leaves the workflow client as it is: what is proved of it holds  *)
(* over any pool of tokens.                                                  *)
LEMMA PoolImplementsWorkflow == PoolSpec => WorkflowSpec
  <1>1. PoolInit => WorkflowInit
    BY DEF PoolInit
  <1> QED
    BY <1>1, PoolInvariance, StepOfWorkflow, PTL DEF PoolSpec, WorkflowSpec

(* Whoever is told that the token has no credits and was deactivated, after  *)
(* GitLab refused a workflow for that, finds the token out of the pool.      *)
THEOREM RefusedTokenGone == PoolSpec => []RefusedTokenLeavesPool
  <1>1. PoolInv => RefusedTokenLeavesPool
    BY DEF PoolInv, Claimed, RefusedTokenLeavesPool
  <1> QED
    BY <1>1, PoolInvariance, PTL

(* A second workflow, and its credit, is only spent when the first gave      *)
(* nothing to answer with, and a third one never, over any pool.             *)
THEOREM PoolSavesCredits == PoolSpec => AnswersKept
  BY PoolImplementsWorkflow, CreditsSaved, PTL
=============================================================================
