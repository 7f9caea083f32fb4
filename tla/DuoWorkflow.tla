---------------------------- MODULE DuoWorkflow ----------------------------
(***************************************************************************)
(* What the leader of a flight does while it is "working" in DuoInflight:  *)
(* runDuoWorkflow. It creates a workflow at GitLab, asks for access, dials *)
(* a WebSocket, sends the start and reads checkpoints until one says that  *)
(* the workflow has come to an end, the connection goes, or time is up.    *)
(*                                                                         *)
(* GitLab is taken from how the code uses it: a workflow writes a log, and *)
(* every checkpoint carries the whole log and a status.                    *)
(***************************************************************************)
EXTENDS DuoInflight, Naturals, Sequences

CONSTANTS
    Codes,     \* HTTP statuses GitLab may refuse with
    MaxLog     \* how many entries a log may have

VARIABLES
    flow,      \* the call of runDuoWorkflow of each leader
    gitlab     \* what GitLab did for each leader

flightVars == <<calls, result, done, caller>>
workflowVars == <<flow, gitlab>>

Steps == {"create", "access", "dial", "start", "read", "returned"}

(* An error's text, as far as anything is read in it: where it comes from,   *)
(* an HTTP status or 0, and a word.                                          *)
Error(at, status, says) == [at |-> at, status |-> status, says |-> says]

Silence == Error("silence", 0, "")

Errors == [at : Steps \cup {"silence"}, status : Codes \cup {0}, says : {"", "credit", "lost"}]

ASSUME WorkflowAssumption == Codes \subseteq Nat /\ MaxLog \in Nat /\ None \notin Errors

(* ui_chat_log: "final" is a final message of the agent, which may be there  *)
(* in part, "failure" one that reports an error, "step" an intermediate one, *)
(* "other" is not the agent's.                                               *)
Entries == {e \in [kind : {"final", "failure", "step", "other"}, full : BOOLEAN] :
               e.full \/ e.kind = "final"}

NoAnswer == 0

(* The answer is an entry of the log, whole or as far as it was written.     *)
Flows == [step : Steps, answer : 0..MaxLog, full : BOOLEAN, error : Errors \cup {None}]

Called == [step |-> "create", answer |-> NoAnswer, full |-> FALSE, error |-> None]

(* "created" counts the workflows, the rest is about the last one: "heard"   *)
(* says that something to answer with was read, "end" how it went out.       *)
Ends == {"running", "finished", "input", "failed", "cut"}

Workflows == [created : 0..2, log : Seq(Entries), heard : BOOLEAN, end : Ends]

NthWorkflow(n) == [created |-> n, log |-> <<>>, heard |-> FALSE, end |-> "running"]

WorkflowTypeOK ==
    /\ flow \in [Callers -> Flows]
    /\ gitlab \in [Callers -> Workflows]

WorkflowInit ==
    /\ Init
    /\ flow = [c \in Callers |-> Called]
    /\ gitlab = [c \in Callers |-> NthWorkflow(0)]

At(c, step) == Working(c) /\ flow[c].step = step

Goes(c, step) == flow' = [flow EXCEPT ![c].step = step]

ReturnsError(c, error) ==
    flow' = [flow EXCEPT ![c].step = "returned", ![c].error = error, ![c].answer = NoAnswer]

-----------------------------------------------------------------------------
(* Three calls, each of which may be refused or get lost on the way.         *)

NewWorkflow(c) == gitlab' = [gitlab EXCEPT ![c] = NthWorkflow(@.created + 1)]

Create(c) ==
    /\ At(c, "create") /\ caller[c].live
    /\ NewWorkflow(c) /\ Goes(c, "access")
    /\ UNCHANGED flightVars

\* The workflow is there, but the response gets lost or has no id.
CreateUnanswered(c) ==
    /\ At(c, "create") /\ caller[c].live
    /\ NewWorkflow(c)
    /\ \E says \in {"", "lost"} : ReturnsError(c, Error("create", 0, says))
    /\ UNCHANGED flightVars

Access(c) ==
    /\ At(c, "access") /\ caller[c].live
    /\ Goes(c, "dial")
    /\ UNCHANGED <<flightVars, gitlab>>

Dial(c) ==
    /\ At(c, "dial") /\ caller[c].live
    /\ Goes(c, "start")
    /\ UNCHANGED <<flightVars, gitlab>>

StartRequest(c) ==
    /\ At(c, "start") /\ caller[c].live
    /\ Goes(c, "read")
    /\ UNCHANGED <<flightVars, gitlab>>

Refused(c, step, error) ==
    /\ At(c, step) /\ caller[c].live
    /\ error.status = 403 \/ error.says = ""
    /\ ReturnsError(c, error)
    /\ UNCHANGED <<flightVars, gitlab>>

Refuse(c) ==
    \E step \in {"create", "access", "dial"}, code \in Codes, says \in {"", "credit"} :
        Refused(c, step, Error(step, code, says))

\* The context's end looks like an error of the network, too.
Unreachable(c) ==
    \E step \in {"create", "access", "dial", "start"}, says \in {"", "lost"} :
        /\ At(c, step)
        /\ ~ caller[c].live => says = ""
        /\ ReturnsError(c, Error(step, 0, says))
        /\ UNCHANGED <<flightVars, gitlab>>

-----------------------------------------------------------------------------
(* gitlabWSChat                                                              *)

LastIn(indices) == CHOOSE k \in indices : \A j \in indices : j <= k

OfKinds(log, kinds) == {k \in DOMAIN log : log[k].kind \in kinds}

\* Mutant: the first message is taken.
ExtractFirst(log) ==
    LET finals == OfKinds(log, {"final"})
    IN  IF finals = {} THEN NoAnswer ELSE CHOOSE k \in finals : \A j \in finals : k <= j

(* The last final message without an error, or with one, or any message.     *)
extractAnswerFromCheckpoint(log) ==
    LET finals == OfKinds(log, {"final"})
        errors == OfKinds(log, {"failure"})
        steps  == OfKinds(log, {"step"})
    IN  IF finals # {} THEN LastIn(finals)
        ELSE IF errors # {} THEN LastIn(errors)
        ELSE IF steps # {} THEN LastIn(steps)
        ELSE NoAnswer

(* The log as it may be by the next checkpoint: the last entry is longer or  *)
(* complete, or another one has begun.                                       *)
Continuations(log) ==
    {log}
    \cup (IF log = <<>> THEN {} ELSE {[log EXCEPT ![Len(log)].full = TRUE]})
    \cup (IF Len(log) = MaxLog THEN {} ELSE
          {Append([k \in DOMAIN log |-> [log[k] EXCEPT !.full = TRUE]], e) : e \in Entries})

(* A workflow that finishes has said its last word, one that needs input may *)
(* have asked for something; one that fails stops anywhere.                  *)
Ending(log) ==
    {"running", "failed"}
    \cup (IF log = <<>> THEN {} ELSE
          IF ~ log[Len(log)].full THEN {}
          ELSE IF log[Len(log)].kind = "final" THEN {"finished", "input"}
          ELSE {"input"})

(* A checkpoint is read; it may be a frame that only has a status.           *)
ReadCheckpoint(c) ==
    /\ At(c, "read") /\ caller[c].live
    /\ \E log \in Continuations(gitlab[c].log) : \E end \in Ending(log), bare \in BOOLEAN :
         LET k      == extractAnswerFromCheckpoint(log)
             takes  == ~ bare /\ k # NoAnswer
             silent == end # "running" /\ ~ takes /\ flow[c].answer = NoAnswer
         IN  /\ bare => end \in {"running", "failed"}
             /\ gitlab' = [gitlab EXCEPT ![c].log = log, ![c].heard = @ \/ takes, ![c].end = end]
             /\ flow' = [flow EXCEPT
                  ![c].step   = IF end = "running" THEN "read" ELSE "returned",
                  ![c].answer = IF takes THEN k ELSE @,
                  ![c].full   = IF takes THEN log[k].full ELSE @,
                  ![c].error  = IF silent THEN Silence ELSE None]
    /\ UNCHANGED flightVars

Cut(c) == gitlab' = [gitlab EXCEPT ![c].end = "cut"]

\* GitLab closes the connection, or goes away.
ReadCloses(c) ==
    /\ At(c, "read") /\ caller[c].live
    /\ Cut(c)
    /\ IF flow[c].answer = NoAnswer THEN ReturnsError(c, Silence)
       ELSE Goes(c, "returned")
    /\ UNCHANGED flightVars

\* Mutant: an error of the connection is an error, whatever was read before.
ReadBreaksEmptyHanded(c) ==
    /\ At(c, "read")
    /\ Cut(c)
    /\ ReturnsError(c, Error("read", 0, ""))
    /\ UNCHANGED flightVars

\* The connection breaks, or the context is over.
ReadBreaks(c) ==
    /\ At(c, "read")
    /\ Cut(c)
    /\ IF flow[c].answer = NoAnswer THEN ReturnsError(c, Error("read", 0, ""))
       ELSE Goes(c, "returned")
    /\ UNCHANGED flightVars

-----------------------------------------------------------------------------
(* Back in handleGitLabDuoRequest                                            *)

isGitLabDuoCreditError(error) == error.status = 403 /\ error.says = "credit"

\* What is said in a WebSocket's errors begins with "ws ".
shouldRetryDuoError(error) ==
    /\ ~ isGitLabDuoCreditError(error)
    /\ error.status \notin {401, 403, 404}
    /\ error.at \in {"dial", "start", "read", "silence"} \/ error.says = "lost"

(* The variables of runDuoWorkflow go, and with them what GitLab did, but    *)
(* for the error that says the token has no credits.                         *)
Leaves(c) ==
    /\ flow' = [flow EXCEPT ![c] =
                   [Called EXCEPT !.error = IF caller'[c].published = "credit" THEN flow[c].error ELSE None]]
    /\ gitlab' = [gitlab EXCEPT ![c] = NthWorkflow(@.created)]

ReturnedAnswer(c) ==
    /\ At(c, "returned") /\ flow[c].error = None
    /\ WorkSucceeds(c)
    /\ Leaves(c)

Retries(c) ==
    /\ caller[c].phase = "working" /\ caller[c].live
    /\ shouldRetryDuoError(flow[c].error)

Retry(c) ==
    /\ At(c, "returned") /\ flow[c].error # None
    /\ Retries(c)
    /\ WorkRetried(c)
    /\ flow' = [flow EXCEPT ![c] = Called]
    /\ UNCHANGED gitlab

ReturnedError(c) ==
    /\ At(c, "returned") /\ flow[c].error # None
    /\ ~ Retries(c)
    /\ WorkFails(c)
    /\ caller'[c].published = IF isGitLabDuoCreditError(flow[c].error) THEN "credit" ELSE "error"
    /\ Leaves(c)

PanicAtWork(c) == Working(c) /\ Panic(c) /\ Leaves(c)

WorkflowStep(c) ==
    \/ Create(c) \/ CreateUnanswered(c) \/ Access(c) \/ Dial(c) \/ StartRequest(c)
    \/ Refuse(c) \/ Unreachable(c)
    \/ ReadCheckpoint(c) \/ ReadCloses(c) \/ ReadBreaks(c)
    \/ ReturnedAnswer(c) \/ Retry(c) \/ ReturnedError(c) \/ PanicAtWork(c)

\* The rest of DuoInflight.
Elsewhere(c) ==
    /\ \/ AnswerWritten(c) \/ Unregister(c) \/ Close(c) \/ Woken(c) \/ GiveUpWaiting(c) \/ Expire(c)
       \/ ~ Working(c) /\ Panic(c)
    /\ UNCHANGED workflowVars

Arrive(c) == (\E k \in Keys : Lead(c, k) \/ Join(c, k)) /\ UNCHANGED workflowVars

WorkflowNext == \E c \in Callers : Arrive(c) \/ WorkflowStep(c) \/ Elsewhere(c)

WorkflowSpec == WorkflowInit /\ [][WorkflowNext]_<<flightVars, workflowVars>>

-----------------------------------------------------------------------------
(* Properties.                                                               *)

(* A workflow costs a credit. There is a second one only when the first gave *)
(* nothing to answer with, and never a third.                                *)
AnswersKept ==
    [][\A c \in Callers : gitlab'[c].created > gitlab[c].created =>
            gitlab[c].created < 2 /\ ~ gitlab[c].heard]_workflowVars

(* Whoever is answered after the workflow finished has its last word, all of *)
(* it, and not what it said on the way.                                      *)
LastWordDelivered ==
    [][\A c \in Callers :
            (caller[c].published # "answer" /\ caller'[c].published = "answer"
                /\ gitlab[c].end = "finished")
            => flow[c].answer = Len(gitlab[c].log) /\ flow[c].full]_<<flightVars, workflowVars>>
=============================================================================
