------------------------------ MODULE DuoPool ------------------------------
(***************************************************************************)
(* Duo requests from the token pool to GitLab: each caller claims a token  *)
(* first (resolveAttemptAuth), and the token is part of the key it then    *)
(* takes to the registry.  A workflow that GitLab refuses to create for    *)
(* lack of credits deactivates its token.                                  *)
(***************************************************************************)
EXTENDS DuoWorkflow, CredentialStore

CONSTANTS
    Conversations,    \* the request bodies
    ConversationOf    \* the body each caller sends

VARIABLE claimed      \* the token each caller has claimed, or None

ASSUME DuoPoolAssumption ==
    /\ Keys = Tokens \X Conversations
    /\ ConversationOf \in [Callers -> Conversations]
    /\ Holders = {}
    /\ None \notin Tokens
    /\ 403 \in Codes

duoVars == <<flightVars, workflowVars>>
poolVars == <<storeVars, duoVars, claimed>>

PoolTypeOK ==
    /\ StoreTypeOK
    /\ TypeOK
    /\ WorkflowTypeOK
    /\ claimed \in [Callers -> Tokens \cup {None}]

PoolInit ==
    /\ rows = [t \in Tokens |-> FreshRow]
    /\ life = [t \in Tokens |-> "stored"]
    /\ older = {} /\ copies = {}
    /\ WorkflowInit
    /\ claimed = [c \in Callers |-> None]

ClaimToken(c) ==
    /\ claimed[c] = None
    /\ \E t \in Tokens : Claim(Tokens, t, {}) /\ claimed' = [claimed EXCEPT ![c] = t]
    /\ UNCHANGED duoVars

Acquire(c) ==
    /\ claimed[c] # None
    /\ LET key == <<claimed[c], ConversationOf[c]>>
       IN  Lead(c, key) \/ Join(c, key)
    /\ UNCHANGED <<workflowVars, storeVars, claimed>>

NoCredits == Error("create", 403, "credit")

\* Mutant: the token is not told.
OutOfCreditsUnmarked(c) == Refused(c, "create", NoCredits) /\ UNCHANGED <<storeVars, claimed>>

\* markCredentialFailure is called for the refusal of a workflow, and not for
\* those of later calls.
OutOfCredits(c) ==
    /\ Refused(c, "create", NoCredits)
    /\ MarkFailure(claimed[c], 403, {})
    /\ UNCHANGED claimed

GoesOn(c) ==
    /\ WorkflowStep(c) \/ Elsewhere(c)
    /\ At(c, "create") => flow'[c].error # NoCredits
    /\ UNCHANGED <<storeVars, claimed>>

PoolNext == \E c \in Callers : ClaimToken(c) \/ Acquire(c) \/ OutOfCredits(c) \/ GoesOn(c)

PoolSpec == PoolInit /\ [][PoolNext]_poolVars

-----------------------------------------------------------------------------
(* Properties.                                                               *)

(* Whoever is told that the token has no credits and was deactivated, after  *)
(* GitLab refused a workflow for that, finds the token out of the pool, and  *)
(* nothing that was still under way with it brings it back.                  *)
RefusedTokenLeavesPool ==
    \A c \in Callers :
        (caller[c].reply = "credit" /\ flow[c].error = NoCredits)
            => rows[claimed[c]].status = "invalid"

(* gitlabduo_dedup.go:5-10: a second identical request that arrives while    *)
(* the first is in flight waits for its result instead of starting its own   *)
(* workflow. It holds over a pool of one token; over several, rotation gives *)
(* parallel requests different ones, and the key contains the token.         *)
OneWorkflowPerConversation ==
    \A c, d \in Callers :
        (Working(c) /\ Working(d) /\ ConversationOf[c] = ConversationOf[d])
            => c = d
=============================================================================
