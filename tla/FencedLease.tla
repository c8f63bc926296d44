----------------------------- MODULE FencedLease -----------------------------
(***************************************************************************)
(* What agent_run_manager.py promises of one logical run, without workers, *)
(* transactions or a clock: the run is worked on under a lease that carries*)
(* a fencing token (agent_run.lease_generation), a new token is granted    *)
(* only when no lease is live, and the content that is published carries   *)
(* the token that was current when the run succeeded.                      *)
(***************************************************************************)
EXTENDS Naturals

VARIABLES
    phase,      \* agent_run.status
    token,      \* agent_run.lease_generation
    live,       \* the lease is valid, or its owner holds authority under the row lock
    published   \* the token under which content was published, 0 when there is none

fencedVars == <<phase, token, live, published>>

FencedTypeOK ==
    /\ phase \in {"PENDING", "IN_PROGRESS", "SUCCEEDED", "FAILED"}
    /\ token \in Nat
    /\ live \in BOOLEAN
    /\ published \in Nat

FencedInit ==
    /\ phase = "PENDING"
    /\ token = 0
    /\ live = FALSE
    /\ published = 0

\* A new owner, or a new term of the same one; the grant may take so long that the
\* lease it gives has run out when it takes effect, and a grant that finds the
\* attempts exhausted ends the run.
Grant ==
    /\ phase = "PENDING" \/ (phase = "IN_PROGRESS" /\ ~live)
    /\ token' = token + 1
    /\ live' \in BOOLEAN
    /\ phase' \in IF live' THEN {"IN_PROGRESS", "FAILED"} ELSE {"IN_PROGRESS"}
    /\ UNCHANGED published

\* The owner keeps its token for another attempt, or ends the run if none is left.
Renew ==
    /\ phase = "IN_PROGRESS" /\ live
    /\ live' \in BOOLEAN
    /\ phase' \in IF live' THEN {"IN_PROGRESS", "FAILED"} ELSE {"IN_PROGRESS"}
    /\ UNCHANGED <<token, published>>

Succeed ==
    /\ phase = "IN_PROGRESS" /\ live
    /\ phase' = "SUCCEEDED"
    /\ published' = token
    /\ live' \in BOOLEAN
    /\ UNCHANGED token

Expire ==
    /\ live
    /\ live' = FALSE
    /\ UNCHANGED <<phase, token, published>>

FencedNext == Grant \/ Renew \/ Succeed \/ Expire

FencedSpec == FencedInit /\ [][FencedNext]_fencedVars
=============================================================================
