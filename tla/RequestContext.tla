--------------------------- MODULE RequestContext ---------------------------
(***************************************************************************)
(* What can happen to one SQL statement of a request that runs under       *)
(* r.Context(): it is done and acknowledged; it is refused before it       *)
(* reaches the database; or it takes effect and the request sees an error. *)
(* Once the context has expired (httpx.ContextTimeout, or the client has   *)
(* gone) every later statement of the request is refused, the deferred     *)
(* release of its reservation included.                                    *)
(*                                                                         *)
(* Budget bounds the failures a run explores; with a budget of zero no     *)
(* failure happens, and no budget is implied by the code.                  *)
(***************************************************************************)
EXTENDS Naturals

CONSTANTS Requests,   \* the HTTP requests the service handles, one goroutine each
          Budget      \* how many failures of each kind may happen

Failures == {"fault", "expiry", "crash"}

ASSUME BudgetAssumption == Budget \in [Failures -> Nat]

VARIABLES expired,    \* expired[r]: the context of r is done
          budget      \* failures that may still happen

contextVars == <<expired, budget>>

ContextTypeOK ==
    /\ expired \in [Requests -> BOOLEAN]
    /\ budget \in [Failures -> Nat]

ContextInit ==
    /\ expired = [r \in Requests |-> FALSE]
    /\ budget = Budget

Spend(failure) ==
    /\ budget[failure] > 0
    /\ budget' = [budget EXCEPT ![failure] = @ - 1]

\* The outcomes of a statement, seen from the database and from the request.
Outcomes == {"done", "refused", "unacked"}
Reaches(outcome) == outcome \in {"done", "unacked"}
Acked(outcome) == outcome = "done"

ExpireContext(r) ==
    /\ ~expired[r]
    /\ Spend("expiry")
    /\ expired' = [expired EXCEPT ![r] = TRUE]

\* A statement of r ends with this outcome.
Statement(r, outcome) ==
    \/ /\ outcome = "done"
       /\ ~expired[r]
       /\ UNCHANGED contextVars
    \/ /\ outcome = "refused"
       /\ expired[r]
       /\ UNCHANGED contextVars
    \/ /\ outcome \in {"refused", "unacked"}
       /\ ~expired[r]
       /\ Spend("fault")
       /\ UNCHANGED expired
    \/ /\ outcome = "unacked"
       /\ ExpireContext(r)

\* A statement that only reads: taking effect unseen is being refused.
Query(r, outcome) == outcome # "unacked" /\ Statement(r, outcome)
=============================================================================
