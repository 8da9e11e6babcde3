-------------------------- MODULE IdempotentWrite --------------------------
(***************************************************************************)
(* What an Idempotency-Key promises a client, with no database in sight:   *)
(* each slot has at most one outcome, decided once, for one request        *)
(* fingerprint and by a request still waiting for its answer; a request is *)
(* served a success only if it is the outcome of its slot and its          *)
(* fingerprint, and may always be declined.                                *)
(***************************************************************************)
EXTENDS Phase1Sql

CONSTANT Requests

VARIABLES asked,    \* the requests that came: <<slot, fingerprint>>
          outcome,  \* the slots decided: fingerprint and reply
          answer    \* the requests answered: reply

writeVars == <<asked, outcome, answer>>

\* new is old with one more entry, at id.
Extends(new, old, id) ==
    /\ id \notin DOMAIN old
    /\ DOMAIN new = DOMAIN old \cup {id}
    /\ new = [k \in DOMAIN new |-> new[k]]
    /\ \A k \in DOMAIN old : new[k] = old[k]

Init ==
    /\ asked = <<>>
    /\ outcome = <<>>
    /\ answer = <<>>

Waiting(r) == r \in DOMAIN asked /\ r \notin DOMAIN answer

Ask(r) ==
    /\ Extends(asked', asked, r)
    /\ UNCHANGED <<outcome, answer>>

\* Refused at the door: asked and answered in one step.
Refuse(r) ==
    /\ Extends(asked', asked, r)
    /\ Extends(answer', answer, r)
    /\ ~Success(answer'[r])
    /\ UNCHANGED outcome

Decide(slot) ==
    /\ Extends(outcome', outcome, slot)
    /\ Success(outcome'[slot].reply)
    /\ \E r \in Requests : /\ Waiting(r)
                           /\ asked[r] = <<slot, outcome'[slot].fingerprint>>
    /\ UNCHANGED <<asked, answer>>

Serve(r) ==
    LET slot == asked[r][1]
    IN  /\ Waiting(r)
        /\ slot \in DOMAIN outcome
        /\ outcome[slot].fingerprint = asked[r][2]
        /\ Extends(answer', answer, r)
        /\ answer'[r] = outcome[slot].reply
        /\ UNCHANGED <<asked, outcome>>

Decline(r) ==
    /\ Waiting(r)
    /\ Extends(answer', answer, r)
    /\ ~Success(answer'[r])
    /\ UNCHANGED <<asked, outcome>>

Next ==
    \/ \E r \in Requests : Ask(r) \/ Refuse(r) \/ Serve(r) \/ Decline(r)
    \/ \E slot \in DOMAIN outcome' : Decide(slot)

Spec == Init /\ [][Next]_writeVars
=============================================================================
