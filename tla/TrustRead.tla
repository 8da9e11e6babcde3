------------------------------ MODULE TrustRead ------------------------------
(***************************************************************************)
(* What a verification may rely on when it asks for an issuer's trust      *)
(* state: the answer is either an error that says nothing of the issuer,   *)
(* or what the registry's table held at one instant while the question was *)
(* open.  No cache, no token and no clock appear here.                     *)
(***************************************************************************)

CONSTANTS Requests,   \* the questions asked
          States,     \* what the table may hold for the issuer
          Unknown     \* no state: nothing seen, or an answer that says nothing

VARIABLES table,      \* what the registry holds
          stage,      \* stage[r]: "idle", "open" or "closed"
          seen,       \* seen[r]: the state read for r
          told        \* told[r]: the state r was told

readVars == <<table, stage, seen, told>>

Init ==
    /\ table \in States
    /\ stage = [r \in Requests |-> "idle"]
    /\ seen = [r \in Requests |-> Unknown]
    /\ told = [r \in Requests |-> Unknown]

Change ==
    /\ table' \in States
    /\ UNCHANGED <<stage, seen, told>>

Open(r) ==
    /\ stage[r] = "idle"
    /\ stage' = [stage EXCEPT ![r] = "open"]
    /\ UNCHANGED <<table, seen, told>>

Look(r) ==
    /\ stage[r] = "open"
    /\ seen[r] = Unknown
    /\ seen' = [seen EXCEPT ![r] = table]
    /\ UNCHANGED <<table, stage, told>>

\* An error, or what was seen.
Close(r) ==
    /\ stage[r] = "open"
    /\ stage' = [stage EXCEPT ![r] = "closed"]
    /\ \E state \in {Unknown, seen[r]} : told' = [told EXCEPT ![r] = state]
    /\ UNCHANGED <<table, seen>>

Next ==
    \/ Change
    \/ \E r \in Requests : Open(r) \/ Look(r) \/ Close(r)

Spec == Init /\ [][Next]_readVars
=============================================================================
