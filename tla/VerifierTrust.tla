--------------------------- MODULE VerifierTrust ---------------------------
(***************************************************************************)
(* VerifierApi with a memory of the trust registry: which issuers it has   *)
(* held active at some time since a request arrived.  The registry changes *)
(* its mind while a verification is under way, its answer may be lost on   *)
(* the way, and the verdict made of it is stored, replayed and read back   *)
(* later; the memory relates what is stored to what the registry held.     *)
(***************************************************************************)
EXTENDS VerifierApi

VARIABLE vouched   \* vouched[r]: the issuers active at some time since r arrived

ActiveIn(table) == {issuer \in DOMAIN table : table[issuer] = "active"}

\* Every step is one of VerifierApi; a request that is on its way remembers
\* the table that the step leaves.
Remember ==
    vouched' = [r \in Requests |->
                    IF InFlight(r)' THEN vouched[r] \cup ActiveIn(trust') ELSE vouched[r]]

TrustInit == Init /\ vouched = [r \in Requests |-> {}]
TrustNext == Next /\ Remember
TrustSpec == TrustInit /\ [][TrustNext]_<<vars, vouched>>

\* Evaluation fails closed, whatever becomes of the answer: for a stored
\* "allow" the registry itself has held the issuer active while the submission
\* was under way.  An answer that was refused, lost or late, a record that is
\* missing or suspended, or one from before the submission arrived is never
\* enough, and the verdict is this submission's own.
AllowIsVouchedFor ==
    \A id \in DOMAIN results :
        results[id].verdict = "allow" =>
            \E r \in Requests :
                /\ call[r].op = "create" /\ vid[r] = id
                /\ credentials[submissions[id].credential].issuer \in vouched[r]
=============================================================================
