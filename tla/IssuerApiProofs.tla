--------------------------- MODULE IssuerApiProofs ---------------------------
(***************************************************************************)
(* Proofs about IssuerApi, for any requests, calls, failures and tables:   *)
(* types, the exclusion of reservations, what becomes of orphans, replay.  *)
(***************************************************************************)
EXTENDS IssuerApi, Phase1SqlProofs, SequenceTheorems

-----------------------------------------------------------------------------
(* What the handlers' helpers return                                       *)

LEMMA FailType ==
    ASSUME TypeOK, NEW r \in Requests, NEW refusal \in Replies, Fail(r, refusal)
    PROVE  /\ reply' \in [Requests -> Replies]
           /\ pc' \in [Requests -> Steps \cup {"idle", "done", "lost"}]
           /\ \A q \in Requests : pc'[q] # "idle" => pc[q] # "idle" \/ q = r
BY DEF Fail, Goto, TypeOK, Steps, AuditSteps

LEMMA RefusalsAreReplies ==
    /\ NoReply \in Replies
    /\ PersistenceError \in Replies
    /\ NotFound \in Replies
    /\ \A code \in Nat, error \in Errors : Refusal(code, error) \in Replies
    /\ \A c \in Calls : FrontDoor(c) \in Replies
<1>1. \A code \in Nat, error \in Errors : Refusal(code, error) \in Replies
  BY DEF Refusal, Reply, Replies, Statuses, NoResource
<1>2. NoReply \in Replies
  BY DEF NoReply, Reply, Replies, Statuses, Errors, NoResource
<1>3. \A c \in Calls : FrontDoor(c) \in Replies
  BY <1>1, <1>2 DEF FrontDoor, Errors
<1> QED
  BY <1>1, <1>2, <1>3 DEF PersistenceError, NotFound, Errors

-----------------------------------------------------------------------------
(* Types                                                                    *)

LEMMA InitTypeOK == Init => TypeOK
<1> SUFFICES ASSUME Init PROVE TypeOK
  OBVIOUS
<1>1. ContextTypeOK
  BY BudgetAssumption DEF Init, ContextInit, ContextTypeOK
<1>2. credentials \in [DOMAIN credentials -> CredentialRows] /\ DOMAIN credentials \subseteq 1..sequence
  <2>1. Len(Preissued) \in Nat /\ \A id \in 1..Len(Preissued) :
            Preissued[id] \in [issuer : Orgs, body : Bodies]
    BY PreissuedAssumption, ElementOfSeq, LenProperties
  <2>2. \A id \in 1..Len(Preissued) :
            CredentialRow(Preissued[id].issuer, Preissued[id].body) \in CredentialRows
    BY <2>1 DEF CredentialRow, CredentialRows, Statuses, NoResource
  <2> QED
    BY <2>1, <2>2 DEF Init
<1>3. sequence \in Nat
  BY PreissuedAssumption DEF Init
<1>4. idempotency \in [DOMAIN idempotency -> IdempotencyRows] /\ DOMAIN idempotency \subseteq Slots
  BY DEF Init
<1> QED
  BY <1>1, <1>2, <1>3, <1>4, RefusalsAreReplies DEF Init, TypeOK, NoCall, NoResource, Steps

\* The statements on idempotency rows keep the table typed.
LEMMA IdempotencyTypes ==
    ASSUME NEW table, table \in [DOMAIN table -> IdempotencyRows],
           DOMAIN table \subseteq Slots,
           NEW c \in Calls, NEW rep \in Replies, SlotOf(c) \in Slots
    PROVE  LET fp == Fingerprint(c)
               ReservedTable == ReserveIdempotencyRecord(table, SlotOf(c), fp)
               CompletedTable == CompleteIdempotencyRecord(table, SlotOf(c), rep)
               ReleasedTable == ReleaseIdempotencyRecord(table, SlotOf(c))
           IN  /\ ReservedTable \in [DOMAIN ReservedTable -> IdempotencyRows]
               /\ DOMAIN ReservedTable \subseteq Slots
               /\ CompletedTable \in [DOMAIN CompletedTable -> IdempotencyRows]
               /\ DOMAIN CompletedTable \subseteq Slots
               /\ ReleasedTable \in [DOMAIN ReleasedTable -> IdempotencyRows]
               /\ DOMAIN ReleasedTable \subseteq Slots
<1> DEFINE row == ReservedRow(Fingerprint(c))
<1>1. row \in IdempotencyRows
  BY RefusalsAreReplies DEF ReservedRow, IdempotencyRows
<1>2. InsertRow(table, SlotOf(c), row) \in [DOMAIN table \cup {SlotOf(c)} -> IdempotencyRows]
  BY <1>1, InsertRowType
<1>3. \A s \in DOMAIN table :
        [state |-> "completed", fingerprint |-> table[s].fingerprint, reply |-> rep] \in IdempotencyRows
  BY DEF IdempotencyRows
<1>4. CompleteIdempotencyRecord(table, SlotOf(c), rep) \in [DOMAIN table -> IdempotencyRows]
  BY <1>3 DEF CompleteIdempotencyRecord
<1>5. DeleteRow(table, SlotOf(c)) \in [DOMAIN table \ {SlotOf(c)} -> IdempotencyRows]
  BY DEF DeleteRow
<1> QED
  BY <1>2, <1>4, <1>5 DEF ReserveIdempotencyRecord, ReleaseIdempotencyRecord

-----------------------------------------------------------------------------
(* The control flow of one request, which its types rest on.                *)

\* The steps between a reservation and its end.
HoldingSteps == {"allocate", "create", "load", "update", "complete", "release"}

RequestFlow(r) ==
    /\ pc[r] \in {"issuer", "allocate", "create"} => call[r].op = "issue"
    /\ pc[r] = "read" => call[r].op = "read"
    /\ pc[r] \in {"reserve", "lookup", "complete", "release"} => Keyed(call[r])
    /\ pc[r] = "create" => cred[r] # NoResource
    /\ open[r] <=> Keyed(call[r]) /\ pc[r] \in HoldingSteps

FlowOK == \A r \in Requests : RequestFlow(r)

Typed == TypeOK /\ FlowOK

LEMMA InitTyped == Init => Typed
<1> SUFFICES ASSUME Init PROVE FlowOK
  BY InitTypeOK DEF Typed
<1> QED
  BY DEF Init, FlowOK, RequestFlow, HoldingSteps, NoCall, Keyed

LEMMA NextTypeOK == Typed /\ [Next]_vars => TypeOK'
<1> SUFFICES ASSUME TypeOK, FlowOK, [Next]_vars PROVE TypeOK'
  BY DEF Typed
<1> USE DEF Goto, Steps, AuditSteps
<1>1. ASSUME NEW r \in Requests, NEW c \in Calls, Refuse(r, c) PROVE TypeOK'
  BY <1>1, RefusalsAreReplies DEF Refuse, TypeOK, ContextTypeOK, dbVars, contextVars
<1>2. ASSUME NEW r \in Requests, NEW c \in Calls, Arrive(r, c) PROVE TypeOK'
  <2>1. FirstStep(c) \in Steps
    BY CallsAssumption DEF FirstStep, ReserveStep, WriteStep
  <2> QED
    BY <1>2, <2>1 DEF Arrive, TypeOK, ContextTypeOK, dbVars, contextVars
<1>3. ASSUME NEW r \in Requests, NEW out \in Outcomes, ReadIssuer(r, out) PROVE TypeOK'
  BY <1>3, QueryType, FailType, RefusalsAreReplies
     DEF ReadIssuer, ReserveStep, WriteStep, TypeOK, dbVars, Errors
<1>4. ASSUME NEW r \in Requests, NEW out \in Outcomes, Reserve(r, out) PROVE TypeOK'
  <2>1. call[r] \in Calls /\ SlotOf(call[r]) \in Slots
    BY <1>4 DEF Reserve, TypeOK, FlowOK, RequestFlow, Slots
  <2>2. /\ idempotency' \in [DOMAIN idempotency' -> IdempotencyRows]
        /\ DOMAIN idempotency' \subseteq Slots
    BY <1>4, <2>1, IdempotencyTypes, RefusalsAreReplies DEF Reserve, TypeOK
  <2>3. ContextTypeOK'
    BY <1>4, StatementType DEF Reserve, TypeOK
  <2>4. /\ reply' \in [Requests -> Replies]
        /\ pc' \in [Requests -> Steps \cup {"idle", "done", "lost"}]
        /\ \A q \in Requests : pc'[q] # "idle" => pc[q] # "idle" \/ q = r
    BY <1>4, FailType, RefusalsAreReplies DEF Reserve, WriteStep, TypeOK
  <2> QED
    BY <1>4, <2>1, <2>2, <2>3, <2>4 DEF Reserve, TypeOK
<1>5. ASSUME NEW r \in Requests, NEW out \in Outcomes, Lookup(r, out) PROVE TypeOK'
  <2> DEFINE row == idempotency[SlotOf(call[r])]
             outcome == ReservationOutcome(row, Fingerprint(call[r]))
  <2>1. outcome \in {"replay", "in_progress", "conflict"}
    BY DEF ReservationOutcome
  <2>2. ASSUME row \in IdempotencyRows PROVE OccupiedReply(outcome, row) \in Replies
    <3>1. row.reply \in Replies
      BY <2>2 DEF IdempotencyRows
    <3> QED
      BY <2>1, <3>1 DEF OccupiedReply, Reply, Replies, Errors, Statuses
  <2>3. ContextTypeOK'
    BY <1>5, QueryType DEF Lookup, TypeOK
  <2>4. /\ reply' \in [Requests -> Replies]
        /\ pc' \in [Requests -> Steps \cup {"idle", "done", "lost"}]
        /\ \A q \in Requests : pc'[q] # "idle" => pc[q] # "idle" \/ q = r
    <3>1. CASE Fail(r, PersistenceError)
      BY <3>1, FailType, RefusalsAreReplies
    <3>2. CASE /\ SlotOf(call[r]) \in DOMAIN idempotency
               /\ reply' = [reply EXCEPT ![r] = OccupiedReply(outcome, row)]
               /\ Goto(r, outcome)
      BY <3>2, <2>1, <2>2 DEF TypeOK
    <3> QED
      BY <1>5, <3>1, <3>2 DEF Lookup
  <2> QED
    BY <1>5, <2>3, <2>4 DEF Lookup, TypeOK, dbVars
<1>6. ASSUME NEW r \in Requests, NEW out \in Outcomes, Allocate(r, out) PROVE TypeOK'
  <2>1. ContextTypeOK'
    BY <1>6, StatementType DEF Allocate, TypeOK
  <2>2. /\ reply' \in [Requests -> Replies]
        /\ pc' \in [Requests -> Steps \cup {"idle", "done", "lost"}]
        /\ \A q \in Requests : pc'[q] # "idle" => pc[q] # "idle" \/ q = r
    BY <1>6, FailType, RefusalsAreReplies DEF Allocate, TypeOK
  <2>3. /\ sequence' \in Nat
        /\ cred' \in [Requests -> 0..sequence']
        /\ DOMAIN credentials \subseteq 1..sequence'
    BY <1>6 DEF Allocate, TypeOK, Outcomes, NextSequence, Acked, Reaches
  <2> QED
    BY <1>6, <2>1, <2>2, <2>3 DEF Allocate, TypeOK
<1>7. ASSUME NEW r \in Requests, NEW out \in Outcomes, Create(r, out) PROVE TypeOK'
  <2> DEFINE row == CredentialRow(Org(call[r]), call[r].body)
  <2>1. row \in CredentialRows
    BY <1>7, CallsAssumption DEF Create, TypeOK, FlowOK, RequestFlow, CredentialRow,
       CredentialRows, Statuses, NoResource, Org, Orgs
  <2>2. cred[r] \in 1..sequence
    BY <1>7 DEF Create, TypeOK, FlowOK, RequestFlow, NoResource
  <2>3. /\ credentials' \in [DOMAIN credentials' -> CredentialRows]
        /\ DOMAIN credentials' \subseteq 1..sequence
    <3>1. InsertRow(credentials, cred[r], row) \in [DOMAIN credentials \cup {cred[r]} -> CredentialRows]
      BY <2>1, InsertRowType DEF TypeOK
    <3>2. DOMAIN InsertRow(credentials, cred[r], row) = DOMAIN credentials \cup {cred[r]}
      BY InsertRowDomain
    <3>3. credentials' = InsertRow(credentials, cred[r], row) \/ credentials' = credentials
      BY <1>7 DEF Create, CreateCredentialRecord
    <3> QED
      BY <2>2, <3>1, <3>2, <3>3 DEF TypeOK
  <2>4. Reply(201, "none", cred[r], "active") \in Replies
    BY <2>2 DEF Reply, Replies, Errors, Statuses, TypeOK
  <2>5. ContextTypeOK'
    BY <1>7, StatementType DEF Create, TypeOK
  <2>6. /\ reply' \in [Requests -> Replies]
        /\ pc' \in [Requests -> Steps \cup {"idle", "done", "lost"}]
        /\ \A q \in Requests : pc'[q] # "idle" => pc[q] # "idle" \/ q = r
    BY <1>7, <2>4, FailType, RefusalsAreReplies DEF Create, CompleteStep, TypeOK
  <2> QED
    BY <1>7, <2>3, <2>5, <2>6 DEF Create, TypeOK
<1>8. ASSUME NEW r \in Requests, NEW out \in Outcomes, Load(r, out) PROVE TypeOK'
  <2>1. ContextTypeOK'
    BY <1>8, QueryType DEF Load, TypeOK
  <2>2. Refusal(409, "invalid_status_transition") \in Replies
    BY RefusalsAreReplies DEF Errors
  <2>3. /\ reply' \in [Requests -> Replies]
        /\ pc' \in [Requests -> Steps \cup {"idle", "done", "lost"}]
        /\ \A q \in Requests : pc'[q] # "idle" => pc[q] # "idle" \/ q = r
    BY <1>8, <2>2, FailType, RefusalsAreReplies DEF Load, TypeOK
  <2>4. cred' \in [Requests -> 0..sequence]
    BY <1>8 DEF Load, TypeOK
  <2> QED
    BY <1>8, <2>1, <2>3, <2>4 DEF Load, TypeOK, dbVars
<1>9. ASSUME NEW r \in Requests, NEW out \in Outcomes, Update(r, out) PROVE TypeOK'
  <2>1. call[r].status \in Statuses /\ call[r].by \in Nat
    BY <1>9, CallsAssumption DEF Update, TypeOK, Statuses
  <2>2. /\ credentials' \in [DOMAIN credentials' -> CredentialRows]
        /\ DOMAIN credentials' \subseteq 1..sequence
    BY <1>9, <2>1 DEF Update, UpdateCredentialStatus, CredentialRows, TypeOK
  <2>3. Reply(200, "none", cred[r], call[r].status) \in Replies
    BY <2>1 DEF Reply, Replies, Errors, TypeOK
  <2>4. ContextTypeOK'
    BY <1>9, StatementType DEF Update, TypeOK
  <2>5. /\ reply' \in [Requests -> Replies]
        /\ pc' \in [Requests -> Steps \cup {"idle", "done", "lost"}]
        /\ \A q \in Requests : pc'[q] # "idle" => pc[q] # "idle" \/ q = r
    BY <1>9, <2>3, FailType, RefusalsAreReplies DEF Update, CompleteStep, TypeOK
  <2> QED
    BY <1>9, <2>2, <2>4, <2>5 DEF Update, TypeOK
<1>10. ASSUME NEW r \in Requests, NEW out \in Outcomes, ReadCredential(r, out) PROVE TypeOK'
  <2> DEFINE id == call[r].target
  <2>1. ContextTypeOK'
    BY <1>10, QueryType DEF ReadCredential, TypeOK
  <2>2. ASSUME id \in DOMAIN credentials
        PROVE  id \in 0..sequence /\ Reply(200, "none", id, credentials[id].status) \in Replies
    BY <2>2 DEF Reply, Replies, Errors, CredentialRows, TypeOK
  <2>3. /\ reply' \in [Requests -> Replies]
        /\ cred' \in [Requests -> 0..sequence]
        /\ pc' \in [Requests -> Steps \cup {"idle", "done", "lost"}]
        /\ \A q \in Requests : pc'[q] # "idle" => pc[q] # "idle" \/ q = r
    BY <1>10, <2>2, FailType, RefusalsAreReplies DEF ReadCredential, TypeOK
  <2> QED
    BY <1>10, <2>1, <2>3 DEF ReadCredential, TypeOK, dbVars
<1>11. ASSUME NEW r \in Requests, NEW out \in Outcomes, Complete(r, out) PROVE TypeOK'
  <2>1. call[r] \in Calls /\ SlotOf(call[r]) \in Slots /\ reply[r] \in Replies
    BY <1>11 DEF Complete, TypeOK, FlowOK, RequestFlow, Slots
  <2>2. /\ idempotency' \in [DOMAIN idempotency' -> IdempotencyRows]
        /\ DOMAIN idempotency' \subseteq Slots
    BY <1>11, <2>1, IdempotencyTypes DEF Complete, TypeOK
  <2>3. ContextTypeOK'
    BY <1>11, StatementType DEF Complete, TypeOK
  <2>4. /\ reply' \in [Requests -> Replies]
        /\ pc' \in [Requests -> Steps \cup {"idle", "done", "lost"}]
        /\ \A q \in Requests : pc'[q] # "idle" => pc[q] # "idle" \/ q = r
    BY <1>11, FailType, RefusalsAreReplies DEF Complete, TypeOK
  <2> QED
    BY <1>11, <2>2, <2>3, <2>4 DEF Complete, TypeOK
<1>12. ASSUME NEW r \in Requests, NEW out \in Outcomes, Release(r, out) PROVE TypeOK'
  <2>1. call[r] \in Calls /\ SlotOf(call[r]) \in Slots
    BY <1>12 DEF Release, TypeOK, FlowOK, RequestFlow, Slots
  <2>2. /\ idempotency' \in [DOMAIN idempotency' -> IdempotencyRows]
        /\ DOMAIN idempotency' \subseteq Slots
    BY <1>12, <2>1, IdempotencyTypes, RefusalsAreReplies DEF Release, TypeOK
  <2>3. ContextTypeOK'
    BY <1>12, StatementType DEF Release, ReleaseStatement, TypeOK
  <2> QED
    BY <1>12, <2>2, <2>3 DEF Release, TypeOK
<1>13. ASSUME NEW r \in Requests, NEW out \in Outcomes, Audit(r, out) PROVE TypeOK'
  BY <1>13, StatementType DEF Audit, TypeOK
<1>14. ASSUME NEW r \in Requests, Expire(r) PROVE TypeOK'
  BY <1>14 DEF Expire, ExpireContext, Spend, Failures, TypeOK, ContextTypeOK, requestVars, dbVars
<1>15. CASE Crash
  BY <1>15 DEF Crash, Spend, InFlight, Failures, TypeOK, ContextTypeOK, dbVars
<1>16. CASE TrustRegistryWrites
  BY <1>16 DEF TrustRegistryWrites, TypeOK, ContextTypeOK, requestVars, contextVars
<1>17. CASE UNCHANGED vars
  BY <1>17 DEF vars, requestVars, dbVars, contextVars, TypeOK, ContextTypeOK
<1> QED
  BY <1>1, <1>2, <1>3, <1>4, <1>5, <1>6, <1>7, <1>8, <1>9, <1>10, <1>11, <1>12,
     <1>13, <1>14, <1>15, <1>16, <1>17 DEF Next, Step

LEMMA NextFlowOK == Typed /\ [Next]_vars => FlowOK'
<1> SUFFICES ASSUME TypeOK, FlowOK, [Next]_vars PROVE FlowOK'
  BY DEF Typed
<1> USE DEF Goto, HoldingSteps
<1>1. ASSUME NEW r \in Requests, NEW c \in Calls, Refuse(r, c) PROVE FlowOK'
  BY <1>1 DEF Refuse, FlowOK, RequestFlow, TypeOK
<1>2. ASSUME NEW r \in Requests, NEW c \in Calls, Arrive(r, c) PROVE FlowOK'
  BY <1>2, CallsAssumption
     DEF Arrive, FirstStep, ReserveStep, WriteStep, FlowOK, RequestFlow, TypeOK
<1>3. ASSUME NEW r \in Requests, NEW out \in Outcomes, ReadIssuer(r, out) PROVE FlowOK'
  BY <1>3 DEF ReadIssuer, Fail, ReserveStep, WriteStep, FlowOK, RequestFlow, TypeOK
<1>4. ASSUME NEW r \in Requests, NEW out \in Outcomes, Reserve(r, out) PROVE FlowOK'
  BY <1>4 DEF Reserve, Fail, WriteStep, FlowOK, RequestFlow, TypeOK
<1>5. ASSUME NEW r \in Requests, NEW out \in Outcomes, Lookup(r, out) PROVE FlowOK'
  BY <1>5 DEF Lookup, ReservationOutcome, Fail, FlowOK, RequestFlow, TypeOK, dbVars
<1>6. ASSUME NEW r \in Requests, NEW out \in Outcomes, Allocate(r, out) PROVE FlowOK'
  BY <1>6 DEF Allocate, Fail, NextSequence, NoResource, FlowOK, RequestFlow, TypeOK
<1>7. ASSUME NEW r \in Requests, NEW out \in Outcomes, Create(r, out) PROVE FlowOK'
  BY <1>7 DEF Create, CompleteStep, Fail, FlowOK, RequestFlow, TypeOK
<1>8. ASSUME NEW r \in Requests, NEW out \in Outcomes, Load(r, out) PROVE FlowOK'
  BY <1>8 DEF Load, Fail, FlowOK, RequestFlow, TypeOK, dbVars
<1>9. ASSUME NEW r \in Requests, NEW out \in Outcomes, Update(r, out) PROVE FlowOK'
  BY <1>9 DEF Update, CompleteStep, Fail, FlowOK, RequestFlow, TypeOK
<1>10. ASSUME NEW r \in Requests, NEW out \in Outcomes, ReadCredential(r, out) PROVE FlowOK'
  BY <1>10 DEF ReadCredential, Fail, FlowOK, RequestFlow, TypeOK, dbVars
<1>11. ASSUME NEW r \in Requests, NEW out \in Outcomes, Complete(r, out) PROVE FlowOK'
  BY <1>11 DEF Complete, Fail, FlowOK, RequestFlow, TypeOK
<1>12. ASSUME NEW r \in Requests, NEW out \in Outcomes, Release(r, out) PROVE FlowOK'
  BY <1>12 DEF Release, FlowOK, RequestFlow, TypeOK
<1>13. ASSUME NEW r \in Requests, NEW out \in Outcomes, Audit(r, out) PROVE FlowOK'
  BY <1>13 DEF Audit, AuditSteps, FlowOK, RequestFlow, TypeOK
<1>14. ASSUME NEW r \in Requests, Expire(r) PROVE FlowOK'
  BY <1>14 DEF Expire, requestVars, FlowOK, RequestFlow
<1>15. CASE Crash
  BY <1>15 DEF Crash, InFlight, Steps, FlowOK, RequestFlow, TypeOK
<1>16. CASE TrustRegistryWrites
  BY <1>16 DEF TrustRegistryWrites, requestVars, FlowOK, RequestFlow
<1>17. CASE UNCHANGED vars
  BY <1>17 DEF vars, requestVars, FlowOK, RequestFlow
<1> QED
  BY <1>1, <1>2, <1>3, <1>4, <1>5, <1>6, <1>7, <1>8, <1>9, <1>10, <1>11, <1>12,
     <1>13, <1>14, <1>15, <1>16, <1>17 DEF Next, Step

\* Every reachable state is typed, and every request is where the steps it
\* has been through leave it.
THEOREM AlwaysTyped == Spec => []Typed
<1>1. Init => Typed
  BY InitTyped
<1>2. Typed /\ [Next]_vars => Typed'
  BY NextTypeOK, NextFlowOK DEF Typed
<1> QED
  BY <1>1, <1>2, PTL DEF Spec

\* TypeOK of the handlers in issuer-api/internal/httpapi/phase1.go: no
\* interleaving, failure or crash makes a row or a request ill-typed.
THEOREM TypeCorrect == Spec => []TypeOK
<1>1. Typed => TypeOK
  BY DEF Typed
<1> QED
  BY <1>1, AlwaysTyped, PTL

-----------------------------------------------------------------------------
(* Exclusion                                                               *)

\* A row stays reserved until the request that holds it completes it: the
\* part ReservationExclusive leaves out, and replay needs.
ReservedWhileOpen ==
    \A r \in Requests :
        open[r] /\ pc[r] # "release" => idempotency[SlotOf(call[r])].state = "reserved"

ReservationInv == Typed /\ ReservationExclusive /\ ReservedWhileOpen

\* A step that changes neither the table nor who holds what keeps both.
LEMMA NothingReserved ==
    ASSUME ReservationInv,
           UNCHANGED idempotency,
           \A r \in Requests : open'[r] =>
               /\ open[r]
               /\ call'[r] = call[r]
               /\ pc'[r] # "release" => pc[r] # "release"
    PROVE  ReservationExclusive' /\ ReservedWhileOpen'
BY DEF ReservationInv, ReservationExclusive, ReservedWhileOpen, Holds

LEMMA NextReservation == ReservationInv /\ [Next]_vars => ReservationInv'
<1> SUFFICES ASSUME ReservationInv, [Next]_vars
             PROVE  ReservationExclusive' /\ ReservedWhileOpen'
  BY NextTypeOK, NextFlowOK DEF ReservationInv, Typed
<1> USE DEF Goto
<1>a. TypeOK /\ FlowOK
  BY DEF ReservationInv, Typed
<1> DEFINE Keeps == ReservationExclusive' /\ ReservedWhileOpen'
<1>1. ASSUME NEW r \in Requests, NEW c \in Calls, Refuse(r, c) PROVE Keeps
  BY <1>1, <1>a, NothingReserved
     DEF Refuse, dbVars, FlowOK, RequestFlow, HoldingSteps, TypeOK
<1>2. ASSUME NEW r \in Requests, NEW c \in Calls, Arrive(r, c) PROVE Keeps
  BY <1>2, <1>a, NothingReserved
     DEF Arrive, dbVars, FlowOK, RequestFlow, HoldingSteps, TypeOK
<1>3. ASSUME NEW r \in Requests, NEW out \in Outcomes, ReadIssuer(r, out) PROVE Keeps
  BY <1>3, <1>a, NothingReserved
     DEF ReadIssuer, dbVars, FlowOK, RequestFlow, HoldingSteps, TypeOK, Fail
<1>4. ASSUME NEW r \in Requests, NEW out \in Outcomes, Reserve(r, out) PROVE Keeps
  <2> DEFINE slot == SlotOf(call[r])
  <2>1. ~open[r] /\ Keyed(call[r])
    BY <1>4, <1>a DEF Reserve, FlowOK, RequestFlow, HoldingSteps
  <2>2. \A q \in Requests : q # r => UNCHANGED <<pc[q], open[q]>>
    BY <1>4, <1>a DEF Reserve, Fail, TypeOK
  <2>3. \A s \in DOMAIN idempotency : s \in DOMAIN idempotency' /\ idempotency'[s] = idempotency[s]
    <3>1. CASE idempotency' = ReserveIdempotencyRecord(idempotency, slot, Fingerprint(call[r]))
      BY <3>1, ReserveKeepsRows
    <3>2. CASE idempotency' = idempotency
      BY <3>2
    <3> QED
      BY <1>4, <3>1, <3>2 DEF Reserve
  <2>4. CASE open'[r]
    <3>1. /\ slot \notin DOMAIN idempotency
          /\ slot \in DOMAIN idempotency'
          /\ idempotency'[slot] = ReservedRow(Fingerprint(call[r]))
      <4>1. /\ slot \notin DOMAIN idempotency
            /\ idempotency' = ReserveIdempotencyRecord(idempotency, slot, Fingerprint(call[r]))
        BY <1>4, <2>1, <2>4, <1>a DEF Reserve, Taken, TypeOK, Acked, Reaches
      <4> QED
        BY <4>1, ReserveTakesFreeSlot
    <3>2. \A q \in Requests : ~Holds(q, slot)
      BY <3>1 DEF ReservationInv, ReservationExclusive, Holds
    <3>3. call' = call
      BY <1>4 DEF Reserve
    <3> QED
      BY <2>1, <2>2, <2>3, <3>1, <3>2, <3>3
         DEF ReservationInv, ReservationExclusive, ReservedWhileOpen, Holds, ReservedRow
  <2>5. CASE ~open'[r]
    <3>1. call' = call
      BY <1>4 DEF Reserve
    <3> QED
      BY <2>2, <2>3, <2>5, <3>1
         DEF ReservationInv, ReservationExclusive, ReservedWhileOpen, Holds
  <2> QED
    BY <2>4, <2>5
<1>5. ASSUME NEW r \in Requests, NEW out \in Outcomes, Lookup(r, out) PROVE Keeps
  BY <1>5, <1>a, NothingReserved
     DEF Lookup, dbVars, FlowOK, RequestFlow, HoldingSteps, TypeOK, Fail
<1>6. ASSUME NEW r \in Requests, NEW out \in Outcomes, Allocate(r, out) PROVE Keeps
  BY <1>6, <1>a, NothingReserved DEF Allocate, TypeOK, Fail
<1>7. ASSUME NEW r \in Requests, NEW out \in Outcomes, Create(r, out) PROVE Keeps
  BY <1>7, <1>a, NothingReserved DEF Create, TypeOK, Fail
<1>8. ASSUME NEW r \in Requests, NEW out \in Outcomes, Load(r, out) PROVE Keeps
  BY <1>8, <1>a, NothingReserved DEF Load, dbVars, TypeOK, Fail
<1>9. ASSUME NEW r \in Requests, NEW out \in Outcomes, Update(r, out) PROVE Keeps
  BY <1>9, <1>a, NothingReserved DEF Update, TypeOK, Fail
<1>10. ASSUME NEW r \in Requests, NEW out \in Outcomes, ReadCredential(r, out) PROVE Keeps
  BY <1>10, <1>a, NothingReserved DEF ReadCredential, dbVars, TypeOK, Fail
<1>11. ASSUME NEW r \in Requests, NEW out \in Outcomes, Complete(r, out) PROVE Keeps
  <2> DEFINE slot == SlotOf(call[r])
  <2>1. open[r] /\ call' = call
    BY <1>11, <1>a DEF Complete, FlowOK, RequestFlow, HoldingSteps
  <2>2. \A q \in Requests : q # r => UNCHANGED <<pc[q], open[q]>> /\ (open[q] => SlotOf(call[q]) # slot)
    BY <1>11, <2>1, <1>a DEF Complete, Fail, TypeOK, ReservationInv, ReservationExclusive, Holds
  <2>3. open'[r] => pc'[r] = "release"
    BY <1>11, <2>1, <1>a DEF Complete, Fail, TypeOK
  <2>4. \A s \in DOMAIN idempotency :
                /\ s \in DOMAIN idempotency'
                /\ idempotency'[s].fingerprint = idempotency[s].fingerprint
                /\ s # slot => idempotency'[s] = idempotency[s]
    <3>1. CASE idempotency' = CompleteIdempotencyRecord(idempotency, slot, reply[r])
      BY <3>1, CompleteKeepsRows
    <3>2. CASE idempotency' = idempotency
      BY <3>2
    <3> QED
      BY <1>11, <3>1, <3>2 DEF Complete
  <2>5. ReservationExclusive'
    BY <2>1, <2>2, <2>4 DEF ReservationInv, ReservationExclusive, Holds
  <2>6. ReservedWhileOpen'
    BY <2>1, <2>2, <2>3, <2>4 DEF ReservationInv, ReservationExclusive, ReservedWhileOpen
  <2> QED
    BY <2>5, <2>6
<1>12. ASSUME NEW r \in Requests, NEW out \in Outcomes, Release(r, out) PROVE Keeps
  <2> DEFINE slot == SlotOf(call[r])
  <2>1. open[r] /\ ~open'[r] /\ call' = call
    BY <1>12, <1>a DEF Release, FlowOK, RequestFlow, HoldingSteps, TypeOK
  <2>2. \A q \in Requests : q # r => UNCHANGED <<pc[q], open[q]>> /\ (open[q] => SlotOf(call[q]) # slot)
    BY <1>12, <2>1, <1>a DEF Release, TypeOK, ReservationInv, ReservationExclusive, Holds
  <2>3. \A s \in DOMAIN idempotency :
            s # slot => s \in DOMAIN idempotency' /\ idempotency'[s] = idempotency[s]
    BY <1>12, ReleaseKeepsRows DEF Release
  <2> QED
    BY <2>1, <2>2, <2>3 DEF ReservationInv, ReservationExclusive, ReservedWhileOpen, Holds
<1>13. ASSUME NEW r \in Requests, NEW out \in Outcomes, Audit(r, out) PROVE Keeps
  BY <1>13, <1>a, NothingReserved
     DEF Audit, AuditSteps, FlowOK, RequestFlow, HoldingSteps, TypeOK
<1>14. ASSUME NEW r \in Requests, Expire(r) PROVE Keeps
  BY <1>14, NothingReserved DEF Expire, requestVars, dbVars
<1>15. CASE Crash
  BY <1>15, NothingReserved DEF Crash, dbVars
<1>16. CASE TrustRegistryWrites
  BY <1>16, NothingReserved DEF TrustRegistryWrites, requestVars
<1>17. CASE UNCHANGED vars
  BY <1>17, NothingReserved DEF vars, requestVars, dbVars
<1> QED
  BY <1>1, <1>2, <1>3, <1>4, <1>5, <1>6, <1>7, <1>8, <1>9, <1>10, <1>11, <1>12,
     <1>13, <1>14, <1>15, <1>16, <1>17 DEF Next, Step

LEMMA InitReservation == Init => ReservationInv
BY InitTyped DEF Init, ReservationInv, ReservationExclusive, ReservedWhileOpen

LEMMA AlwaysReservation == Spec => []ReservationInv
BY InitReservation, NextReservation, PTL DEF Spec

\* At most one request holds a key's reservation, and the row is the one it
\* inserted: ReserveIdempotencyRecord, the completion and the deferred
\* release exclude each other, whatever fails.
THEOREM ReservationsExclude == Spec => []ReservationExclusive
<1>1. ReservationInv => ReservationExclusive
  BY DEF ReservationInv
<1> QED
  BY <1>1, AlwaysReservation, PTL

-----------------------------------------------------------------------------
(* Orphans                                                                 *)

\* An orphaned row is out of every request's reach: reserving finds the slot
\* taken, and completing or releasing is for the slot one holds.
LEMMA OrphanStep ==
    ASSUME ReservationInv, [Next]_vars, NEW slot, Orphan(slot)
    PROVE  Orphan(slot)'
<1> USE DEF Goto
<1>a. TypeOK /\ FlowOK
  BY DEF ReservationInv, Typed
<1> DEFINE NobodyTakes ==
            /\ slot \in DOMAIN idempotency' /\ idempotency'[slot] = idempotency[slot]
            /\ \A q \in Requests : open'[q] =>
                    SlotOf(call'[q]) # slot \/ (open[q] /\ call'[q] = call[q])
<1>b. NobodyTakes => Orphan(slot)'
  BY DEF Orphan, Holds
<1>c. slot \in DOMAIN idempotency
  BY DEF Orphan
<1>d. \A r \in Requests : open[r] => SlotOf(call[r]) # slot
  BY DEF Orphan, Holds
<1>1. ASSUME NEW r \in Requests, NEW c \in Calls, Refuse(r, c) \/ Arrive(r, c) PROVE NobodyTakes
  BY <1>1, <1>a, <1>c DEF Refuse, Arrive, dbVars, FlowOK, RequestFlow, HoldingSteps, TypeOK
<1>2. ASSUME NEW r \in Requests, NEW out \in Outcomes,
             ReadIssuer(r, out) \/ Lookup(r, out) \/ Allocate(r, out) \/ Create(r, out)
             \/ Load(r, out) \/ Update(r, out) \/ ReadCredential(r, out) \/ Audit(r, out)
      PROVE  NobodyTakes
  BY <1>2, <1>c DEF ReadIssuer, Lookup, Allocate, Create, Load, Update, ReadCredential, Audit, dbVars
<1>3. ASSUME NEW r \in Requests, NEW out \in Outcomes, Reserve(r, out) PROVE NobodyTakes
  <2>1. slot \in DOMAIN idempotency' /\ idempotency'[slot] = idempotency[slot]
    <3>1. CASE idempotency' =
                    ReserveIdempotencyRecord(idempotency, SlotOf(call[r]), Fingerprint(call[r]))
      BY <1>c, <3>1, ReserveKeepsRows
    <3>2. CASE idempotency' = idempotency
      BY <1>c, <3>2
    <3> QED
      BY <1>3, <3>1, <3>2 DEF Reserve
  <2>2. CASE SlotOf(call[r]) # slot
    BY <1>3, <1>a, <2>1, <2>2 DEF Reserve, TypeOK
  <2>3. CASE SlotOf(call[r]) = slot
    BY <1>3, <1>a, <1>c, <2>1, <2>3 DEF Reserve, Taken, TypeOK
  <2> QED
    BY <2>2, <2>3
<1>4. ASSUME NEW r \in Requests, NEW out \in Outcomes, Complete(r, out) PROVE NobodyTakes
  <2>1. SlotOf(call[r]) # slot
    BY <1>4, <1>a, <1>d DEF Complete, FlowOK, RequestFlow, HoldingSteps
  <2>2. CASE idempotency' = CompleteIdempotencyRecord(idempotency, SlotOf(call[r]), reply[r])
    BY <1>4, <1>a, <1>c, <2>1, <2>2, CompleteKeepsRows DEF Complete, TypeOK
  <2>3. CASE idempotency' = idempotency
    BY <1>4, <1>a, <1>c, <2>3 DEF Complete, TypeOK
  <2> QED
    BY <1>4, <2>2, <2>3 DEF Complete
<1>5. ASSUME NEW r \in Requests, NEW out \in Outcomes, Release(r, out) PROVE NobodyTakes
  <2>1. SlotOf(call[r]) # slot
    BY <1>5, <1>a, <1>d DEF Release, FlowOK, RequestFlow, HoldingSteps
  <2>2. CASE idempotency' = ReleaseIdempotencyRecord(idempotency, SlotOf(call[r]))
    BY <1>5, <1>a, <1>c, <2>1, <2>2, ReleaseKeepsRows DEF Release, TypeOK
  <2>3. CASE idempotency' = idempotency
    BY <1>5, <1>a, <1>c, <2>3 DEF Release, TypeOK
  <2> QED
    BY <1>5, <2>2, <2>3 DEF Release
<1>6. ASSUME NEW r \in Requests, Expire(r) PROVE NobodyTakes
  BY <1>6, <1>c DEF Expire, requestVars, dbVars
<1>7. ASSUME Crash PROVE NobodyTakes
  BY <1>7, <1>c DEF Crash, dbVars
<1>8. ASSUME TrustRegistryWrites PROVE NobodyTakes
  BY <1>8, <1>c DEF TrustRegistryWrites, requestVars
<1>9. ASSUME UNCHANGED vars PROVE NobodyTakes
  BY <1>9, <1>c DEF vars, requestVars, dbVars
<1> QED
  BY <1>b, <1>1, <1>2, <1>3, <1>4, <1>5, <1>6, <1>7, <1>8, <1>9 DEF Next, Step

\* A reservation whose request crashed, timed out or never learned of it is
\* reclaimed by nobody: the code has no statement that takes a reserved row.
THEOREM OrphansStay == Spec => OrphanStaysOrphan
<1>1. ReservationInv /\ [Next]_vars => \A slot \in Slots : Orphan(slot) => Orphan(slot)'
  BY OrphanStep
<1>2. ReservationInv /\ [Next]_vars => [\A slot \in Slots : Orphan(slot) => Orphan(slot)']_vars
  BY <1>1
<1> QED
  BY <1>2, AlwaysReservation, PTL DEF Spec, OrphanStaysOrphan

-----------------------------------------------------------------------------
(* Replay                                                                  *)

\* The slot of r holds this reply of r, for good.
Settled(r) ==
    LET slot == SlotOf(call[r])
    IN  /\ slot \in DOMAIN idempotency
        /\ idempotency[slot].state = "completed"
        /\ idempotency[slot].fingerprint = Fingerprint(call[r])
        /\ idempotency[slot].reply = reply[r]

\* A keyed write past its completion, or answered from the slot.
Succeeded(r) ==
    /\ pc[r] \in {"audit", "replay", "done"}
    /\ Success(reply[r])
    /\ call[r].op # "read"
    /\ Keyed(call[r])

\* Between a completion and its answer a success is settled already, and no
\* path that declines a request leaves it a success to answer.
ReplayFlow ==
    \A r \in Requests :
        /\ Succeeded(r) => Settled(r)
        /\ pc[r] \in {"release", "in_progress", "conflict"} => ~Success(reply[r])

ReplayInv == ReservationInv /\ ReplayFlow

\* A step of r moves r alone, and leaves every completed row as it is.
LEMMA OthersStaySettled ==
    ASSUME ReplayInv, NEW r \in Requests,
           \A q \in Requests : q # r => UNCHANGED <<pc[q], call[q], reply[q]>>,
           \A s \in DOMAIN idempotency : idempotency[s].state = "completed" =>
                s \in DOMAIN idempotency' /\ idempotency'[s] = idempotency[s],
           /\ Succeeded(r)' => Settled(r)'
           /\ pc'[r] \in {"release", "in_progress", "conflict"} => ~Success(reply'[r])
    PROVE  ReplayFlow'
BY DEF ReplayInv, ReplayFlow, Succeeded, Settled

LEMMA RefusalsAreNoSuccess ==
    /\ ~Success(PersistenceError)
    /\ ~Success(NotFound)
    /\ ~Success(NoReply)
    /\ ~Success(Refusal(403, "issuer_not_trusted"))
    /\ ~Success(Refusal(400, "unsupported_template"))
    /\ ~Success(Refusal(409, "invalid_status_transition"))
    /\ \A c \in Calls : ~Success(FrontDoor(c))
BY DEF PersistenceError, NotFound, NoReply, FrontDoor, Refusal, Reply, Success

LEMMA NextReplayFlow == ReplayInv /\ [Next]_vars => ReplayFlow'
<1> SUFFICES ASSUME ReplayInv, [Next]_vars PROVE ReplayFlow'
  OBVIOUS
<1> USE DEF Goto
<1>a. TypeOK /\ FlowOK
  BY DEF ReplayInv, ReservationInv, Typed
<1>1. ASSUME NEW r \in Requests, NEW c \in Calls, Refuse(r, c) PROVE ReplayFlow'
  BY <1>1, <1>a, OthersStaySettled, RefusalsAreNoSuccess DEF Refuse, dbVars, Succeeded, TypeOK
<1>2. ASSUME NEW r \in Requests, NEW c \in Calls, Arrive(r, c) PROVE ReplayFlow'
  <2>1. FirstStep(c) \notin {"audit", "replay", "done", "release", "in_progress", "conflict"}
    BY CallsAssumption DEF FirstStep, ReserveStep, WriteStep
  <2> QED
    BY <1>2, <2>1, <1>a, OthersStaySettled DEF Arrive, dbVars, Succeeded, TypeOK
<1>3. ASSUME NEW r \in Requests, NEW out \in Outcomes, ReadIssuer(r, out) PROVE ReplayFlow'
  BY <1>3, <1>a, OthersStaySettled, RefusalsAreNoSuccess
     DEF ReadIssuer, Fail, ReserveStep, WriteStep, dbVars, Succeeded, TypeOK
<1>4. ASSUME NEW r \in Requests, NEW out \in Outcomes, Reserve(r, out) PROVE ReplayFlow'
  <2>1. \A s \in DOMAIN idempotency : s \in DOMAIN idempotency' /\ idempotency'[s] = idempotency[s]
    <3>1. CASE idempotency' =
                    ReserveIdempotencyRecord(idempotency, SlotOf(call[r]), Fingerprint(call[r]))
      BY <3>1, ReserveKeepsRows
    <3>2. CASE idempotency' = idempotency
      BY <3>2
    <3> QED
      BY <1>4, <3>1, <3>2 DEF Reserve
  <2> QED
    BY <1>4, <2>1, <1>a, OthersStaySettled, RefusalsAreNoSuccess
       DEF Reserve, Fail, WriteStep, Succeeded, TypeOK
<1>5. ASSUME NEW r \in Requests, NEW out \in Outcomes, Lookup(r, out) PROVE ReplayFlow'
  <2> DEFINE slot == SlotOf(call[r])
             outcome == ReservationOutcome(idempotency[slot], Fingerprint(call[r]))
  <2>1. CASE Fail(r, PersistenceError)
    BY <1>5, <2>1, <1>a, OthersStaySettled, RefusalsAreNoSuccess
       DEF Lookup, Fail, dbVars, Succeeded, TypeOK
  <2>2. CASE /\ slot \in DOMAIN idempotency
             /\ reply' = [reply EXCEPT ![r] = OccupiedReply(outcome, idempotency[slot])]
             /\ Goto(r, outcome)
    <3>1. /\ outcome = "replay" => /\ idempotency[slot].fingerprint = Fingerprint(call[r])
                                   /\ idempotency[slot].state = "completed"
                                   /\ reply'[r] = idempotency[slot].reply
          /\ outcome \in {"in_progress", "conflict"} => ~Success(reply'[r])
          /\ outcome \in {"replay", "in_progress", "conflict"}
      BY <2>2, <1>a DEF ReservationOutcome, OccupiedReply, Reply, Success, TypeOK
    <3> QED
      BY <1>5, <2>2, <3>1, <1>a, OthersStaySettled DEF Lookup, dbVars, Succeeded, Settled, TypeOK
  <2> QED
    BY <1>5, <2>1, <2>2 DEF Lookup
<1>6. ASSUME NEW r \in Requests, NEW out \in Outcomes, Allocate(r, out) PROVE ReplayFlow'
  BY <1>6, <1>a, OthersStaySettled, RefusalsAreNoSuccess
     DEF Allocate, Fail, Succeeded, TypeOK
<1>7. ASSUME NEW r \in Requests, NEW out \in Outcomes, Create(r, out) PROVE ReplayFlow'
  BY <1>7, <1>a, OthersStaySettled, RefusalsAreNoSuccess
     DEF Create, CompleteStep, Fail, Succeeded, TypeOK
<1>8. ASSUME NEW r \in Requests, NEW out \in Outcomes, Load(r, out) PROVE ReplayFlow'
  BY <1>8, <1>a, OthersStaySettled, RefusalsAreNoSuccess
     DEF Load, Fail, dbVars, Succeeded, TypeOK
<1>9. ASSUME NEW r \in Requests, NEW out \in Outcomes, Update(r, out) PROVE ReplayFlow'
  BY <1>9, <1>a, OthersStaySettled, RefusalsAreNoSuccess
     DEF Update, CompleteStep, Fail, Succeeded, TypeOK
<1>10. ASSUME NEW r \in Requests, NEW out \in Outcomes, ReadCredential(r, out) PROVE ReplayFlow'
  BY <1>10, <1>a, OthersStaySettled, RefusalsAreNoSuccess
     DEF ReadCredential, Fail, dbVars, FlowOK, RequestFlow, Succeeded, TypeOK
<1>11. ASSUME NEW r \in Requests, NEW out \in Outcomes, Complete(r, out) PROVE ReplayFlow'
  <2> DEFINE slot == SlotOf(call[r])
  <2>1. /\ open[r]
        /\ slot \in DOMAIN idempotency
        /\ idempotency[slot].state = "reserved"
        /\ idempotency[slot].fingerprint = Fingerprint(call[r])
    BY <1>11, <1>a DEF Complete, FlowOK, RequestFlow, HoldingSteps, ReplayInv, ReservationInv,
       ReservationExclusive, ReservedWhileOpen
  <2>2. \A s \in DOMAIN idempotency :
            /\ s \in DOMAIN idempotency'
            /\ idempotency'[s].fingerprint = idempotency[s].fingerprint
            /\ s # slot => idempotency'[s] = idempotency[s]
    <3>1. CASE idempotency' = CompleteIdempotencyRecord(idempotency, slot, reply[r])
      BY <3>1, CompleteKeepsRows
    <3>2. CASE idempotency' = idempotency
      BY <3>2
    <3> QED
      BY <1>11, <3>1, <3>2 DEF Complete
  <2>3. CASE Acked(out)
    <3>1. reply' = reply /\ call' = call
      BY <1>11, <2>1, <2>3 DEF Complete
    <3>2. idempotency'[slot].state = "completed" /\ idempotency'[slot].reply = reply[r]
      BY <1>11, <2>1, <2>3, CompleteStoresReply DEF Complete, Acked, Reaches
    <3>3. Settled(r)'
      BY <2>1, <2>2, <3>1, <3>2 DEF Settled
    <3> QED
      BY <1>11, <2>1, <2>2, <2>3, <3>3, <1>a, OthersStaySettled DEF Complete, TypeOK
  <2>4. CASE ~Acked(out)
    BY <1>11, <2>1, <2>2, <2>4, <1>a, OthersStaySettled, RefusalsAreNoSuccess
       DEF Complete, Fail, Succeeded, TypeOK
  <2> QED
    BY <2>3, <2>4
<1>12. ASSUME NEW r \in Requests, NEW out \in Outcomes, Release(r, out) PROVE ReplayFlow'
  <2>1. \A s \in DOMAIN idempotency : idempotency[s].state = "completed" =>
            s \in DOMAIN idempotency' /\ idempotency'[s] = idempotency[s]
    <3>1. CASE idempotency' = ReleaseIdempotencyRecord(idempotency, SlotOf(call[r]))
      BY <3>1, ReleaseKeepsRows
    <3>2. CASE idempotency' = idempotency
      BY <3>2
    <3> QED
      BY <1>12, <3>1, <3>2 DEF Release
  <2>2. ~Success(reply'[r])
    BY <1>12 DEF Release, ReplayInv, ReplayFlow
  <2> QED
    BY <1>12, <2>1, <2>2, <1>a, OthersStaySettled DEF Release, Succeeded, TypeOK
<1>13. ASSUME NEW r \in Requests, NEW out \in Outcomes, Audit(r, out) PROVE ReplayFlow'
  <2>1. Succeeded(r)' => Settled(r)
    BY <1>13 DEF Audit, AuditSteps, Succeeded, ReplayInv, ReplayFlow
  <2> QED
    BY <1>13, <2>1, <1>a, OthersStaySettled DEF Audit, Settled, TypeOK
<1>14. ASSUME NEW r \in Requests, Expire(r) PROVE ReplayFlow'
  BY <1>14 DEF Expire, requestVars, dbVars, ReplayInv, ReplayFlow, Succeeded, Settled
<1>15. CASE Crash
  BY <1>15, <1>a DEF Crash, InFlight, Steps, AuditSteps, dbVars, ReplayInv, ReplayFlow,
     Succeeded, Settled, TypeOK
<1>16. CASE TrustRegistryWrites
  BY <1>16 DEF TrustRegistryWrites, requestVars, ReplayInv, ReplayFlow, Succeeded, Settled
<1>17. CASE UNCHANGED vars
  BY <1>17 DEF vars, requestVars, dbVars, ReplayInv, ReplayFlow, Succeeded, Settled
<1> QED
  BY <1>1, <1>2, <1>3, <1>4, <1>5, <1>6, <1>7, <1>8, <1>9, <1>10, <1>11, <1>12,
     <1>13, <1>14, <1>15, <1>16, <1>17 DEF Next, Step

\* A keyed write that was answered with success can be replayed for good:
\* its slot keeps that very reply, so no retry of it ever sees another.
THEOREM SuccessesReplay == Spec => []SuccessIsReplayable
<1>1. Init => ReplayInv
  BY InitReservation DEF ReplayInv, ReplayFlow, Succeeded, Init
<1>2. ReplayInv /\ [Next]_vars => ReplayInv'
  BY NextReservation, NextReplayFlow DEF ReplayInv
<1>3. ReplayInv => SuccessIsReplayable
  BY DEF ReplayInv, ReplayFlow, Succeeded, Settled, SuccessIsReplayable, Answered
<1> QED
  BY <1>1, <1>2, <1>3, PTL DEF Spec
=============================================================================
