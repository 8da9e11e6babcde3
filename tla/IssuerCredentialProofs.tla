----------------------- MODULE IssuerCredentialProofs -----------------------
(***************************************************************************)
(* What IssuerApi answers, stores and audits about credentials, proved for *)
(* any requests, calls, failures and tables: a 201 names the credential    *)
(* that was asked for, the audit table tells what happened, a key stores   *)
(* one credential unless a statement fails, and keyed writes implement     *)
(* IdempotentWrite.                                                        *)
(***************************************************************************)
EXTENDS IssuerApiProofs

-----------------------------------------------------------------------------
(* The invariant                                                           *)

OwnedStored(id, org) == id \in DOMAIN credentials /\ credentials[id].issuer = org

\* The reply of r names a credential that is stored as r asked.
StoredAsAsked(r) ==
    /\ OwnedStored(reply[r].resource, Org(call[r]))
    /\ credentials[reply[r].resource].body = call[r].body

\* What an audit record of r may say succeeded.
Told(r) ==
    /\ OwnedStored(reply[r].resource, Org(call[r]))
    /\ call[r].op = "status" => credentials[reply[r].resource].status # "active"

\* What the steps of r have made sure of when the next one runs.
CredentialFlow(r) ==
    /\ pc[r] \in {"reserve", "lookup", "complete"} => call[r].op \in {"issue", "status"}
    /\ pc[r] \in {"load", "update"} => call[r].op = "status"
    /\ InFlight(r) /\ call[r].op = "status" => ValidStatusChange(call[r])
    /\ pc[r] = "idle" => ~Success(reply[r])
    /\ pc[r] \in {"idle", "issuer", "reserve", "lookup", "allocate"} => cred[r] = NoResource
    /\ pc[r] = "create" => cred[r] \notin DOMAIN credentials
    /\ pc[r] = "update" => /\ cred[r] = call[r].target
                           /\ OwnedStored(call[r].target, Org(call[r]))
    /\ pc[r] \in {"complete", "audit"} => Success(reply[r]) /\ Told(r)
    /\ Success(reply[r]) /\ call[r].op = "issue" => StoredAsAsked(r)

\* No two issuing requests ever allocate one identifier.
DistinctCredentials ==
    \A r, q \in Requests :
        /\ call[r].op = "issue" /\ call[q].op = "issue"
        /\ cred[r] = cred[q] /\ cred[r] # NoResource
        => r = q

\* A success kept for replay names a credential stored as its fingerprint
\* asked, of the organization of the caller in its slot.
RowTrue(table, slot, row) ==
    slot[1] = "issue" /\ Success(row.reply) =>
        /\ row.reply.resource \in DOMAIN table
        /\ table[row.reply.resource].issuer = OrgOf[slot[2]]
        /\ table[row.reply.resource].body = row.fingerprint[1]

RowsTrue == \A slot \in DOMAIN idempotency : RowTrue(credentials, slot, idempotency[slot])

\* What AuditTruthful says of one record.
RecordTrue(table, row) ==
    row.outcome = "succeeded" =>
        /\ row.resource \in DOMAIN table
        /\ table[row.resource].issuer = OrgOf[row.caller]
        /\ row.action = "status" => table[row.resource].status # "active"

CredentialInv ==
    /\ ReservationInv
    /\ \A r \in Requests : CredentialFlow(r)
    /\ DistinctCredentials
    /\ RowsTrue
    /\ AuditTruthful

-----------------------------------------------------------------------------
(* What a statement on the credential table leaves of it                   *)

\* Credentials are added and changed, never lost: the organization and the
\* body stay, and one that is no longer active does not become so again.
Grown ==
    \A id \in DOMAIN credentials :
        /\ id \in DOMAIN credentials'
        /\ credentials'[id].issuer = credentials[id].issuer
        /\ credentials'[id].body = credentials[id].body
        /\ credentials[id].status # "active" => credentials'[id].status # "active"

LEMMA UpdateKeepsRows ==
    ASSUME NEW table, table \in [DOMAIN table -> CredentialRows],
           NEW id, NEW status, NEW by
    PROVE  LET changed == UpdateCredentialStatus(table, id, status, by)
           IN  /\ DOMAIN changed = DOMAIN table
               /\ \A k \in DOMAIN table : /\ changed[k].issuer = table[k].issuer
                                          /\ changed[k].body = table[k].body
                                          /\ k # id => changed[k] = table[k]
                                          /\ k = id => changed[k].status = status
BY DEF UpdateCredentialStatus, CredentialRows

\* A step of r moves r alone.
LEMMA StepFrame ==
    ASSUME TypeOK, NEW r \in Requests, Step(r)
    PROVE  /\ call' = call
           /\ \A q \in Requests : q # r =>
                UNCHANGED <<pc[q], open[q], cred[q], reply[q]>>
<1> USE DEF Goto, Fail, TypeOK
<1>1. ASSUME NEW out \in Outcomes,
             ReadIssuer(r, out) \/ Reserve(r, out) \/ Lookup(r, out) \/ Allocate(r, out)
      PROVE  /\ call' = call
             /\ \A q \in Requests : q # r =>
                  UNCHANGED <<pc[q], open[q], cred[q], reply[q]>>
  BY <1>1 DEF ReadIssuer, Reserve, Lookup, Allocate
<1>2. ASSUME NEW out \in Outcomes,
             Create(r, out) \/ Load(r, out) \/ Update(r, out) \/ ReadCredential(r, out)
      PROVE  /\ call' = call
             /\ \A q \in Requests : q # r =>
                  UNCHANGED <<pc[q], open[q], cred[q], reply[q]>>
  BY <1>2 DEF Create, Load, Update, ReadCredential
<1>3. ASSUME NEW out \in Outcomes, Complete(r, out) \/ Release(r, out) \/ Audit(r, out)
      PROVE  /\ call' = call
             /\ \A q \in Requests : q # r =>
                  UNCHANGED <<pc[q], open[q], cred[q], reply[q]>>
  BY <1>3 DEF Complete, Release, Audit
<1> QED
  BY <1>1, <1>2, <1>3 DEF Step

\* Only creating and updating touch the credential table.
LEMMA StepTables ==
    ASSUME NEW r \in Requests, NEW out \in Outcomes,
           \/ ReadIssuer(r, out) \/ Reserve(r, out) \/ Lookup(r, out) \/ Allocate(r, out)
           \/ Load(r, out) \/ ReadCredential(r, out) \/ Complete(r, out)
           \/ Release(r, out) \/ Audit(r, out)
    PROVE  UNCHANGED credentials
BY DEF ReadIssuer, Reserve, Lookup, Allocate, Load, ReadCredential, Complete, Release, Audit, dbVars

LEMMA StepGrows ==
    ASSUME CredentialInv, NEW r \in Requests, Step(r)
    PROVE  /\ Grown
           /\ \/ DOMAIN credentials' = DOMAIN credentials
              \/ /\ pc[r] = "create" /\ pc'[r] # "create"
                 /\ DOMAIN credentials' = DOMAIN credentials \cup {cred[r]}
<1> USE DEF Goto
<1>a. TypeOK /\ FlowOK /\ CredentialFlow(r)
  BY DEF CredentialInv, ReservationInv, Typed
<1>1. PICK out \in Outcomes :
        \/ ReadIssuer(r, out) \/ Reserve(r, out) \/ Lookup(r, out) \/ Allocate(r, out)
        \/ Load(r, out) \/ ReadCredential(r, out) \/ Complete(r, out)
        \/ Release(r, out) \/ Audit(r, out) \/ Create(r, out) \/ Update(r, out)
  BY DEF Step
<1>2. CASE UNCHANGED credentials
  BY <1>2 DEF Grown
<1>3. CASE Create(r, out)
  <2>1. CASE Reaches(out)
    <3>1. pc[r] = "create" /\ pc'[r] # "create"
      BY <1>3, <1>a DEF Create, Fail, CompleteStep, TypeOK
    <3>2. credentials' = CreateCredentialRecord(credentials, cred[r],
                                CredentialRow(Org(call[r]), call[r].body))
      BY <1>3, <2>1 DEF Create
    <3>3. /\ DOMAIN credentials' = DOMAIN credentials \cup {cred[r]}
          /\ \A id \in DOMAIN credentials : credentials'[id] = credentials[id]
      BY <3>2 DEF CreateCredentialRecord, InsertRow
    <3> QED
      BY <3>1, <3>3 DEF Grown
  <2> QED
    BY <1>3, <1>2, <2>1 DEF Create
<1>4. CASE Update(r, out)
  <2>1. CASE Reaches(out)
    <3>1. credentials' = UpdateCredentialStatus(credentials, cred[r], call[r].status, call[r].by)
      BY <1>4, <2>1 DEF Update
    <3>2. call[r].status # "active"
      BY <1>4, <1>a DEF Update, CredentialFlow, InFlight, Steps, ValidStatusChange
    <3> QED
      BY <3>1, <3>2, <1>a, UpdateKeepsRows DEF Grown, TypeOK
  <2> QED
    BY <1>4, <1>2, <2>1 DEF Update
<1> QED
  BY <1>1, <1>2, <1>3, <1>4, StepTables

\* A request that does not move keeps what it has made sure of.
LEMMA GrownKeepsFlow ==
    ASSUME NEW q \in Requests, CredentialFlow(q), Grown,
           UNCHANGED <<pc[q], call[q], cred[q], reply[q]>>,
           pc[q] = "create" => cred[q] \notin DOMAIN credentials'
    PROVE  CredentialFlow(q)'
<1>1. UNCHANGED <<InFlight(q), ValidStatusChange(call[q])>>
  BY DEF InFlight, ValidStatusChange
<1>2. \A id, org : OwnedStored(id, org) => OwnedStored(id, org)'
  BY DEF Grown, OwnedStored
<1>3. StoredAsAsked(q) => StoredAsAsked(q)'
  BY <1>2 DEF StoredAsAsked, Grown, OwnedStored, Org
<1>4. Told(q) => Told(q)'
  BY <1>2 DEF Told, Grown, OwnedStored, Org
<1> QED
  BY <1>1, <1>2, <1>3, <1>4 DEF CredentialFlow, Org

LEMMA StepOthers ==
    ASSUME CredentialInv, NEW r \in Requests, Step(r), NEW q \in Requests, q # r
    PROVE  CredentialFlow(q)'
<1>a. TypeOK /\ FlowOK
  BY DEF CredentialInv, ReservationInv, Typed
<1>1. UNCHANGED <<pc[q], call[q], cred[q], reply[q]>>
  BY <1>a, StepFrame
<1>2. ASSUME pc[q] = "create" PROVE cred[q] \notin DOMAIN credentials'
  <2>1. cred[q] \notin DOMAIN credentials
    BY <1>2 DEF CredentialInv, CredentialFlow
  <2>2. ASSUME pc[r] = "create" PROVE cred[r] # cred[q]
    BY <1>2, <2>2, <1>a DEF CredentialInv, DistinctCredentials, FlowOK, RequestFlow
  <2>3. \/ DOMAIN credentials' = DOMAIN credentials
        \/ pc[r] = "create" /\ DOMAIN credentials' = DOMAIN credentials \cup {cred[r]}
    BY StepGrows
  <2> QED
    BY <2>1, <2>2, <2>3
<1> QED
  BY <1>1, <1>2, GrownKeepsFlow, StepGrows DEF CredentialInv

\* A refusal, and a request that closes, has nothing left to make sure of.
LEMMA DeclinedFlow ==
    ASSUME CredentialInv, NEW r \in Requests, InFlight(r), Step(r),
           ~Success(reply'[r]),
           pc'[r] \in {"release", "done"} \cup {"replay", "in_progress", "conflict"}
    PROVE  CredentialFlow(r)'
<1>1. call' = call
  BY StepFrame DEF CredentialInv, ReservationInv, Typed
<1>2. call[r].op = "status" => ValidStatusChange(call'[r])
  BY <1>1 DEF CredentialInv, CredentialFlow
<1> QED
  BY <1>1, <1>2 DEF CredentialFlow

LEMMA FailFlow ==
    ASSUME CredentialInv, NEW r \in Requests, InFlight(r), Step(r),
           NEW refusal, ~Success(refusal), Fail(r, refusal)
    PROVE  CredentialFlow(r)'
BY DeclinedFlow DEF CredentialInv, ReservationInv, Typed, TypeOK, Fail, Goto

LEMMA StepSelf ==
    ASSUME CredentialInv, NEW r \in Requests, Step(r)
    PROVE  CredentialFlow(r)'
<1> USE DEF Goto, Steps, AuditSteps, InFlight
<1>a. TypeOK /\ FlowOK /\ CredentialFlow(r)
  BY DEF CredentialInv, ReservationInv, Typed
<1>b. InFlight(r)
  BY DEF Step, ReadIssuer, Reserve, Lookup, Allocate, Create, Load, Update, ReadCredential,
         Complete, Release, Audit
<1>c. \A refusal : ~Success(refusal) /\ Fail(r, refusal) => CredentialFlow(r)'
  BY <1>b, FailFlow
<1>1. ASSUME NEW out \in Outcomes, ReadIssuer(r, out) PROVE CredentialFlow(r)'
  <2>1. CASE UNCHANGED reply /\ Goto(r, ReserveStep(call[r]))
    BY <1>1, <1>a, <2>1
       DEF ReadIssuer, ReserveStep, WriteStep, dbVars, CredentialFlow, StoredAsAsked, OwnedStored,
           FlowOK, RequestFlow, TypeOK
  <2> QED
    BY <1>1, <1>c, <2>1, RefusalsAreNoSuccess DEF ReadIssuer
<1>2. ASSUME NEW out \in Outcomes, Reserve(r, out) PROVE CredentialFlow(r)'
  <2>1. CASE UNCHANGED reply /\ pc' = [pc EXCEPT ![r] = WriteStep(call[r])]
    BY <1>2, <1>a, <2>1
       DEF Reserve, WriteStep, CredentialFlow, StoredAsAsked, OwnedStored, TypeOK
  <2>2. CASE UNCHANGED reply /\ pc' = [pc EXCEPT ![r] = "lookup"]
    BY <1>2, <1>a, <2>2
       DEF Reserve, CredentialFlow, StoredAsAsked, OwnedStored, TypeOK
  <2> QED
    BY <1>2, <1>c, <2>1, <2>2, RefusalsAreNoSuccess DEF Reserve
<1>3. ASSUME NEW out \in Outcomes, Lookup(r, out) PROVE CredentialFlow(r)'
  <2> DEFINE slot == SlotOf(call[r])
             row == idempotency[slot]
             outcome == ReservationOutcome(row, Fingerprint(call[r]))
  <2>1. CASE /\ slot \in DOMAIN idempotency
             /\ reply' = [reply EXCEPT ![r] = OccupiedReply(outcome, row)]
             /\ Goto(r, outcome)
    <3>1. reply'[r] = OccupiedReply(outcome, row) /\ pc'[r] = outcome
      BY <2>1, <1>a DEF TypeOK
    <3>2. CASE outcome = "replay"
      <4>1. row.fingerprint = Fingerprint(call[r]) /\ reply'[r] = row.reply
        BY <3>1, <3>2 DEF ReservationOutcome, OccupiedReply
      <4>2. ASSUME Success(row.reply), call[r].op = "issue" PROVE StoredAsAsked(r)'
        <5>1. slot[1] = "issue" /\ OrgOf[slot[2]] = Org(call[r])
          BY <4>2 DEF SlotOf, Org
        <5>2. row.fingerprint[1] = call[r].body
          BY <4>1, <4>2 DEF Fingerprint
        <5>3. UNCHANGED <<call, credentials>>
          BY <1>3 DEF Lookup, dbVars
        <5> QED
          BY <2>1, <4>1, <4>2, <5>1, <5>2, <5>3
             DEF CredentialInv, RowsTrue, RowTrue, StoredAsAsked, OwnedStored, Org
      <4>3. call' = call
        BY <1>3 DEF Lookup
      <4> QED
        BY <1>b, <1>a, <3>1, <3>2, <4>1, <4>2, <4>3 DEF CredentialFlow
    <3>3. CASE outcome # "replay"
      BY <1>b, <3>1, <3>3, DeclinedFlow DEF ReservationOutcome, OccupiedReply, Reply, Success
    <3> QED
      BY <3>2, <3>3
  <2> QED
    BY <1>3, <1>c, <2>1, RefusalsAreNoSuccess DEF Lookup
<1>4. ASSUME NEW out \in Outcomes, Allocate(r, out) PROVE CredentialFlow(r)'
  <2>1. CASE UNCHANGED reply /\ cred' = [cred EXCEPT ![r] = NextSequence(sequence)]
             /\ Goto(r, "create")
    <3>1. NextSequence(sequence) \notin DOMAIN credentials
      BY <1>a DEF TypeOK, NextSequence
    <3> QED
      BY <1>4, <1>a, <2>1, <3>1
         DEF Allocate, CredentialFlow, StoredAsAsked, OwnedStored, FlowOK, RequestFlow, TypeOK
  <2> QED
    BY <1>4, <1>c, <2>1, RefusalsAreNoSuccess DEF Allocate
<1>5. ASSUME NEW out \in Outcomes, Create(r, out) PROVE CredentialFlow(r)'
  <2> DEFINE row == CredentialRow(Org(call[r]), call[r].body)
  <2>1. CASE Acked(out) /\ cred[r] \notin DOMAIN credentials
    <3>1. /\ cred[r] \in DOMAIN credentials'
          /\ credentials'[cred[r]] = row
      BY <1>5, <2>1 DEF Create, Acked, Reaches, CreateCredentialRecord, InsertRow
    <3>2. row.issuer = Org(call[r]) /\ row.body = call[r].body
      BY DEF CredentialRow
    <3>3. /\ call' = call /\ call[r].op = "issue"
          /\ reply'[r] = Reply(201, "none", cred[r], "active")
          /\ pc'[r] = CompleteStep(call[r])
      BY <1>5, <2>1, <1>a DEF Create, FlowOK, RequestFlow, TypeOK
    <3>4. StoredAsAsked(r)' /\ Told(r)' /\ Success(reply'[r])
      BY <3>1, <3>2, <3>3 DEF StoredAsAsked, Told, OwnedStored, Reply, Success, Org
    <3> QED
      BY <3>3, <3>4 DEF CredentialFlow, CompleteStep
  <2> QED
    BY <1>5, <1>c, <2>1, RefusalsAreNoSuccess DEF Create
<1>6. ASSUME NEW out \in Outcomes, Load(r, out) PROVE CredentialFlow(r)'
  <2>1. CASE /\ call[r].target \in DOMAIN credentials
             /\ OwnedBy(credentials[call[r].target], Org(call[r]))
             /\ cred' = [cred EXCEPT ![r] = call[r].target]
             /\ Goto(r, "update")
             /\ UNCHANGED reply
    BY <1>6, <1>a, <2>1
       DEF Load, OwnedBy, dbVars, CredentialFlow, StoredAsAsked, OwnedStored, Org,
           ValidStatusChange, TypeOK
  <2> QED
    BY <1>6, <1>c, <2>1, RefusalsAreNoSuccess DEF Load
<1>7. ASSUME NEW out \in Outcomes, Update(r, out) PROVE CredentialFlow(r)'
  <2>1. CASE Acked(out)
    <3>1. /\ cred[r] = call[r].target
          /\ OwnedStored(cred[r], Org(call[r]))
          /\ ValidStatusChange(call[r])
          /\ call[r].op = "status"
      BY <1>7, <1>a DEF Update, CredentialFlow
    <3>2. credentials' = UpdateCredentialStatus(credentials, cred[r], call[r].status, call[r].by)
      BY <1>7, <2>1 DEF Update, Acked, Reaches
    <3>3. /\ cred[r] \in DOMAIN credentials'
          /\ credentials'[cred[r]].issuer = Org(call[r])
          /\ credentials'[cred[r]].status = call[r].status
      BY <3>1, <3>2, <1>a, UpdateKeepsRows DEF OwnedStored, TypeOK
    <3>4. /\ call' = call
          /\ reply'[r] = Reply(200, "none", cred[r], call[r].status)
          /\ pc'[r] = CompleteStep(call[r])
      BY <1>7, <2>1, <1>a DEF Update, TypeOK
    <3>5. Told(r)' /\ Success(reply'[r])
      BY <3>1, <3>3, <3>4 DEF Told, OwnedStored, Reply, Success, Org, ValidStatusChange
    <3> QED
      BY <3>1, <3>4, <3>5 DEF CredentialFlow, CompleteStep
  <2> QED
    BY <1>7, <1>c, <2>1, RefusalsAreNoSuccess DEF Update
<1>8. ASSUME NEW out \in Outcomes, ReadCredential(r, out) PROVE CredentialFlow(r)'
  <2> DEFINE id == call[r].target
  <2>1. CASE /\ id \in DOMAIN credentials /\ OwnedBy(credentials[id], Org(call[r]))
             /\ reply' = [reply EXCEPT ![r] = Reply(200, "none", id, credentials[id].status)]
             /\ Goto(r, "audit")
    <3>1. /\ call' = call /\ call[r].op = "read"
          /\ credentials' = credentials
          /\ reply'[r] = Reply(200, "none", id, credentials[id].status)
          /\ pc'[r] = "audit"
      BY <1>8, <2>1, <1>a DEF ReadCredential, dbVars, FlowOK, RequestFlow, TypeOK
    <3>2. Told(r)' /\ Success(reply'[r])
      BY <2>1, <3>1 DEF Told, OwnedStored, OwnedBy, Reply, Success, Org
    <3> QED
      BY <3>1, <3>2 DEF CredentialFlow
  <2> QED
    BY <1>8, <1>c, <2>1, RefusalsAreNoSuccess DEF ReadCredential
<1>9. ASSUME NEW out \in Outcomes, Complete(r, out) PROVE CredentialFlow(r)'
  <2>1. CASE UNCHANGED reply /\ Goto(r, "audit")
    BY <1>9, <1>a, <2>1
       DEF Complete, CredentialFlow, StoredAsAsked, Told, OwnedStored, TypeOK
  <2> QED
    BY <1>9, <1>c, <2>1, RefusalsAreNoSuccess DEF Complete
<1>10. ASSUME NEW out \in Outcomes, Release(r, out) PROVE CredentialFlow(r)'
  BY <1>10, <1>a DEF Release, CredentialFlow, StoredAsAsked, OwnedStored, TypeOK
<1>11. ASSUME NEW out \in Outcomes, Audit(r, out) PROVE CredentialFlow(r)'
  BY <1>11, <1>a DEF Audit, CredentialFlow, StoredAsAsked, OwnedStored, TypeOK
<1> QED
  BY <1>1, <1>2, <1>3, <1>4, <1>5, <1>6, <1>7, <1>8, <1>9, <1>10, <1>11 DEF Step

\* Identifiers are allocated in one sequence, and only issuing allocates.
LEMMA StepDistinct ==
    ASSUME CredentialInv, NEW r \in Requests, Step(r)
    PROVE  DistinctCredentials'
<1>a. TypeOK /\ FlowOK /\ CredentialFlow(r) /\ DistinctCredentials
  BY DEF CredentialInv, ReservationInv, Typed
<1>b. call' = call /\ \A q \in Requests : q # r => cred'[q] = cred[q]
  BY <1>a, StepFrame
<1>1. CASE cred'[r] = cred[r]
  BY <1>a, <1>b, <1>1 DEF DistinctCredentials
<1>2. CASE call[r].op # "issue"
  BY <1>a, <1>b, <1>2 DEF DistinctCredentials
<1>3. ASSUME NEW out \in Outcomes, Allocate(r, out), cred'[r] # cred[r]
      PROVE  DistinctCredentials'
  <2>1. cred'[r] = sequence + 1
    BY <1>3, <1>a DEF Allocate, NextSequence, TypeOK
  <2>2. \A q \in Requests : cred[q] # sequence + 1
    BY <1>a DEF TypeOK
  <2> QED
    BY <1>a, <1>b, <2>1, <2>2 DEF DistinctCredentials
<1>4. cred'[r] = cred[r] \/ call[r].op # "issue" \/ \E out \in Outcomes : Allocate(r, out)
  BY <1>a DEF Step, ReadIssuer, Reserve, Lookup, Create, Load, Update, ReadCredential, Complete,
         Release, Audit, CredentialFlow, FlowOK, RequestFlow
<1> QED
  BY <1>1, <1>2, <1>3, <1>4

\* A completion stores what its request made sure of, under the fingerprint
\* of the row it reserved; no other statement adds a success.
LEMMA StepRows ==
    ASSUME CredentialInv, NEW r \in Requests, Step(r)
    PROVE  RowsTrue'
<1>a. TypeOK /\ FlowOK /\ CredentialFlow(r) /\ RowsTrue
  BY DEF CredentialInv, ReservationInv, Typed
<1>b. Grown
  BY StepGrows
<1>c. \A slot \in DOMAIN idempotency : RowTrue(credentials', slot, idempotency[slot])
  BY <1>a, <1>b DEF RowsTrue, RowTrue, Grown
<1>d. (\A slot \in DOMAIN idempotency' : RowTrue(credentials', slot, idempotency'[slot]))
      => RowsTrue'
  BY DEF RowsTrue
<1>1. CASE UNCHANGED idempotency
  BY <1>1, <1>c, <1>d
<1>2. ASSUME NEW out \in Outcomes, Reserve(r, out) PROVE RowsTrue'
  <2> DEFINE slot == SlotOf(call[r])
             table == ReserveIdempotencyRecord(idempotency, slot, Fingerprint(call[r]))
  <2>1. CASE idempotency' = table
    <3>1. \A s \in DOMAIN table : \/ s \in DOMAIN idempotency /\ table[s] = idempotency[s]
                                  \/ table[s].reply = NoReply
      BY DEF ReserveIdempotencyRecord, InsertRow, ReservedRow
    <3>2. \A s \in DOMAIN table : RowTrue(credentials', s, table[s])
      BY <1>c, <3>1, RefusalsAreNoSuccess DEF RowTrue
    <3> QED
      BY <1>d, <2>1, <3>2
  <2> QED
    BY <1>1, <1>2, <2>1 DEF Reserve
<1>3. ASSUME NEW out \in Outcomes, Complete(r, out) PROVE RowsTrue'
  <2> DEFINE slot == SlotOf(call[r])
             table == CompleteIdempotencyRecord(idempotency, slot, reply[r])
  <2>1. CASE idempotency' = table
    <3>1. open[r] /\ slot \in DOMAIN idempotency
          /\ idempotency[slot].fingerprint = Fingerprint(call[r])
      BY <1>3, <1>a DEF Complete, FlowOK, RequestFlow, HoldingSteps, CredentialInv,
         ReservationInv, ReservationExclusive
    <3>2. DOMAIN table = DOMAIN idempotency
          /\ \A s \in DOMAIN idempotency : s # slot => table[s] = idempotency[s]
      BY DEF CompleteIdempotencyRecord
    <3>3. table[slot].reply = reply[r] /\ table[slot].fingerprint = Fingerprint(call[r])
      BY <3>1 DEF CompleteIdempotencyRecord
    <3>4. ASSUME slot[1] = "issue", Success(reply[r])
          PROVE  /\ OwnedStored(reply[r].resource, OrgOf[slot[2]])
                 /\ credentials[reply[r].resource].body = Fingerprint(call[r])[1]
      BY <1>a, <3>4 DEF CredentialFlow, StoredAsAsked, SlotOf, Org, Fingerprint
    <3>5. RowTrue(credentials', slot, table[slot])
      BY <1>b, <3>3, <3>4 DEF Grown, OwnedStored, RowTrue
    <3> QED
      BY <1>c, <1>d, <2>1, <3>2, <3>5
  <2> QED
    BY <1>1, <1>3, <2>1 DEF Complete
<1>4. ASSUME NEW out \in Outcomes, Release(r, out) PROVE RowsTrue'
  <2> DEFINE table == ReleaseIdempotencyRecord(idempotency, SlotOf(call[r]))
  <2>1. CASE idempotency' = table
    <3>1. \A s \in DOMAIN table : s \in DOMAIN idempotency /\ table[s] = idempotency[s]
      BY DEF ReleaseIdempotencyRecord, DeleteRow
    <3> QED
      BY <1>c, <1>d, <2>1, <3>1
  <2> QED
    BY <1>1, <1>4, <2>1 DEF Release
<1> QED
  BY <1>1, <1>2, <1>3, <1>4 DEF Step, ReadIssuer, Lookup, Allocate, Create, Load, Update,
     ReadCredential, Audit, dbVars

\* "succeeded" is written by the step that follows the write and its
\* completion, about the credential that the write made sure of.
LEMMA StepAudits ==
    ASSUME CredentialInv, NEW r \in Requests, Step(r)
    PROVE  AuditTruthful'
<1>a. TypeOK /\ CredentialFlow(r) /\ AuditTruthful
  BY DEF CredentialInv, ReservationInv, Typed
<1>b. Grown
  BY StepGrows
<1>c. \A id \in DOMAIN audits : RecordTrue(credentials', audits[id])
  BY <1>a, <1>b DEF AuditTruthful, RecordTrue, Grown
<1>d. (\A id \in DOMAIN audits' : RecordTrue(credentials', audits'[id])) => AuditTruthful'
  BY DEF AuditTruthful, RecordTrue
<1>1. CASE UNCHANGED audits
  BY <1>1, <1>c, <1>d
<1>2. ASSUME NEW out \in Outcomes, Audit(r, out) PROVE AuditTruthful'
  <2> DEFINE id == AuditId(call[r], pc[r])
             row == AuditRow(call[r].caller, call[r].op, reply[r].resource, AuditOutcome(pc[r]))
  <2>1. CASE audits' = AppendAuditRecord(audits, id, row)
    <3>1. RecordTrue(credentials', row)
      <4>1. row.outcome = "succeeded" => pc[r] = "audit"
        BY <1>2 DEF Audit, AuditSteps, AuditOutcome, AuditRow
      <4>2. pc[r] = "audit" => Told(r)
        BY <1>a DEF CredentialFlow
      <4>3. /\ row.resource = reply[r].resource
            /\ row.caller = call[r].caller
            /\ row.action = call[r].op
        BY DEF AuditRow
      <4> QED
        BY <1>b, <4>1, <4>2, <4>3 DEF Told, Grown, OwnedStored, Org, RecordTrue
    <3>2. \A k \in DOMAIN audits' : \/ k \in DOMAIN audits /\ audits'[k] = audits[k]
                                    \/ audits'[k] = row
      BY <2>1 DEF AppendAuditRecord, InsertRow
    <3> QED
      BY <1>c, <1>d, <3>1, <3>2
  <2> QED
    BY <1>1, <1>2, <2>1 DEF Audit
<1> QED
  BY <1>1, <1>2 DEF Step, ReadIssuer, Reserve, Lookup, Allocate, Create, Load, Update,
     ReadCredential, Complete, Release, dbVars

\* Whatever happens around the requests leaves the tables alone.
LEMMA QuietStep ==
    ASSUME CredentialInv, UNCHANGED <<call, cred, reply, credentials, idempotency, audits>>,
           \A r \in Requests : pc'[r] = pc[r] \/ pc'[r] = "lost"
    PROVE  /\ \A r \in Requests : CredentialFlow(r)'
           /\ DistinctCredentials' /\ RowsTrue' /\ AuditTruthful'
<1>1. ASSUME NEW r \in Requests PROVE CredentialFlow(r)'
  <2>a. CredentialFlow(r)
    BY DEF CredentialInv
  <2>1. CASE pc'[r] = pc[r]
    BY <2>a, <2>1, GrownKeepsFlow DEF Grown, CredentialFlow
  <2>2. CASE pc'[r] = "lost"
    BY <2>a, <2>2 DEF CredentialFlow, InFlight, Steps, AuditSteps, StoredAsAsked, OwnedStored
  <2> QED
    BY <2>1, <2>2
<1>2. DistinctCredentials' /\ RowsTrue' /\ AuditTruthful'
  BY DEF CredentialInv, DistinctCredentials, RowsTrue, AuditTruthful
<1> QED
  BY <1>1, <1>2

\* What the front door lets through has a status change that ends "active".
LEMMA FrontDoorChecks ==
    ASSUME NEW c \in Calls, FrontDoor(c) = NoReply, c.op = "status"
    PROVE  ValidStatusChange(c)
BY CallsAssumption DEF FrontDoor, Refusal, NoReply, Reply

LEMMA ArrivalStep ==
    ASSUME CredentialInv, NEW r \in Requests, NEW c \in Calls, Refuse(r, c) \/ Arrive(r, c)
    PROVE  /\ \A q \in Requests : CredentialFlow(q)'
           /\ DistinctCredentials' /\ RowsTrue' /\ AuditTruthful'
<1> USE DEF Goto
<1>a. TypeOK /\ FlowOK /\ pc[r] = "idle" /\ CredentialFlow(r)
  BY DEF CredentialInv, ReservationInv, Typed, Refuse, Arrive
<1>b. UNCHANGED <<cred, credentials, idempotency, audits>>
  BY DEF Refuse, Arrive, dbVars
<1>c. call' = [call EXCEPT ![r] = c] /\ \A q \in Requests : q # r =>
        UNCHANGED <<pc[q], call[q], cred[q], reply[q]>>
  BY <1>a, <1>b DEF Refuse, Arrive, TypeOK
<1>1. ASSUME NEW q \in Requests, q # r PROVE CredentialFlow(q)'
  BY <1>1, <1>b, <1>c, GrownKeepsFlow DEF CredentialInv, CredentialFlow, Grown
<1>2. CredentialFlow(r)'
  <2>1. CASE Refuse(r, c)
    BY <2>1, <1>a, RefusalsAreNoSuccess
       DEF Refuse, CredentialFlow, InFlight, Steps, AuditSteps, TypeOK
  <2>2. CASE Arrive(r, c)
    <3>1. pc'[r] = FirstStep(c) /\ call'[r] = c /\ reply'[r] = reply[r] /\ cred'[r] = cred[r]
      BY <2>2, <1>a DEF Arrive, TypeOK
    <3>2. c.op = "status" => ValidStatusChange(c)
      BY <2>2, FrontDoorChecks DEF Arrive
    <3>3. /\ FirstStep(c) \in {"issuer", "reserve", "load", "read"}
          /\ FirstStep(c) \in {"reserve", "load"} => c.op = "status"
      BY CallsAssumption DEF FirstStep, ReserveStep, WriteStep
    <3> QED
      BY <1>a, <3>1, <3>2, <3>3 DEF CredentialFlow
  <2> QED
    BY <2>1, <2>2
<1>3. DistinctCredentials'
  <2>1. cred[r] = NoResource
    BY <1>a DEF CredentialFlow
  <2> QED
    BY <1>b, <1>c, <2>1 DEF CredentialInv, DistinctCredentials
<1>4. RowsTrue' /\ AuditTruthful'
  BY <1>b DEF CredentialInv, RowsTrue, AuditTruthful
<1> QED
  BY <1>1, <1>2, <1>3, <1>4

LEMMA NextCredential == CredentialInv /\ [Next]_vars => CredentialInv'
<1> SUFFICES ASSUME CredentialInv, [Next]_vars PROVE CredentialInv'
  OBVIOUS
<1> DEFINE Rest == /\ \A r \in Requests : CredentialFlow(r)'
                   /\ DistinctCredentials' /\ RowsTrue' /\ AuditTruthful'
<1>1. ASSUME NEW r \in Requests, NEW c \in Calls, Refuse(r, c) \/ Arrive(r, c) PROVE Rest
  BY <1>1, ArrivalStep
<1>2. ASSUME NEW r \in Requests, Step(r) PROVE Rest
  BY <1>2, StepSelf, StepOthers, StepDistinct, StepRows, StepAudits
<1>3. ASSUME NEW r \in Requests, Expire(r) PROVE Rest
  BY <1>3, QuietStep DEF Expire, requestVars, dbVars
<1>4. ASSUME Crash PROVE Rest
  BY <1>4, QuietStep DEF Crash, dbVars, CredentialInv, ReservationInv, Typed, TypeOK
<1>5. ASSUME TrustRegistryWrites PROVE Rest
  BY <1>5, QuietStep DEF TrustRegistryWrites, requestVars
<1>6. ASSUME UNCHANGED vars PROVE Rest
  BY <1>6, QuietStep DEF vars, requestVars, dbVars
<1>7. Rest
  BY <1>1, <1>2, <1>3, <1>4, <1>5, <1>6 DEF Next
<1> QED
  BY <1>7, NextReservation DEF CredentialInv

LEMMA InitCredential == Init => CredentialInv
BY InitReservation, RefusalsAreNoSuccess
     DEF Init, CredentialInv, CredentialFlow, DistinctCredentials, RowsTrue, AuditTruthful,
         InFlight, Steps, AuditSteps, NoCall

LEMMA AlwaysCredential == Spec => []CredentialInv
BY InitCredential, NextCredential, PTL DEF Spec

\* A 201, first or replayed, names a stored credential of the caller's own
\* organization with the body the caller sent: the write, its completion and
\* the replay of handleIssueCredential agree, whatever fails between them.
THEOREM SuccessesAreStored == Spec => []IssuedMeansStored
<1>1. CredentialInv => IssuedMeansStored
  BY DEF CredentialInv, CredentialFlow, StoredAsAsked, OwnedStored, IssuedMeansStored, Answered
<1> QED
  BY <1>1, AlwaysCredential, PTL

\* appendAuditRecord is truthful: what it says succeeded is stored, belongs
\* to the organization of the caller, and a changed status has changed.
THEOREM AuditsAreTruthful == Spec => []AuditTruthful
<1>1. CredentialInv => AuditTruthful
  BY DEF CredentialInv
<1> QED
  BY <1>1, AlwaysCredential, PTL

\* Only the UPDATE of a status request of the credential's own issuer changes
\* a stored credential, and never its issuer, its body, or back to active.
THEOREM CredentialsLive == Spec => CredentialLifecycle
<1> DEFINE Lives == \A id \in DOMAIN credentials :
        /\ id \in DOMAIN credentials'
        /\ credentials'[id] # credentials[id] =>
            /\ credentials'[id].issuer = credentials[id].issuer
            /\ credentials'[id].body = credentials[id].body
            /\ credentials'[id].status # "active"
            /\ \E r \in Requests : /\ pc[r] = "update" /\ pc'[r] # "update"
                                   /\ call[r].target = id
                                   /\ Org(call[r]) = credentials[id].issuer
<1> USE DEF Goto
<1>1. ASSUME CredentialInv, Next PROVE Lives
  <2>a. TypeOK /\ FlowOK
    BY <1>1 DEF CredentialInv, ReservationInv, Typed
  <2>1. CASE UNCHANGED credentials
    BY <2>1
  <2>2. ASSUME NEW r \in Requests, NEW out \in Outcomes, Create(r, out) PROVE Lives
    <3>1. CASE credentials' = CreateCredentialRecord(credentials, cred[r],
                                    CredentialRow(Org(call[r]), call[r].body))
      BY <3>1 DEF CreateCredentialRecord, InsertRow
    <3> QED
      BY <2>1, <2>2, <3>1 DEF Create
  <2>3. ASSUME NEW r \in Requests, NEW out \in Outcomes, Update(r, out) PROVE Lives
    <3>1. /\ cred[r] = call[r].target
          /\ OwnedStored(call[r].target, Org(call[r]))
          /\ ValidStatusChange(call[r])
      BY <1>1, <2>3, <2>a DEF Update, CredentialInv, CredentialFlow, InFlight, Steps
    <3>2. pc[r] = "update" /\ pc'[r] # "update"
      BY <2>3, <2>a DEF Update, Fail, CompleteStep, TypeOK
    <3>3. CASE credentials' = UpdateCredentialStatus(credentials, cred[r], call[r].status, call[r].by)
      <4>1. call[r].status # "active"
        BY <3>1 DEF ValidStatusChange
      <4>2. /\ DOMAIN credentials' = DOMAIN credentials
            /\ \A k \in DOMAIN credentials :
                    /\ credentials'[k].issuer = credentials[k].issuer
                    /\ credentials'[k].body = credentials[k].body
                    /\ k # cred[r] => credentials'[k] = credentials[k]
                    /\ k = cred[r] => credentials'[k].status = call[r].status
        BY <3>3, <2>a, UpdateKeepsRows DEF TypeOK
      <4> QED
        BY <3>1, <3>2, <4>1, <4>2 DEF OwnedStored
    <3> QED
      BY <2>1, <2>3, <3>3 DEF Update
  <2>4. ASSUME NEW r \in Requests, Step(r) PROVE Lives
    BY <2>1, <2>2, <2>3, <2>4, StepTables DEF Step
  <2> QED
    BY <1>1, <2>1, <2>4 DEF Next, Refuse, Arrive, Expire, Crash, TrustRegistryWrites, dbVars
<1>2. CredentialInv /\ [Next]_vars => [Lives]_vars
  BY <1>1
<1> QED
  BY <1>2, AlwaysCredential, PTL DEF Spec, CredentialLifecycle

-----------------------------------------------------------------------------
(* One credential for each key, while no statement fails                   *)

\* r has stored a credential under its key.
Claimed(r) ==
    /\ call[r].op = "issue"
    /\ Keyed(call[r])
    /\ cred[r] \in DOMAIN credentials

\* A key that has stored its credential stays taken, nobody else reserves
\* it, and its request releases it only under an expired context: in vain.
KeyTaken ==
    \A r \in Requests : Claimed(r) =>
        /\ SlotOf(call[r]) \in DOMAIN idempotency
        /\ \A q \in Requests : Holds(q, SlotOf(call[r])) => q = r
        /\ pc[r] = "release" => expired[r]

KeyInv ==
    /\ CredentialInv
    /\ Spent
    /\ NoFault => KeyTaken /\ AtMostOneCredentialPerKey

\* Failures are spent, never regained.
LEMMA NextBudget ==
    ASSUME ContextTypeOK, [Next]_vars
    PROVE  \A failure \in Failures : budget'[failure] <= budget[failure]
<1> DEFINE Shrinks == \A failure \in Failures : budget'[failure] <= budget[failure]
<1>1. UNCHANGED budget => Shrinks
  BY DEF ContextTypeOK
<1>2. ASSUME NEW failure \in Failures, Spend(failure) PROVE Shrinks
  BY <1>2, SpendShrinks
<1>3. ASSUME NEW r \in Requests, NEW out, Statement(r, out) PROVE Shrinks
  BY <1>3, StatementShrinks
<1>4. ASSUME NEW r \in Requests, Step(r) PROVE Shrinks
  <2>1. PICK out \in Outcomes : Statement(r, out)
    BY <1>4 DEF Step, Query, ReadIssuer, Reserve, Lookup, Allocate, Create, Load, Update,
       ReadCredential, Complete, Release, ReleaseStatement, Audit
  <2> QED
    BY <1>3, <2>1
<1>5. ASSUME NEW r \in Requests, NEW c \in Calls, Refuse(r, c) \/ Arrive(r, c) PROVE Shrinks
  BY <1>1, <1>5 DEF Refuse, Arrive, contextVars
<1>6. ASSUME NEW r \in Requests, Expire(r) PROVE Shrinks
  BY <1>2, <1>6 DEF Expire, ExpireContext, Failures
<1>7. ASSUME Crash PROVE Shrinks
  BY <1>2, <1>7 DEF Crash, Failures
<1>8. ASSUME TrustRegistryWrites \/ UNCHANGED vars PROVE Shrinks
  BY <1>1, <1>8 DEF TrustRegistryWrites, vars, contextVars
<1> QED
  BY <1>4, <1>5, <1>6, <1>7, <1>8 DEF Next

LEMMA StepExpires ==
    ASSUME ContextTypeOK, Spent, NEW r \in Requests, Step(r), NoFault'
    PROVE  \A q \in Requests : expired[q] => expired'[q]
<1>1. PICK out \in Outcomes : Statement(r, out)
  BY DEF Step, Query, ReadIssuer, Reserve, Lookup, Allocate, Create, Load, Update,
     ReadCredential, Complete, Release, ReleaseStatement, Audit
<1> QED
  BY <1>1, StatementWithoutFault

\* Only a create stores the credential of a request.
LEMMA StepClaims ==
    ASSUME CredentialInv, NEW r \in Requests, Step(r), NEW q \in Requests, Claimed(q)'
    PROVE  Claimed(q) \/ (q = r /\ pc[r] = "create" /\ call[r].op = "issue" /\ Keyed(call[r]))
<1>a. TypeOK /\ FlowOK /\ CredentialFlow(r)
  BY DEF CredentialInv, ReservationInv, Typed
<1>b. call[q].op = "issue" /\ Keyed(call[q]) /\ call' = call
  BY <1>a, StepFrame DEF Claimed, Keyed
<1>c. \/ DOMAIN credentials' = DOMAIN credentials
      \/ pc[r] = "create" /\ DOMAIN credentials' = DOMAIN credentials \cup {cred[r]}
  BY StepGrows
<1>1. CASE q # r
  <2>1. cred'[q] = cred[q]
    BY <1>a, <1>1, StepFrame
  <2>2. cred[q] \in DOMAIN credentials'
    BY <2>1 DEF Claimed
  <2>3. cred[q] # NoResource
    BY <2>2, <1>a, <1>c DEF TypeOK, FlowOK, RequestFlow, NoResource
  <2>4. pc[r] = "create" => cred[q] # cred[r]
    BY <1>a, <1>b, <1>1, <2>3 DEF CredentialInv, DistinctCredentials, FlowOK, RequestFlow
  <2> QED
    BY <1>b, <1>c, <2>2, <2>4 DEF Claimed
<1>2. CASE q = r /\ pc[r] # "create"
  <2>1. cred'[r] \in DOMAIN credentials
    BY <1>2, <1>c DEF Claimed
  <2>2. ASSUME NEW out \in Outcomes, Allocate(r, out), cred'[r] # cred[r] PROVE FALSE
    BY <2>1, <2>2, <1>a DEF Allocate, NextSequence, TypeOK
  <2>3. cred'[r] = cred[r] \/ call[r].op # "issue" \/ \E out \in Outcomes : Allocate(r, out)
    BY <1>a DEF Step, ReadIssuer, Reserve, Lookup, Create, Load, Update, ReadCredential, Complete,
           Release, Audit, CredentialFlow, FlowOK, RequestFlow
  <2> QED
    BY <1>2, <1>b, <2>1, <2>2, <2>3 DEF Claimed
<1> QED
  BY <1>1, <1>2, <1>b

\* A slot is taken only while it is free.
LEMMA StepHolds ==
    ASSUME CredentialInv, NEW r \in Requests, Step(r),
           NEW q \in Requests, NEW slot, Holds(q, slot)'
    PROVE  Holds(q, slot) \/ slot \notin DOMAIN idempotency
<1>a. TypeOK
  BY DEF CredentialInv, ReservationInv, Typed
<1>b. call' = call /\ (q # r => open'[q] = open[q])
  BY <1>a, StepFrame
<1>1. ASSUME NEW out \in Outcomes, Reserve(r, out), q = r
      PROVE  Holds(q, slot) \/ slot \notin DOMAIN idempotency
  BY <1>1, <1>b DEF Reserve, Taken, Holds
<1>2. q = r => \/ open'[q] => open[q]
               \/ \E out \in Outcomes : Reserve(r, out)
  BY <1>a DEF Step, ReadIssuer, Lookup, Allocate, Create, Load, Update, ReadCredential, Complete,
         Release, Audit, TypeOK
<1> QED
  BY <1>1, <1>2, <1>b DEF Holds

\* Only the request that holds a slot gives it back.
LEMMA StepFrees ==
    ASSUME CredentialInv, NEW r \in Requests, Step(r),
           NEW slot \in DOMAIN idempotency, slot \notin DOMAIN idempotency'
    PROVE  \E out \in Outcomes : Release(r, out) /\ Reaches(out) /\ Holds(r, slot)
<1>a. TypeOK /\ FlowOK
  BY DEF CredentialInv, ReservationInv, Typed
<1>1. ASSUME NEW out \in Outcomes, Reserve(r, out) PROVE FALSE
  <2>1. idempotency' \in {idempotency,
            ReserveIdempotencyRecord(idempotency, SlotOf(call[r]), Fingerprint(call[r]))}
    BY <1>1 DEF Reserve
  <2> QED
    BY <2>1, ReserveKeepsRows
<1>2. ASSUME NEW out \in Outcomes, Complete(r, out) PROVE FALSE
  <2>1. idempotency' \in {idempotency,
            CompleteIdempotencyRecord(idempotency, SlotOf(call[r]), reply[r])}
    BY <1>2 DEF Complete
  <2> QED
    BY <2>1, CompleteKeepsRows
<1>3. ASSUME NEW out \in Outcomes, Release(r, out) PROVE Reaches(out) /\ Holds(r, slot)
  <2>1. Reaches(out)
    BY <1>3 DEF Release
  <2>2. open[r]
    BY <1>3, <1>a DEF Release, FlowOK, RequestFlow, HoldingSteps
  <2>3. idempotency' = ReleaseIdempotencyRecord(idempotency, SlotOf(call[r]))
    BY <1>3, <2>1 DEF Release
  <2>4. SlotOf(call[r]) = slot
    BY <2>3, ReleaseKeepsRows
  <2> QED
    BY <2>1, <2>2, <2>4 DEF Holds
<1> QED
  BY <1>1, <1>2, <1>3 DEF Step, ReadIssuer, Lookup, Allocate, Create, Load, Update,
     ReadCredential, Audit, dbVars

\* A request that has stored its credential turns to its release only when a
\* statement of it is cut short.
LEMMA StepTurnsBack ==
    ASSUME CredentialInv, NEW r \in Requests, Step(r), Claimed(r)', pc'[r] = "release"
    PROVE  \E out \in Outcomes : Statement(r, out) /\ ~Acked(out)
<1> USE DEF Goto, Fail
<1>a. TypeOK /\ FlowOK /\ CredentialFlow(r)
  BY DEF CredentialInv, ReservationInv, Typed
<1>b. Claimed(r) \/ pc[r] = "create"
  BY StepClaims
<1>c. call[r].op = "issue"
  BY <1>a, StepFrame DEF Claimed
<1>d. Claimed(r) => pc[r] \notin {"issuer", "reserve", "lookup", "allocate"}
  BY <1>a DEF Claimed, CredentialFlow, TypeOK, NoResource
<1>1. ASSUME NEW out \in Outcomes, Create(r, out) PROVE ~Acked(out)
  BY <1>1, <1>a DEF Create, CredentialFlow, CompleteStep, TypeOK
<1>2. ASSUME NEW out \in Outcomes, Complete(r, out) PROVE ~Acked(out)
  <2>1. SlotOf(call[r]) \in DOMAIN idempotency
    BY <1>2, <1>a DEF Complete, FlowOK, RequestFlow, HoldingSteps, CredentialInv,
       ReservationInv, ReservationExclusive
  <2> QED
    BY <1>2, <2>1, <1>a DEF Complete, TypeOK
<1>3. ASSUME NEW out \in Outcomes, Release(r, out) \/ Audit(r, out) PROVE FALSE
  BY <1>3, <1>a DEF Release, Audit, TypeOK
<1>4. PICK out \in Outcomes : Create(r, out) \/ Complete(r, out)
  BY <1>b, <1>c, <1>d, <1>3, <1>a
     DEF Step, ReadIssuer, Reserve, Lookup, Allocate, Load, Update, ReadCredential,
         CredentialFlow, FlowOK, RequestFlow
<1> QED
  BY <1>1, <1>2, <1>4 DEF Create, Complete

LEMMA StepKey ==
    ASSUME KeyInv, NEW r \in Requests, Step(r), NoFault, NoFault'
    PROVE  KeyTaken' /\ AtMostOneCredentialPerKey'
<1>a. /\ TypeOK /\ FlowOK /\ ContextTypeOK /\ CredentialInv /\ Spent
      /\ KeyTaken /\ AtMostOneCredentialPerKey /\ ReservationExclusive
  BY DEF KeyInv, CredentialInv, ReservationInv, Typed, TypeOK
<1>b. call' = call
  BY <1>a, StepFrame
<1>c. ASSUME pc[r] = "create", Keyed(call[r]) PROVE Holds(r, SlotOf(call[r]))
  BY <1>c, <1>a DEF FlowOK, RequestFlow, HoldingSteps, Holds
<1>1. ASSUME NEW q \in Requests, Claimed(q)'
      PROVE  /\ SlotOf(call[q]) \in DOMAIN idempotency
             /\ \A p \in Requests : Holds(p, SlotOf(call[q])) => p = q
  <2>1. CASE Claimed(q)
    BY <1>a, <2>1 DEF KeyTaken
  <2>2. CASE q = r /\ pc[r] = "create" /\ Keyed(call[r])
    BY <1>a, <1>c, <2>2 DEF ReservationExclusive, Holds
  <2> QED
    BY <1>1, <1>a, <2>1, <2>2, StepClaims
<1>2. ASSUME NEW q \in Requests, Claimed(q)'
      PROVE  \A p \in Requests : Holds(p, SlotOf(call[q]))' => p = q
  <2>1. SlotOf(call[q])' = SlotOf(call[q])
    BY <1>b
  <2>2. \A p \in Requests : Holds(p, SlotOf(call[q]))' => Holds(p, SlotOf(call[q]))
    BY <1>a, <1>1, <1>2, <2>1, StepHolds DEF Holds
  <2> QED
    BY <1>1, <1>2, <2>2
<1>3. ASSUME NEW q \in Requests, Claimed(q)'
      PROVE  SlotOf(call[q]) \in DOMAIN idempotency'
  <2> SUFFICES ASSUME SlotOf(call[q]) \notin DOMAIN idempotency' PROVE FALSE
    OBVIOUS
  <2>1. PICK out \in Outcomes : Release(r, out) /\ Reaches(out) /\ Holds(r, SlotOf(call[q]))
    BY <1>a, <1>1, <1>3, StepFrees
  <2>2. r = q
    BY <1>1, <1>3, <2>1
  <2>3. Claimed(r)
    BY <1>a, <1>3, <2>1, <2>2, StepClaims DEF Release
  <2>4. expired[r]
    BY <1>a, <2>1, <2>3 DEF KeyTaken, Release
  <2> QED
    BY <1>a, <2>1, <2>4, StatementWithoutFault DEF Release, ReleaseStatement
<1>4. ASSUME NEW q \in Requests, Claimed(q)', pc'[q] = "release" PROVE expired'[q]
  <2>1. CASE q = r
    BY <1>a, <1>4, <2>1, StepTurnsBack, StatementWithoutFault
  <2>2. CASE q # r
    <3>1. pc[q] = "release"
      BY <1>a, <1>4, <2>2, StepFrame
    <3>2. Claimed(q)
      BY <1>a, <1>4, <2>2, StepClaims
    <3> QED
      BY <1>a, <3>1, <3>2, StepExpires DEF KeyTaken
  <2> QED
    BY <2>1, <2>2
<1>5. KeyTaken'
  BY <1>1, <1>2, <1>3, <1>4, <1>b DEF KeyTaken
<1>6. ASSUME NEW p \in Requests, NEW q \in Requests, Claimed(p)', Claimed(q)',
             SlotOf(call[p]) = SlotOf(call[q]), p # q
      PROVE  FALSE
  <2>1. ASSUME NEW x \in Requests, NEW y \in Requests, x # y, Claimed(x),
               SlotOf(call[x]) = SlotOf(call[y]), y = r, pc[r] = "create", Keyed(call[r])
        PROVE  FALSE
    BY <1>a, <1>c, <2>1 DEF KeyTaken
  <2>2. CASE Claimed(p) /\ Claimed(q)
    BY <1>6, <2>2, <1>a DEF Claimed, AtMostOneCredentialPerKey
  <2> QED
    BY <1>6, <1>a, <2>1, <2>2, StepClaims
<1>7. AtMostOneCredentialPerKey'
  BY <1>6, <1>b DEF AtMostOneCredentialPerKey, Claimed
<1> QED
  BY <1>5, <1>7

\* Around the steps: nobody claims, nobody reserves, and contexts stay expired.
LEMMA QuietKey ==
    ASSUME KeyTaken, AtMostOneCredentialPerKey,
           UNCHANGED idempotency,
           \A q \in Requests :
                /\ Claimed(q)' => Claimed(q) /\ call'[q] = call[q] /\ cred'[q] = cred[q]
                /\ open'[q] => open[q] /\ call'[q] = call[q]
                /\ pc'[q] = "release" => pc[q] = "release"
                /\ expired[q] => expired'[q]
    PROVE  KeyTaken' /\ AtMostOneCredentialPerKey'
<1>1. KeyTaken'
  BY DEF KeyTaken, Holds
<1>2. AtMostOneCredentialPerKey'
  BY DEF AtMostOneCredentialPerKey, Claimed
<1> QED
  BY <1>1, <1>2

LEMMA NextKey == KeyInv /\ [Next]_vars => KeyInv'
<1> SUFFICES ASSUME KeyInv, [Next]_vars PROVE KeyInv'
  OBVIOUS
<1> USE DEF Goto
<1>a. TypeOK /\ FlowOK /\ ContextTypeOK /\ CredentialInv /\ Spent
  BY DEF KeyInv, CredentialInv, ReservationInv, Typed, TypeOK
<1>b. CredentialInv' /\ ContextTypeOK'
  BY <1>a, NextCredential DEF CredentialInv, ReservationInv, Typed, TypeOK
<1>c. Spent'
  BY <1>a, <1>b, NextBudget, BudgetAssumption DEF Spent, ContextTypeOK
<1>d. NoFault' => NoFault
  BY <1>a, <1>b, NextBudget, BudgetAssumption DEF NoFault, Spent, ContextTypeOK, Failures
<1> DEFINE Keeps == NoFault' => KeyTaken' /\ AtMostOneCredentialPerKey'
<1>e. NoFault' => KeyTaken /\ AtMostOneCredentialPerKey
  BY <1>d DEF KeyInv
<1>1. ASSUME NEW r \in Requests, NEW c \in Calls, Refuse(r, c) \/ Arrive(r, c) PROVE Keeps
  <2>1. /\ UNCHANGED <<open, cred, credentials, idempotency, expired>>
        /\ pc[r] = "idle" /\ pc'[r] # "release"
        /\ \A q \in Requests : q # r => UNCHANGED <<pc[q], call[q]>>
    BY <1>1, <1>a, CallsAssumption
       DEF Refuse, Arrive, dbVars, contextVars, FirstStep, ReserveStep, WriteStep, TypeOK
  <2>2. ~open[r] /\ ~Claimed(r)'
    BY <1>a, <2>1 DEF FlowOK, RequestFlow, HoldingSteps, CredentialInv, CredentialFlow, Claimed,
       TypeOK, NoResource
  <2> QED
    BY <1>e, <2>1, <2>2, QuietKey DEF Claimed
<1>2. ASSUME NEW r \in Requests, Step(r) PROVE Keeps
  BY <1>2, <1>d, StepKey
<1>3. ASSUME NEW r \in Requests, Expire(r) PROVE Keeps
  BY <1>3, <1>a, <1>e, QuietKey
     DEF Expire, ExpireContext, requestVars, dbVars, Claimed, ContextTypeOK
<1>4. ASSUME Crash PROVE Keeps
  BY <1>4, <1>a, <1>e, QuietKey DEF Crash, dbVars, Claimed, TypeOK
<1>5. ASSUME TrustRegistryWrites PROVE Keeps
  BY <1>5, <1>e, QuietKey DEF TrustRegistryWrites, requestVars, contextVars, Claimed
<1>6. ASSUME UNCHANGED vars PROVE Keeps
  BY <1>6, <1>e, QuietKey DEF vars, requestVars, dbVars, contextVars, Claimed
<1>7. Keeps
  BY <1>1, <1>2, <1>3, <1>4, <1>5, <1>6 DEF Next
<1> QED
  BY <1>b, <1>c, <1>7 DEF KeyInv

\* Requests that share an idempotency key store one credential between them
\* as long as no statement fails: an expired context keeps its reservation,
\* because the deferred release runs, in vain, under that context.
THEOREM OneCredentialPerKey == Spec => []OneCredentialPerKeyUnlessFault
<1>1. Init => KeyInv
  <2>1. Init => Spent
    BY BudgetAssumption DEF Init, ContextInit, Spent
  <2>2. Init => KeyTaken /\ AtMostOneCredentialPerKey
    BY DEF Init, KeyTaken, AtMostOneCredentialPerKey, Claimed, NoCall, Keyed
  <2> QED
    BY InitCredential, <2>1, <2>2 DEF KeyInv
<1>2. KeyInv => OneCredentialPerKeyUnlessFault
  BY DEF KeyInv, NoFault, OneCredentialPerKeyUnlessFault
<1> QED
  BY <1>1, <1>2, NextKey, PTL DEF Spec

-----------------------------------------------------------------------------
(* A reservation in progress has a request behind it                       *)

\* While nothing fails, every reserved row is held.
CalmInv ==
    /\ ReservationInv
    /\ Spent
    /\ Calm => /\ \A r \in Requests : ~expired[r]
               /\ \A slot \in DOMAIN idempotency : idempotency[slot].state = "reserved" =>
                    \E q \in Requests : Holds(q, slot)

\* What a step of r does to the rows, while nothing fails: one that is
\* reserved afterwards was so before, or is held by r, and r lets go of no
\* row that stays reserved.
LEMMA CalmStep ==
    ASSUME CalmInv, NEW r \in Requests, Step(r), Calm, Calm'
    PROVE  /\ UNCHANGED expired
           /\ \A slot \in DOMAIN idempotency' : idempotency'[slot].state = "reserved" =>
                \E q \in Requests : Holds(q, slot)'
<1> USE DEF Goto
<1>a. TypeOK /\ FlowOK /\ ContextTypeOK /\ Spent /\ ~expired[r]
  BY DEF CalmInv, ReservationInv, Typed, TypeOK
<1>b. PICK out \in Outcomes :
        /\ Statement(r, out)
        /\ \/ ReadIssuer(r, out) \/ Reserve(r, out) \/ Lookup(r, out) \/ Allocate(r, out)
           \/ Create(r, out) \/ Load(r, out) \/ Update(r, out) \/ ReadCredential(r, out)
           \/ Complete(r, out) \/ Release(r, out) \/ Audit(r, out)
  BY DEF Step, Query, ReadIssuer, Reserve, Lookup, Allocate, Create, Load, Update,
     ReadCredential, Complete, Release, ReleaseStatement, Audit
<1>c. Acked(out) /\ Reaches(out) /\ UNCHANGED expired
  BY <1>a, <1>b, CalmStatement
<1>d. /\ call' = call
      /\ \A q \in Requests : \A slot : q # r /\ Holds(q, slot) => Holds(q, slot)'
  BY <1>a, StepFrame DEF Holds
<1> DEFINE Held == \A slot \in DOMAIN idempotency' : idempotency'[slot].state = "reserved" =>
                        \E q \in Requests : Holds(q, slot)'
<1>e. \A slot \in DOMAIN idempotency : idempotency[slot].state = "reserved" =>
            \E q \in Requests : Holds(q, slot)
  BY DEF CalmInv
<1>1. CASE UNCHANGED idempotency /\ (open[r] => open'[r])
  <2>1. \A q \in Requests : \A slot : Holds(q, slot) => Holds(q, slot)'
    BY <1>1, <1>d DEF Holds
  <2> QED
    BY <1>1, <1>c, <1>e, <2>1
<1>2. CASE Reserve(r, out)
  <2> DEFINE slot == SlotOf(call[r])
  <2>1. idempotency' = ReserveIdempotencyRecord(idempotency, slot, Fingerprint(call[r]))
    BY <1>2, <1>c DEF Reserve
  <2>2. CASE Taken(idempotency, slot)
    <3>1. idempotency' = idempotency
      BY <2>1, <2>2 DEF Taken, ReserveIdempotencyRecord, InsertRow
    <3>2. open' = open
      BY <1>2, <1>c, <2>2 DEF Reserve
    <3> QED
      BY <1>1, <3>1, <3>2
  <2>3. CASE ~Taken(idempotency, slot)
    <3>1. open'[r] /\ \A q \in Requests : open[q] => open'[q]
      BY <1>2, <1>a, <1>c, <2>3 DEF Reserve, TypeOK
    <3>2. \A s \in DOMAIN idempotency' : s = slot \/
                (s \in DOMAIN idempotency /\ idempotency'[s] = idempotency[s])
      BY <2>1 DEF ReserveIdempotencyRecord, InsertRow
    <3> QED
      BY <1>c, <1>d, <1>e, <3>1, <3>2 DEF Holds
  <2> QED
    BY <2>2, <2>3
<1>3. CASE Complete(r, out)
  <2> DEFINE slot == SlotOf(call[r])
  <2>1. slot \in DOMAIN idempotency
    BY <1>3, <1>a DEF Complete, FlowOK, RequestFlow, HoldingSteps, CalmInv,
       ReservationInv, ReservationExclusive
  <2>2. idempotency' = CompleteIdempotencyRecord(idempotency, slot, reply[r])
    BY <1>3, <1>c DEF Complete
  <2>3. DOMAIN idempotency' = DOMAIN idempotency /\ idempotency'[slot].state = "completed"
    BY <2>1, <2>2 DEF CompleteIdempotencyRecord
  <2>4. \A s \in DOMAIN idempotency : s # slot => idempotency'[s] = idempotency[s]
    BY <2>2, CompleteKeepsRows
  <2>5. \A s : s # slot => ~Holds(r, s)
    BY DEF Holds
  <2> QED
    BY <1>c, <1>d, <1>e, <2>3, <2>4, <2>5
<1>4. CASE Release(r, out)
  <2> DEFINE slot == SlotOf(call[r])
  <2>1. idempotency' = ReleaseIdempotencyRecord(idempotency, slot)
    BY <1>4, <1>c DEF Release
  <2>2. \A s \in DOMAIN idempotency' :
            /\ s \in DOMAIN idempotency /\ idempotency'[s] = idempotency[s]
            /\ s = slot => idempotency[s].state # "reserved"
    BY <2>1 DEF ReleaseIdempotencyRecord, DeleteRow
  <2>3. \A s : s # slot => ~Holds(r, s)
    BY DEF Holds
  <2> QED
    BY <1>c, <1>d, <1>e, <2>2, <2>3
<1> QED
  BY <1>b, <1>1, <1>2, <1>3, <1>4
     DEF ReadIssuer, Lookup, Allocate, Create, Load, Update, ReadCredential, Audit, dbVars

LEMMA NextCalm == CalmInv /\ [Next]_vars => CalmInv'
<1> SUFFICES ASSUME CalmInv, [Next]_vars PROVE CalmInv'
  OBVIOUS
<1>a. TypeOK /\ FlowOK /\ ContextTypeOK /\ ReservationInv /\ Spent
  BY DEF CalmInv, ReservationInv, Typed, TypeOK
<1>b. ReservationInv' /\ ContextTypeOK'
  BY <1>a, NextReservation DEF ReservationInv, Typed, TypeOK
<1>c. Spent'
  BY <1>a, <1>b, NextBudget, BudgetAssumption DEF Spent, ContextTypeOK
<1>d. Calm' => Calm
  BY <1>a, <1>b, NextBudget, ShrinkingStaysCalm
<1> DEFINE Held == /\ \A r \in Requests : ~expired'[r]
                   /\ \A slot \in DOMAIN idempotency' : idempotency'[slot].state = "reserved" =>
                        \E q \in Requests : Holds(q, slot)'
<1>e. Calm => /\ \A r \in Requests : ~expired[r]
              /\ \A slot \in DOMAIN idempotency : idempotency[slot].state = "reserved" =>
                    \E q \in Requests : Holds(q, slot)
  BY DEF CalmInv
<1>1. ASSUME NEW r \in Requests, NEW c \in Calls, Refuse(r, c) \/ Arrive(r, c), Calm PROVE Held
  <2>1. /\ UNCHANGED <<open, idempotency, expired>> /\ pc[r] = "idle"
        /\ \A q \in Requests : q # r => call'[q] = call[q]
    BY <1>1, <1>a DEF Refuse, Arrive, dbVars, contextVars, TypeOK
  <2>2. ~open[r]
    BY <1>a, <2>1 DEF FlowOK, RequestFlow, HoldingSteps
  <2> QED
    BY <1>1, <1>e, <2>1, <2>2 DEF Holds
<1>2. ASSUME NEW r \in Requests, Step(r), Calm, Calm' PROVE Held
  BY <1>2, <1>e, CalmStep
<1>3. ASSUME NEW r \in Requests, Expire(r) PROVE ~Calm'
  BY <1>3, <1>a, NothingSpent DEF Expire, ExpireContext, Failures
<1>4. ASSUME Crash PROVE ~Calm'
  BY <1>4, <1>a, NothingSpent DEF Crash, Failures
<1>5. ASSUME TrustRegistryWrites \/ UNCHANGED vars, Calm PROVE Held
  <2>1. UNCHANGED <<open, call, idempotency, expired>>
    BY <1>5 DEF TrustRegistryWrites, vars, requestVars, dbVars, contextVars
  <2> QED
    BY <1>5, <1>e, <2>1 DEF Holds
<1>6. Calm' => Held
  BY <1>d, <1>1, <1>2, <1>3, <1>4, <1>5 DEF Next
<1> QED
  BY <1>b, <1>c, <1>6 DEF CalmInv

\* "reserved by an in-flight request" is the truth as long as nothing fails:
\* handleIssueCredential and handleUpdateCredentialStatus end every
\* reservation they open, completed or released.
THEOREM InProgressIsTrue == Spec => InProgressMeansInFlight
<1>1. Init => CalmInv
  <2>1. Init => ReservationInv /\ Spent
    BY InitReservation, BudgetAssumption DEF Init, ContextInit, Spent
  <2>2. Init => \A r \in Requests : ~expired[r]
    BY DEF Init, ContextInit
  <2>3. Init => DOMAIN idempotency = {}
    BY DEF Init
  <2> QED
    BY <2>1, <2>2, <2>3 DEF CalmInv
<1> DEFINE Truth == \A r \in Requests :
        budget = Budget /\ pc[r] = "lookup" /\ pc'[r] = "in_progress" =>
            \E q \in Requests : InFlight(q) /\ Holds(q, SlotOf(call[r]))
<1> USE DEF Goto
<1>2. ASSUME CalmInv, Next PROVE Truth
  <2>a. TypeOK /\ FlowOK
    BY <1>2 DEF CalmInv, ReservationInv, Typed
  <2> SUFFICES ASSUME NEW r \in Requests, Calm, pc[r] = "lookup", pc'[r] = "in_progress"
               PROVE  \E q \in Requests : InFlight(q) /\ Holds(q, SlotOf(call[r]))
    BY DEF Calm
  <2> DEFINE slot == SlotOf(call[r])
  <2>1. PICK out \in Outcomes : Lookup(r, out)
    <3>1. ASSUME NEW q \in Requests, NEW c \in Calls, Refuse(q, c) \/ Arrive(q, c) PROVE FALSE
      BY <3>1, <2>a DEF Refuse, Arrive, TypeOK
    <3>2. ASSUME NEW q \in Requests, Step(q), q # r PROVE FALSE
      BY <3>2, <2>a, StepFrame
    <3>3. CASE Step(r)
      BY <3>3, <2>a DEF Step, ReadIssuer, Reserve, Allocate, Create, Load, Update,
         ReadCredential, Complete, Release, Audit, AuditSteps
    <3>4. ASSUME (\E q \in Requests : Expire(q)) \/ Crash \/ TrustRegistryWrites PROVE FALSE
      BY <3>4, <2>a DEF Expire, Crash, TrustRegistryWrites, requestVars, TypeOK
    <3> QED
      BY <1>2, <3>1, <3>2, <3>3, <3>4 DEF Next
  <2>2. /\ slot \in DOMAIN idempotency
        /\ ReservationOutcome(idempotency[slot], Fingerprint(call[r])) = "in_progress"
    BY <2>1, <2>a DEF Lookup, Fail, TypeOK
  <2>3. idempotency[slot].state = "reserved"
    BY <2>2, <2>a DEF ReservationOutcome, TypeOK, IdempotencyRows
  <2>4. PICK q \in Requests : Holds(q, slot)
    BY <1>2, <2>2, <2>3 DEF CalmInv
  <2>5. InFlight(q)
    BY <2>4, <2>a DEF Holds, FlowOK, RequestFlow, HoldingSteps, InFlight, Steps
  <2> QED
    BY <2>4, <2>5
<1>3. CalmInv /\ [Next]_vars => [Truth]_vars
  BY <1>2
<1> QED
  BY <1>1, <1>3, NextCalm, PTL DEF Spec, InProgressMeansInFlight

-----------------------------------------------------------------------------
(* Keyed writes implement IdempotentWrite                                  *)

AnsweredWrites == {q \in KeyedWrites : Answered(q)}

\* The values that Promise gives to the variables of IdempotentWrite.
Asked == [r \in KeyedWrites |-> <<SlotOf(call[r]), Fingerprint(call[r])>>]
Decided == [s \in CompletedSlots |-> [fingerprint |-> idempotency[s].fingerprint,
                                      reply |-> idempotency[s].reply]]
Served == [r \in AnsweredWrites |-> reply[r]]

PromiseInv == CredentialInv /\ ReplayFlow

LEMMA PromiseVariables ==
    UNCHANGED <<Asked, Decided, Served>> => UNCHANGED Promise!writeVars
BY DEF Promise!writeVars, Asked, Decided, Served, AnsweredWrites

LEMMA SameAsked ==
    ASSUME KeyedWrites' = KeyedWrites, \A r \in KeyedWrites : call'[r] = call[r]
    PROVE  Asked' = Asked
BY DEF Asked

LEMMA SameDecided ==
    ASSUME CompletedSlots' = CompletedSlots,
           \A s \in CompletedSlots : idempotency'[s] = idempotency[s]
    PROVE  Decided' = Decided
BY DEF Decided

LEMMA SameServed ==
    ASSUME AnsweredWrites' = AnsweredWrites, \A r \in AnsweredWrites : reply'[r] = reply[r]
    PROVE  Served' = Served
BY DEF Served

\* A request that is answered, and nothing else that the promise is about.
LEMMA ServeStep ==
    ASSUME PromiseInv, PromiseInv', NEW r \in Requests, InFlight(r), pc'[r] = "done",
           call' = call, Decided' = Decided,
           \A q \in Requests : q # r => UNCHANGED <<pc[q], reply[q]>>
    PROVE  [Promise!Next]_Promise!writeVars
<1> USE DEF InFlight, Steps, AuditSteps
<1>1. KeyedWrites' = KeyedWrites /\ Asked' = Asked
  <2>1. KeyedWrites' = KeyedWrites
    BY DEF KeyedWrites
  <2> QED
    BY <2>1, SameAsked
<1>2. CASE r \notin KeyedWrites
  <2>1. AnsweredWrites' = AnsweredWrites
    BY <1>1, <1>2 DEF AnsweredWrites, KeyedWrites, Answered
  <2>2. \A q \in AnsweredWrites : reply'[q] = reply[q]
    BY <1>2 DEF AnsweredWrites, KeyedWrites
  <2> QED
    BY <1>1, <2>1, <2>2, SameServed, PromiseVariables
<1>3. CASE r \in KeyedWrites
  <2>1. /\ r \notin AnsweredWrites
        /\ AnsweredWrites' = AnsweredWrites \cup {r}
        /\ \A q \in AnsweredWrites : reply'[q] = reply[q]
    BY <1>1, <1>3 DEF AnsweredWrites, KeyedWrites, Answered
  <2>2. Promise!Extends(Served', Served, r) /\ Served'[r] = reply'[r]
    BY <2>1 DEF Promise!Extends, Served
  <2>3. r \in DOMAIN Asked /\ r \notin DOMAIN Served
        /\ Asked[r] = <<SlotOf(call[r]), Fingerprint(call[r])>>
    BY <1>3, <2>1 DEF Asked, Served
  <2>4. CASE ~Success(reply'[r])
    <3>1. Promise!Decline(r)
      BY <1>1, <2>2, <2>3, <2>4
         DEF Promise!Decline, Promise!Waiting, Promise!Success, Success, Asked, Decided, Served,
             AnsweredWrites
    <3> QED
      BY <3>1 DEF Promise!Next
  <2>5. CASE Success(reply'[r])
    <3>1. Settled(r)'
      BY <1>3, <2>5 DEF PromiseInv, ReplayFlow, Succeeded, KeyedWrites, Keyed
    <3>2. /\ SlotOf(call[r]) \in DOMAIN Decided'
          /\ Decided'[SlotOf(call[r])].fingerprint = Fingerprint(call[r])
          /\ Decided'[SlotOf(call[r])].reply = reply'[r]
      BY <3>1 DEF Settled, Decided, CompletedSlots
    <3>3. Promise!Serve(r)
      BY <1>1, <2>2, <2>3, <3>2
         DEF Promise!Serve, Promise!Waiting, Asked, Decided, Served, AnsweredWrites
    <3> QED
      BY <3>3 DEF Promise!Next
  <2> QED
    BY <2>4, <2>5
<1> QED
  BY <1>2, <1>3

\* A step inside a request, which the promise sees only if it decides.
LEMMA InnerStep ==
    ASSUME PromiseInv, NEW r \in Requests, InFlight(r), pc'[r] \in Steps, call' = call,
           \A q \in Requests : q # r => UNCHANGED <<pc[q], reply[q]>>
    PROVE  Asked' = Asked /\ Served' = Served
<1> USE DEF InFlight, Steps, AuditSteps
<1>1. KeyedWrites' = KeyedWrites
  BY DEF KeyedWrites
<1>2. AnsweredWrites' = AnsweredWrites /\ \A q \in AnsweredWrites : reply'[q] = reply[q]
  BY <1>1 DEF AnsweredWrites, KeyedWrites, Answered
<1> QED
  BY <1>1, <1>2, SameAsked, SameServed

\* Only a completion that takes effect decides a slot.
LEMMA StepDecides ==
    ASSUME PromiseInv, NEW r \in Requests, Step(r)
    PROVE  \/ Decided' = Decided
           \/ \E out \in Outcomes :
                /\ Complete(r, out)
                /\ idempotency' = CompleteIdempotencyRecord(idempotency, SlotOf(call[r]), reply[r])
<1>1. ASSUME UNCHANGED idempotency PROVE Decided' = Decided
  <2>1. CompletedSlots' = CompletedSlots
    BY <1>1 DEF CompletedSlots
  <2> QED
    BY <1>1, <2>1, SameDecided
<1>2. ASSUME NEW out \in Outcomes, Reserve(r, out) PROVE Decided' = Decided
  <2> DEFINE slot == SlotOf(call[r])
  <2>1. CASE idempotency' = ReserveIdempotencyRecord(idempotency, slot, Fingerprint(call[r]))
    <3>1. \A s \in DOMAIN idempotency' \ DOMAIN idempotency : idempotency'[s].state = "reserved"
      BY <2>1 DEF ReserveIdempotencyRecord, InsertRow, ReservedRow
    <3>2. \A s \in DOMAIN idempotency : s \in DOMAIN idempotency' /\ idempotency'[s] = idempotency[s]
      BY <2>1, ReserveKeepsRows
    <3>3. CompletedSlots' = CompletedSlots
      BY <3>1, <3>2 DEF CompletedSlots
    <3>4. \A s \in CompletedSlots : idempotency'[s] = idempotency[s]
      BY <3>2 DEF CompletedSlots
    <3> QED
      BY <3>3, <3>4, SameDecided
  <2> QED
    BY <1>1, <1>2, <2>1 DEF Reserve
<1>3. ASSUME NEW out \in Outcomes, Release(r, out) PROVE Decided' = Decided
  <2> DEFINE slot == SlotOf(call[r])
  <2>1. CASE idempotency' = ReleaseIdempotencyRecord(idempotency, slot)
    <3>1. \A s \in DOMAIN idempotency' : s \in DOMAIN idempotency /\ idempotency'[s] = idempotency[s]
      BY <2>1 DEF ReleaseIdempotencyRecord, DeleteRow
    <3>2. \A s \in CompletedSlots : s \in DOMAIN idempotency' /\ idempotency'[s] = idempotency[s]
      BY <2>1, ReleaseKeepsRows DEF CompletedSlots
    <3>3. CompletedSlots' = CompletedSlots
      BY <3>1, <3>2 DEF CompletedSlots
    <3> QED
      BY <3>2, <3>3, SameDecided
  <2> QED
    BY <1>1, <1>3, <2>1 DEF Release
<1>4. ASSUME NEW out \in Outcomes, Complete(r, out)
      PROVE  UNCHANGED idempotency \/
             idempotency' = CompleteIdempotencyRecord(idempotency, SlotOf(call[r]), reply[r])
  BY <1>4 DEF Complete
<1> QED
  BY <1>1, <1>2, <1>3, <1>4 DEF Step, ReadIssuer, Lookup, Allocate, Create, Load, Update,
     ReadCredential, Audit, dbVars

LEMMA CompletionDecides ==
    ASSUME PromiseInv, NEW r \in Requests, NEW out \in Outcomes, Complete(r, out),
           NEW slot, slot = SlotOf(call[r]),
           idempotency' = CompleteIdempotencyRecord(idempotency, slot, reply[r])
    PROVE  Promise!Next
<1>a. TypeOK /\ FlowOK /\ CredentialFlow(r)
  BY DEF PromiseInv, CredentialInv, ReservationInv, Typed
<1>b. pc[r] = "complete"
  BY DEF Complete
<1>1. /\ slot \in DOMAIN idempotency
      /\ idempotency[slot].state = "reserved"
      /\ idempotency[slot].fingerprint = Fingerprint(call[r])
  BY <1>a, <1>b DEF FlowOK, RequestFlow, HoldingSteps, PromiseInv, CredentialInv, ReservationInv,
     ReservationExclusive, ReservedWhileOpen
<1>2. /\ DOMAIN idempotency' = DOMAIN idempotency
      /\ idempotency'[slot] = [state |-> "completed", fingerprint |-> Fingerprint(call[r]),
                               reply |-> reply[r]]
      /\ \A s \in DOMAIN idempotency : s # slot => idempotency'[s] = idempotency[s]
  BY <1>1 DEF CompleteIdempotencyRecord
<1>3. /\ slot \notin CompletedSlots
      /\ CompletedSlots' = CompletedSlots \cup {slot}
      /\ \A s \in CompletedSlots : idempotency'[s] = idempotency[s]
  BY <1>1, <1>2 DEF CompletedSlots
<1>4. /\ Promise!Extends(Decided', Decided, slot)
      /\ Decided'[slot] = [fingerprint |-> Fingerprint(call[r]), reply |-> reply[r]]
      /\ slot \in DOMAIN Decided'
  BY <1>2, <1>3 DEF Promise!Extends, Decided
<1>5. Success(reply[r])
  BY <1>a, <1>b DEF CredentialFlow
<1>6. /\ r \in DOMAIN Asked /\ r \notin DOMAIN Served
      /\ Asked[r] = <<slot, Fingerprint(call[r])>>
  BY <1>a, <1>b DEF Asked, Served, AnsweredWrites, KeyedWrites, Answered, CredentialFlow,
     FlowOK, RequestFlow
<1>7. Asked' = Asked /\ Served' = Served
  <2>1. InFlight(r) /\ pc'[r] \in Steps /\ call' = call
        /\ \A q \in Requests : q # r => UNCHANGED <<pc[q], reply[q]>>
    BY <1>a, <1>b DEF Complete, Fail, Goto, InFlight, Steps, AuditSteps, TypeOK, FlowOK,
       RequestFlow, HoldingSteps
  <2> QED
    BY <2>1, InnerStep
<1>8. Promise!Decide(slot)
  BY <1>4, <1>5, <1>6, <1>7
     DEF Promise!Decide, Promise!Waiting, Promise!Success, Success, Asked, Decided, Served,
         AnsweredWrites
<1>9. slot \in CompletedSlots'
  BY <1>3
<1> QED
  BY <1>8, <1>9 DEF Promise!Next

LEMMA StepKeepsPromise ==
    ASSUME PromiseInv, PromiseInv', NEW r \in Requests, Step(r)
    PROVE  [Promise!Next]_Promise!writeVars
<1>a. TypeOK /\ TypeOK' /\ FlowOK
  BY DEF PromiseInv, CredentialInv, ReservationInv, Typed
<1>b. InFlight(r) /\ pc'[r] \notin {"idle", "lost"}
  BY <1>a DEF InFlight, Steps, AuditSteps, Step, ReadIssuer, Reserve, Lookup, Allocate, Create,
     Load, Update, ReadCredential, Complete, Release, Audit, Fail, Goto, ReserveStep, WriteStep,
     CompleteStep, ReservationOutcome, TypeOK
<1>c. pc'[r] \in Steps \cup {"done"}
  BY <1>a, <1>b DEF TypeOK
<1>d. call' = call /\ \A q \in Requests : q # r => UNCHANGED <<pc[q], reply[q]>>
  BY <1>a, StepFrame
<1>1. CASE Decided' = Decided /\ pc'[r] = "done"
  BY <1>b, <1>d, <1>1, ServeStep
<1>2. CASE Decided' = Decided /\ pc'[r] \in Steps
  BY <1>b, <1>d, <1>2, InnerStep, PromiseVariables
<1>3. ASSUME NEW out \in Outcomes, Complete(r, out),
             idempotency' = CompleteIdempotencyRecord(idempotency, SlotOf(call[r]), reply[r])
      PROVE  Promise!Next
  BY <1>3, CompletionDecides
<1> QED
  BY <1>c, <1>1, <1>2, <1>3, StepDecides

\* A request that comes, and is let in or refused at the door.
LEMMA ArrivalKeepsPromise ==
    ASSUME PromiseInv, NEW r \in Requests, NEW c \in Calls, Refuse(r, c) \/ Arrive(r, c)
    PROVE  [Promise!Next]_Promise!writeVars
<1>a. TypeOK
  BY DEF PromiseInv, CredentialInv, ReservationInv, Typed
<1>b. /\ pc[r] = "idle" /\ pc'[r] # "idle"
      /\ call' = [call EXCEPT ![r] = c]
      /\ \A q \in Requests : q # r => UNCHANGED <<pc[q], call[q], reply[q]>>
      /\ UNCHANGED idempotency
  BY <1>a, CallsAssumption
     DEF Refuse, Arrive, Goto, FirstStep, ReserveStep, WriteStep, dbVars, TypeOK
<1>c. Decided' = Decided
  <2>1. CompletedSlots' = CompletedSlots
    BY <1>b DEF CompletedSlots
  <2> QED
    BY <1>b, <2>1, SameDecided
<1>d. /\ r \notin KeyedWrites /\ r \notin AnsweredWrites
      /\ \A q \in Requests : q # r => /\ q \in KeyedWrites' <=> q \in KeyedWrites
                                      /\ q \in AnsweredWrites' <=> q \in AnsweredWrites
  BY <1>b DEF KeyedWrites, AnsweredWrites, Answered
<1>e. r \in AnsweredWrites' <=> r \in KeyedWrites' /\ pc'[r] = "done"
  BY DEF AnsweredWrites, Answered
<1>f. /\ KeyedWrites \subseteq Requests /\ AnsweredWrites \subseteq Requests
      /\ KeyedWrites' \subseteq Requests /\ AnsweredWrites' \subseteq Requests
  BY DEF KeyedWrites, AnsweredWrites
<1>1. CASE r \notin KeyedWrites'
  <2>1. KeyedWrites' = KeyedWrites /\ AnsweredWrites' = AnsweredWrites
    BY <1>d, <1>e, <1>f, <1>1
  <2>2. Asked' = Asked
    BY <1>b, <1>d, <1>f, <2>1, SameAsked
  <2>3. Served' = Served
    BY <1>b, <1>d, <1>f, <2>1, SameServed
  <2> QED
    BY <1>c, <2>2, <2>3, PromiseVariables
<1>2. CASE r \in KeyedWrites'
  <2>1. KeyedWrites' = KeyedWrites \cup {r}
    BY <1>d, <1>f, <1>2
  <2>2. Promise!Extends(Asked', Asked, r)
    BY <1>b, <1>d, <1>f, <2>1 DEF Promise!Extends, Asked
  <2>3. CASE pc'[r] = "done"
    <3>1. AnsweredWrites' = AnsweredWrites \cup {r}
      BY <1>d, <1>e, <1>f, <1>2, <2>3
    <3>2. Promise!Extends(Served', Served, r) /\ Served'[r] = reply'[r]
      BY <1>b, <1>d, <1>f, <3>1 DEF Promise!Extends, Served
    <3>3. Refuse(r, c)
      BY <1>a, <2>3, CallsAssumption DEF Arrive, Goto, FirstStep, ReserveStep, WriteStep, TypeOK
    <3>4. ~Success(reply'[r])
      BY <1>a, <3>3, RefusalsAreNoSuccess DEF Refuse, TypeOK
    <3>5. Promise!Refuse(r)
      BY <1>c, <2>2, <3>2, <3>4
         DEF Promise!Refuse, Promise!Success, Success, Asked, Decided, Served, AnsweredWrites
    <3> QED
      BY <3>5 DEF Promise!Next
  <2>4. CASE pc'[r] # "done"
    <3>1. AnsweredWrites' = AnsweredWrites
      BY <1>d, <1>e, <1>f, <2>4
    <3>2. Served' = Served
      BY <1>b, <1>d, <1>f, <3>1, SameServed
    <3>3. Promise!Ask(r)
      BY <1>c, <2>2, <3>2 DEF Promise!Ask, Asked, Decided, Served, AnsweredWrites
    <3> QED
      BY <3>3 DEF Promise!Next
  <2> QED
    BY <2>3, <2>4
<1> QED
  BY <1>1, <1>2

\* Contexts, crashes and the trust registry are no part of the promise.
LEMMA QuietKeepsPromise ==
    ASSUME PromiseInv, UNCHANGED <<call, reply, idempotency>>,
           \A q \in Requests : /\ pc'[q] = "done" <=> pc[q] = "done"
                               /\ pc'[q] = "idle" <=> pc[q] = "idle"
    PROVE  UNCHANGED Promise!writeVars
<1>1. CompletedSlots' = CompletedSlots /\ KeyedWrites' = KeyedWrites
  BY DEF CompletedSlots, KeyedWrites
<1>2. AnsweredWrites' = AnsweredWrites
  BY <1>1 DEF AnsweredWrites, KeyedWrites, Answered
<1>3. Asked' = Asked
  BY <1>1, SameAsked
<1>4. Decided' = Decided
  BY <1>1, SameDecided
<1>5. Served' = Served
  BY <1>2, SameServed
<1> QED
  BY <1>3, <1>4, <1>5, PromiseVariables

\* The issuer service implements IdempotentWrite for its keyed writes: the
\* reservation, the completion and the release of a row, the replay of its
\* reply and every early return between them come down to one outcome for
\* each slot, decided once, and served to the request it was decided for.
THEOREM IssuerKeepsPromise == Spec => KeepsPromise
<1>1. Init => PromiseInv
  BY InitCredential DEF PromiseInv, ReplayFlow, Succeeded, Init
<1>2. PromiseInv /\ [Next]_vars => PromiseInv'
  BY NextCredential, NextReplayFlow DEF PromiseInv, ReplayInv, CredentialInv
<1>3. Init => Promise!Init
  <2> SUFFICES ASSUME Init PROVE Promise!Init
    OBVIOUS
  <2>1. KeyedWrites = {} /\ CompletedSlots = {}
    BY DEF Init, KeyedWrites, CompletedSlots
  <2> QED
    BY <2>1 DEF Promise!Init
<1>4. PromiseInv /\ PromiseInv' /\ [Next]_vars => [Promise!Next]_Promise!writeVars
  <2> SUFFICES ASSUME PromiseInv, PromiseInv', [Next]_vars
               PROVE  [Promise!Next]_Promise!writeVars
    OBVIOUS
  <2>1. ASSUME NEW r \in Requests, NEW c \in Calls, Refuse(r, c) \/ Arrive(r, c)
        PROVE  [Promise!Next]_Promise!writeVars
    BY <2>1, ArrivalKeepsPromise
  <2>2. ASSUME NEW r \in Requests, Step(r) PROVE [Promise!Next]_Promise!writeVars
    BY <2>2, StepKeepsPromise
  <2>3. ASSUME NEW r \in Requests, Expire(r) PROVE UNCHANGED Promise!writeVars
    BY <2>3, QuietKeepsPromise DEF Expire, requestVars, dbVars
  <2>4. ASSUME Crash PROVE UNCHANGED Promise!writeVars
    BY <2>4, QuietKeepsPromise DEF Crash, InFlight, Steps, AuditSteps, dbVars
  <2>5. ASSUME TrustRegistryWrites \/ UNCHANGED vars PROVE UNCHANGED Promise!writeVars
    BY <2>5, QuietKeepsPromise DEF TrustRegistryWrites, vars, requestVars, dbVars
  <2> QED
    BY <2>1, <2>2, <2>3, <2>4, <2>5 DEF Next
<1> QED
  BY <1>1, <1>2, <1>3, <1>4, PTL DEF Spec, KeepsPromise, Promise!Spec

=============================================================================
