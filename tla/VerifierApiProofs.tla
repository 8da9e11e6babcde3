-------------------------- MODULE VerifierApiProofs --------------------------
(***************************************************************************)
(* Proofs about VerifierApi, for any requests, calls, failures, artifacts  *)
(* and credentials: types, replay, what a verdict rests on and where it    *)
(* can be read again.                                                      *)
(***************************************************************************)
EXTENDS VerifierTrust, Phase1SqlProofs

-----------------------------------------------------------------------------
(* What the handlers' helpers return                                        *)

PCs == Steps \cup {"idle", "done", "lost"}

LEMMA FailType ==
    ASSUME TypeOK, NEW r \in Requests, NEW refusal \in Replies, Fail(r, refusal)
    PROVE  reply' \in [Requests -> Replies] /\ pc' \in [Requests -> PCs]
BY DEF Fail, Goto, TypeOK, PCs, Steps, AuditSteps

LEMMA DecideType ==
    ASSUME TypeOK, NEW r \in Requests, NEW verdict \in Verdicts, Decide(r, verdict)
    PROVE  reply' \in [Requests -> Replies] /\ pc' \in [Requests -> PCs]
<1>1. Reply(201, "none", vid[r], verdict) \in Replies
  BY DEF Reply, Replies, Errors, TypeOK
<1> QED
  BY <1>1 DEF Decide, Goto, TypeOK, PCs, Steps

LEMMA RefusalsAreReplies ==
    /\ NoReply \in Replies
    /\ PersistenceError \in Replies
    /\ VerificationNotFound \in Replies
    /\ Refusal(400, "invalid_request") \in Replies
    /\ \A c \in Calls : FrontDoor(c) \in Replies
<1>1. \A code \in Nat, error \in Errors : Refusal(code, error) \in Replies
  BY DEF Refusal, Reply, Replies, Verdicts, NoResource
<1>2. NoReply \in Replies
  BY DEF NoReply, Reply, Replies, Verdicts, Errors, NoResource
<1>3. \A c \in Calls : FrontDoor(c) \in Replies
  BY <1>1, <1>2 DEF FrontDoor, Errors
<1> QED
  BY <1>1, <1>2, <1>3 DEF PersistenceError, VerificationNotFound, Errors

\* Every row of the credential table is the one its identifier was issued
\* with, but for the status: what the issuer service does to the table.
IssuedAs(id, row) ==
    \E status \in {"active", "revoked", "superseded"} :
        row = [IssuedRow(id) EXCEPT !.status = status]

LEMMA IssuedRowFields ==
    ASSUME NEW id, NEW row, IssuedAs(id, row)
    PROVE  /\ row.id = id
           /\ row.digest = IssuedRow(id).digest
           /\ row.issuer = IssuedRow(id).issuer
           /\ row.template = IssuedRow(id).template
           /\ row.expires = IssuedRow(id).expires
           /\ row.status \in {"active", "revoked", "superseded"}
BY DEF IssuedAs, IssuedRow

LEMMA VerdictTypes ==
    ASSUME NEW c, NEW id \in CredentialIds, NEW row, IssuedAs(id, row)
    PROVE  /\ \A envelope, byDigest :
                VerdictBeforeTrust(c, envelope, row, byDigest) # "pending" =>
                    VerdictBeforeTrust(c, envelope, row, byDigest) \in Verdicts \ {"none", "allow"}
           /\ \A state, minute : VerdictAfterTrust(c, row, state, minute) \in Verdicts \ {"none"}
<1>1. \A minute : StatusForEvaluation(row, minute) \in {"active", "revoked", "superseded", "expired"}
  BY IssuedRowFields DEF StatusForEvaluation
<1>2. \A status \in {"revoked", "superseded", "expired"} : StatusDenial[status] \in Verdicts \ {"none"}
  BY DEF StatusDenial, Verdicts
<1>3. \A state, minute : VerdictAfterTrust(c, row, state, minute) \in Verdicts \ {"none"}
  BY <1>1, <1>2 DEF VerdictAfterTrust, Verdicts
<1> QED
  BY <1>3 DEF VerdictBeforeTrust, Verdicts

-----------------------------------------------------------------------------
(* Types                                                                    *)

\* The steps between a reservation and its end.
HoldingSteps == {"allocate", "submit", "digest", "byid", "trust", "result", "audit_failed",
                 "complete", "release"}

\* The control flow of one request, which its types rest on.
RequestFlow(r) ==
    /\ pc[r] \in {"reserve", "lookup", "complete", "release"} => Keyed(call[r])
    /\ pc[r] \in {"allocate", "submit", "digest", "byid", "trust", "result", "audit_failed"} =>
            call[r].op = "create"
    /\ pc[r] \in {"read", "readresult"} => call[r].op = "read"
    /\ pc[r] \in {"submit", "digest", "byid", "trust", "result"} =>
            call[r].artifact.text \in DOMAIN Envelope /\ vid[r] # NoResource
    /\ pc[r] \in {"digest", "byid", "trust", "result", "audit_failed"} =>
            vid[r] \in DOMAIN submissions
    /\ pc[r] = "trust" => \E id \in CredentialIds : IssuedAs(id, found[r])
    /\ open[r] <=> Keyed(call[r]) /\ pc[r] \in HoldingSteps

FlowOK == \A r \in Requests : RequestFlow(r)

WorldOK == /\ DOMAIN credentials \subseteq CredentialIds
           /\ \A id \in DOMAIN credentials : IssuedAs(id, credentials[id])

Typed == TypeOK /\ FlowOK /\ WorldOK

LEMMA IssuedRowsAreRows ==
    ASSUME NEW id \in CredentialIds, NEW row, IssuedAs(id, row)
    PROVE  row \in CredentialRows
BY DEF IssuedAs, CredentialRows

LEMMA FreshIsIssued == \A id : IssuedAs(id, IssuedRow(id))
BY DEF IssuedAs, IssuedRow

LEMMA InitTyped == Init => Typed
<1> SUFFICES ASSUME Init PROVE Typed
  OBVIOUS
<1>1. ContextTypeOK
  BY BudgetAssumption DEF Init, ContextInit, ContextTypeOK
<1>2. WorldOK
  BY IssuableAssumption, FreshIsIssued DEF Init, WorldOK
<1>3. \A id \in DOMAIN credentials : credentials[id] \in CredentialRows
  BY <1>2, IssuedRowsAreRows DEF WorldOK
<1>4. FlowOK
  BY DEF Init, FlowOK, RequestFlow, HoldingSteps, NoCall, Keyed
<1>5. TypeOK
  BY <1>1, <1>3, RefusalsAreReplies DEF Init, TypeOK, NoResource
<1> QED
  BY <1>2, <1>4, <1>5 DEF Typed

Slots == {SlotOf(c) : c \in {d \in Calls : Keyed(d)}}

\* The statements on idempotency rows keep the slots and the replies typed.
LEMMA IdempotencyTypes ==
    ASSUME NEW table, DOMAIN table \subseteq Slots,
           \A s \in DOMAIN table : table[s].reply \in Replies,
           NEW slot \in Slots, NEW fp, NEW rep \in Replies
    PROVE  LET ReservedTable == ReserveIdempotencyRecord(table, slot, fp)
               CompletedTable == CompleteIdempotencyRecord(table, slot, rep)
               ReleasedTable == ReleaseIdempotencyRecord(table, slot)
           IN  /\ DOMAIN ReservedTable \subseteq Slots
               /\ \A s \in DOMAIN ReservedTable : ReservedTable[s].reply \in Replies
               /\ DOMAIN CompletedTable \subseteq Slots
               /\ \A s \in DOMAIN CompletedTable : CompletedTable[s].reply \in Replies
               /\ DOMAIN ReleasedTable \subseteq Slots
               /\ \A s \in DOMAIN ReleasedTable : ReleasedTable[s].reply \in Replies
<1>1. ReservedRow(fp).reply \in Replies
  BY RefusalsAreReplies DEF ReservedRow
<1> QED
  BY <1>1 DEF ReserveIdempotencyRecord, InsertRow, CompleteIdempotencyRecord,
              ReleaseIdempotencyRecord, DeleteRow

\* The types, by what a step can disturb.
IdempotencyTypeOK ==
    /\ DOMAIN idempotency \subseteq Slots
    /\ \A slot \in DOMAIN idempotency : idempotency[slot].reply \in Replies

RequestTypeOK ==
    /\ pc \in [Requests -> PCs]
    /\ call \in [Requests -> Calls \cup {NoCall}]
    /\ open \in [Requests -> BOOLEAN]
    /\ vid \in [Requests -> 0..sequence]
    /\ found \in [Requests -> CredentialRows \cup {NoRow}]
    /\ reply \in [Requests -> Replies]

VerificationTypeOK ==
    /\ sequence \in Nat
    /\ submissions \in [DOMAIN submissions -> {SubmissionRow(c) : c \in
                            {d \in Calls : d.op = "create" /\ d.artifact.text \in DOMAIN Envelope}}]
    /\ DOMAIN submissions \subseteq 1..sequence
    /\ results \in [DOMAIN results -> [verdict : Verdicts]]
    /\ DOMAIN results \subseteq DOMAIN submissions

WorldTypeOK ==
    /\ WorldOK
    /\ trust \in TrustTables
    /\ clock \in Nat
    /\ spoiled \in [Requests -> SUBSET CredentialIds]
    /\ arrived \in [Requests -> 0..clock]

LEMMA TypeParts ==
    TypeOK /\ WorldOK <=>
        ContextTypeOK /\ RequestTypeOK /\ VerificationTypeOK /\ IdempotencyTypeOK /\ WorldTypeOK
<1>1. WorldOK => \A id \in DOMAIN credentials : credentials[id] \in CredentialRows
  BY IssuedRowsAreRows DEF WorldOK
<1>2. ASSUME TypeOK, WorldOK
      PROVE  /\ ContextTypeOK /\ RequestTypeOK /\ VerificationTypeOK /\ IdempotencyTypeOK
             /\ WorldTypeOK
  <2>1. ContextTypeOK /\ RequestTypeOK
    BY <1>2 DEF TypeOK, RequestTypeOK, PCs
  <2>2. VerificationTypeOK
    BY <1>2 DEF TypeOK, VerificationTypeOK
  <2>3. IdempotencyTypeOK /\ WorldTypeOK
    BY <1>2 DEF TypeOK, IdempotencyTypeOK, WorldTypeOK, Slots
  <2> QED
    BY <2>1, <2>2, <2>3
<1>3. ASSUME ContextTypeOK, RequestTypeOK, VerificationTypeOK, IdempotencyTypeOK, WorldTypeOK
      PROVE  TypeOK /\ WorldOK
  BY <1>1, <1>3 DEF TypeOK, RequestTypeOK, PCs, VerificationTypeOK, IdempotencyTypeOK, WorldTypeOK, Slots
<1> QED
  BY <1>2, <1>3

LEMMA TypePartsNext ==
    ContextTypeOK' /\ RequestTypeOK' /\ VerificationTypeOK' /\ IdempotencyTypeOK' /\ WorldTypeOK'
    => TypeOK' /\ WorldOK'
BY TypeParts, PTL

LEMMA Frames ==
    /\ WorldTypeOK /\ UNCHANGED <<worldVars, history>> => WorldTypeOK'
    /\ VerificationTypeOK /\ UNCHANGED <<sequence, submissions, results>> => VerificationTypeOK'
    /\ IdempotencyTypeOK /\ UNCHANGED idempotency => IdempotencyTypeOK'
    /\ RequestTypeOK /\ UNCHANGED <<requestVars, sequence>> => RequestTypeOK'
    /\ ContextTypeOK /\ UNCHANGED contextVars => ContextTypeOK'
BY DEF WorldTypeOK, WorldOK, worldVars, history, VerificationTypeOK, IdempotencyTypeOK,
       RequestTypeOK, requestVars, ContextTypeOK, contextVars

LEMMA StepTypes ==
    ASSUME Typed, NEW r \in Requests, Step(r)
    PROVE  ContextTypeOK' /\ RequestTypeOK' /\ VerificationTypeOK' /\ IdempotencyTypeOK'
           /\ WorldTypeOK'
<1> USE DEF Goto, PCs, Steps, AuditSteps
<1>a. /\ TypeOK /\ RequestFlow(r) /\ WorldOK
      /\ ContextTypeOK /\ RequestTypeOK /\ VerificationTypeOK /\ IdempotencyTypeOK /\ WorldTypeOK
  BY TypeParts DEF Typed, FlowOK
<1>b. \A refusal \in Replies :
        Fail(r, refusal) => reply' \in [Requests -> Replies] /\ pc' \in [Requests -> PCs]
  BY <1>a, FailType
<1>c. Keyed(call[r]) => SlotOf(call[r]) \in Slots
  BY <1>a DEF TypeOK, Slots, Keyed, NoCall
<1> DEFINE Kept == ContextTypeOK' /\ RequestTypeOK' /\ VerificationTypeOK' /\ IdempotencyTypeOK'
                   /\ WorldTypeOK'
<1>1. ASSUME NEW out \in Outcomes, Reserve(r, out) PROVE Kept
  <2>1. IdempotencyTypeOK'
    <3>1. \/ idempotency' = ReserveIdempotencyRecord(idempotency, SlotOf(call[r]), Fingerprint(call[r]))
          \/ idempotency' = idempotency
      BY <1>1 DEF Reserve
    <3> QED
      BY <1>1, <1>a, <1>c, <3>1, IdempotencyTypes, RefusalsAreReplies
         DEF Reserve, RequestFlow, IdempotencyTypeOK
  <2>2. RequestTypeOK'
    BY <1>1, <1>a, <1>b, RefusalsAreReplies DEF Reserve, RequestTypeOK
  <2> QED
    BY <1>1, <1>a, <2>1, <2>2, Frames, StatementType DEF Reserve
<1>2. ASSUME NEW out \in Outcomes, Lookup(r, out) PROVE Kept
  <2> DEFINE row == idempotency[SlotOf(call[r])]
             outcome == ReservationOutcome(row, Fingerprint(call[r]))
  <2>1. outcome \in {"replay", "in_progress", "conflict"}
    BY DEF ReservationOutcome
  <2>2. ASSUME SlotOf(call[r]) \in DOMAIN idempotency PROVE OccupiedReply(outcome, row) \in Replies
    <3>1. row.reply \in Replies
      BY <1>a, <2>2 DEF IdempotencyTypeOK
    <3> QED
      BY <2>1, <3>1 DEF OccupiedReply, Reply, Replies, Errors, Verdicts
  <2>3. RequestTypeOK'
    BY <1>2, <1>a, <1>b, <2>1, <2>2, RefusalsAreReplies DEF Lookup, RequestTypeOK, verifierVars
  <2> QED
    BY <1>2, <1>a, <2>3, Frames, QueryType DEF Lookup, verifierVars
<1>3. ASSUME NEW out \in Outcomes, Allocate(r, out) PROVE Kept
  <2>1. /\ sequence' \in Nat
        /\ vid' \in [Requests -> 0..sequence']
        /\ DOMAIN submissions \subseteq 1..sequence'
    BY <1>3, <1>a DEF Allocate, RequestTypeOK, VerificationTypeOK, Outcomes, NextSequence, Acked, Reaches
  <2>2. VerificationTypeOK'
    BY <1>3, <1>a, <2>1 DEF Allocate, VerificationTypeOK
  <2>3. reply' \in [Requests -> Replies] /\ pc' \in [Requests -> PCs]
    BY <1>3, <1>a, <1>b, RefusalsAreReplies DEF Allocate, RequestTypeOK
  <2>4. RequestTypeOK'
    BY <1>3, <1>a, <2>1, <2>3 DEF Allocate, RequestTypeOK
  <2> QED
    BY <1>3, <1>a, <2>2, <2>4, Frames, StatementType DEF Allocate
<1>4. ASSUME NEW out \in Outcomes, Submit(r, out) PROVE Kept
  <2> DEFINE Row == {SubmissionRow(c) : c \in
                        {d \in Calls : d.op = "create" /\ d.artifact.text \in DOMAIN Envelope}}
  <2>1. SubmissionRow(call[r]) \in Row /\ vid[r] \in 1..sequence
    BY <1>4, <1>a DEF Submit, TypeOK, RequestFlow, NoCall, NoResource
  <2>2. InsertRow(submissions, vid[r], SubmissionRow(call[r]))
            \in [DOMAIN submissions \cup {vid[r]} -> Row]
    <3> HIDE DEF Row
    <3>1. submissions \in [DOMAIN submissions -> Row]
      BY <1>a DEF VerificationTypeOK, Row
    <3> QED
      BY <2>1, <3>1, InsertRowType
  <2>3. VerificationTypeOK'
    BY <1>4, <1>a, <2>1, <2>2, InsertRowDomain DEF Submit, VerificationTypeOK
  <2>4. RequestTypeOK'
    BY <1>4, <1>a, <1>b, RefusalsAreReplies DEF Submit, RequestTypeOK
  <2> QED
    BY <1>4, <1>a, <2>3, <2>4, Frames, StatementType DEF Submit
<1>d. ASSUME NEW id \in DOMAIN credentials, NEW byDigest, Resolved(r, credentials[id], byDigest),
             UNCHANGED <<call, open, vid, sequence>>
      PROVE  RequestTypeOK'
  <2> DEFINE row == credentials[id]
             verdict == VerdictBeforeTrust(call[r], Envelope[call[r].artifact.text], row, byDigest)
  <2>1. IssuedAs(id, row) /\ id \in CredentialIds
    BY <1>a DEF WorldOK
  <2>2. row \in CredentialRows /\ (verdict # "pending" => verdict \in Verdicts)
    BY <2>1, IssuedRowsAreRows, VerdictTypes
  <2>3. CASE verdict # "pending" /\ Decide(r, verdict)
    BY <1>a, <1>d, <2>2, <2>3, DecideType DEF Resolved, RequestTypeOK
  <2>4. CASE verdict = "pending" /\ Goto(r, "trust") /\ UNCHANGED reply
    BY <1>a, <1>d, <2>2, <2>4 DEF Resolved, RequestTypeOK
  <2> QED
    BY <1>d, <2>3, <2>4 DEF Resolved
<1>5. ASSUME NEW out \in Outcomes, ResolveByDigest(r, out) PROVE Kept
  <2>1. RequestTypeOK'
    BY <1>5, <1>a, <1>d DEF ResolveByDigest, RequestTypeOK, verifierVars
  <2> QED
    BY <1>5, <1>a, <2>1, Frames, QueryType DEF ResolveByDigest, verifierVars
<1>6. ASSUME NEW out \in Outcomes, ResolveById(r, out) PROVE Kept
  <2>1. Reply(404, "credential_not_found", vid[r], "none") \in Replies
    BY <1>a DEF Reply, Replies, Errors, Verdicts, TypeOK
  <2>2. UNCHANGED <<call, open, vid, sequence>>
    BY <1>6 DEF ResolveById, verifierVars
  <2>3. ASSUME \E id \in DOMAIN credentials : Resolved(r, credentials[id], FALSE)
        PROVE  RequestTypeOK'
    BY <1>d, <2>2, <2>3
  <2>4. ASSUME reply' = [reply EXCEPT ![r] = Reply(404, "credential_not_found", vid[r], "none")],
               Goto(r, "audit_failed"), UNCHANGED found
        PROVE  RequestTypeOK'
    BY <1>a, <2>1, <2>2, <2>4 DEF RequestTypeOK
  <2>5. RequestTypeOK'
    BY <1>6, <2>3, <2>4 DEF ResolveById
  <2> QED
    BY <1>6, <1>a, <2>5, Frames, QueryType DEF ResolveById, verifierVars
<1>7. ASSUME NEW out \in Outcomes, ReadTrust(r, out) PROVE Kept
  <2>1. PICK verdict : verdict \in Verdicts /\ Decide(r, verdict)
    <3>1. \E id \in CredentialIds : IssuedAs(id, found[r])
      BY <1>7, <1>a DEF ReadTrust, RequestFlow
    <3> QED
      BY <1>7, <3>1, VerdictTypes DEF ReadTrust
  <2>2. RequestTypeOK'
    BY <1>7, <1>a, <2>1, DecideType DEF ReadTrust, RequestTypeOK, verifierVars
  <2> QED
    BY <1>7, <1>a, <2>2, Frames, QueryType DEF ReadTrust, verifierVars
<1>8. ASSUME NEW out \in Outcomes, StoreResult(r, out) PROVE Kept
  <2> DEFINE row == [verdict |-> reply[r].status]
  <2>1. row \in [verdict : Verdicts] /\ vid[r] \in DOMAIN submissions
    BY <1>8, <1>a DEF StoreResult, RequestFlow, RequestTypeOK, Replies
  <2>2. InsertRow(results, vid[r], row) \in [DOMAIN results \cup {vid[r]} -> [verdict : Verdicts]]
    BY <1>a, <2>1, InsertRowType DEF VerificationTypeOK
  <2>3. VerificationTypeOK'
    BY <1>8, <1>a, <2>1, <2>2, InsertRowDomain DEF StoreResult, VerificationTypeOK
  <2>4. RequestTypeOK'
    BY <1>8, <1>a, <1>b, RefusalsAreReplies DEF StoreResult, CompleteStep, RequestTypeOK
  <2> QED
    BY <1>8, <1>a, <2>3, <2>4, Frames, StatementType DEF StoreResult
<1>9. ASSUME NEW out \in Outcomes, ReadSubmission(r, out) PROVE Kept
  <2>1. RequestTypeOK'
    BY <1>9, <1>a, <1>b, RefusalsAreReplies
       DEF ReadSubmission, RequestTypeOK, VerificationTypeOK, verifierVars
  <2> QED
    BY <1>9, <1>a, <2>1, Frames, QueryType DEF ReadSubmission, verifierVars
<1>10. ASSUME NEW out \in Outcomes, ReadResult(r, out) PROVE Kept
  <2>1. vid[r] \in DOMAIN results => Reply(200, "none", vid[r], results[vid[r]].verdict) \in Replies
    BY <1>a DEF Reply, Replies, Errors, RequestTypeOK, VerificationTypeOK
  <2>2. RequestTypeOK'
    BY <1>10, <1>a, <1>b, <2>1, RefusalsAreReplies DEF ReadResult, RequestTypeOK, verifierVars
  <2> QED
    BY <1>10, <1>a, <2>2, Frames, QueryType DEF ReadResult, verifierVars
<1>11. ASSUME NEW out \in Outcomes, Complete(r, out) PROVE Kept
  <2>1. IdempotencyTypeOK'
    <3>1. \/ idempotency' = CompleteIdempotencyRecord(idempotency, SlotOf(call[r]), reply[r])
          \/ idempotency' = idempotency
      BY <1>11 DEF Complete
    <3>2. reply[r] \in Replies
      BY <1>a DEF RequestTypeOK
    <3> QED
      BY <1>11, <1>a, <1>c, <3>1, <3>2, IdempotencyTypes DEF Complete, RequestFlow, IdempotencyTypeOK
  <2>2. RequestTypeOK'
    BY <1>11, <1>a, <1>b, RefusalsAreReplies DEF Complete, RequestTypeOK
  <2> QED
    BY <1>11, <1>a, <2>1, <2>2, Frames, StatementType DEF Complete
<1>12. ASSUME NEW out \in Outcomes, Release(r, out) PROVE Kept
  <2>1. IdempotencyTypeOK'
    <3>1. \/ idempotency' = ReleaseIdempotencyRecord(idempotency, SlotOf(call[r]))
          \/ idempotency' = idempotency
      BY <1>12 DEF Release
    <3> QED
      BY <1>12, <1>a, <1>c, <3>1, IdempotencyTypes, RefusalsAreReplies
         DEF Release, RequestFlow, IdempotencyTypeOK
  <2>2. RequestTypeOK'
    BY <1>12, <1>a DEF Release, RequestTypeOK
  <2> QED
    BY <1>12, <1>a, <2>1, <2>2, Frames, StatementType DEF Release
<1>13. ASSUME NEW out \in Outcomes, Audit(r, out) PROVE Kept
  <2>1. RequestTypeOK'
    BY <1>13, <1>a DEF Audit, RequestTypeOK
  <2> QED
    BY <1>13, <1>a, <2>1, Frames, StatementType DEF Audit
<1> QED
  BY <1>1, <1>2, <1>3, <1>4, <1>5, <1>6, <1>7, <1>8, <1>9, <1>10, <1>11, <1>12, <1>13 DEF Step

\* A step of r moves r alone, and nothing outside the service.
LEMMA StepFrame ==
    ASSUME TypeOK, NEW r \in Requests, Step(r)
    PROVE  /\ UNCHANGED <<call, worldVars, history>>
           /\ \A q \in Requests : q # r =>
                UNCHANGED <<pc[q], open[q], vid[q], found[q], reply[q]>>
<1> USE DEF Goto, Fail, Decide, Resolved, TypeOK, worldVars, history, verifierVars
<1> DEFINE Alone == /\ UNCHANGED <<call, worldVars, history>>
                    /\ \A q \in Requests : q # r =>
                            UNCHANGED <<pc[q], open[q], vid[q], found[q], reply[q]>>
<1>1. ASSUME NEW out \in Outcomes, Reserve(r, out) \/ Lookup(r, out) \/ Allocate(r, out) PROVE Alone
  BY <1>1 DEF Reserve, Lookup, Allocate
<1>2. ASSUME NEW out \in Outcomes, Submit(r, out) \/ ReadTrust(r, out) \/ StoreResult(r, out) PROVE Alone
  BY <1>2 DEF Submit, ReadTrust, StoreResult
<1>3. ASSUME NEW out \in Outcomes, ResolveByDigest(r, out) \/ ResolveById(r, out) PROVE Alone
  <2>1. ASSUME NEW row, NEW byDigest, Resolved(r, row, byDigest)
        PROVE  \A q \in Requests : q # r => UNCHANGED <<pc[q], found[q], reply[q]>>
    BY <2>1
  <2>2. \A q \in Requests : q # r => UNCHANGED <<pc[q], found[q], reply[q]>>
    <3> HIDE DEF Resolved
    <3>1. CASE \E row, byDigest : Resolved(r, row, byDigest)
      BY <2>1, <3>1
    <3>2. CASE UNCHANGED found /\ \A row, byDigest : ~Resolved(r, row, byDigest)
      BY <1>3, <3>2 DEF ResolveByDigest, ResolveById
    <3> QED
      BY <1>3, <3>1, <3>2 DEF ResolveByDigest, ResolveById
  <2> QED
    BY <1>3, <2>2 DEF ResolveByDigest, ResolveById
<1>4. ASSUME NEW out \in Outcomes, ReadSubmission(r, out) \/ ReadResult(r, out) PROVE Alone
  BY <1>4 DEF ReadSubmission, ReadResult
<1>5. ASSUME NEW out \in Outcomes, Complete(r, out) \/ Release(r, out) \/ Audit(r, out) PROVE Alone
  BY <1>5 DEF Complete, Release, Audit
<1> QED
  BY <1>1, <1>2, <1>3, <1>4, <1>5 DEF Step

\* Submissions, results and audit records are added, never changed or lost.
RowsKept ==
    /\ \A id \in DOMAIN submissions : id \in DOMAIN submissions' /\ submissions'[id] = submissions[id]
    /\ \A id \in DOMAIN results : id \in DOMAIN results' /\ results'[id] = results[id]
    /\ \A id \in DOMAIN audits : id \in DOMAIN audits' /\ audits'[id] = audits[id]

LEMMA StepKeepsRows ==
    ASSUME NEW r \in Requests, Step(r)
    PROVE  RowsKept
<1>1. ASSUME NEW out \in Outcomes, Submit(r, out) \/ StoreResult(r, out) \/ Audit(r, out) PROVE RowsKept
  BY <1>1 DEF Submit, StoreResult, Audit, AppendAuditRecord, InsertRow, RowsKept
<1> QED
  BY <1>1 DEF Step, Reserve, Lookup, Allocate, ResolveByDigest, ResolveById, ReadTrust,
     ReadSubmission, ReadResult, Complete, Release, RowsKept, verifierVars

LEMMA StepFlow ==
    ASSUME Typed, NEW r \in Requests, Step(r)
    PROVE  FlowOK'
<1> USE DEF Goto, HoldingSteps
<1>a. TypeOK /\ RequestFlow(r) /\ WorldOK /\ RowsKept
  BY StepKeepsRows DEF Typed, FlowOK
<1>b. call' = call
  BY <1>a, StepFrame
<1>c. ASSUME NEW q \in Requests, q # r PROVE RequestFlow(q)'
  <2>1. UNCHANGED <<call, pc[q], open[q], vid[q], found[q]>> /\ RequestFlow(q)
    BY <1>a, <1>c, StepFrame DEF Typed, FlowOK
  <2> QED
    BY <1>a, <2>1 DEF RequestFlow, RowsKept, Keyed
<1> SUFFICES RequestFlow(r)'
  BY <1>c DEF FlowOK
<1>d. ASSUME NEW refusal, Fail(r, refusal), UNCHANGED open,
             open[r] => pc[r] \in HoldingSteps
      PROVE  RequestFlow(r)'
  BY <1>a, <1>b, <1>d DEF Fail, RequestFlow, TypeOK
<1>1. ASSUME NEW out \in Outcomes, Reserve(r, out) PROVE RequestFlow(r)'
  BY <1>1, <1>a DEF Reserve, Fail, RequestFlow, TypeOK, Keyed
<1>2. ASSUME NEW out \in Outcomes, Lookup(r, out) PROVE RequestFlow(r)'
  BY <1>2, <1>a DEF Lookup, ReservationOutcome, Fail, RequestFlow, TypeOK
<1>3. ASSUME NEW out \in Outcomes, Allocate(r, out) PROVE RequestFlow(r)'
  BY <1>3, <1>a DEF Allocate, Fail, NextSequence, NoResource, RequestFlow, TypeOK
<1>4. ASSUME NEW out \in Outcomes, Submit(r, out) PROVE RequestFlow(r)'
  <2>1. CASE Goto(r, "digest") /\ UNCHANGED reply /\ Acked(out)
    <3>1. vid[r] \in DOMAIN submissions'
      BY <1>4, <2>1 DEF Submit, Acked, Reaches, InsertRow
    <3> QED
      BY <1>4, <1>a, <2>1, <3>1 DEF Submit, RequestFlow, TypeOK
  <2> QED
    BY <1>4, <1>a, <1>d, <2>1 DEF Submit, RequestFlow
<1>e. ASSUME NEW id \in DOMAIN credentials, pc[r] \in {"digest", "byid"}, UNCHANGED <<open, vid>>,
             found' = [found EXCEPT ![r] = credentials[id]],
             pc' = [pc EXCEPT ![r] = "trust"] \/ pc' = [pc EXCEPT ![r] = "result"]
      PROVE  RequestFlow(r)'
  <2>1. id \in CredentialIds /\ IssuedAs(id, credentials[id])
    BY <1>a DEF WorldOK
  <2> QED
    BY <1>a, <1>b, <1>e, <2>1 DEF RequestFlow, TypeOK, RowsKept
<1>5. ASSUME NEW out \in Outcomes, ResolveByDigest(r, out) PROVE RequestFlow(r)'
  <2>1. CASE Goto(r, "byid")
    BY <1>5, <1>a, <2>1 DEF ResolveByDigest, RequestFlow, RowsKept, TypeOK, verifierVars
  <2>2. ASSUME NEW id \in DOMAIN credentials, Resolved(r, credentials[id], TRUE)
        PROVE  RequestFlow(r)'
    BY <1>5, <1>e, <2>2 DEF ResolveByDigest, Resolved, Decide
  <2> QED
    BY <1>5, <2>1, <2>2 DEF ResolveByDigest
<1>6. ASSUME NEW out \in Outcomes, ResolveById(r, out) PROVE RequestFlow(r)'
  <2>1. CASE Goto(r, "audit_failed")
    BY <1>6, <1>a, <2>1 DEF ResolveById, RequestFlow, RowsKept, TypeOK, verifierVars
  <2>2. ASSUME NEW id \in DOMAIN credentials, Resolved(r, credentials[id], FALSE)
        PROVE  RequestFlow(r)'
    BY <1>6, <1>e, <2>2 DEF ResolveById, Resolved, Decide
  <2> QED
    BY <1>6, <2>1, <2>2 DEF ResolveById
<1>7. ASSUME NEW out \in Outcomes, ReadTrust(r, out) PROVE RequestFlow(r)'
  BY <1>7, <1>a DEF ReadTrust, Decide, RequestFlow, RowsKept, TypeOK
<1>8. ASSUME NEW out \in Outcomes, StoreResult(r, out) PROVE RequestFlow(r)'
  <2>1. CASE Goto(r, CompleteStep(call[r]))
    BY <1>8, <1>a, <2>1 DEF StoreResult, CompleteStep, RequestFlow, TypeOK
  <2> QED
    BY <1>8, <1>d, <2>1 DEF StoreResult
<1>9. ASSUME NEW out \in Outcomes, ReadSubmission(r, out) PROVE RequestFlow(r)'
  BY <1>9, <1>a DEF ReadSubmission, Fail, RequestFlow, TypeOK, Keyed
<1>10. ASSUME NEW out \in Outcomes, ReadResult(r, out) PROVE RequestFlow(r)'
  BY <1>10, <1>a DEF ReadResult, Fail, RequestFlow, TypeOK, Keyed
<1>11. ASSUME NEW out \in Outcomes, Complete(r, out) PROVE RequestFlow(r)'
  BY <1>11, <1>a DEF Complete, Fail, RequestFlow, TypeOK
<1>12. ASSUME NEW out \in Outcomes, Release(r, out) PROVE RequestFlow(r)'
  BY <1>12, <1>a DEF Release, RequestFlow, TypeOK
<1>13. ASSUME NEW out \in Outcomes, Audit(r, out) PROVE RequestFlow(r)'
  BY <1>13, <1>a DEF Audit, AuditSteps, RequestFlow, RowsKept, TypeOK, Keyed
<1> QED
  BY <1>1, <1>2, <1>3, <1>4, <1>5, <1>6, <1>7, <1>8, <1>9, <1>10, <1>11, <1>12, <1>13 DEF Step

\* The world keeps to what the issuer service does to a credential.
LEMMA WorldStep ==
    ASSUME Typed, World
    PROVE  /\ UNCHANGED <<requestVars, verifierVars, history, contextVars>>
           /\ WorldTypeOK'
<1>a. WorldTypeOK
  BY TypeParts DEF Typed
<1>1. ASSUME NEW id \in CredentialIds, IssuerIssues(id) PROVE WorldTypeOK'
  <2>1. WorldOK'
    BY <1>1, <1>a, FreshIsIssued
       DEF IssuerIssues, CreateCredentialRecord, InsertRow, WorldTypeOK, WorldOK
  <2> QED
    BY <1>1, <1>a, <2>1 DEF IssuerIssues, WorldTypeOK, history
<1>2. ASSUME NEW id \in CredentialIds, NEW status \in {"revoked", "superseded"},
             IssuerChangesStatus(id, status)
      PROVE  WorldTypeOK'
  <2>1. IssuedAs(id, credentials[id])
    BY <1>2, <1>a DEF IssuerChangesStatus, WorldTypeOK, WorldOK
  <2>2. IssuedAs(id, [credentials[id] EXCEPT !.status = status])
    BY <2>1 DEF IssuedAs, IssuedRow
  <2>3. WorldOK'
    BY <1>2, <1>a, <2>2 DEF IssuerChangesStatus, WorldTypeOK, WorldOK
  <2> QED
    BY <1>2, <1>a, <2>3 DEF IssuerChangesStatus, WorldTypeOK, history
<1>3. TrustRegistryWrites \/ Tick => WorldTypeOK'
  BY <1>a DEF TrustRegistryWrites, Tick, WorldTypeOK, WorldOK, history
<1> QED
  BY <1>1, <1>2, <1>3 DEF World, IssuerIssues, IssuerChangesStatus, TrustRegistryWrites, Tick

LEMMA ArrivalTyped ==
    ASSUME Typed, NEW r \in Requests, NEW c \in Calls, Refuse(r, c) \/ Arrive(r, c)
    PROVE  Typed'
<1> USE DEF Goto
<1>a. /\ TypeOK /\ FlowOK /\ WorldOK /\ ContextTypeOK /\ RequestTypeOK /\ VerificationTypeOK
      /\ IdempotencyTypeOK /\ WorldTypeOK
  BY TypeParts DEF Typed
<1>b. \/ pc' = [pc EXCEPT ![r] = "done"] /\ reply' = [reply EXCEPT ![r] = FrontDoor(c)]
      \/ pc' = [pc EXCEPT ![r] = FirstStep(c)] /\ reply' = reply
  BY DEF Refuse, Arrive
<1>c. UNCHANGED <<open, vid, found, verifierVars, worldVars, contextVars>>
      /\ call' = [call EXCEPT ![r] = c]
  BY DEF Refuse, Arrive
<1>1. FirstStep(c) \in {"read", "reserve", "allocate"} /\ FirstStep(c) \in PCs
  BY DEF FirstStep, PCs, Steps
<1>2. RequestTypeOK'
  BY <1>a, <1>b, <1>c, <1>1, RefusalsAreReplies DEF RequestTypeOK, PCs, verifierVars
<1>3. WorldTypeOK'
  <2>1. \/ UNCHANGED history
        \/ /\ spoiled' = [spoiled EXCEPT ![r] =
                            {id \in DOMAIN credentials : credentials[id].status # "active"}]
           /\ arrived' = [arrived EXCEPT ![r] = clock]
    BY DEF Refuse, Arrive
  <2> QED
    BY <1>a, <1>c, <2>1 DEF WorldTypeOK, WorldOK, worldVars, history
<1>4. FlowOK'
  <2>1. pc[r] = "idle" /\ ~open[r]
    BY <1>a DEF Refuse, Arrive, FlowOK, RequestFlow, HoldingSteps
  <2>2. ASSUME NEW q \in Requests, q # r PROVE RequestFlow(q)'
    BY <1>a, <1>b, <1>c, <2>2 DEF FlowOK, RequestFlow, Keyed, TypeOK, verifierVars
  <2>3. /\ FirstStep(c) = "reserve" => Keyed(c)
        /\ FirstStep(c) = "allocate" => c.op = "create" /\ ~Keyed(c)
        /\ FirstStep(c) = "read" => c.op = "read" /\ ~Keyed(c)
    BY CallsAssumption DEF FirstStep, Keyed
  <2>4. RequestFlow(r)'
    BY <1>a, <1>b, <1>c, <1>1, <2>1, <2>3 DEF RequestFlow, HoldingSteps, TypeOK
  <2> QED
    BY <2>2, <2>4 DEF FlowOK
<1> QED
  BY <1>a, <1>c, <1>2, <1>3, <1>4, Frames, TypePartsNext DEF Typed, verifierVars

LEMMA NextTyped == Typed /\ [Next]_vars => Typed'
<1> SUFFICES ASSUME Typed, [Next]_vars PROVE Typed'
  OBVIOUS
<1>a. /\ TypeOK /\ FlowOK /\ WorldOK /\ ContextTypeOK /\ RequestTypeOK /\ VerificationTypeOK
      /\ IdempotencyTypeOK /\ WorldTypeOK
  BY TypeParts DEF Typed
<1>1. ASSUME NEW r \in Requests, NEW c \in Calls, Refuse(r, c) \/ Arrive(r, c) PROVE Typed'
  BY <1>1, ArrivalTyped
<1>2. ASSUME NEW r \in Requests, Step(r) PROVE Typed'
  BY <1>2, StepTypes, StepFlow, TypePartsNext DEF Typed
<1>3. ASSUME NEW r \in Requests, Expire(r) PROVE Typed'
  <2>1. ContextTypeOK'
    BY <1>3, <1>a, SpendShrinks DEF Expire, ExpireContext, Spend, ContextTypeOK, Failures
  <2>2. FlowOK'
    BY <1>3, <1>a DEF Expire, requestVars, verifierVars, FlowOK, RequestFlow, Keyed
  <2> QED
    BY <1>3, <1>a, <2>1, <2>2, Frames, TypePartsNext DEF Expire, Typed, verifierVars
<1>4. ASSUME Crash PROVE Typed'
  <2>1. ContextTypeOK'
    BY <1>4, <1>a DEF Crash, Spend, ContextTypeOK, Failures
  <2>2. RequestTypeOK'
    BY <1>4, <1>a DEF Crash, RequestTypeOK, PCs, verifierVars
  <2>3. FlowOK'
    BY <1>4, <1>a DEF Crash, InFlight, Steps, verifierVars, FlowOK, RequestFlow, HoldingSteps, TypeOK
  <2> QED
    BY <1>4, <1>a, <2>1, <2>2, <2>3, Frames, TypePartsNext DEF Crash, Typed, verifierVars
<1>5. ASSUME World PROVE Typed'
  <2>1. FlowOK'
    BY <1>5, <1>a, WorldStep DEF requestVars, verifierVars, FlowOK, RequestFlow, Keyed
  <2> QED
    BY <1>5, <1>a, <2>1, WorldStep, Frames, TypePartsNext DEF Typed, verifierVars
<1>6. ASSUME UNCHANGED vars PROVE Typed'
  <2>1. FlowOK'
    BY <1>6, <1>a DEF vars, requestVars, verifierVars, FlowOK, RequestFlow, Keyed
  <2> QED
    BY <1>6, <1>a, <2>1, Frames, TypePartsNext DEF vars, Typed, verifierVars
<1> QED
  BY <1>1, <1>2, <1>3, <1>4, <1>5, <1>6 DEF Next

\* TypeOK of the handlers in verifier-api/internal/httpapi/phase1.go: in every
\* reachable state verification identifiers in use have been allocated, and a
\* result belongs to a stored submission, whatever fails.
THEOREM VerifierTypeCorrect == Spec => []TypeOK
<1>1. Typed => TypeOK
  BY DEF Typed
<1> QED
  BY <1>1, InitTyped, NextTyped, PTL DEF Spec

-----------------------------------------------------------------------------
(* Exclusion: an open reservation is of the request that inserted the row.  *)

Reserved(r) ==
    open[r] =>
        LET slot == SlotOf(call[r])
        IN  /\ slot \in DOMAIN idempotency
            /\ idempotency[slot].fingerprint = Fingerprint(call[r])
            /\ pc[r] # "release" => idempotency[slot].state = "reserved"
            /\ \A q \in Requests : open[q] /\ SlotOf(call[q]) = slot => q = r

ReservationInv == Typed /\ \A r \in Requests : Reserved(r)

LEMMA NothingReserved ==
    ASSUME ReservationInv,
           UNCHANGED idempotency,
           \A r \in Requests : open'[r] =>
               /\ open[r]
               /\ call'[r] = call[r]
               /\ pc'[r] # "release" => pc[r] # "release"
    PROVE  \A r \in Requests : Reserved(r)'
BY DEF ReservationInv, Reserved

LEMMA StepReserved ==
    ASSUME ReservationInv, NEW r \in Requests, Step(r)
    PROVE  \A q \in Requests : Reserved(q)'
<1> USE DEF Goto
<1>a. TypeOK /\ RequestFlow(r) /\ \A q \in Requests : Reserved(q)
  BY DEF ReservationInv, Typed, FlowOK
<1>b. call' = call /\ \A q \in Requests : q # r => UNCHANGED <<pc[q], open[q]>>
  BY <1>a, StepFrame
<1> DEFINE Kept == \A q \in Requests : Reserved(q)'
           slot == SlotOf(call[r])
<1>1. ASSUME NEW out \in Outcomes, Reserve(r, out) PROVE Kept
  <2>1. ~open[r]
    BY <1>1, <1>a DEF Reserve, RequestFlow, HoldingSteps
  <2>2. \A s \in DOMAIN idempotency : s \in DOMAIN idempotency' /\ idempotency'[s] = idempotency[s]
    BY <1>1, ReserveKeepsRows DEF Reserve
  <2>3. ASSUME open'[r]
        PROVE  /\ slot \notin DOMAIN idempotency
               /\ slot \in DOMAIN idempotency'
               /\ idempotency'[slot] = ReservedRow(Fingerprint(call[r]))
    <3>1. /\ slot \notin DOMAIN idempotency
          /\ idempotency' = ReserveIdempotencyRecord(idempotency, slot, Fingerprint(call[r]))
      BY <1>1, <2>1, <2>3, <1>a DEF Reserve, Taken, TypeOK, Acked, Reaches
    <3> QED
      BY <3>1, ReserveTakesFreeSlot
  <2>4. ASSUME NEW q \in Requests, q # r PROVE Reserved(q)'
    BY <1>a, <1>b, <2>2, <2>3, <2>4 DEF Reserved
  <2>5. Reserved(r)'
    BY <1>a, <1>b, <2>3 DEF Reserved, ReservedRow
  <2> QED
    BY <2>4, <2>5
<1>2. ASSUME NEW out \in Outcomes, Complete(r, out) PROVE Kept
  <2>1. open[r] /\ slot \in DOMAIN idempotency
    BY <1>2, <1>a DEF Complete, RequestFlow, HoldingSteps, Reserved
  <2>2. \A s \in DOMAIN idempotency :
            /\ s \in DOMAIN idempotency'
            /\ idempotency'[s].fingerprint = idempotency[s].fingerprint
            /\ s # slot => idempotency'[s] = idempotency[s]
    BY <1>2, CompleteKeepsRows DEF Complete
  <2>3. open'[r] => pc'[r] = "release"
    BY <1>2, <2>1, <1>a DEF Complete, Fail, TypeOK
  <2>4. ASSUME NEW q \in Requests, q # r PROVE Reserved(q)'
    BY <1>a, <1>b, <2>1, <2>2, <2>4 DEF Reserved
  <2>5. Reserved(r)'
    BY <1>a, <1>b, <2>1, <2>2, <2>3 DEF Reserved
  <2> QED
    BY <2>4, <2>5
<1>3. ASSUME NEW out \in Outcomes, Release(r, out) PROVE Kept
  <2>1. open[r] /\ ~open'[r]
    BY <1>3, <1>a DEF Release, RequestFlow, HoldingSteps, TypeOK
  <2>2. \A s \in DOMAIN idempotency :
            s # slot => s \in DOMAIN idempotency' /\ idempotency'[s] = idempotency[s]
    BY <1>3, ReleaseKeepsRows DEF Release
  <2>3. ASSUME NEW q \in Requests, q # r PROVE Reserved(q)'
    BY <1>a, <1>b, <2>1, <2>2, <2>3 DEF Reserved
  <2> QED
    BY <2>1, <2>3 DEF Reserved
<1>4. ASSUME NEW out \in Outcomes,
             \/ Lookup(r, out) \/ Allocate(r, out) \/ Submit(r, out) \/ ResolveByDigest(r, out)
             \/ ResolveById(r, out) \/ ReadTrust(r, out) \/ StoreResult(r, out)
             \/ ReadSubmission(r, out) \/ ReadResult(r, out) \/ Audit(r, out)
      PROVE  Kept
  <2>1. UNCHANGED <<idempotency, open>> /\ pc[r] # "release"
    BY <1>4 DEF Lookup, Allocate, Submit, ResolveByDigest, ResolveById, ReadTrust, StoreResult,
       ReadSubmission, ReadResult, Audit, AuditSteps, verifierVars
  <2> QED
    BY <2>1, <1>b, NothingReserved
<1> QED
  BY <1>1, <1>2, <1>3, <1>4 DEF Step

LEMMA NextReservation == ReservationInv /\ [Next]_vars => ReservationInv'
<1> SUFFICES ASSUME ReservationInv, [Next]_vars PROVE \A r \in Requests : Reserved(r)'
  BY NextTyped DEF ReservationInv
<1>a. TypeOK /\ FlowOK
  BY DEF ReservationInv, Typed
<1>1. ASSUME NEW r \in Requests, NEW c \in Calls, Refuse(r, c) \/ Arrive(r, c)
      PROVE  \A q \in Requests : Reserved(q)'
  BY <1>1, <1>a, NothingReserved
     DEF Refuse, Arrive, Goto, verifierVars, FlowOK, RequestFlow, HoldingSteps, TypeOK
<1>2. ASSUME NEW r \in Requests, Step(r) PROVE \A q \in Requests : Reserved(q)'
  BY <1>2, StepReserved
<1>3. ASSUME NEW r \in Requests, Expire(r) PROVE \A q \in Requests : Reserved(q)'
  BY <1>3, NothingReserved DEF Expire, requestVars, verifierVars
<1>4. ASSUME Crash PROVE \A q \in Requests : Reserved(q)'
  BY <1>4, NothingReserved DEF Crash, verifierVars
<1>5. ASSUME World PROVE \A q \in Requests : Reserved(q)'
  BY <1>5, WorldStep, NothingReserved DEF ReservationInv, requestVars, verifierVars
<1>6. ASSUME UNCHANGED vars PROVE \A q \in Requests : Reserved(q)'
  BY <1>6, NothingReserved DEF vars, requestVars, verifierVars
<1> QED
  BY <1>1, <1>2, <1>3, <1>4, <1>5, <1>6 DEF Next

LEMMA InitReservation == Init => ReservationInv
BY InitTyped DEF Init, ReservationInv, Reserved

LEMMA AlwaysReservation == Spec => []ReservationInv
BY InitReservation, NextReservation, PTL DEF Spec

-----------------------------------------------------------------------------
(* Replay                                                                  *)

\* What a completed slot is to keep: a verdict, or "credential not found".
Final(rep) == Success(rep) \/ rep.error = "credential_not_found"

\* The slot of r holds this reply of r, for good.
Settled(r) ==
    LET slot == SlotOf(call[r])
    IN  /\ slot \in DOMAIN idempotency
        /\ idempotency[slot].state = "completed"
        /\ idempotency[slot].fingerprint = Fingerprint(call[r])
        /\ idempotency[slot].reply = reply[r]

\* A keyed submission past its completion, or answered from the slot.
Decided(r) ==
    /\ pc[r] \in {"audit", "replay", "done"}
    /\ Final(reply[r])
    /\ Keyed(call[r])

\* Between a completion and its answer a final reply is settled already, and
\* no path that declines a request leaves it a final reply to answer.
Replayable(r) ==
    /\ Decided(r) => Settled(r)
    /\ pc[r] \in {"release", "in_progress", "conflict"} => ~Final(reply[r])

ReplayInv == ReservationInv /\ \A r \in Requests : Replayable(r)

LEMMA RefusalsAreNotFinal ==
    /\ ~Final(PersistenceError)
    /\ ~Final(VerificationNotFound)
    /\ ~Final(NoReply)
    /\ ~Final(Refusal(400, "invalid_request"))
    /\ \A c \in Calls : ~Final(FrontDoor(c))
BY DEF PersistenceError, VerificationNotFound, NoReply, FrontDoor, Refusal, Reply, Success, Final

\* A completed row is out of reach of every request but the one that holds
\* its reservation, and that one completes it once.
LEMMA StepKeepsCompleted ==
    ASSUME ReservationInv, NEW r \in Requests, Step(r)
    PROVE  \A s \in DOMAIN idempotency : idempotency[s].state = "completed" =>
                s \in DOMAIN idempotency' /\ idempotency'[s] = idempotency[s]
<1>a. RequestFlow(r) /\ Reserved(r)
  BY DEF ReservationInv, Typed, FlowOK
<1> DEFINE Kept == \A s \in DOMAIN idempotency : idempotency[s].state = "completed" =>
                        s \in DOMAIN idempotency' /\ idempotency'[s] = idempotency[s]
<1>1. ASSUME NEW out \in Outcomes, Reserve(r, out) PROVE Kept
  BY <1>1, ReserveKeepsRows DEF Reserve
<1>2. ASSUME NEW out \in Outcomes, Complete(r, out) PROVE Kept
  <2>1. idempotency[SlotOf(call[r])].state = "reserved"
    BY <1>2, <1>a DEF Complete, RequestFlow, HoldingSteps, Reserved
  <2> QED
    BY <1>2, <2>1, CompleteKeepsRows DEF Complete
<1>3. ASSUME NEW out \in Outcomes, Release(r, out) PROVE Kept
  BY <1>3, ReleaseKeepsRows DEF Release
<1>4. ASSUME UNCHANGED idempotency PROVE Kept
  BY <1>4
<1> QED
  BY <1>1, <1>2, <1>3, <1>4 DEF Step, Lookup, Allocate, Submit, ResolveByDigest, ResolveById,
     ReadTrust, StoreResult, ReadSubmission, ReadResult, Audit, verifierVars

LEMMA StepReplayable ==
    ASSUME ReplayInv, NEW r \in Requests, Step(r)
    PROVE  \A q \in Requests : Replayable(q)'
<1> USE DEF Goto
<1>a. TypeOK /\ RequestFlow(r) /\ Reserved(r) /\ Replayable(r)
  BY DEF ReplayInv, ReservationInv, Typed, FlowOK
<1>b. call' = call /\ \A q \in Requests : q # r => UNCHANGED <<pc[q], reply[q]>>
  BY <1>a, StepFrame
<1>c. \A s \in DOMAIN idempotency : idempotency[s].state = "completed" =>
            s \in DOMAIN idempotency' /\ idempotency'[s] = idempotency[s]
  BY StepKeepsCompleted DEF ReplayInv
<1>d. ASSUME NEW q \in Requests, q # r PROVE Replayable(q)'
  BY <1>b, <1>c, <1>d DEF ReplayInv, Replayable, Decided, Settled
<1> SUFFICES Replayable(r)'
  BY <1>d
<1>e. pc'[r] \notin {"audit", "replay", "done", "release", "in_progress", "conflict"}
      => Replayable(r)'
  BY DEF Replayable, Decided
<1>f. ~Final(reply'[r]) => Replayable(r)'
  BY DEF Replayable, Decided
<1>g. ASSUME NEW refusal, Fail(r, refusal), ~Final(refusal) PROVE Replayable(r)'
  BY <1>a, <1>f, <1>g DEF Fail, TypeOK
<1>1. ASSUME NEW out \in Outcomes, Reserve(r, out) PROVE Replayable(r)'
  BY <1>1, <1>a, <1>e, <1>g, RefusalsAreNotFinal DEF Reserve, TypeOK
<1>2. ASSUME NEW out \in Outcomes, Lookup(r, out) PROVE Replayable(r)'
  <2> DEFINE slot == SlotOf(call[r])
             outcome == ReservationOutcome(idempotency[slot], Fingerprint(call[r]))
  <2>1. CASE /\ slot \in DOMAIN idempotency
             /\ reply' = [reply EXCEPT ![r] = OccupiedReply(outcome, idempotency[slot])]
             /\ Goto(r, outcome)
    <3>1. /\ pc'[r] = outcome
          /\ outcome = "replay" => /\ idempotency[slot].fingerprint = Fingerprint(call[r])
                                   /\ idempotency[slot].state = "completed"
                                   /\ reply'[r] = idempotency[slot].reply
          /\ outcome # "replay" => ~Final(reply'[r])
      BY <2>1, <1>a DEF ReservationOutcome, OccupiedReply, Reply, Success, Final, TypeOK
    <3>2. idempotency' = idempotency
      BY <1>2 DEF Lookup, verifierVars
    <3> QED
      BY <1>b, <1>f, <2>1, <3>1, <3>2 DEF Replayable, Settled
  <2> QED
    BY <1>2, <1>g, <2>1, RefusalsAreNotFinal DEF Lookup
<1>3. ASSUME NEW out \in Outcomes, Allocate(r, out) \/ Submit(r, out) PROVE Replayable(r)'
  BY <1>3, <1>a, <1>e, <1>g, RefusalsAreNotFinal DEF Allocate, Submit, TypeOK
<1>4. ASSUME NEW out \in Outcomes, ResolveByDigest(r, out) PROVE Replayable(r)'
  <2>1. pc'[r] \in {"byid", "trust", "result"}
    BY <1>4, <1>a DEF ResolveByDigest, Resolved, Decide, TypeOK
  <2> QED
    BY <1>e, <2>1
<1>5. ASSUME NEW out \in Outcomes, ResolveById(r, out) PROVE Replayable(r)'
  <2>1. pc'[r] \in {"audit_failed", "trust", "result"}
    BY <1>5, <1>a DEF ResolveById, Resolved, Decide, TypeOK
  <2> QED
    BY <1>e, <2>1
<1>6. ASSUME NEW out \in Outcomes, ReadTrust(r, out) PROVE Replayable(r)'
  BY <1>6, <1>a, <1>e DEF ReadTrust, Decide, TypeOK
<1>7. ASSUME NEW out \in Outcomes, StoreResult(r, out) PROVE Replayable(r)'
  <2>1. CASE Goto(r, CompleteStep(call[r]))
    BY <1>a, <1>b, <2>1 DEF CompleteStep, Replayable, Decided, TypeOK
  <2> QED
    BY <1>7, <1>g, <2>1, RefusalsAreNotFinal DEF StoreResult
<1>8. ASSUME NEW out \in Outcomes, ReadSubmission(r, out) PROVE Replayable(r)'
  BY <1>8, <1>a, <1>e, <1>g, RefusalsAreNotFinal DEF ReadSubmission, TypeOK
<1>9. ASSUME NEW out \in Outcomes, ReadResult(r, out) PROVE Replayable(r)'
  <2>1. CASE Goto(r, "audit")
    BY <1>9, <1>a, <1>b, <2>1 DEF ReadResult, RequestFlow, Replayable, Decided, Keyed, TypeOK
  <2> QED
    BY <1>9, <1>g, <2>1, RefusalsAreNotFinal DEF ReadResult
<1>10. ASSUME NEW out \in Outcomes, Complete(r, out) PROVE Replayable(r)'
  <2> DEFINE slot == SlotOf(call[r])
  <2>1. slot \in DOMAIN idempotency /\ idempotency[slot].fingerprint = Fingerprint(call[r])
    BY <1>10, <1>a DEF Complete, RequestFlow, HoldingSteps, Reserved
  <2>2. CASE Acked(out)
    <3>1. idempotency' = CompleteIdempotencyRecord(idempotency, slot, reply[r])
      BY <1>10, <2>2 DEF Complete, Acked, Reaches
    <3>2. /\ slot \in DOMAIN idempotency'
          /\ idempotency'[slot].fingerprint = Fingerprint(call[r])
          /\ idempotency'[slot].state = "completed"
          /\ idempotency'[slot].reply = reply[r]
      BY <2>1, <3>1, CompleteKeepsRows, CompleteStoresReply
    <3>3. reply' = reply /\ pc'[r] \in {"audit", "done"}
      BY <1>10, <1>a, <2>1, <2>2 DEF Complete, TypeOK
    <3> QED
      BY <1>b, <3>2, <3>3 DEF Replayable, Settled
  <2> QED
    BY <1>10, <1>g, <2>2, RefusalsAreNotFinal DEF Complete
<1>11. ASSUME NEW out \in Outcomes, Release(r, out) PROVE Replayable(r)'
  BY <1>11, <1>a, <1>f DEF Release, Replayable
<1>12. ASSUME NEW out \in Outcomes, Audit(r, out) PROVE Replayable(r)'
  <2>1. UNCHANGED <<reply, idempotency, call>> /\ pc'[r] \in {"done", "complete"}
    BY <1>12, <1>a DEF Audit, TypeOK
  <2>2. pc'[r] = "done" /\ Keyed(call[r]) => pc[r] \in {"audit", "replay", "in_progress", "conflict"}
    BY <1>12, <1>a DEF Audit, AuditSteps, TypeOK
  <2> QED
    BY <1>a, <2>1, <2>2 DEF Replayable, Decided, Settled
<1> QED
  BY <1>1, <1>2, <1>3, <1>4, <1>5, <1>6, <1>7, <1>8, <1>9, <1>10, <1>11, <1>12 DEF Step

LEMMA NextReplayable == ReplayInv /\ [Next]_vars => \A r \in Requests : Replayable(r)'
<1> SUFFICES ASSUME ReplayInv, [Next]_vars PROVE \A r \in Requests : Replayable(r)'
  OBVIOUS
<1>a. TypeOK
  BY DEF ReplayInv, ReservationInv, Typed
<1>b. ASSUME UNCHANGED <<call, reply, idempotency>>,
             \A r \in Requests : pc'[r] = pc[r] \/ pc'[r] = "lost"
      PROVE  \A r \in Requests : Replayable(r)'
  BY <1>b DEF ReplayInv, Replayable, Decided, Settled
<1>1. ASSUME NEW r \in Requests, NEW c \in Calls, Refuse(r, c) \/ Arrive(r, c)
      PROVE  \A q \in Requests : Replayable(q)'
  <2>1. UNCHANGED idempotency /\ \A q \in Requests : q # r => UNCHANGED <<pc[q], call[q], reply[q]>>
    BY <1>1, <1>a DEF Refuse, Arrive, Goto, verifierVars, TypeOK
  <2>2. pc'[r] \in {"read", "reserve", "allocate"} \/ ~Final(reply'[r])
    BY <1>1, <1>a, RefusalsAreNotFinal DEF Refuse, Arrive, Goto, FirstStep, TypeOK
  <2> QED
    BY <2>1, <2>2 DEF ReplayInv, Replayable, Decided, Settled
<1>2. ASSUME NEW r \in Requests, Step(r) PROVE \A q \in Requests : Replayable(q)'
  BY <1>2, StepReplayable
<1>3. ASSUME NEW r \in Requests, Expire(r) PROVE \A q \in Requests : Replayable(q)'
  BY <1>3, <1>b DEF Expire, requestVars, verifierVars
<1>4. ASSUME Crash PROVE \A q \in Requests : Replayable(q)'
  BY <1>4, <1>a, <1>b DEF Crash, verifierVars
<1>5. ASSUME World PROVE \A q \in Requests : Replayable(q)'
  BY <1>5, <1>b, WorldStep DEF ReplayInv, ReservationInv, requestVars, verifierVars
<1>6. ASSUME UNCHANGED vars PROVE \A q \in Requests : Replayable(q)'
  BY <1>6, <1>b DEF vars, requestVars, verifierVars
<1> QED
  BY <1>1, <1>2, <1>3, <1>4, <1>5, <1>6 DEF Next

\* completeVerificationIdempotencyResponse: a keyed submission that was
\* answered with a verdict, or with "credential not found", can be replayed
\* for good, so no retry of it sees another decision.
THEOREM VerdictsReplay == Spec => []AnswersReplay
<1>1. Init => ReplayInv
  BY InitReservation DEF ReplayInv, Replayable, Decided, Init
<1>2. ReplayInv /\ [Next]_vars => ReplayInv'
  BY NextReservation, NextReplayable DEF ReplayInv
<1>3. ReplayInv => AnswersReplay
  BY DEF ReplayInv, Replayable, Decided, Settled, Final, AnswersReplay, Answered
<1> QED
  BY <1>1, <1>2, <1>3, PTL DEF Spec

-----------------------------------------------------------------------------
(* Verdicts: the invariant                                                  *)

\* The submission of r is stored under its identifier, as r sent it.
Submitted(r) == vid[r] \in DOMAIN submissions /\ submissions[vid[r]] = SubmissionRow(call[r])

\* What AllowIsJustified says of the verification id.
AllowTrue(table, submission, id) ==
    /\ submission.credential \in DOMAIN table
    /\ table[submission.credential].digest = submission.digest
    /\ Compatible(submission.policy, table[submission.credential].template)
    /\ EvaluatedAt(id) <= table[submission.credential].expires

\* The row r resolved is the row of the credential it submitted, by its
\* digest; it was read after r arrived, so an end of it before that shows.
FoundTrue(r) ==
    LET submission == submissions[vid[r]]
    IN  /\ submission.credential \in DOMAIN credentials
        /\ IssuedAs(submission.credential, found[r])
        /\ found[r].digest = submission.digest
        /\ submission.credential \in spoiled[r] => found[r].status # "active"

\* What VerdictsReadBack says of the reply of r.
ReadsBack(r) ==
    LET id == reply[r].resource
    IN  /\ id \in DOMAIN submissions /\ id \in DOMAIN results
        /\ results[id].verdict = reply[r].status
        /\ submissions[id].verifier = Org(call[r])
        /\ call[r].op = "create" =>
                /\ submissions[id].policy = call[r].policy
                /\ submissions[id].digest.text = call[r].artifact.text

\* What the steps of r have made sure of when the next one runs.
VerdictFlow(r) ==
    /\ pc[r] = "idle" => ~Success(reply[r])
    /\ pc[r] \in {"idle", "reserve", "lookup", "allocate", "read"} => vid[r] = NoResource
    /\ pc[r] \in {"digest", "byid", "trust", "result", "audit_failed"} => Submitted(r)
    /\ pc[r] = "readresult" => /\ vid[r] \in DOMAIN submissions
                               /\ VerifiedBy(submissions[vid[r]], Org(call[r]))
    /\ pc[r] = "trust" => FoundTrue(r)
    /\ pc[r] = "result" =>
            /\ Success(reply[r])
            /\ reply[r].resource = vid[r]
            /\ reply[r].status # "none"
            /\ reply[r].status = "allow" =>
                    /\ AllowTrue(credentials, submissions[vid[r]], vid[r])
                    /\ submissions[vid[r]].credential \notin spoiled[r]
    /\ pc[r] = "audit" => Success(reply[r])
    /\ Success(reply[r]) /\ pc[r] \notin {"result", "lost"} => ReadsBack(r)

\* No two submissions ever allocate one identifier.
DistinctVerifications ==
    \A r, q \in Requests :
        /\ call[r].op = "create" /\ call[q].op = "create"
        /\ vid[r] = vid[q] /\ vid[r] # NoResource
        => r = q

\* What had ended when a request arrived has ended for good.
EndedForGood ==
    \A r \in Requests : \A id \in spoiled[r] :
        id \in DOMAIN credentials /\ credentials[id].status # "active"

\* Every stored result is a verdict, and every stored "allow" is justified.
ResultTrue(table, submission, id, result) ==
    /\ result.verdict # "none"
    /\ result.verdict = "allow" => AllowTrue(table, submission, id)

ResultsTrue == \A id \in DOMAIN results : ResultTrue(credentials, submissions[id], id, results[id])

\* A success kept for replay reads back for the caller in its slot.
RowTrue(asked, decided, slot, row) ==
    Success(row.reply) =>
        LET id == row.reply.resource
        IN  /\ id \in DOMAIN asked /\ id \in DOMAIN decided
            /\ decided[id].verdict = row.reply.status
            /\ asked[id].verifier = OrgOf[slot[2]]
            /\ asked[id].policy = row.fingerprint[1]
            /\ asked[id].digest.text = row.fingerprint[3]

RowsTrue ==
    \A slot \in DOMAIN idempotency : RowTrue(submissions, results, slot, idempotency[slot])

\* What AuditTellsVerdict says of one record.
RecordTrue(decided, row) ==
    row.action = "create" /\ row.outcome \in {"succeeded", "denied"} =>
        /\ row.resource \in DOMAIN decided
        /\ row.outcome = "succeeded" <=> decided[row.resource].verdict = "allow"

VerdictInv ==
    /\ ReservationInv
    /\ \A r \in Requests : VerdictFlow(r)
    /\ DistinctVerifications
    /\ EndedForGood
    /\ ResultsTrue
    /\ NoAllowAfterRevocation
    /\ RowsTrue
    /\ AuditTellsVerdict

-----------------------------------------------------------------------------
(* Verdicts: what a step leaves as it was                                   *)

\* Credentials are added and ended, never lost, changed or revived.
Grown ==
    \A id \in DOMAIN credentials :
        /\ id \in DOMAIN credentials'
        /\ credentials'[id].digest = credentials[id].digest
        /\ credentials'[id].template = credentials[id].template
        /\ credentials'[id].expires = credentials[id].expires
        /\ credentials[id].status # "active" => credentials'[id].status # "active"

LEMMA WorldGrows ==
    ASSUME Typed, World
    PROVE  Grown
<1>1. ASSUME NEW id \in CredentialIds, IssuerIssues(id) PROVE Grown
  BY <1>1 DEF IssuerIssues, CreateCredentialRecord, InsertRow, Grown
<1>2. ASSUME NEW id \in CredentialIds, NEW status \in {"revoked", "superseded"},
             IssuerChangesStatus(id, status)
      PROVE  Grown
  <2>1. IssuedAs(id, credentials[id])
    BY <1>2 DEF IssuerChangesStatus, Typed, WorldOK
  <2>2. LET row == [credentials[id] EXCEPT !.status = status]
        IN  /\ row.digest = credentials[id].digest
            /\ row.template = credentials[id].template
            /\ row.expires = credentials[id].expires
            /\ row.status # "active"
    BY <2>1 DEF IssuedAs, IssuedRow
  <2> QED
    BY <1>2, <2>2 DEF IssuerChangesStatus, Grown
<1>3. TrustRegistryWrites \/ Tick => Grown
  BY DEF TrustRegistryWrites, Tick, Grown
<1> QED
  BY <1>1, <1>2, <1>3 DEF World

LEMMA AllowStaysTrue ==
    ASSUME Grown, NEW submission, NEW id, AllowTrue(credentials, submission, id)
    PROVE  AllowTrue(credentials', submission, id)
BY DEF Grown, AllowTrue

\* A request that does not move keeps what it has made sure of.
LEMMA FlowStays ==
    ASSUME NEW q \in Requests, VerdictFlow(q), Grown, RowsKept,
           UNCHANGED <<pc[q], call[q], vid[q], found[q], reply[q], spoiled[q]>>
    PROVE  VerdictFlow(q)'
<1>1. Submitted(q) => Submitted(q)' /\ submissions'[vid'[q]] = submissions[vid[q]]
  BY DEF Submitted, RowsKept, SubmissionRow, Org
<1>2. Submitted(q) /\ FoundTrue(q) => FoundTrue(q)'
  BY <1>1 DEF Submitted, FoundTrue, Grown
<1>3. ReadsBack(q) => ReadsBack(q)'
  BY DEF ReadsBack, RowsKept, Org
<1>4. Submitted(q) /\ AllowTrue(credentials, submissions[vid[q]], vid[q])
      => AllowTrue(credentials', submissions'[vid'[q]], vid'[q])
  BY <1>1, AllowStaysTrue
<1>5. vid[q] \in DOMAIN submissions /\ VerifiedBy(submissions[vid[q]], Org(call[q]))
      => vid'[q] \in DOMAIN submissions' /\ VerifiedBy(submissions'[vid'[q]], Org(call'[q]))
  BY DEF RowsKept, VerifiedBy, Org
<1> QED
  BY <1>1, <1>2, <1>3, <1>4, <1>5 DEF VerdictFlow

\* Whatever happens around the requests leaves what they have made sure of.
LEMMA QuietStep ==
    ASSUME VerdictInv, Grown, UNCHANGED <<call, vid, found, reply, history>>,
           UNCHANGED <<submissions, results, idempotency, audits>>,
           \A r \in Requests : pc'[r] = pc[r] \/ pc'[r] = "lost"
    PROVE  /\ \A r \in Requests : VerdictFlow(r)'
           /\ DistinctVerifications' /\ EndedForGood' /\ ResultsTrue'
           /\ NoAllowAfterRevocation' /\ RowsTrue' /\ AuditTellsVerdict'
<1>a. RowsKept
  BY DEF RowsKept
<1>1. ASSUME NEW r \in Requests PROVE VerdictFlow(r)'
  <2>1. CASE pc'[r] = pc[r]
    BY <1>a, <2>1, FlowStays DEF VerdictInv, history
  <2>2. CASE pc'[r] = "lost"
    BY <2>2 DEF VerdictFlow
  <2> QED
    BY <2>1, <2>2
<1>2. DistinctVerifications' /\ NoAllowAfterRevocation' /\ RowsTrue' /\ AuditTellsVerdict'
  BY DEF VerdictInv, DistinctVerifications, NoAllowAfterRevocation, RowsTrue, AuditTellsVerdict, history
<1>3. EndedForGood'
  BY DEF VerdictInv, EndedForGood, Grown, history
<1>4. ResultsTrue'
  BY AllowStaysTrue DEF VerdictInv, ResultsTrue, ResultTrue
<1> QED
  BY <1>1, <1>2, <1>3, <1>4

\* A reply that is no success leaves a request with little to make sure of.
LEMMA DeclinedFlow ==
    ASSUME NEW r \in Requests, ~Success(reply'[r]),
           pc'[r] \in {"release", "done", "replay", "in_progress", "conflict"}
    PROVE  VerdictFlow(r)'
BY DEF VerdictFlow

LEMMA RefusalsAreNoSuccess ==
    /\ ~Success(PersistenceError)
    /\ ~Success(VerificationNotFound)
    /\ ~Success(NoReply)
    /\ ~Success(Refusal(400, "invalid_request"))
    /\ \A c \in Calls : ~Success(FrontDoor(c))
BY DEF PersistenceError, VerificationNotFound, NoReply, FrontDoor, Refusal, Reply, Success

\* Steps that resolve a credential: the row found is the one submitted.
LEMMA ResolvedFlow ==
    ASSUME VerdictInv, NEW r \in Requests, pc[r] \in {"digest", "byid"},
           NEW id \in DOMAIN credentials, NEW byDigest,
           byDigest => credentials[id].digest = Digest(call[r].artifact),
           Resolved(r, credentials[id], byDigest),
           UNCHANGED <<call, vid, submissions, results, credentials, spoiled>>
    PROVE  VerdictFlow(r)'
<1> DEFINE row == credentials[id]
           envelope == Envelope[call[r].artifact.text]
           verdict == VerdictBeforeTrust(call[r], envelope, row, byDigest)
           submission == submissions[vid[r]]
<1>a. TypeOK /\ VerdictFlow(r) /\ EndedForGood /\ Submitted(r)
  BY DEF VerdictInv, ReservationInv, Typed, VerdictFlow
<1>b. id \in CredentialIds /\ IssuedAs(id, row) /\ row.id = id
  BY IssuedRowFields DEF VerdictInv, ReservationInv, Typed, WorldOK
<1>c. submission.credential = envelope.id /\ submission.digest = Digest(call[r].artifact)
  BY <1>a DEF Submitted, SubmissionRow
<1>d. Submitted(r)'
  BY <1>a DEF Submitted, SubmissionRow, Org
<1>1. CASE verdict = "pending"
  <2>1. byDigest /\ envelope.id = id
    BY <1>b, <1>1 DEF VerdictBeforeTrust, Continuous
  <2>2. pc'[r] = "trust" /\ found'[r] = row /\ reply' = reply
    BY <1>a, <1>1 DEF Resolved, Goto, TypeOK
  <2>3. id \in spoiled[r] => row.status # "active"
    BY <1>a DEF EndedForGood
  <2>4. FoundTrue(r)'
    BY <1>b, <1>c, <2>1, <2>2, <2>3 DEF FoundTrue
  <2>5. Success(reply[r]) => ReadsBack(r)'
    BY <1>a, <2>2 DEF VerdictFlow, ReadsBack, Org
  <2> QED
    BY <1>d, <2>2, <2>4, <2>5 DEF VerdictFlow
<1>2. CASE verdict # "pending"
  <2>1. verdict \notin {"none", "allow"}
    BY <1>b, <1>2, VerdictTypes
  <2>2. pc'[r] = "result" /\ reply'[r] = Reply(201, "none", vid[r], verdict)
    BY <1>a, <1>2 DEF Resolved, Decide, Goto, TypeOK
  <2> QED
    BY <1>d, <2>1, <2>2 DEF VerdictFlow, Reply, Success
<1> QED
  BY <1>1, <1>2

LEMMA TrustFlow ==
    ASSUME VerdictInv, NEW r \in Requests, NEW out \in Outcomes, ReadTrust(r, out)
    PROVE  VerdictFlow(r)'
<1> DEFINE submission == submissions[vid[r]]
           id == submission.credential
<1>a. TypeOK /\ RequestFlow(r) /\ VerdictFlow(r) /\ Submitted(r) /\ FoundTrue(r)
  BY DEF VerdictInv, ReservationInv, Typed, FlowOK, VerdictFlow, ReadTrust
<1>b. UNCHANGED <<call, vid, submissions, results, credentials, spoiled>>
  BY DEF ReadTrust, verifierVars, worldVars, history
<1>1. PICK state : Decide(r, VerdictAfterTrust(call[r], found[r], state, EvaluatedAt(vid[r])))
  BY DEF ReadTrust
<1> DEFINE verdict == VerdictAfterTrust(call[r], found[r], state, EvaluatedAt(vid[r]))
<1>2. id \in DOMAIN credentials /\ id \in CredentialIds /\ IssuedAs(id, found[r])
      /\ IssuedAs(id, credentials[id])
  BY <1>a DEF FoundTrue, VerdictInv, ReservationInv, Typed, WorldOK
<1>3. verdict # "none"
  BY <1>2, VerdictTypes
<1>4. ASSUME verdict = "allow"
      PROVE  AllowTrue(credentials, submission, vid[r]) /\ id \notin spoiled[r]
  <2>1. /\ StatusForEvaluation(found[r], EvaluatedAt(vid[r])) = "active"
        /\ Compatible(call[r].policy, found[r].template)
    <3>1. \A status : status # "active" => StatusDenial[status] # "allow"
                      \/ status \notin {"revoked", "superseded", "expired"}
      BY DEF StatusDenial
    <3>2. StatusForEvaluation(found[r], EvaluatedAt(vid[r]))
            \in {"active", "revoked", "superseded", "expired"}
      BY <1>2, IssuedRowFields DEF StatusForEvaluation
    <3> QED
      BY <1>4, <3>1, <3>2 DEF VerdictAfterTrust
  <2>2. found[r].status = "active" /\ ~(EvaluatedAt(vid[r]) > found[r].expires)
    BY <2>1 DEF StatusForEvaluation
  <2>3. found[r].expires \in Int /\ EvaluatedAt(vid[r]) \in Int
    <3>1. found[r].expires = Envelope[Issuable[id]].expires
      BY <1>2, IssuedRowFields DEF IssuedRow
    <3> QED
      BY <1>a, <1>2, <3>1, IssuableAssumption, EnvelopeAssumption DEF EvaluatedAt, TypeOK
  <2>4. EvaluatedAt(vid[r]) <= found[r].expires
    BY <2>2, <2>3
  <2>5. /\ credentials[id].digest = found[r].digest
        /\ credentials[id].template = found[r].template
        /\ credentials[id].expires = found[r].expires
    BY <1>2, IssuedRowFields
  <2>6. submission.policy = call[r].policy
    BY <1>a DEF Submitted, SubmissionRow
  <2> QED
    BY <1>a, <1>2, <2>1, <2>2, <2>4, <2>5, <2>6 DEF FoundTrue, AllowTrue
<1>5. pc'[r] = "result" /\ reply'[r] = Reply(201, "none", vid[r], verdict)
  BY <1>a, <1>1 DEF Decide, Goto, TypeOK
<1>6. Submitted(r)'
  BY <1>a, <1>b DEF Submitted, SubmissionRow, Org
<1>7. Success(reply'[r]) /\ reply'[r].resource = vid[r] /\ reply'[r].status = verdict
  BY <1>5 DEF Reply, Success
<1> HIDE DEF verdict
<1> QED
  BY <1>b, <1>3, <1>4, <1>5, <1>6, <1>7 DEF VerdictFlow

LEMMA StepSelf ==
    ASSUME VerdictInv, NEW r \in Requests, Step(r)
    PROVE  VerdictFlow(r)'
<1> USE DEF Goto
<1>a. TypeOK /\ RequestFlow(r) /\ Reserved(r) /\ VerdictFlow(r)
  BY DEF VerdictInv, ReservationInv, Typed, FlowOK
<1>b. UNCHANGED <<call, credentials, spoiled>> /\ RowsKept
  BY <1>a, StepFrame, StepKeepsRows DEF worldVars, history
<1>c. ASSUME NEW refusal, ~Success(refusal), Fail(r, refusal) PROVE VerdictFlow(r)'
  BY <1>a, <1>c, DeclinedFlow DEF Fail, TypeOK
<1>d. Success(reply[r]) /\ ReadsBack(r) /\ reply'[r] = reply[r] => ReadsBack(r)'
  BY <1>b DEF ReadsBack, RowsKept, Org
<1>1. ASSUME NEW out \in Outcomes, Reserve(r, out) PROVE VerdictFlow(r)'
  <2>1. CASE UNCHANGED reply /\ (Goto(r, "allocate") \/ Goto(r, "lookup"))
    BY <1>1, <1>a, <1>d, <2>1 DEF Reserve, VerdictFlow, TypeOK
  <2> QED
    BY <1>1, <1>c, <2>1, RefusalsAreNoSuccess DEF Reserve
<1>2. ASSUME NEW out \in Outcomes, Lookup(r, out) PROVE VerdictFlow(r)'
  <2> DEFINE slot == SlotOf(call[r])
             row == idempotency[slot]
             outcome == ReservationOutcome(row, Fingerprint(call[r]))
  <2>1. CASE /\ slot \in DOMAIN idempotency
             /\ reply' = [reply EXCEPT ![r] = OccupiedReply(outcome, row)]
             /\ Goto(r, outcome)
    <3>1. reply'[r] = OccupiedReply(outcome, row) /\ pc'[r] = outcome
      BY <2>1, <1>a DEF TypeOK
    <3>2. CASE outcome = "replay"
      <4>1. row.fingerprint = Fingerprint(call[r]) /\ reply'[r] = row.reply
        BY <3>1, <3>2 DEF ReservationOutcome, OccupiedReply
      <4>2. ASSUME Success(row.reply) PROVE ReadsBack(r)'
        <5>1. OrgOf[slot[2]] = Org(call[r])
          BY DEF SlotOf, Org
        <5>2. row.fingerprint[1] = call[r].policy /\ row.fingerprint[3] = call[r].artifact.text
          BY <4>1 DEF Fingerprint
        <5>3. RowTrue(submissions, results, slot, row)
          BY <2>1 DEF VerdictInv, RowsTrue
        <5>4. UNCHANGED <<submissions, results>>
          BY <1>2 DEF Lookup, verifierVars
        <5> QED
          BY <1>b, <4>1, <4>2, <5>1, <5>2, <5>3, <5>4 DEF RowTrue, ReadsBack, Org
      <4> QED
        BY <3>1, <3>2, <4>1, <4>2 DEF VerdictFlow
    <3>3. CASE outcome # "replay"
      BY <3>1, <3>3, DeclinedFlow DEF ReservationOutcome, OccupiedReply, Reply, Success
    <3> QED
      BY <3>2, <3>3
  <2> QED
    BY <1>2, <1>c, <2>1, RefusalsAreNoSuccess DEF Lookup
<1>3. ASSUME NEW out \in Outcomes, Allocate(r, out) PROVE VerdictFlow(r)'
  <2>1. CASE Goto(r, "submit") /\ UNCHANGED reply
    BY <1>3, <1>a, <1>d, <2>1 DEF Allocate, VerdictFlow, TypeOK
  <2> QED
    BY <1>3, <1>c, <2>1, RefusalsAreNoSuccess DEF Allocate
<1>4. ASSUME NEW out \in Outcomes, Submit(r, out) PROVE VerdictFlow(r)'
  <2>1. CASE Acked(out) /\ vid[r] \notin DOMAIN submissions /\ Goto(r, "digest") /\ UNCHANGED reply
    <3>1. /\ vid[r] \in DOMAIN submissions'
          /\ submissions'[vid[r]] = SubmissionRow(call[r])
      BY <1>4, <2>1 DEF Submit, Acked, Reaches, InsertRow
    <3>2. Submitted(r)'
      BY <1>4, <1>b, <3>1 DEF Submit, Submitted, SubmissionRow, Org
    <3> QED
      BY <1>4, <1>a, <1>d, <2>1, <3>2 DEF VerdictFlow, TypeOK, Submit
  <2> QED
    BY <1>4, <1>c, <2>1, RefusalsAreNoSuccess DEF Submit
<1>e. ASSUME UNCHANGED <<vid, submissions>> PROVE Submitted(r) => Submitted(r)'
  BY <1>b, <1>e DEF Submitted, SubmissionRow, Org
<1>5. ASSUME NEW out \in Outcomes, ResolveByDigest(r, out) PROVE VerdictFlow(r)'
  <2>1. UNCHANGED <<vid, submissions, results>>
    BY <1>5 DEF ResolveByDigest, verifierVars
  <2>2. CASE Goto(r, "byid") /\ UNCHANGED <<found, reply>>
    BY <1>5, <1>a, <1>d, <1>e, <2>1, <2>2 DEF ResolveByDigest, VerdictFlow, TypeOK
  <2>3. ASSUME NEW id \in DOMAIN credentials, Resolved(r, credentials[id], TRUE),
               credentials[id].digest = Digest(call[r].artifact)
        PROVE  VerdictFlow(r)'
    BY <1>5, <1>b, <2>1, <2>3, ResolvedFlow DEF ResolveByDigest, Resolved, Decide
  <2> QED
    BY <1>5, <2>2, <2>3 DEF ResolveByDigest
<1>6. ASSUME NEW out \in Outcomes, ResolveById(r, out) PROVE VerdictFlow(r)'
  <2>1. UNCHANGED <<vid, submissions, results>>
    BY <1>6 DEF ResolveById, verifierVars
  <2>2. CASE /\ reply' = [reply EXCEPT ![r] = Reply(404, "credential_not_found", vid[r], "none")]
             /\ Goto(r, "audit_failed")
    BY <1>6, <1>a, <1>e, <2>1, <2>2 DEF ResolveById, VerdictFlow, Reply, Success, TypeOK
  <2>3. ASSUME NEW id \in DOMAIN credentials, Resolved(r, credentials[id], FALSE)
        PROVE  VerdictFlow(r)'
    BY <1>6, <1>b, <2>1, <2>3, ResolvedFlow DEF ResolveById, Resolved, Decide
  <2> QED
    BY <1>6, <2>2, <2>3 DEF ResolveById
<1>7. ASSUME NEW out \in Outcomes, ReadTrust(r, out) PROVE VerdictFlow(r)'
  BY <1>7, TrustFlow
<1>8. ASSUME NEW out \in Outcomes, StoreResult(r, out) PROVE VerdictFlow(r)'
  <2>1. CASE /\ Acked(out) /\ vid[r] \notin DOMAIN results
             /\ Goto(r, CompleteStep(call[r])) /\ UNCHANGED reply
    <3>1. /\ vid[r] \in DOMAIN results'
          /\ results'[vid[r]].verdict = reply[r].status
      BY <1>8, <2>1 DEF StoreResult, Acked, Reaches, InsertRow
    <3>2. /\ UNCHANGED <<vid, submissions>> /\ Submitted(r)
          /\ Success(reply[r]) /\ reply[r].resource = vid[r]
      BY <1>8, <1>a DEF StoreResult, VerdictFlow
    <3>3. ReadsBack(r)'
      BY <1>b, <2>1, <3>1, <3>2 DEF ReadsBack, Submitted, SubmissionRow, Digest, Org
    <3>4. pc'[r] = CompleteStep(call[r]) /\ reply'[r] = reply[r]
      BY <1>a, <2>1 DEF TypeOK
    <3> QED
      BY <3>2, <3>3, <3>4 DEF VerdictFlow, CompleteStep
  <2> QED
    BY <1>8, <1>c, <2>1, RefusalsAreNoSuccess DEF StoreResult
<1>9. ASSUME NEW out \in Outcomes, ReadSubmission(r, out) PROVE VerdictFlow(r)'
  <2> DEFINE id == call[r].target
  <2>1. CASE /\ id \in DOMAIN submissions /\ VerifiedBy(submissions[id], Org(call[r]))
             /\ vid' = [vid EXCEPT ![r] = id]
             /\ Goto(r, "readresult") /\ UNCHANGED reply
    BY <1>9, <1>a, <1>b, <1>d, <2>1
       DEF ReadSubmission, VerdictFlow, VerifiedBy, Org, verifierVars, TypeOK
  <2> QED
    BY <1>9, <1>c, <2>1, RefusalsAreNoSuccess DEF ReadSubmission
<1>10. ASSUME NEW out \in Outcomes, ReadResult(r, out) PROVE VerdictFlow(r)'
  <2>1. CASE /\ vid[r] \in DOMAIN results
             /\ reply' = [reply EXCEPT ![r] = Reply(200, "none", vid[r], results[vid[r]].verdict)]
             /\ Goto(r, "audit")
    <3>1. /\ pc'[r] = "audit"
          /\ reply'[r] = Reply(200, "none", vid[r], results[vid[r]].verdict)
          /\ UNCHANGED <<vid, submissions, results>>
          /\ call[r].op = "read"
      BY <1>10, <1>a, <2>1 DEF ReadResult, RequestFlow, verifierVars, TypeOK
    <3>2. vid[r] \in DOMAIN submissions /\ submissions[vid[r]].verifier = Org(call[r])
      BY <1>10, <1>a DEF ReadResult, VerdictFlow, VerifiedBy
    <3>3. ReadsBack(r)' /\ Success(reply'[r])
      BY <1>b, <2>1, <3>1, <3>2 DEF ReadsBack, Reply, Success, Org
    <3> QED
      BY <3>1, <3>3 DEF VerdictFlow
  <2> QED
    BY <1>10, <1>c, <2>1, RefusalsAreNoSuccess DEF ReadResult
<1>11. ASSUME NEW out \in Outcomes, Complete(r, out) PROVE VerdictFlow(r)'
  <2>1. CASE /\ Goto(r, IF Success(reply[r]) THEN "audit" ELSE "done") /\ UNCHANGED reply
    <3>1. pc[r] = "complete" /\ reply'[r] = reply[r]
          /\ pc'[r] = IF Success(reply[r]) THEN "audit" ELSE "done"
      BY <1>11, <1>a, <2>1 DEF Complete, TypeOK
    <3>2. Success(reply[r]) => ReadsBack(r)'
      BY <1>a, <1>d, <3>1 DEF VerdictFlow
    <3> QED
      BY <3>1, <3>2 DEF VerdictFlow
  <2> QED
    BY <1>11, <1>c, <2>1, RefusalsAreNoSuccess DEF Complete
<1>12. ASSUME NEW out \in Outcomes, Release(r, out) PROVE VerdictFlow(r)'
  <2>1. pc[r] = "release" /\ pc'[r] = "done" /\ reply'[r] = reply[r]
    BY <1>12, <1>a DEF Release, TypeOK
  <2> QED
    BY <1>a, <1>d, <2>1 DEF VerdictFlow
<1>13. ASSUME NEW out \in Outcomes, Audit(r, out) PROVE VerdictFlow(r)'
  <2>1. pc[r] \in AuditSteps /\ pc'[r] \in {"done", "complete"} /\ reply'[r] = reply[r]
    BY <1>13, <1>a DEF Audit, TypeOK
  <2> QED
    BY <1>a, <1>d, <2>1 DEF VerdictFlow, AuditSteps
<1> QED
  BY <1>1, <1>2, <1>3, <1>4, <1>5, <1>6, <1>7, <1>8, <1>9, <1>10, <1>11, <1>12, <1>13 DEF Step

LEMMA StepOthers ==
    ASSUME VerdictInv, NEW r \in Requests, Step(r), NEW q \in Requests, q # r
    PROVE  VerdictFlow(q)'
<1>a. TypeOK
  BY DEF VerdictInv, ReservationInv, Typed
<1>1. UNCHANGED <<pc[q], call[q], vid[q], found[q], reply[q], spoiled[q]>> /\ Grown
  BY <1>a, StepFrame DEF worldVars, history, Grown
<1> QED
  BY <1>1, FlowStays, StepKeepsRows DEF VerdictInv

\* Identifiers are allocated in one sequence, and only submitting allocates.
LEMMA StepAllocates ==
    ASSUME VerdictInv, NEW r \in Requests, Step(r), call[r].op = "create", vid'[r] # vid[r]
    PROVE  vid'[r] = sequence + 1 /\ UNCHANGED results
<1>a. TypeOK /\ RequestFlow(r)
  BY DEF VerdictInv, ReservationInv, Typed, FlowOK
<1>1. PICK out \in Outcomes : Allocate(r, out)
  BY <1>a DEF Step, Reserve, Lookup, Submit, ResolveByDigest, ResolveById, ReadTrust, StoreResult,
         ReadSubmission, ReadResult, Complete, Release, Audit, RequestFlow
<1> QED
  BY <1>a, <1>1 DEF Allocate, NextSequence, TypeOK

LEMMA StepDistinct ==
    ASSUME VerdictInv, NEW r \in Requests, Step(r)
    PROVE  DistinctVerifications'
<1>a. TypeOK /\ DistinctVerifications
  BY DEF VerdictInv, ReservationInv, Typed
<1>b. call' = call /\ \A q \in Requests : q # r => vid'[q] = vid[q]
  BY <1>a, StepFrame
<1>1. CASE vid'[r] = vid[r] \/ call[r].op # "create"
  BY <1>a, <1>b, <1>1 DEF DistinctVerifications
<1>2. CASE vid'[r] # vid[r] /\ call[r].op = "create"
  <2>1. vid'[r] = sequence + 1
    BY <1>2, StepAllocates
  <2>2. \A q \in Requests : vid[q] # sequence + 1
    BY <1>a DEF TypeOK
  <2> QED
    BY <1>a, <1>b, <2>1, <2>2 DEF DistinctVerifications
<1> QED
  BY <1>1, <1>2

\* A new result is the verdict its request decided on.
LEMMA StepResults ==
    ASSUME VerdictInv, NEW r \in Requests, Step(r), NEW id \in DOMAIN results', id \notin DOMAIN results
    PROVE  /\ pc[r] = "result" /\ id = vid[r] /\ vid'[r] = vid[r]
           /\ results'[id].verdict = reply[r].status
<1>1. PICK out \in Outcomes : StoreResult(r, out)
  BY DEF Step, Reserve, Lookup, Allocate, Submit, ResolveByDigest, ResolveById, ReadTrust,
         ReadSubmission, ReadResult, Complete, Release, Audit, verifierVars
<1> QED
  BY <1>1 DEF StoreResult, InsertRow

LEMMA StepResultsTrue ==
    ASSUME VerdictInv, NEW r \in Requests, Step(r)
    PROVE  ResultsTrue'
<1>a. TypeOK /\ VerdictFlow(r) /\ ResultsTrue /\ RowsKept
  BY StepKeepsRows DEF VerdictInv, ReservationInv, Typed
<1>b. credentials' = credentials
  BY <1>a, StepFrame DEF worldVars
<1>1. ASSUME NEW id \in DOMAIN results'
      PROVE  ResultTrue(credentials', submissions'[id], id, results'[id])
  <2>1. CASE id \in DOMAIN results
    BY <1>a, <1>b, <2>1 DEF ResultsTrue, RowsKept, TypeOK
  <2>2. CASE id \notin DOMAIN results
    <3>1. pc[r] = "result" /\ id = vid[r] /\ results'[id].verdict = reply[r].status
      BY <2>2, StepResults
    <3>2. submissions'[id] = submissions[id]
      BY <1>a, <3>1 DEF VerdictFlow, Submitted, RowsKept
    <3> QED
      BY <1>a, <1>b, <3>1, <3>2 DEF VerdictFlow, ResultTrue
  <2> QED
    BY <2>1, <2>2
<1> QED
  BY <1>1 DEF ResultsTrue

LEMMA StepRevoked ==
    ASSUME VerdictInv, NEW r \in Requests, Step(r)
    PROVE  NoAllowAfterRevocation'
<1>a. TypeOK /\ VerdictFlow(r) /\ NoAllowAfterRevocation /\ DistinctVerifications /\ RowsKept
  BY StepKeepsRows DEF VerdictInv, ReservationInv, Typed
<1>b. UNCHANGED <<call, spoiled>> /\ \A q \in Requests : q # r => vid'[q] = vid[q]
  BY <1>a, StepFrame DEF history
<1>1. ASSUME NEW q \in Requests, call[q].op = "create", vid'[q] \in DOMAIN results',
             results'[vid'[q]].verdict = "allow"
      PROVE  submissions'[vid'[q]].credential \notin spoiled[q]
  <2>1. vid'[q] = vid[q]
    <3>1. ASSUME vid'[q] # vid[q] PROVE FALSE
      <4>1. q = r /\ vid'[q] = sequence + 1 /\ results' = results
        BY <1>1, <1>b, <3>1, StepAllocates
      <4> QED
        BY <1>1, <1>a, <4>1 DEF TypeOK
    <3> QED
      BY <3>1
  <2>2. CASE vid[q] \in DOMAIN results
    BY <1>1, <1>a, <2>1, <2>2 DEF NoAllowAfterRevocation, RowsKept, TypeOK
  <2>3. CASE vid[q] \notin DOMAIN results
    <3>1. pc[r] = "result" /\ vid[q] = vid[r] /\ reply[r].status = "allow"
      BY <1>1, <2>1, <2>3, StepResults
    <3>2. q = r
      BY <1>1, <1>a, <3>1 DEF DistinctVerifications, VerdictInv, ReservationInv, Typed, FlowOK,
         RequestFlow
    <3> QED
      BY <1>a, <2>1, <3>1, <3>2 DEF VerdictFlow, Submitted, RowsKept
  <2> QED
    BY <2>2, <2>3
<1> QED
  BY <1>1, <1>b DEF NoAllowAfterRevocation

\* A completion stores the reply its request made sure of, under the
\* fingerprint of the row it reserved; no other statement adds a success.
LEMMA StepRows ==
    ASSUME VerdictInv, NEW r \in Requests, Step(r)
    PROVE  RowsTrue'
<1>a. TypeOK /\ RequestFlow(r) /\ Reserved(r) /\ VerdictFlow(r) /\ RowsTrue /\ RowsKept
  BY StepKeepsRows DEF VerdictInv, ReservationInv, Typed, FlowOK
<1>c. \A slot \in DOMAIN idempotency : RowTrue(submissions', results', slot, idempotency[slot])
  BY <1>a DEF RowsTrue, RowTrue, RowsKept
<1>d. (\A slot \in DOMAIN idempotency' : RowTrue(submissions', results', slot, idempotency'[slot]))
      => RowsTrue'
  BY DEF RowsTrue
<1>1. CASE UNCHANGED idempotency
  BY <1>1, <1>c, <1>d
<1>2. ASSUME NEW out \in Outcomes, Reserve(r, out) PROVE RowsTrue'
  <2> DEFINE table == ReserveIdempotencyRecord(idempotency, SlotOf(call[r]), Fingerprint(call[r]))
  <2>1. CASE idempotency' = table
    <3>1. \A s \in DOMAIN table : \/ s \in DOMAIN idempotency /\ table[s] = idempotency[s]
                                  \/ table[s].reply = NoReply
      BY DEF ReserveIdempotencyRecord, InsertRow, ReservedRow
    <3>2. \A s \in DOMAIN table : RowTrue(submissions', results', s, table[s])
      BY <1>c, <3>1, RefusalsAreNoSuccess DEF RowTrue
    <3> QED
      BY <1>d, <2>1, <3>2
  <2> QED
    BY <1>1, <1>2, <2>1 DEF Reserve
<1>3. ASSUME NEW out \in Outcomes, Complete(r, out) PROVE RowsTrue'
  <2> DEFINE slot == SlotOf(call[r])
             table == CompleteIdempotencyRecord(idempotency, slot, reply[r])
  <2>1. CASE idempotency' = table
    <3>1. /\ Keyed(call[r]) /\ slot \in DOMAIN idempotency
          /\ idempotency[slot].fingerprint = Fingerprint(call[r])
      BY <1>3, <1>a DEF Complete, RequestFlow, HoldingSteps, Reserved
    <3>2. DOMAIN table = DOMAIN idempotency
          /\ \A s \in DOMAIN idempotency : s # slot => table[s] = idempotency[s]
      BY DEF CompleteIdempotencyRecord
    <3>3. table[slot].reply = reply[r] /\ table[slot].fingerprint = Fingerprint(call[r])
      BY <3>1 DEF CompleteIdempotencyRecord
    <3>4. Success(reply[r]) => ReadsBack(r) /\ call[r].op = "create"
      BY <1>3, <1>a, <3>1 DEF Complete, VerdictFlow, Keyed
    <3>5. OrgOf[slot[2]] = Org(call[r])
      BY DEF SlotOf, Org
    <3>6. /\ Fingerprint(call[r])[1] = call[r].policy
          /\ Fingerprint(call[r])[3] = call[r].artifact.text
      BY DEF Fingerprint
    <3>7. RowTrue(submissions', results', slot, table[slot])
      BY <1>a, <3>3, <3>4, <3>5, <3>6 DEF ReadsBack, RowsKept, RowTrue
    <3> QED
      BY <1>c, <1>d, <2>1, <3>2, <3>7
  <2> QED
    BY <1>1, <1>3, <2>1 DEF Complete
<1>4. ASSUME NEW out \in Outcomes, Release(r, out) PROVE RowsTrue'
  <2> DEFINE table == ReleaseIdempotencyRecord(idempotency, SlotOf(call[r]))
  <2>1. CASE idempotency' = table
    <3>1. \A s \in DOMAIN table : s \in DOMAIN idempotency /\ table[s] = idempotency[s]
      BY DEF ReleaseIdempotencyRecord, DeleteRow
    <3> QED
      BY <1>c, <1>d, <2>1, <3>1
  <2> QED
    BY <1>1, <1>4, <2>1 DEF Release
<1> QED
  BY <1>1, <1>2, <1>3, <1>4 DEF Step, Lookup, Allocate, Submit, ResolveByDigest, ResolveById,
     ReadTrust, StoreResult, ReadSubmission, ReadResult, Audit, verifierVars

\* The outcome of a record is told by the verdict of the reply, and the reply
\* by the stored result.
LEMMA StepAudits ==
    ASSUME VerdictInv, NEW r \in Requests, Step(r)
    PROVE  AuditTellsVerdict'
<1>a. TypeOK /\ VerdictFlow(r) /\ AuditTellsVerdict /\ ResultsTrue /\ RowsKept
  BY StepKeepsRows DEF VerdictInv, ReservationInv, Typed
<1>c. \A id \in DOMAIN audits : RecordTrue(results', audits[id])
  BY <1>a DEF AuditTellsVerdict, RecordTrue, RowsKept
<1>d. (\A id \in DOMAIN audits' : RecordTrue(results', audits'[id])) => AuditTellsVerdict'
  BY DEF AuditTellsVerdict, RecordTrue
<1>1. CASE UNCHANGED audits
  BY <1>1, <1>c, <1>d
<1>2. ASSUME NEW out \in Outcomes, Audit(r, out) PROVE AuditTellsVerdict'
  <2> DEFINE id == AuditId(call[r], pc[r])
             verdict == IF call[r].op = "read" THEN "none" ELSE reply[r].status
             row == AuditRow(call[r].caller, call[r].op, reply[r].resource,
                             AuditOutcome(pc[r], verdict))
  <2>1. CASE audits' = AppendAuditRecord(audits, id, row)
    <3>1. RecordTrue(results', row)
      <4>1. /\ row.resource = reply[r].resource
            /\ row.action = call[r].op
            /\ row.outcome = AuditOutcome(pc[r], verdict)
        BY DEF AuditRow
      <4>2. pc[r] \in AuditSteps /\ results' = results
        BY <1>2 DEF Audit
      <4>3. CASE pc[r] = "audit" /\ call[r].op = "create"
        <5>1. ReadsBack(r)
          BY <1>a, <4>3 DEF VerdictFlow
        <5>2. reply[r].status # "none"
          BY <1>a, <5>1 DEF ResultsTrue, ResultTrue, ReadsBack
        <5>3. row.outcome = "succeeded" <=> reply[r].status = "allow"
          BY <4>1, <4>3, <5>2 DEF AuditOutcome
        <5> QED
          BY <4>1, <4>2, <5>1, <5>3 DEF ReadsBack, RecordTrue
      <4>4. CASE pc[r] # "audit"
        <5>1. row.outcome \in {"replayed", "failed"}
          BY <4>1, <4>2, <4>4 DEF AuditOutcome, AuditSteps
        <5> QED
          BY <5>1 DEF RecordTrue
      <4> QED
        BY <4>1, <4>3, <4>4 DEF RecordTrue
    <3>2. \A k \in DOMAIN audits' : \/ k \in DOMAIN audits /\ audits'[k] = audits[k]
                                    \/ audits'[k] = row
      BY <2>1 DEF AppendAuditRecord, InsertRow
    <3> QED
      BY <1>c, <1>d, <3>1, <3>2
  <2> QED
    BY <1>1, <1>2, <2>1 DEF Audit
<1> QED
  BY <1>1, <1>2 DEF Step, Reserve, Lookup, Allocate, Submit, ResolveByDigest, ResolveById,
     ReadTrust, StoreResult, ReadSubmission, ReadResult, Complete, Release, verifierVars

LEMMA ArrivalStep ==
    ASSUME VerdictInv, NEW r \in Requests, NEW c \in Calls, Refuse(r, c) \/ Arrive(r, c)
    PROVE  /\ \A q \in Requests : VerdictFlow(q)'
           /\ DistinctVerifications' /\ EndedForGood' /\ ResultsTrue'
           /\ NoAllowAfterRevocation' /\ RowsTrue' /\ AuditTellsVerdict'
<1> USE DEF Goto
<1>a. TypeOK /\ pc[r] = "idle" /\ VerdictFlow(r) /\ vid[r] = NoResource
  BY DEF VerdictInv, ReservationInv, Typed, VerdictFlow, Refuse, Arrive
<1>b. UNCHANGED <<vid, found, submissions, results, idempotency, audits, credentials>>
  BY DEF Refuse, Arrive, verifierVars, worldVars
<1>c. /\ call' = [call EXCEPT ![r] = c]
      /\ \A q \in Requests : q # r => UNCHANGED <<pc[q], call[q], reply[q], spoiled[q]>>
  BY <1>a DEF Refuse, Arrive, history, TypeOK
<1>d. vid[r] \notin DOMAIN results
  BY <1>a DEF TypeOK, NoResource
<1>1. ASSUME NEW q \in Requests, q # r PROVE VerdictFlow(q)'
  BY <1>1, <1>b, <1>c, FlowStays DEF VerdictInv, Grown, RowsKept
<1>2. VerdictFlow(r)'
  <2>1. CASE Refuse(r, c)
    BY <2>1, <1>a, RefusalsAreNoSuccess, DeclinedFlow DEF Refuse, TypeOK
  <2>2. CASE Arrive(r, c)
    <3>1. pc'[r] = FirstStep(c) /\ reply'[r] = reply[r] /\ vid'[r] = vid[r]
      BY <2>2, <1>a DEF Arrive, TypeOK
    <3>2. FirstStep(c) \in {"read", "reserve", "allocate"}
      BY DEF FirstStep
    <3> QED
      BY <1>a, <3>1, <3>2 DEF VerdictFlow
  <2> QED
    BY <2>1, <2>2
<1>3. DistinctVerifications'
  BY <1>a, <1>b, <1>c DEF VerdictInv, DistinctVerifications
<1>4. EndedForGood'
  BY <1>a, <1>b, <1>c DEF Refuse, Arrive, history, VerdictInv, EndedForGood, TypeOK
<1>5. NoAllowAfterRevocation'
  BY <1>a, <1>b, <1>c, <1>d DEF VerdictInv, NoAllowAfterRevocation
<1>6. ResultsTrue' /\ RowsTrue' /\ AuditTellsVerdict'
  BY <1>b DEF VerdictInv, ResultsTrue, RowsTrue, AuditTellsVerdict
<1> QED
  BY <1>1, <1>2, <1>3, <1>4, <1>5, <1>6

LEMMA NextVerdict == VerdictInv /\ [Next]_vars => VerdictInv'
<1> SUFFICES ASSUME VerdictInv, [Next]_vars PROVE VerdictInv'
  OBVIOUS
<1> DEFINE Rest == /\ \A r \in Requests : VerdictFlow(r)'
                   /\ DistinctVerifications' /\ EndedForGood' /\ ResultsTrue'
                   /\ NoAllowAfterRevocation' /\ RowsTrue' /\ AuditTellsVerdict'
<1>a. Typed /\ TypeOK
  BY DEF VerdictInv, ReservationInv, Typed
<1>1. ASSUME NEW r \in Requests, NEW c \in Calls, Refuse(r, c) \/ Arrive(r, c) PROVE Rest
  BY <1>1, ArrivalStep
<1>2. ASSUME NEW r \in Requests, Step(r) PROVE Rest
  <2>1. \A q \in Requests : VerdictFlow(q)'
    BY <1>2, StepSelf, StepOthers
  <2>2. EndedForGood'
    BY <1>2, <1>a, StepFrame DEF VerdictInv, EndedForGood, worldVars, history
  <2> QED
    BY <1>2, <2>1, <2>2, StepDistinct, StepResultsTrue, StepRevoked, StepRows, StepAudits
<1>3. ASSUME NEW r \in Requests, Expire(r) PROVE Rest
  BY <1>3, QuietStep DEF Expire, requestVars, verifierVars, worldVars, Grown
<1>4. ASSUME Crash PROVE Rest
  BY <1>4, <1>a, QuietStep DEF Crash, verifierVars, worldVars, TypeOK, Grown
<1>5. ASSUME World PROVE Rest
  BY <1>5, <1>a, WorldStep, WorldGrows, QuietStep DEF requestVars, verifierVars
<1>6. ASSUME UNCHANGED vars PROVE Rest
  BY <1>6, QuietStep DEF vars, requestVars, verifierVars, worldVars, Grown
<1>7. Rest
  BY <1>1, <1>2, <1>3, <1>4, <1>5, <1>6 DEF Next
<1> QED
  BY <1>7, NextReservation DEF VerdictInv

LEMMA InitVerdict == Init => VerdictInv
BY InitReservation, RefusalsAreNoSuccess
   DEF Init, VerdictInv, VerdictFlow, DistinctVerifications, EndedForGood, ResultsTrue,
       NoAllowAfterRevocation, RowsTrue, AuditTellsVerdict, NoCall

LEMMA AlwaysVerdict == Spec => []VerdictInv
BY InitVerdict, NextVerdict, PTL DEF Spec

\* A verdict that was given, replayed or not, is one its caller reads back
\* with getVerification: createVerification stores the submission and the
\* result before it answers, and a replay answers what was stored with them.
THEOREM VerdictsAreReadable == Spec => []VerdictsReadBack
<1>1. VerdictInv => VerdictsReadBack
  BY DEF VerdictInv, VerdictFlow, ReadsBack, VerdictsReadBack, Answered
<1> QED
  BY <1>1, AlwaysVerdict, PTL

\* A stored "allow" is for the artifact the issuer stored, byte for byte,
\* under the known policy and not expired at the evaluation time it states.
THEOREM AllowsAreJustified == Spec => []AllowIsJustified
<1>1. VerdictInv => AllowIsJustified
  BY DEF VerdictInv, ResultsTrue, ResultTrue, AllowTrue, AllowIsJustified
<1> QED
  BY <1>1, AlwaysVerdict, PTL

\* A credential that had been revoked or superseded when a submission arrived
\* is not allowed by it: the row is read after arrival, and an end is final.
THEOREM RevocationsHold == Spec => []NoAllowAfterRevocation
<1>1. VerdictInv => NoAllowAfterRevocation
  BY DEF VerdictInv
<1> QED
  BY <1>1, AlwaysVerdict, PTL

\* appendAuditRecord tells an allow from a denial as the stored result does.
THEOREM AuditsTellVerdicts == Spec => []AuditTellsVerdict
<1>1. VerdictInv => AuditTellsVerdict
  BY DEF VerdictInv
<1> QED
  BY <1>1, AlwaysVerdict, PTL

-----------------------------------------------------------------------------
(* What any step leaves of a submission                                     *)

\* What happens around the requests: they arrive, go down, or do not move.
LEMMA AroundSteps ==
    ASSUME Typed, [Next]_vars, \A r \in Requests : ~Step(r)
    PROVE  /\ UNCHANGED <<vid, submissions, results>>
           /\ \A q \in Requests :
                \/ UNCHANGED <<pc[q], call[q], reply[q]>>
                \/ pc[q] = "idle" /\ pc'[q] \in {"done", "read", "reserve", "allocate"}
                \/ InFlight(q) /\ pc'[q] = "lost" /\ UNCHANGED <<call[q], reply[q]>>
<1> DEFINE Around ==
        /\ UNCHANGED <<vid, submissions, results>>
        /\ \A q \in Requests :
            \/ UNCHANGED <<pc[q], call[q], reply[q]>>
            \/ pc[q] = "idle" /\ pc'[q] \in {"done", "read", "reserve", "allocate"}
            \/ InFlight(q) /\ pc'[q] = "lost" /\ UNCHANGED <<call[q], reply[q]>>
<1>a. TypeOK
  BY DEF Typed
<1>1. ASSUME NEW r \in Requests, NEW c \in Calls, Refuse(r, c) \/ Arrive(r, c) PROVE Around
  <2>1. FirstStep(c) \in {"read", "reserve", "allocate"}
    BY DEF FirstStep
  <2> QED
    BY <1>1, <1>a, <2>1 DEF Refuse, Arrive, Goto, verifierVars, TypeOK
<1>2. ASSUME NEW r \in Requests, Expire(r) PROVE Around
  BY <1>2 DEF Expire, requestVars, verifierVars
<1>3. Crash => Around
  BY <1>a DEF Crash, verifierVars, TypeOK
<1>4. World => Around
  BY WorldStep DEF requestVars, verifierVars
<1>5. UNCHANGED vars => Around
  BY DEF vars, requestVars, verifierVars
<1> QED
  BY <1>1, <1>2, <1>3, <1>4, <1>5 DEF Next

\* A request that has allocated its identifier keeps it, and its call.
LEMMA SubmissionStays ==
    ASSUME VerdictInv, [Next]_vars, NEW q \in Requests,
           call[q].op = "create", vid[q] # NoResource
    PROVE  UNCHANGED <<call[q], vid[q]>>
<1>a. Typed /\ TypeOK /\ VerdictFlow(q) /\ RequestFlow(q)
  BY DEF VerdictInv, ReservationInv, Typed, FlowOK
<1>1. ASSUME NEW r \in Requests, Step(r) PROVE UNCHANGED <<call[q], vid[q]>>
  <2>1. call' = call /\ (q # r => vid'[q] = vid[q])
    BY <1>1, <1>a, StepFrame
  <2>2. ASSUME q = r PROVE vid'[q] = vid[q]
    BY <1>1, <1>a, <2>2 DEF Step, Reserve, Lookup, Allocate, Submit, ResolveByDigest, ResolveById,
       ReadTrust, StoreResult, ReadSubmission, ReadResult, Complete, Release, Audit, VerdictFlow,
       RequestFlow
  <2> QED
    BY <2>1, <2>2
<1>2. ASSUME \A r \in Requests : ~Step(r) PROVE UNCHANGED <<call[q], vid[q]>>
  BY <1>2, <1>a, AroundSteps DEF VerdictFlow
<1> QED
  BY <1>1, <1>2

LEMMA NextKeepsRows ==
    ASSUME Typed, [Next]_vars
    PROVE  /\ \A id \in DOMAIN submissions : id \in DOMAIN submissions' /\ submissions'[id] = submissions[id]
           /\ \A id \in DOMAIN results : id \in DOMAIN results' /\ results'[id] = results[id]
BY AroundSteps, StepKeepsRows DEF RowsKept

-----------------------------------------------------------------------------
(* Trust: whom the registry has vouched for                                 *)

\* The issuer of the credential that was submitted under an identifier.
IssuerOf(table, id) == IssuedRow(table[id].credential).issuer

\* A request on its way has seen the registry as it is, and decides on "allow"
\* only for an issuer it has seen active.
VouchFlow(r) ==
    /\ InFlight(r) => ActiveIn(trust) \subseteq vouched[r]
    /\ pc[r] = "result" /\ reply[r].status = "allow" => IssuerOf(submissions, vid[r]) \in vouched[r]

\* AllowIsVouchedFor, with the issuer its credential was issued with.
AllowsVouched ==
    \A id \in DOMAIN results :
        results[id].verdict = "allow" =>
            \E r \in Requests : /\ call[r].op = "create" /\ vid[r] = id
                                /\ IssuerOf(submissions, id) \in vouched[r]

VouchInv ==
    /\ VerdictInv
    /\ \A r \in Requests : VouchFlow(r)
    /\ AllowsVouched

\* The memory grows, by what the registry holds while a request is on its way.
LEMMA MemoryGrows ==
    ASSUME Remember, NEW r \in Requests
    PROVE  vouched[r] \subseteq vouched'[r] /\ (InFlight(r)' => ActiveIn(trust') \subseteq vouched'[r])
BY DEF Remember

\* The trust lookup leads to "allow" only from the registry's own "active".
LEMMA TrustVouches ==
    ASSUME VerdictInv, NEW r \in Requests, NEW out \in Outcomes, ReadTrust(r, out),
           reply'[r].status = "allow"
    PROVE  pc'[r] = "result" /\ IssuerOf(submissions, vid[r]) \in ActiveIn(trust)
<1> DEFINE issuer == found[r].issuer
           state == TrustAnswered(out, issuer)
           verdict == VerdictAfterTrust(call[r], found[r], state, EvaluatedAt(vid[r]))
<1>a. TypeOK /\ FoundTrue(r)
  BY DEF VerdictInv, ReservationInv, Typed, VerdictFlow, ReadTrust
<1>1. pc'[r] = "result" /\ reply'[r] = Reply(201, "none", vid[r], verdict)
  BY <1>a DEF ReadTrust, Decide, Goto, TypeOK
<1>2. verdict = "allow"
  <2> HIDE DEF verdict
  <2> QED
    BY <1>1 DEF Reply
<1>3. state = "active"
  <2> HIDE DEF state
  <2> QED
    BY <1>2 DEF VerdictAfterTrust
<1>4. issuer \in ActiveIn(trust)
  BY <1>3 DEF TrustAnswered, ActiveIn
<1>5. issuer = IssuerOf(submissions, vid[r])
  BY <1>a, IssuedRowFields DEF FoundTrue, IssuerOf
<1> QED
  BY <1>1, <1>4, <1>5

\* No other step decides on "allow".
LEMMA ResolvingDenies ==
    ASSUME VerdictInv, NEW r \in Requests, NEW out \in Outcomes,
           ResolveByDigest(r, out) \/ ResolveById(r, out), pc'[r] = "result"
    PROVE  reply'[r].status # "allow"
<1> DEFINE envelope == Envelope[call[r].artifact.text]
<1>a. TypeOK /\ WorldOK
  BY DEF VerdictInv, ReservationInv, Typed
<1>1. PICK id \in DOMAIN credentials, byDigest \in BOOLEAN : Resolved(r, credentials[id], byDigest)
  <2> HIDE DEF Resolved
  <2> QED
    BY <1>a DEF ResolveByDigest, ResolveById, Goto, TypeOK
<1> DEFINE verdict == VerdictBeforeTrust(call[r], envelope, credentials[id], byDigest)
<1>2. verdict # "pending" /\ reply'[r] = Reply(201, "none", vid[r], verdict)
  BY <1>a, <1>1 DEF Resolved, Decide, Goto, TypeOK
<1>3. verdict # "allow"
  BY <1>a, <1>2, VerdictTypes DEF WorldOK
<1> QED
  BY <1>2, <1>3 DEF Reply

LEMMA NextVouchFlow ==
    ASSUME VouchInv, Next, Remember, NEW q \in Requests
    PROVE  VouchFlow(q)'
<1>a. Typed /\ TypeOK /\ VerdictInv /\ VouchFlow(q) /\ VerdictFlow(q) /\ RequestFlow(q)
  BY DEF VouchInv, VerdictInv, ReservationInv, Typed, FlowOK
<1>1. ASSUME pc'[q] = "result", reply'[q].status = "allow"
      PROVE  IssuerOf(submissions', vid'[q]) \in vouched'[q]
  <2>1. CASE pc[q] = "result" /\ UNCHANGED reply[q]
    <3>1. UNCHANGED <<call[q], vid[q]>>
      BY <1>a, <2>1, SubmissionStays DEF RequestFlow
    <3>2. submissions'[vid[q]] = submissions[vid[q]]
      BY <1>a, <2>1, NextKeepsRows DEF VerdictFlow, Submitted
    <3> QED
      BY <1>1, <1>a, <2>1, <3>1, <3>2, MemoryGrows DEF VouchFlow, IssuerOf
  <2>2. CASE ~(pc[q] = "result" /\ UNCHANGED reply[q])
    <3>1. Step(q)
      <4>1. PICK r \in Requests : Step(r)
        BY <1>1, <1>a, <2>2, AroundSteps
      <4> QED
        BY <1>1, <1>a, <2>2, <4>1, StepFrame
    <3>2. PICK out \in Outcomes : ReadTrust(q, out) \/ ResolveByDigest(q, out) \/ ResolveById(q, out)
      <4> USE DEF Goto, Fail
      <4>1. PICK out \in Outcomes :
                \/ ReadTrust(q, out) \/ ResolveByDigest(q, out) \/ ResolveById(q, out)
                \/ Reserve(q, out) \/ Lookup(q, out) \/ Allocate(q, out) \/ Submit(q, out)
                \/ StoreResult(q, out) \/ ReadSubmission(q, out) \/ ReadResult(q, out)
                \/ Complete(q, out) \/ Release(q, out) \/ Audit(q, out)
        BY <3>1 DEF Step
      <4>2. ~(Reserve(q, out) \/ Lookup(q, out) \/ Allocate(q, out) \/ Submit(q, out))
        BY <1>1, <1>a DEF Reserve, Lookup, ReservationOutcome, Allocate, Submit, TypeOK
      <4>3. ~(\/ StoreResult(q, out) \/ ReadSubmission(q, out) \/ ReadResult(q, out)
              \/ Complete(q, out) \/ Release(q, out) \/ Audit(q, out))
        BY <1>1, <1>a DEF StoreResult, CompleteStep, ReadSubmission, ReadResult, Complete, Release,
           Audit, TypeOK
      <4> QED
        BY <4>1, <4>2, <4>3
    <3>3. ReadTrust(q, out)
      BY <1>1, <1>a, <3>2, ResolvingDenies
    <3>4. IssuerOf(submissions, vid[q]) \in ActiveIn(trust)
      BY <1>1, <1>a, <3>3, TrustVouches
    <3>5. UNCHANGED <<trust, submissions, vid>>
      BY <3>3 DEF ReadTrust, verifierVars, worldVars
    <3>6. InFlight(q)'
      BY <1>1 DEF InFlight, Steps
    <3> QED
      BY <3>4, <3>5, <3>6, MemoryGrows
  <2> QED
    BY <2>1, <2>2
<1> QED
  BY <1>1, MemoryGrows DEF VouchFlow

LEMMA NextAllowsVouched ==
    ASSUME VouchInv, Next, Remember
    PROVE  AllowsVouched'
<1>a. Typed /\ TypeOK /\ VerdictInv /\ AllowsVouched
  BY DEF VouchInv, VerdictInv, ReservationInv, Typed
<1> SUFFICES ASSUME NEW id \in DOMAIN results', results'[id].verdict = "allow"
             PROVE  \E q \in Requests : /\ call'[q].op = "create" /\ vid'[q] = id
                                        /\ IssuerOf(submissions', id) \in vouched'[q]
  BY DEF AllowsVouched
<1>1. ASSUME NEW q \in Requests, call[q].op = "create", vid[q] = id, id \in DOMAIN submissions,
             IssuerOf(submissions, id) \in vouched[q]
      PROVE  \E p \in Requests : /\ call'[p].op = "create" /\ vid'[p] = id
                                 /\ IssuerOf(submissions', id) \in vouched'[p]
  <2>1. id # NoResource
    BY <1>1, <1>a DEF TypeOK, NoResource
  <2>2. UNCHANGED <<call[q], vid[q]>> /\ submissions'[id] = submissions[id]
    BY <1>1, <1>a, <2>1, SubmissionStays, NextKeepsRows
  <2> QED
    BY <1>1, <2>2, MemoryGrows DEF IssuerOf
<1>2. CASE id \in DOMAIN results
  <2>1. results[id].verdict = "allow" /\ id \in DOMAIN submissions
    BY <1>a, <1>2, NextKeepsRows DEF TypeOK
  <2> QED
    BY <1>1, <1>2, <1>a, <2>1 DEF AllowsVouched
<1>3. CASE id \notin DOMAIN results
  <2>1. PICK r \in Requests : Step(r)
    BY <1>a, <1>3, AroundSteps
  <2>2. pc[r] = "result" /\ id = vid[r] /\ reply[r].status = "allow"
    BY <1>a, <1>3, <2>1, StepResults
  <2>3. call[r].op = "create" /\ id \in DOMAIN submissions /\ IssuerOf(submissions, id) \in vouched[r]
    BY <2>2 DEF VouchInv, VouchFlow, VerdictInv, ReservationInv, Typed, FlowOK, RequestFlow
  <2> QED
    BY <1>1, <2>2, <2>3
<1> QED
  BY <1>2, <1>3

LEMMA NextVouch == VouchInv /\ [TrustNext]_<<vars, vouched>> => VouchInv'
<1> SUFFICES ASSUME VouchInv, [TrustNext]_<<vars, vouched>> PROVE VouchInv'
  OBVIOUS
<1>1. VerdictInv'
  BY NextVerdict DEF VouchInv, TrustNext
<1>2. CASE TrustNext
  BY <1>1, <1>2, NextVouchFlow, NextAllowsVouched DEF TrustNext, VouchInv
<1>3. CASE UNCHANGED <<vars, vouched>>
  <2>1. UNCHANGED <<pc, call, vid, reply, submissions, results, trust, vouched>>
    BY <1>3 DEF vars, requestVars, verifierVars, worldVars
  <2>2. (\A r \in Requests : VouchFlow(r))' /\ AllowsVouched'
    BY <2>1 DEF VouchInv, VouchFlow, InFlight, AllowsVouched
  <2> QED
    BY <1>1, <2>2 DEF VouchInv
<1> QED
  BY <1>2, <1>3

\* For every stored "allow" the registry has held the issuer active while that
\* submission was under way: GetIssuerTrustRecord's answer is the only source
\* of an "active", and a refused, lost, missing or suspended one is a denial.
THEOREM AllowsAreVouchedFor == TrustSpec => []AllowIsVouchedFor
<1>1. TrustInit => VouchInv
  <2> SUFFICES ASSUME TrustInit PROVE VouchInv
    OBVIOUS
  <2>1. \A r \in Requests : pc[r] = "idle"
    BY DEF TrustInit, Init
  <2>2. \A r \in Requests : VouchFlow(r)
    BY <2>1 DEF VouchFlow, InFlight, Steps, AuditSteps
  <2> QED
    BY <2>2, InitVerdict DEF TrustInit, Init, VouchInv, AllowsVouched
<1>2. VouchInv => AllowIsVouchedFor
  <2> SUFFICES ASSUME VouchInv, NEW id \in DOMAIN results, results[id].verdict = "allow"
               PROVE  credentials[submissions[id].credential].issuer = IssuerOf(submissions, id)
    BY DEF VouchInv, AllowsVouched, AllowIsVouchedFor
  <2>1. submissions[id].credential \in DOMAIN credentials
    BY DEF VouchInv, VerdictInv, ResultsTrue, ResultTrue, AllowTrue
  <2> QED
    BY <2>1, IssuedRowFields DEF IssuerOf, VouchInv, VerdictInv, ReservationInv, Typed, WorldOK
<1> QED
  BY <1>1, <1>2, NextVouch, PTL DEF TrustSpec

-----------------------------------------------------------------------------
(* Decisions: a stored submission goes on to its end, or what becomes of it. *)

\* The ends of a submission while nothing fails.
Concluded(r) ==
    \/ vid[r] \in DOMAIN results
    \/ \E a \in DOMAIN audits : audits[a].resource = vid[r] /\ audits[a].outcome = "failed"
    \/ SharesId(r)

\* The submission of r is on its way, or has come to its end.
DecisionFlow(r) ==
    /\ ~expired[r]
    /\ call[r].op = "create" /\ vid[r] \in DOMAIN submissions =>
            \/ pc[r] \in {"digest", "byid", "trust", "result"}
            \/ pc[r] = "audit_failed" /\ reply[r].resource = vid[r]
            \/ Concluded(r)

\* Every audit record is under the X-Request-ID of a request that has been
\* past its audit.
AuditOwned(a) ==
    \E q \in Requests : /\ pc[q] \in {"complete", "audit", "release", "done", "lost"}
                        /\ call[q].requestId = a[1]
AuditsOwned == \A a \in DOMAIN audits : AuditOwned(a)

DecisionInv ==
    /\ VerdictInv
    /\ Spent
    /\ AuditsOwned
    /\ Calm => \A r \in Requests : DecisionFlow(r)

LEMMA StepStatement ==
    ASSUME NEW r \in Requests, Step(r)
    PROVE  \E out \in Outcomes : Statement(r, out)
BY DEF Step, Reserve, Lookup, Allocate, Submit, ResolveByDigest, ResolveById, ReadTrust, StoreResult,
   ReadSubmission, ReadResult, Complete, Release, Audit, Query

\* What one step does to failures: none is regained.
LEMMA NextSpent ==
    ASSUME DecisionInv, [Next]_vars
    PROVE  Spent' /\ (Calm' => Calm)
<1>a. Typed /\ ContextTypeOK /\ ContextTypeOK'
  BY NextTyped DEF DecisionInv, VerdictInv, ReservationInv, Typed, TypeOK
<1>1. \A kind \in Failures : budget'[kind] <= budget[kind]
  <2>1. ASSUME UNCHANGED budget PROVE \A kind \in Failures : budget'[kind] <= budget[kind]
    BY <1>a, <2>1 DEF ContextTypeOK
  <2>2. ASSUME NEW r \in Requests, Step(r) PROVE \A kind \in Failures : budget'[kind] <= budget[kind]
    BY <1>a, <2>2, StepStatement, StatementShrinks
  <2>3. ASSUME NEW failure \in Failures, Spend(failure)
        PROVE  \A kind \in Failures : budget'[kind] <= budget[kind]
    BY <1>a, <2>3, SpendShrinks
  <2>4. World => UNCHANGED budget
    BY <1>a, WorldStep DEF contextVars
  <2> QED
    BY <2>1, <2>2, <2>3, <2>4
       DEF Next, Refuse, Arrive, Expire, ExpireContext, Crash, vars, contextVars, Failures
<1>2. Spent'
  BY <1>a, <1>1, BudgetAssumption DEF DecisionInv, Spent, ContextTypeOK
<1> QED
  BY <1>a, <1>1, <1>2, ShrinkingStaysCalm DEF DecisionInv

\* An end stays an end.
LEMMA ConcludedStays ==
    ASSUME NEW q \in Requests, Concluded(q), RowsKept,
           UNCHANGED <<call[q], vid[q]>>,
           \A p \in Requests : pc[p] # "idle" => pc'[p] # "idle" /\ call'[p] = call[p]
    PROVE  Concluded(q)'
<1>1. SharesId(q) => SharesId(q)'
  BY DEF SharesId
<1> QED
  BY <1>1 DEF Concluded, RowsKept

LEMMA StepMoves ==
    ASSUME Typed, NEW r \in Requests, Step(r)
    PROVE  /\ InFlight(r) /\ pc'[r] # "idle"
           /\ \A p \in Requests : pc[p] # "idle" => pc'[p] # "idle" /\ call'[p] = call[p]
<1> USE DEF Goto
<1>a. TypeOK
  BY DEF Typed
<1>1. InFlight(r)
  BY DEF InFlight, Steps, Step, Reserve, Lookup, Allocate, Submit, ResolveByDigest, ResolveById,
     ReadTrust, StoreResult, ReadSubmission, ReadResult, Complete, Release, Audit
<1>2. pc'[r] # "idle"
  BY <1>a DEF Step, Reserve, Lookup, ReservationOutcome, Allocate, Submit, ResolveByDigest,
     ResolveById, Resolved, Decide, ReadTrust, StoreResult, CompleteStep, ReadSubmission, ReadResult,
     Complete, Release, Audit, Fail, TypeOK
<1> QED
  BY <1>a, <1>1, <1>2, StepFrame

LEMMA StepAuditsOwned ==
    ASSUME DecisionInv, NEW r \in Requests, Step(r)
    PROVE  AuditsOwned'
<1> USE DEF Goto
<1> DEFINE Past == {"complete", "audit", "release", "done", "lost"}
<1>a. TypeOK /\ AuditsOwned
  BY DEF DecisionInv, VerdictInv, ReservationInv, Typed
<1>b. call' = call /\ \A q \in Requests : q # r => pc'[q] = pc[q]
  BY <1>a, StepFrame
<1>c. pc[r] \in Past => pc'[r] \in Past
  BY <1>a DEF Step, Reserve, Lookup, Allocate, Submit, ResolveByDigest, ResolveById, ReadTrust,
     StoreResult, ReadSubmission, ReadResult, Complete, Release, Audit, Fail, TypeOK
<1>d. \A a \in DOMAIN audits : AuditOwned(a)'
  BY <1>a, <1>b, <1>c DEF AuditsOwned, AuditOwned
<1>1. CASE UNCHANGED audits
  BY <1>1, <1>d DEF AuditsOwned
<1>2. ASSUME NEW out \in Outcomes, Audit(r, out) PROVE AuditsOwned'
  <2>1. \A a \in DOMAIN audits' : a \in DOMAIN audits \/ a = AuditId(call[r], pc[r])
    BY <1>2 DEF Audit, AppendAuditRecord, InsertRow
  <2>2. pc'[r] \in Past
    BY <1>2, <1>a DEF Audit, TypeOK
  <2>3. AuditId(call[r], pc[r])[1] = call'[r].requestId
    BY <1>b DEF AuditId
  <2>4. \A a \in DOMAIN audits' : AuditOwned(a)'
    BY <1>d, <2>1, <2>2, <2>3 DEF AuditOwned
  <2> QED
    BY <2>4 DEF AuditsOwned
<1> QED
  BY <1>1, <1>2 DEF Step, Reserve, Lookup, Allocate, Submit, ResolveByDigest, ResolveById, ReadTrust,
     StoreResult, ReadSubmission, ReadResult, Complete, Release, verifierVars

\* Only the request itself stores its submission.
LEMMA StepSubmits ==
    ASSUME VerdictInv, NEW r \in Requests, Step(r), NEW id \in DOMAIN submissions',
           id \notin DOMAIN submissions
    PROVE  pc[r] = "submit" /\ id = vid[r] /\ vid'[r] = vid[r]
<1>1. PICK out \in Outcomes : Submit(r, out)
  BY DEF Step, Reserve, Lookup, Allocate, StoreResult, ResolveByDigest, ResolveById, ReadTrust,
         ReadSubmission, ReadResult, Complete, Release, Audit, verifierVars
<1> QED
  BY <1>1 DEF Submit, InsertRow

LEMMA StepDecision ==
    ASSUME DecisionInv, NEW r \in Requests, Step(r), Calm, Calm'
    PROVE  \A q \in Requests : DecisionFlow(q)'
<1> USE DEF Goto
<1>a. /\ Typed /\ TypeOK /\ RequestFlow(r) /\ VerdictFlow(r) /\ DecisionFlow(r) /\ RowsKept
      /\ ContextTypeOK /\ Spent /\ VerdictInv /\ ~expired[r]
  BY StepKeepsRows
     DEF DecisionInv, VerdictInv, ReservationInv, Typed, FlowOK, TypeOK, DecisionFlow
<1>b. /\ call' = call
      /\ \A q \in Requests : q # r => UNCHANGED <<pc[q], vid[q], reply[q]>>
  BY <1>a, StepFrame
<1>c. \A out \in Outcomes : Statement(r, out) => Acked(out) /\ Reaches(out) /\ UNCHANGED expired
  BY <1>a, CalmStatement
<1>d. \A q \in Requests : Concluded(q) /\ vid'[q] = vid[q] => Concluded(q)'
  BY <1>a, <1>b, StepMoves, ConcludedStays
<1>e. UNCHANGED expired
  BY <1>c, StepStatement
<1>1. ASSUME NEW q \in Requests, q # r PROVE DecisionFlow(q)'
  <2>1. DecisionFlow(q) /\ UNCHANGED <<pc[q], call[q], vid[q], reply[q]>>
    BY <1>1, <1>b DEF DecisionInv
  <2>2. call[q].op = "create" /\ vid[q] \in DOMAIN submissions' => vid[q] \in DOMAIN submissions
    <3>1. ASSUME call[q].op = "create", vid[q] \in DOMAIN submissions', vid[q] \notin DOMAIN submissions
          PROVE  FALSE
      <4>1. pc[r] = "submit" /\ vid[q] = vid[r]
        BY <1>a, <3>1, StepSubmits
      <4> QED
        BY <1>1, <1>a, <3>1, <4>1 DEF RequestFlow, VerdictInv, DistinctVerifications
    <3> QED
      BY <3>1
  <2> QED
    BY <1>d, <1>e, <2>1, <2>2 DEF DecisionFlow
<1> DEFINE Going == \/ pc'[r] \in {"digest", "byid", "trust", "result"}
                    \/ pc'[r] = "audit_failed" /\ reply'[r].resource = vid'[r]
                    \/ Concluded(r)'
<1>f. (call[r].op = "create" /\ vid'[r] \in DOMAIN submissions' => Going) => DecisionFlow(r)'
  BY <1>a, <1>b, <1>e DEF DecisionFlow
<1>g. ASSUME UNCHANGED <<submissions, vid>>,
             pc[r] \notin {"digest", "byid", "trust", "result", "audit_failed"}
      PROVE  DecisionFlow(r)'
  BY <1>a, <1>b, <1>d, <1>f, <1>g DEF DecisionFlow
<1>2. ASSUME NEW out \in Outcomes,
             \/ Reserve(r, out) \/ Lookup(r, out) \/ ReadResult(r, out)
             \/ Complete(r, out) \/ Release(r, out)
      PROVE  DecisionFlow(r)'
  BY <1>2, <1>g DEF Reserve, Lookup, ReadResult, Complete, Release, verifierVars
<1>3. ASSUME NEW out \in Outcomes, ReadSubmission(r, out) PROVE DecisionFlow(r)'
  BY <1>3, <1>a, <1>f DEF ReadSubmission, RequestFlow
<1>4. ASSUME NEW out \in Outcomes, Allocate(r, out) PROVE DecisionFlow(r)'
  BY <1>4, <1>a, <1>c, <1>f DEF Allocate, NextSequence, TypeOK
<1>5. ASSUME NEW out \in Outcomes, Submit(r, out) PROVE DecisionFlow(r)'
  <2>1. CASE vid[r] \in DOMAIN submissions
    <3>1. Concluded(r) /\ vid'[r] = vid[r]
      BY <1>5, <1>a, <2>1 DEF Submit, DecisionFlow, RequestFlow
    <3> QED
      BY <1>d, <1>f, <3>1
  <2>2. CASE vid[r] \notin DOMAIN submissions
    BY <1>5, <1>a, <1>c, <1>f, <2>2 DEF Submit, TypeOK
  <2> QED
    BY <2>1, <2>2
<1>6. ASSUME NEW out \in Outcomes, ResolveByDigest(r, out) PROVE DecisionFlow(r)'
  <2>1. pc'[r] \in {"byid", "trust", "result"}
    BY <1>6, <1>a DEF ResolveByDigest, Resolved, Decide, TypeOK
  <2> QED
    BY <1>f, <2>1
<1>7. ASSUME NEW out \in Outcomes, ResolveById(r, out) PROVE DecisionFlow(r)'
  <2>1. \/ pc'[r] \in {"trust", "result"}
        \/ pc'[r] = "audit_failed" /\ reply'[r] = Reply(404, "credential_not_found", vid[r], "none")
    BY <1>7, <1>a DEF ResolveById, Resolved, Decide, TypeOK
  <2>2. vid' = vid
    BY <1>7 DEF ResolveById
  <2> QED
    BY <1>f, <2>1, <2>2 DEF Reply
<1>8. ASSUME NEW out \in Outcomes, ReadTrust(r, out) PROVE DecisionFlow(r)'
  BY <1>8, <1>a, <1>f DEF ReadTrust, Decide, TypeOK
<1>9. ASSUME NEW out \in Outcomes, StoreResult(r, out) PROVE DecisionFlow(r)'
  <2>1. vid'[r] \in DOMAIN results'
    BY <1>9, <1>c DEF StoreResult, InsertRow
  <2> QED
    BY <1>f, <2>1 DEF Concluded
<1>10. ASSUME NEW out \in Outcomes, Audit(r, out) PROVE DecisionFlow(r)'
  <2>1. CASE pc[r] # "audit_failed"
    BY <1>10, <1>g, <2>1 DEF Audit, AuditSteps
  <2>2. CASE pc[r] = "audit_failed"
    <3> DEFINE id == AuditId(call[r], pc[r])
               verdict == IF call[r].op = "read" THEN "none" ELSE reply[r].status
               row == AuditRow(call[r].caller, call[r].op, reply[r].resource,
                               AuditOutcome(pc[r], verdict))
    <3>1. /\ audits' = AppendAuditRecord(audits, id, row)
          /\ UNCHANGED <<vid, submissions>>
      BY <1>10, <1>c DEF Audit
    <3>2. Concluded(r) \/ row.resource = vid[r]
      BY <1>a, <2>2 DEF DecisionFlow, RequestFlow, AuditRow
    <3>3. row.outcome = "failed"
      BY <2>2 DEF AuditRow, AuditOutcome
    <3>4. CASE id \in DOMAIN audits
      <4>1. AuditOwned(id) /\ id[1] = call[r].requestId
        BY <3>4 DEF DecisionInv, AuditsOwned, AuditId
      <4>2. SharesId(r)
        BY <2>2, <4>1 DEF AuditOwned, SharesId
      <4> QED
        BY <1>d, <1>f, <3>1, <4>2 DEF Concluded
    <3>5. CASE id \notin DOMAIN audits /\ row.resource = vid[r]
      <4>1. id \in DOMAIN audits' /\ audits'[id] = row
        BY <3>1, <3>5 DEF AppendAuditRecord, InsertRow
      <4> QED
        BY <1>f, <3>1, <3>3, <3>5, <4>1 DEF Concluded
    <3> QED
      BY <1>d, <1>f, <3>1, <3>2, <3>4, <3>5
  <2> QED
    BY <2>1, <2>2
<1> QED
  BY <1>1, <1>2, <1>3, <1>4, <1>5, <1>6, <1>7, <1>8, <1>9, <1>10 DEF Step

LEMMA NextDecision == DecisionInv /\ [Next]_vars => DecisionInv'
<1> SUFFICES ASSUME DecisionInv, [Next]_vars PROVE DecisionInv'
  OBVIOUS
<1>a. Typed /\ TypeOK /\ ContextTypeOK /\ Spent /\ VerdictInv /\ AuditsOwned
  BY DEF DecisionInv, VerdictInv, ReservationInv, Typed, TypeOK
<1>b. VerdictInv' /\ Spent' /\ (Calm' => Calm)
  BY <1>a, NextVerdict, NextSpent
<1> DEFINE Rest == AuditsOwned' /\ (Calm' => \A q \in Requests : DecisionFlow(q)')
<1>c. \A failure \in Failures : Spend(failure) => ~Calm'
  BY <1>a, NothingSpent
<1>d. ASSUME UNCHANGED <<requestVars, submissions, results, audits, expired>> PROVE Rest
  <2>1. AuditsOwned'
    BY <1>a, <1>d DEF requestVars, AuditsOwned, AuditOwned
  <2>2. ASSUME NEW q \in Requests, DecisionFlow(q) PROVE DecisionFlow(q)'
    BY <1>d, <2>2 DEF requestVars, DecisionFlow, Concluded, SharesId
  <2> QED
    BY <1>b, <2>1, <2>2 DEF DecisionInv
<1>1. ASSUME NEW r \in Requests, NEW c \in Calls, Refuse(r, c) \/ Arrive(r, c) PROVE Rest
  <2>a. pc[r] = "idle" /\ vid[r] = NoResource
    BY <1>1, <1>a DEF Refuse, Arrive, VerdictInv, VerdictFlow
  <2>b. /\ UNCHANGED <<vid, submissions, results, audits, expired>>
        /\ \A q \in Requests : q # r => UNCHANGED <<pc[q], call[q], reply[q]>>
    BY <1>1, <1>a DEF Refuse, Arrive, Goto, verifierVars, contextVars, TypeOK
  <2>1. AuditsOwned'
    BY <1>a, <2>a, <2>b DEF AuditsOwned, AuditOwned
  <2>2. \A p \in Requests : pc[p] # "idle" => pc'[p] # "idle" /\ call'[p] = call[p]
    BY <2>a, <2>b
  <2>3. ASSUME NEW q \in Requests, q # r, DecisionFlow(q) PROVE DecisionFlow(q)'
    <3>1. Concluded(q) => Concluded(q)'
      BY <2>2, <2>3, <2>b, ConcludedStays DEF RowsKept
    <3> QED
      BY <2>3, <2>b, <3>1 DEF DecisionFlow
  <2>4. DecisionFlow(r) => DecisionFlow(r)'
    BY <1>a, <2>a, <2>b DEF DecisionFlow, TypeOK, NoResource
  <2> QED
    BY <1>b, <2>1, <2>3, <2>4 DEF DecisionInv
<1>2. ASSUME NEW r \in Requests, Step(r) PROVE Rest
  BY <1>2, <1>b, StepAuditsOwned, StepDecision
<1>3. ASSUME NEW r \in Requests, Expire(r) PROVE Rest
  <2>1. AuditsOwned'
    BY <1>3, <1>a DEF Expire, requestVars, verifierVars, AuditsOwned, AuditOwned
  <2> QED
    BY <1>3, <1>c, <2>1 DEF Expire, ExpireContext, Failures
<1>4. ASSUME Crash PROVE Rest
  <2>1. AuditsOwned'
    BY <1>4, <1>a DEF Crash, InFlight, Steps, verifierVars, AuditsOwned, AuditOwned, TypeOK
  <2> QED
    BY <1>4, <1>c, <2>1 DEF Crash, Failures
<1>5. ASSUME World PROVE Rest
  BY <1>5, <1>a, <1>d, WorldStep DEF verifierVars, contextVars
<1>6. ASSUME UNCHANGED vars PROVE Rest
  BY <1>6, <1>d DEF vars, verifierVars, contextVars
<1>7. Rest
  BY <1>1, <1>2, <1>3, <1>4, <1>5, <1>6 DEF Next
<1> QED
  BY <1>b, <1>7 DEF DecisionInv

LEMMA InitDecision == Init => DecisionInv
<1> SUFFICES ASSUME Init PROVE DecisionInv
  OBVIOUS
<1>1. Spent
  BY BudgetAssumption DEF Init, ContextInit, Spent
<1>2. AuditsOwned /\ \A r \in Requests : DecisionFlow(r)
  BY DEF Init, ContextInit, AuditsOwned, DecisionFlow, NoCall
<1> QED
  BY <1>1, <1>2, InitVerdict DEF DecisionInv

-----------------------------------------------------------------------------
(* Decisions, whatever fails: a submission without a result has its cause.   *)

\* The request of a submission without a result is deciding it, or has gone
\* wrong in a way that its caller is told of, if it is told anything.
UndecidedFlow(r) ==
    call[r].op = "create" /\ vid[r] \in DOMAIN submissions \ DOMAIN results =>
        \/ pc[r] \in {"digest", "byid", "trust", "result", "lost"}
        \/ /\ pc[r] \in {"audit_failed", "complete"}
           /\ reply[r].error = "credential_not_found" /\ ~Success(reply[r])
        \/ /\ pc[r] \in {"release", "done"}
           /\ reply[r].error \in {"persistence_error", "credential_not_found"}

\* Every submission is some request's.
SubmissionsOwned ==
    \A id \in DOMAIN submissions : \E r \in Requests : call[r].op = "create" /\ vid[r] = id

UndecidedInv ==
    /\ DecisionInv
    /\ SubmissionsOwned
    /\ \A r \in Requests : UndecidedFlow(r)

\* A failure after the submission leaves the request answered, or about to be.
LEMMA FailedFlow ==
    ASSUME TypeOK, NEW r \in Requests, Fail(r, PersistenceError)
    PROVE  UndecidedFlow(r)'
<1>1. reply'[r].error = "persistence_error" /\ pc'[r] \in {"release", "done"}
  BY DEF Fail, Goto, TypeOK, PersistenceError, Refusal, Reply
<1> QED
  BY <1>1 DEF UndecidedFlow

LEMMA StepUndecided ==
    ASSUME UndecidedInv, NEW r \in Requests, Step(r)
    PROVE  UndecidedFlow(r)'
<1> USE DEF Goto
<1>a. /\ TypeOK /\ RequestFlow(r) /\ VerdictFlow(r) /\ UndecidedFlow(r) /\ VerdictInv
      /\ call' = call /\ RowsKept
  BY StepFrame, StepKeepsRows
     DEF UndecidedInv, DecisionInv, VerdictInv, ReservationInv, Typed, FlowOK
<1>b. ASSUME pc'[r] \in {"digest", "byid", "trust", "result"} PROVE UndecidedFlow(r)'
  BY <1>b DEF UndecidedFlow
<1>c. ASSUME UNCHANGED <<vid, submissions>>,
             ~(call[r].op = "create" /\ vid[r] \in DOMAIN submissions \ DOMAIN results)
      PROVE  UndecidedFlow(r)'
  BY <1>a, <1>c DEF UndecidedFlow, RowsKept
<1>d. ASSUME UNCHANGED <<vid, submissions>>,
             pc[r] \notin {"digest", "byid", "trust", "result", "audit_failed", "complete", "release"},
             pc[r] \notin {"lost", "done"}
      PROVE  UndecidedFlow(r)'
  BY <1>a, <1>c, <1>d DEF UndecidedFlow
<1>1. ASSUME NEW out \in Outcomes, Reserve(r, out) \/ Lookup(r, out) \/ ReadResult(r, out)
      PROVE  UndecidedFlow(r)'
  BY <1>1, <1>d DEF Reserve, Lookup, ReadResult, verifierVars
<1>2. ASSUME NEW out \in Outcomes, ReadSubmission(r, out) PROVE UndecidedFlow(r)'
  BY <1>2, <1>a DEF ReadSubmission, RequestFlow, UndecidedFlow
<1>3. ASSUME NEW out \in Outcomes, Allocate(r, out) PROVE UndecidedFlow(r)'
  <2>1. submissions' = submissions /\ vid'[r] \notin DOMAIN submissions
    BY <1>3, <1>a DEF Allocate, NextSequence, TypeOK, VerdictFlow, NoResource
  <2> QED
    BY <2>1 DEF UndecidedFlow
<1>4. ASSUME NEW out \in Outcomes, Submit(r, out) PROVE UndecidedFlow(r)'
  BY <1>4, <1>a, <1>b, FailedFlow DEF Submit, TypeOK
<1>5. ASSUME NEW out \in Outcomes, ResolveByDigest(r, out) PROVE UndecidedFlow(r)'
  <2>1. pc'[r] \in {"byid", "trust", "result"}
    BY <1>5, <1>a DEF ResolveByDigest, Resolved, Decide, TypeOK
  <2> QED
    BY <1>b, <2>1
<1>6. ASSUME NEW out \in Outcomes, ResolveById(r, out) PROVE UndecidedFlow(r)'
  <2>1. \/ pc'[r] \in {"trust", "result"}
        \/ pc'[r] = "audit_failed" /\ reply'[r] = Reply(404, "credential_not_found", vid[r], "none")
    BY <1>6, <1>a DEF ResolveById, Resolved, Decide, TypeOK
  <2> QED
    BY <1>b, <2>1 DEF Reply, Success, UndecidedFlow
<1>7. ASSUME NEW out \in Outcomes, ReadTrust(r, out) PROVE UndecidedFlow(r)'
  BY <1>7, <1>a, <1>b DEF ReadTrust, Decide, TypeOK
<1>8. ASSUME NEW out \in Outcomes, StoreResult(r, out) PROVE UndecidedFlow(r)'
  <2>1. CASE Acked(out) /\ vid[r] \notin DOMAIN results
    <3>1. vid'[r] \in DOMAIN results'
      BY <1>8, <2>1 DEF StoreResult, InsertRow, Acked, Reaches
    <3> QED
      BY <3>1 DEF UndecidedFlow
  <2>2. CASE ~(Acked(out) /\ vid[r] \notin DOMAIN results)
    BY <1>8, <1>a, <2>2, FailedFlow DEF StoreResult
  <2> QED
    BY <2>1, <2>2
<1>9. ASSUME NEW out \in Outcomes, Complete(r, out) PROVE UndecidedFlow(r)'
  <2>1. CASE Fail(r, PersistenceError)
    BY <1>a, <2>1, FailedFlow
  <2>2. CASE ~Fail(r, PersistenceError)
    <3>1. /\ pc[r] = "complete" /\ pc'[r] = (IF Success(reply[r]) THEN "audit" ELSE "done")
          /\ UNCHANGED <<reply, vid, submissions>>
      BY <1>9, <1>a, <2>2 DEF Complete, TypeOK
    <3> QED
      BY <1>a, <1>c, <3>1 DEF UndecidedFlow
  <2> QED
    BY <2>1, <2>2
<1>10. ASSUME NEW out \in Outcomes, Release(r, out) PROVE UndecidedFlow(r)'
  <2>1. pc[r] = "release" /\ pc'[r] = "done" /\ UNCHANGED <<reply, vid, submissions>>
    BY <1>10, <1>a DEF Release, TypeOK
  <2> QED
    BY <1>a, <1>c, <2>1 DEF UndecidedFlow
<1>11. ASSUME NEW out \in Outcomes, Audit(r, out) PROVE UndecidedFlow(r)'
  <2>1. CASE pc[r] # "audit_failed"
    BY <1>11, <1>d, <2>1 DEF Audit, AuditSteps
  <2>2. CASE pc[r] = "audit_failed"
    <3>1. pc'[r] \in {"complete", "done"} /\ UNCHANGED <<reply, vid, submissions>>
      BY <1>11, <1>a DEF Audit, TypeOK
    <3> QED
      BY <1>a, <1>c, <2>2, <3>1 DEF UndecidedFlow
  <2> QED
    BY <2>1, <2>2
<1> QED
  BY <1>1, <1>2, <1>3, <1>4, <1>5, <1>6, <1>7, <1>8, <1>9, <1>10, <1>11 DEF Step

LEMMA NextUndecided == UndecidedInv /\ [Next]_vars => UndecidedInv'
<1> SUFFICES ASSUME UndecidedInv, [Next]_vars PROVE UndecidedInv'
  OBVIOUS
<1>a. Typed /\ TypeOK /\ VerdictInv /\ DecisionInv
  BY DEF UndecidedInv, DecisionInv, VerdictInv, ReservationInv, Typed
<1>b. DecisionInv'
  BY <1>a, NextDecision
<1>c. ASSUME NEW id \in DOMAIN submissions
      PROVE  \E q \in Requests : call'[q].op = "create" /\ vid'[q] = id
  <2>1. PICK q \in Requests : call[q].op = "create" /\ vid[q] = id
    BY DEF UndecidedInv, SubmissionsOwned
  <2>2. vid[q] # NoResource
    BY <1>a, <2>1 DEF TypeOK, NoResource
  <2> QED
    BY <1>a, <2>1, <2>2, SubmissionStays
<1>1. SubmissionsOwned'
  <2> SUFFICES ASSUME NEW id \in DOMAIN submissions', id \notin DOMAIN submissions
               PROVE  \E q \in Requests : call'[q].op = "create" /\ vid'[q] = id
    BY <1>c DEF SubmissionsOwned
  <2>1. PICK r \in Requests : Step(r)
    BY <1>a, AroundSteps
  <2>2. pc[r] = "submit" /\ id = vid[r] /\ vid'[r] = vid[r] /\ call' = call
    BY <1>a, <2>1, StepSubmits, StepFrame
  <2> QED
    BY <1>a, <2>2 DEF Typed, FlowOK, RequestFlow
<1>2. ASSUME NEW q \in Requests PROVE UndecidedFlow(q)'
  <2>a. UndecidedFlow(q)
    BY DEF UndecidedInv
  <2>1. ASSUME NEW r \in Requests, Step(r) PROVE UndecidedFlow(q)'
    <3>1. CASE q = r
      BY <2>1, <3>1, StepUndecided
    <3>2. CASE q # r
      <4>1. UNCHANGED <<pc[q], call[q], vid[q], reply[q]>>
        BY <1>a, <2>1, <3>2, StepFrame
      <4>2. ASSUME call[q].op = "create", vid[q] \in DOMAIN submissions', vid[q] \notin DOMAIN submissions
            PROVE  FALSE
        <5>1. pc[r] = "submit" /\ vid[q] = vid[r]
          BY <1>a, <2>1, <4>2, StepSubmits
        <5> QED
          BY <1>a, <3>2, <4>2, <5>1
             DEF Typed, FlowOK, RequestFlow, VerdictInv, DistinctVerifications
      <4> QED
        BY <1>a, <2>a, <4>1, <4>2, NextKeepsRows DEF UndecidedFlow
    <3> QED
      BY <3>1, <3>2
  <2>2. ASSUME \A r \in Requests : ~Step(r) PROVE UndecidedFlow(q)'
    <3>1. UNCHANGED <<vid, submissions, results>>
      BY <1>a, <2>2, AroundSteps
    <3>2. CASE UNCHANGED <<pc[q], call[q], reply[q]>>
      BY <2>a, <3>1, <3>2 DEF UndecidedFlow
    <3>3. CASE pc[q] = "idle"
      <4>1. vid[q] \notin DOMAIN submissions
        BY <1>a, <3>3 DEF VerdictInv, VerdictFlow, TypeOK, NoResource
      <4> QED
        BY <3>1, <4>1 DEF UndecidedFlow
    <3>4. CASE pc'[q] = "lost"
      BY <3>4 DEF UndecidedFlow
    <3> QED
      BY <1>a, <2>2, <3>2, <3>3, <3>4, AroundSteps
  <2> QED
    BY <2>1, <2>2
<1> QED
  BY <1>b, <1>1, <1>2 DEF UndecidedInv

\* No submission is left hanging without a cause: one without a result is on
\* its way, went down with the process, or its caller was told of the failure,
\* with an audit record of it unless a statement failed or a second request
\* with its X-Request-ID crowded it out.
THEOREM SubmissionsEnd == Spec => []SubmissionsAreDecided
<1>1. Init => UndecidedInv
  BY InitDecision DEF Init, UndecidedInv, SubmissionsOwned, UndecidedFlow, NoCall
<1>2. UndecidedInv => SubmissionsAreDecided
  <2> SUFFICES ASSUME UndecidedInv, NEW id \in DOMAIN submissions \ DOMAIN results
               PROVE  \E r \in Requests :
                        /\ call[r].op = "create" /\ vid[r] = id
                        /\ InFlight(r) \/ pc[r] = "lost" \/ ToldOfFailure(r)
    BY DEF SubmissionsAreDecided
  <2>1. PICK r \in Requests : call[r].op = "create" /\ vid[r] = id
    BY DEF UndecidedInv, SubmissionsOwned
  <2>2. UndecidedFlow(r) /\ (budget = Budget => DecisionFlow(r))
    BY DEF UndecidedInv, DecisionInv, Calm
  <2>3. CASE pc[r] = "done"
    BY <2>1, <2>2, <2>3 DEF UndecidedFlow, DecisionFlow, Concluded, ToldOfFailure, Answered
  <2>4. CASE pc[r] # "done"
    BY <2>1, <2>2, <2>4 DEF UndecidedFlow, InFlight, Steps, AuditSteps
  <2> QED
    BY <2>1, <2>3, <2>4
<1> QED
  BY <1>1, <1>2, NextUndecided, PTL DEF Spec
=============================================================================
