---------------------------- MODULE VerifierApi ----------------------------
(***************************************************************************)
(* The verifier service (services/verifier-api/internal/httpapi/phase1.go):*)
(* submitting a credential artifact for verification, and reading a result *)
(* back.  A verification reads the issuer's credential table and asks the  *)
(* trust registry, one after the other, while the issuer revokes and the   *)
(* registry changes its mind; requests interleave between any two SQL      *)
(* statements, which fail, expire and crash as in RequestContext.          *)
(***************************************************************************)
EXTENDS Integers, Phase1Sql, RequestContext

CONSTANTS Calls,          \* the HTTP calls that clients make
          OrgOf,          \* the organization each caller is attributed to
          NoKey,          \* stands for an absent Idempotency-Key header
          NoClaim,        \* stands for an absent credentialId field
          Envelope,       \* what a well-formed artifact text decodes to
          DefaultPolicy,  \* the policy that is known
          DefaultTemplate,\* the template it is compatible with
          Issuable,       \* the artifact text of every credential id
          Issued,         \* the credentials that exist at the start
          TrustTables,    \* what the trust registry may hold: issuer -> state
          LastMinute      \* bound on the clock

CredentialIds == DOMAIN Issuable
ASSUME IssuableAssumption ==
    /\ \A id \in CredentialIds : /\ Issuable[id] \in DOMAIN Envelope
                                 /\ Envelope[Issuable[id]].id = id
    /\ Issued \subseteq CredentialIds
ASSUME EnvelopeAssumption == \A text \in DOMAIN Envelope : Envelope[text].expires \in Int
ASSUME CallsAssumption ==
    \A c \in Calls : /\ c.op \in {"create", "read"}
                     /\ c.caller \in DOMAIN OrgOf
                     /\ c.target \in Nat

VARIABLES
    (* the requests *)
    pc,           \* pc[r]: the statement r runs next
    call,         \* call[r]: what r was asked, once it has arrived
    open,         \* open[r]: the handler's reservationOpen
    vid,          \* vid[r]: the verification r allocated or loaded
    found,        \* found[r]: the credential row r resolved, as it was then
    reply,        \* reply[r]: the response r has prepared or given
    (* the database *)
    sequence,     \* phase1_sequences, row "verification"
    submissions,  \* verifier_api_verification_request_records
    results,      \* verifier_api_verification_result_records
    idempotency,  \* phase1_idempotency_records
    audits,       \* phase1_audit_records
    (* what the service does not own *)
    credentials,  \* issuer_api_credential_records
    trust,        \* the trust registry: issuer -> trust state
    clock,        \* minutes since verificationBaseTime
    (* history *)
    spoiled,      \* spoiled[r]: the credentials not active when r arrived
    arrived       \* arrived[r]: the minute r arrived

requestVars == <<pc, call, open, vid, found, reply>>
verifierVars == <<sequence, submissions, results, idempotency, audits>>
worldVars == <<credentials, trust, clock>>
history == <<spoiled, arrived>>
vars == <<requestVars, verifierVars, worldVars, history, contextVars>>

-----------------------------------------------------------------------------
(* What the handlers compute from a call.                                  *)

Org(c) == OrgOf[c.caller]
Keyed(c) == c.op = "create" /\ c.key # NoKey
SlotOf(c) == <<c.op, c.caller, c.key>>

\* The fingerprint hashes the trimmed artifact, the digest the raw one: an
\* artifact is its text and whether it came with white space around it.
Fingerprint(c) == <<c.policy, c.claim, c.artifact.text>>
Digest(artifact) == artifact
Genuine(text) == [text |-> text, padded |-> FALSE]

\* What is refused before any statement: attribution, scope, body.
FrontDoor(c) ==
    CASE c.auth = "unavailable" -> Refusal(503, "auth_unavailable")
      [] c.auth = "unauthenticated" -> Refusal(401, "unauthenticated")
      [] c.auth = "ok" /\ c.op \notin c.scopes -> Refusal(403, "insufficient_scope")
      [] c.auth = "ok" /\ c.op \in c.scopes /\ ~c.wellFormed ->
            Refusal(400, "invalid_request")
      [] OTHER -> NoReply

FirstStep(c) == CASE c.op = "read" -> "read"
                  [] Keyed(c) -> "reserve"
                  [] OTHER -> "allocate"
CompleteStep(c) == IF Keyed(c) THEN "complete" ELSE "audit"

-----------------------------------------------------------------------------
(* Evaluation.                                                             *)

\* The evaluation time is a function of the identifier, not of the clock.
EvaluatedAt(id) == id - 1

\* An evaluation that forgets what the issuer stored.
ExpiryOnly(row, minute) == IF minute > row.expires THEN "expired" ELSE "active"

\* credentialStatusForEvaluation.
StatusForEvaluation(row, minute) ==
    IF row.status # "active" THEN row.status
    ELSE IF minute > row.expires THEN "expired"
    ELSE "active"

\* An artifact is accepted when its envelope matches, whatever its digest.
MatchesEnvelope(byDigest, envelope, row) == envelope.id = row.id

\* The submitted artifact is the one that was issued for this credential.
Continuous(byDigest, envelope, row) ==
    /\ byDigest
    /\ envelope.id = row.id
    /\ envelope.issuer = row.issuer
    /\ envelope.template = row.template
    /\ envelope.expires = row.expires

\* The checks that need no trust record; "pending" when all of them pass.
VerdictBeforeTrust(c, envelope, row, byDigest) ==
    IF c.claim # NoClaim /\ c.claim # envelope.id THEN "credential_id_mismatch"
    ELSE IF ~Continuous(byDigest, envelope, row) THEN "artifact_continuity_failed"
    ELSE "pending"

\* Whether the policy and the template of the credential go together.
Compatible(policy, template) == policy = DefaultPolicy /\ template = DefaultTemplate

StatusDenial == [revoked |-> "credential_status_revoked",
                 superseded |-> "credential_status_superseded",
                 expired |-> "credential_expired"]

\* The checks that follow, against the state the trust registry answered.
VerdictAfterTrust(c, row, state, minute) ==
    LET status == StatusForEvaluation(row, minute)
    IN  IF state = "suspended" THEN "issuer_suspended"
        ELSE IF state # "active" THEN "issuer_not_trusted"
        ELSE IF status # "active" THEN StatusDenial[status]
        ELSE IF ~Compatible(c.policy, row.template) THEN "template_mismatch"
        ELSE "allow"

-----------------------------------------------------------------------------
(* Steps, and how a step of a request ends.                                *)

\* The audit record each closing step appends: suffix of its key, outcome.
AuditSteps == {"audit", "audit_failed", "replay", "in_progress", "conflict"}

\* An outcome that does not look at the verdict.
AuditSucceeds(step, verdict) ==
    CASE step = "audit" -> "succeeded"
      [] step = "replay" -> "replayed"
      [] step \in {"audit_failed", "in_progress", "conflict"} -> "failed"

AuditOutcome(step, verdict) ==
    CASE step = "audit" -> IF verdict \in {"allow", "none"} THEN "succeeded" ELSE "denied"
      [] step = "replay" -> "replayed"
      [] step \in {"audit_failed", "in_progress", "conflict"} -> "failed"

\* An audit key made from the caller.
AuditIdOfCaller(c, step) ==
    <<c.caller, IF step \in {"audit", "audit_failed"} THEN c.op ELSE step>>
AuditId(c, step) ==
    <<c.requestId, IF step \in {"audit", "audit_failed"} THEN c.op ELSE step>>

Steps == {"reserve", "lookup", "allocate", "submit", "digest", "byid", "trust", "result",
          "read", "readresult", "complete", "release"} \cup AuditSteps

InFlight(r) == pc[r] \in Steps
Answered(r) == pc[r] = "done"

Goto(r, step) == pc' = [pc EXCEPT ![r] = step]

Fail(r, refusal) ==
    /\ reply' = [reply EXCEPT ![r] = refusal]
    /\ Goto(r, IF open[r] THEN "release" ELSE "done")

PersistenceError == Refusal(500, "persistence_error")
VerificationNotFound == Refusal(404, "verification_not_found")

\* The evaluation has ended with this verdict.
Decide(r, verdict) ==
    /\ reply' = [reply EXCEPT ![r] = Reply(201, "none", vid[r], verdict)]
    /\ Goto(r, "result")

-----------------------------------------------------------------------------
NoCall == [op |-> "none", key |-> NoKey]
NoRow == [id |-> NoResource]

\* The row the issuer stores for a credential.
IssuedRow(id) ==
    LET envelope == Envelope[Issuable[id]]
    IN  [id |-> id, digest |-> Digest(Genuine(Issuable[id])), issuer |-> envelope.issuer,
         template |-> envelope.template, expires |-> envelope.expires, status |-> "active"]

Init ==
    /\ pc = [r \in Requests |-> "idle"]
    /\ call = [r \in Requests |-> NoCall]
    /\ open = [r \in Requests |-> FALSE]
    /\ vid = [r \in Requests |-> NoResource]
    /\ found = [r \in Requests |-> NoRow]
    /\ reply = [r \in Requests |-> NoReply]
    /\ sequence = 0
    /\ submissions = <<>>
    /\ results = <<>>
    /\ idempotency = <<>>
    /\ audits = <<>>
    /\ credentials = [id \in Issued |-> IssuedRow(id)]
    /\ trust \in TrustTables
    /\ clock = 0
    /\ spoiled = [r \in Requests |-> {}]
    /\ arrived = [r \in Requests |-> 0]
    /\ ContextInit

-----------------------------------------------------------------------------
(* Arrival, and the reservation of an idempotency key.                     *)

Refuse(r, c) ==
    /\ pc[r] = "idle"
    /\ FrontDoor(c) # NoReply
    /\ call' = [call EXCEPT ![r] = c]
    /\ reply' = [reply EXCEPT ![r] = FrontDoor(c)]
    /\ Goto(r, "done")
    /\ UNCHANGED <<open, vid, found, verifierVars, worldVars, history, contextVars>>

Arrive(r, c) ==
    /\ pc[r] = "idle"
    /\ FrontDoor(c) = NoReply
    /\ call' = [call EXCEPT ![r] = c]
    /\ Goto(r, FirstStep(c))
    /\ spoiled' = [spoiled EXCEPT ![r] =
                    {id \in DOMAIN credentials : credentials[id].status # "active"}]
    /\ arrived' = [arrived EXCEPT ![r] = clock]
    /\ UNCHANGED <<open, vid, found, reply, verifierVars, worldVars, contextVars>>

\* The INSERT of ReserveIdempotencyRecord; its SELECT is Lookup.
Reserve(r, out) ==
    LET slot == SlotOf(call[r])
        taken == Taken(idempotency, slot)
    IN  /\ pc[r] = "reserve"
        /\ Statement(r, out)
        /\ idempotency' = IF Reaches(out)
                          THEN ReserveIdempotencyRecord(idempotency, slot, Fingerprint(call[r]))
                          ELSE idempotency
        /\ \/ /\ Acked(out) /\ ~taken
              /\ open' = [open EXCEPT ![r] = TRUE]
              /\ Goto(r, "allocate")
              /\ UNCHANGED reply
           \/ /\ Acked(out) /\ taken
              /\ Goto(r, "lookup")
              /\ UNCHANGED <<open, reply>>
           \/ /\ ~Acked(out)
              /\ Fail(r, PersistenceError)
              /\ UNCHANGED open
        /\ UNCHANGED <<call, vid, found, sequence, submissions, results, audits,
                       worldVars, history>>

\* What an occupied slot answers: the stored reply, or a conflict.
OccupiedReply(outcome, row) ==
    CASE outcome = "replay" -> row.reply
      [] outcome = "in_progress" ->
            Reply(409, "idempotency_in_progress", row.reply.resource, "none")
      [] OTHER ->
            Reply(409, "idempotency_conflict", row.reply.resource, "none")

Lookup(r, out) ==
    LET slot == SlotOf(call[r])
        seen == Acked(out) /\ slot \in DOMAIN idempotency
        outcome == ReservationOutcome(idempotency[slot], Fingerprint(call[r]))
    IN  /\ pc[r] = "lookup"
        /\ Query(r, out)
        /\ \/ ~seen /\ Fail(r, PersistenceError)
           \/ /\ seen
              /\ reply' = [reply EXCEPT ![r] = OccupiedReply(outcome, idempotency[slot])]
              /\ Goto(r, outcome)
        /\ UNCHANGED <<call, open, vid, found, verifierVars, worldVars, history>>

-----------------------------------------------------------------------------
(* createVerification                                                      *)

\* NextVerificationID, then the parse of the artifact: a malformed one has
\* used up an identifier.
Allocate(r, out) ==
    LET wellFormed == call[r].artifact.text \in DOMAIN Envelope
    IN  /\ pc[r] = "allocate"
        /\ Statement(r, out)
        /\ sequence' = IF Reaches(out) THEN NextSequence(sequence) ELSE sequence
        /\ \/ /\ Acked(out)
              /\ vid' = [vid EXCEPT ![r] = NextSequence(sequence)]
              /\ \/ wellFormed /\ Goto(r, "submit") /\ UNCHANGED reply
                 \/ ~wellFormed /\ Fail(r, Refusal(400, "invalid_request"))
           \/ /\ ~Acked(out)
              /\ Fail(r, PersistenceError)
              /\ UNCHANGED vid
        /\ UNCHANGED <<call, open, found, submissions, results, idempotency, audits,
                       worldVars, history>>

SubmissionRow(c) ==
    [verifier |-> Org(c), digest |-> Digest(c.artifact), policy |-> c.policy,
     credential |-> Envelope[c.artifact.text].id]

\* CreateVerificationRequestRecord.
Submit(r, out) ==
    /\ pc[r] = "submit"
    /\ Statement(r, out)
    /\ submissions' = IF Reaches(out)
                      THEN InsertRow(submissions, vid[r], SubmissionRow(call[r]))
                      ELSE submissions
    /\ \/ /\ Acked(out) /\ vid[r] \notin DOMAIN submissions
          /\ Goto(r, "digest")
          /\ UNCHANGED reply
       \/ /\ ~(Acked(out) /\ vid[r] \notin DOMAIN submissions)
          /\ Fail(r, PersistenceError)
    /\ UNCHANGED <<call, open, vid, found, sequence, results, idempotency, audits,
                   worldVars, history>>

\* The credential has been resolved: the row, as it is now, is what the rest
\* of the evaluation looks at.
Resolved(r, row, byDigest) ==
    LET verdict == VerdictBeforeTrust(call[r], Envelope[call[r].artifact.text], row, byDigest)
    IN  /\ found' = [found EXCEPT ![r] = row]
        /\ \/ verdict = "pending" /\ Goto(r, "trust") /\ UNCHANGED reply
           \/ verdict # "pending" /\ Decide(r, verdict)

\* GetCredentialRecordByArtifactDigest: an error reads as "no such digest".
ResolveByDigest(r, out) ==
    LET digest == Digest(call[r].artifact)
        matches == {id \in DOMAIN credentials : credentials[id].digest = digest}
    IN  /\ pc[r] = "digest"
        /\ Query(r, out)
        /\ \/ \E id \in matches : Acked(out) /\ Resolved(r, credentials[id], TRUE)
           \/ /\ ~Acked(out) \/ matches = {}
              /\ Goto(r, "byid")
              /\ UNCHANGED <<found, reply>>
        /\ UNCHANGED <<call, open, vid, verifierVars, worldVars, history>>

\* GetCredentialRecord by the identifier in the artifact: any error, a failed
\* statement too, becomes "not found".
ResolveById(r, out) ==
    LET id == Envelope[call[r].artifact.text].id
        known == Acked(out) /\ id \in DOMAIN credentials
    IN  /\ pc[r] = "byid"
        /\ Query(r, out)
        /\ \/ known /\ Resolved(r, credentials[id], FALSE)
           \/ /\ ~known
              /\ reply' = [reply EXCEPT ![r] = Reply(404, "credential_not_found", vid[r], "none")]
              /\ Goto(r, "audit_failed")
              /\ UNCHANGED found
        /\ UNCHANGED <<call, open, vid, verifierVars, worldVars, history>>

\* A registry that cannot be reached stands for an active issuer.
TrustedOnError(out, issuer) ==
    CASE ~Acked(out) -> "active"
      [] Acked(out) /\ issuer \notin DOMAIN trust -> "missing"
      [] OTHER -> trust[issuer]

\* The trust state of an answer: an error, a missing record, or what it says.
TrustAnswered(out, issuer) ==
    CASE ~Acked(out) -> "unavailable"
      [] Acked(out) /\ issuer \notin DOMAIN trust -> "missing"
      [] OTHER -> trust[issuer]

\* GetIssuerTrustRecord over HTTP: a missing record, a refused token and an
\* unreachable registry all end in a verdict, and the verdict is stored.
ReadTrust(r, out) ==
    LET state == TrustAnswered(out, found[r].issuer)
    IN  /\ pc[r] = "trust"
        /\ Query(r, out)
        /\ Decide(r, VerdictAfterTrust(call[r], found[r], state, EvaluatedAt(vid[r])))
        /\ UNCHANGED <<call, open, vid, found, verifierVars, worldVars, history>>

\* A handler that goes on whether or not the result was stored.
StoreResultIfPossible(r, out) ==
    /\ pc[r] = "result"
    /\ Statement(r, out)
    /\ results' = IF Reaches(out)
                  THEN InsertRow(results, vid[r], [verdict |-> reply[r].status])
                  ELSE results
    /\ Goto(r, CompleteStep(call[r]))
    /\ UNCHANGED <<call, open, vid, found, reply, sequence, submissions, idempotency, audits,
                   worldVars, history>>

\* CreateVerificationResultRecord.
StoreResult(r, out) ==
    /\ pc[r] = "result"
    /\ Statement(r, out)
    /\ results' = IF Reaches(out)
                  THEN InsertRow(results, vid[r], [verdict |-> reply[r].status])
                  ELSE results
    /\ \/ /\ Acked(out) /\ vid[r] \notin DOMAIN results
          /\ Goto(r, CompleteStep(call[r]))
          /\ UNCHANGED reply
       \/ /\ ~(Acked(out) /\ vid[r] \notin DOMAIN results)
          /\ Fail(r, PersistenceError)
    /\ UNCHANGED <<call, open, vid, found, sequence, submissions, idempotency, audits,
                   worldVars, history>>

-----------------------------------------------------------------------------
(* getVerification                                                         *)

\* The row belongs to the organization that asks.
VerifiedByAnyone(row, org) == row.verifier \in {OrgOf[p] : p \in DOMAIN OrgOf}
VerifiedBy(row, org) == row.verifier = org

ReadSubmission(r, out) ==
    LET id == call[r].target
        owned == id \in DOMAIN submissions /\ VerifiedBy(submissions[id], Org(call[r]))
    IN  /\ pc[r] = "read"
        /\ Query(r, out)
        /\ \/ ~Acked(out) /\ Fail(r, PersistenceError) /\ UNCHANGED vid
           \/ Acked(out) /\ ~owned /\ Fail(r, VerificationNotFound) /\ UNCHANGED vid
           \/ /\ Acked(out) /\ owned
              /\ vid' = [vid EXCEPT ![r] = id]
              /\ Goto(r, "readresult")
              /\ UNCHANGED reply
        /\ UNCHANGED <<call, open, found, verifierVars, worldVars, history>>

ReadResult(r, out) ==
    /\ pc[r] = "readresult"
    /\ Query(r, out)
    /\ \/ ~Acked(out) /\ Fail(r, PersistenceError)
       \/ Acked(out) /\ vid[r] \notin DOMAIN results /\ Fail(r, VerificationNotFound)
       \/ /\ Acked(out) /\ vid[r] \in DOMAIN results
          /\ reply' = [reply EXCEPT ![r] = Reply(200, "none", vid[r], results[vid[r]].verdict)]
          /\ Goto(r, "audit")
    /\ UNCHANGED <<call, open, vid, found, verifierVars, worldVars, history>>

-----------------------------------------------------------------------------
(* How a request closes.                                                   *)

\* completeVerificationIdempotencyResponse.  A 404 has been audited before it
\* is stored, any other response is audited after.
Complete(r, out) ==
    LET slot == SlotOf(call[r])
        stored == Acked(out) /\ slot \in DOMAIN idempotency
    IN  /\ pc[r] = "complete"
        /\ Statement(r, out)
        /\ idempotency' = IF Reaches(out)
                          THEN CompleteIdempotencyRecord(idempotency, slot, reply[r])
                          ELSE idempotency
        /\ \/ /\ stored
              /\ open' = [open EXCEPT ![r] = FALSE]
              /\ Goto(r, IF Success(reply[r]) THEN "audit" ELSE "done")
              /\ UNCHANGED reply
           \/ /\ ~stored
              /\ Fail(r, PersistenceError)
              /\ UNCHANGED open
        /\ UNCHANGED <<call, vid, found, sequence, submissions, results, audits,
                       worldVars, history>>

\* The deferred ReleaseIdempotencyRecord; its error is dropped.
Release(r, out) ==
    /\ pc[r] = "release"
    /\ Statement(r, out)
    /\ idempotency' = IF Reaches(out)
                      THEN ReleaseIdempotencyRecord(idempotency, SlotOf(call[r]))
                      ELSE idempotency
    /\ open' = [open EXCEPT ![r] = FALSE]
    /\ Goto(r, "done")
    /\ UNCHANGED <<call, vid, found, reply, sequence, submissions, results, audits,
                   worldVars, history>>

\* AppendAuditRecord; its error, a taken primary key included, is dropped.
Audit(r, out) ==
    LET verdict == IF call[r].op = "read" THEN "none" ELSE reply[r].status
        row == AuditRow(call[r].caller, call[r].op, reply[r].resource,
                        AuditOutcome(pc[r], verdict))
    IN  /\ pc[r] \in AuditSteps
        /\ Statement(r, out)
        /\ audits' = IF Reaches(out)
                     THEN AppendAuditRecord(audits, AuditId(call[r], pc[r]), row)
                     ELSE audits
        /\ Goto(r, IF pc[r] = "audit_failed" /\ Keyed(call[r]) THEN "complete" ELSE "done")
        /\ UNCHANGED <<call, open, vid, found, reply, sequence, submissions, results,
                       idempotency, worldVars, history>>

-----------------------------------------------------------------------------
(* What happens around the handlers.                                       *)

Expire(r) ==
    /\ InFlight(r)
    /\ ExpireContext(r)
    /\ UNCHANGED <<requestVars, verifierVars, worldVars, history>>

Crash ==
    /\ \E r \in Requests : InFlight(r)
    /\ Spend("crash")
    /\ pc' = [r \in Requests |-> IF InFlight(r) THEN "lost" ELSE pc[r]]
    /\ open' = [r \in Requests |-> FALSE]
    /\ UNCHANGED <<call, vid, found, reply, verifierVars, worldVars, history, expired>>

\* The issuer service stores a credential.
IssuerIssues(id) ==
    /\ id \notin DOMAIN credentials
    /\ credentials' = CreateCredentialRecord(credentials, id, IssuedRow(id))
    /\ UNCHANGED <<requestVars, verifierVars, trust, clock, history, contextVars>>

\* The issuer service changes a status: whatever it was, never to active.
IssuerChangesStatus(id, status) ==
    /\ id \in DOMAIN credentials
    /\ credentials' = [credentials EXCEPT ![id].status = status]
    /\ UNCHANGED <<requestVars, verifierVars, trust, clock, history, contextVars>>

TrustRegistryWrites ==
    /\ trust' \in TrustTables
    /\ UNCHANGED <<requestVars, verifierVars, credentials, clock, history, contextVars>>

Tick ==
    /\ clock < LastMinute
    /\ clock' = clock + 1
    /\ UNCHANGED <<requestVars, verifierVars, credentials, trust, history, contextVars>>

World ==
    \/ \E id \in CredentialIds : IssuerIssues(id)
    \/ \E id \in CredentialIds, status \in {"revoked", "superseded"} :
            IssuerChangesStatus(id, status)
    \/ TrustRegistryWrites
    \/ Tick

Step(r) ==
    \E out \in Outcomes :
        \/ Reserve(r, out)
        \/ Lookup(r, out)
        \/ Allocate(r, out)
        \/ Submit(r, out)
        \/ ResolveByDigest(r, out)
        \/ ResolveById(r, out)
        \/ ReadTrust(r, out)
        \/ StoreResult(r, out)
        \/ ReadSubmission(r, out)
        \/ ReadResult(r, out)
        \/ Complete(r, out)
        \/ Release(r, out)
        \/ Audit(r, out)

Next ==
    \/ \E r \in Requests, c \in Calls : Refuse(r, c) \/ Arrive(r, c)
    \/ \E r \in Requests : Step(r) \/ Expire(r)
    \/ Crash
    \/ World

Spec == Init /\ [][Next]_vars

\* A statement returns, at the latest when the request's context expires.
Fairness == \A r \in Requests : WF_vars(Step(r))
FairSpec == Spec /\ Fairness
-----------------------------------------------------------------------------
(* Properties                                                              *)

Verdicts == {"allow", "none", "credential_id_mismatch", "artifact_continuity_failed",
             "issuer_suspended", "issuer_not_trusted", "credential_status_revoked",
             "credential_status_superseded", "credential_expired", "template_mismatch"}
Errors == {"none", "auth_unavailable", "unauthenticated", "insufficient_scope",
           "invalid_request", "persistence_error", "credential_not_found",
           "verification_not_found", "idempotency_in_progress", "idempotency_conflict"}
Replies == [code : Nat, error : Errors, resource : Nat, status : Verdicts]
CredentialRows == {[IssuedRow(id) EXCEPT !.status = status] :
                    id \in CredentialIds, status \in {"active", "revoked", "superseded"}}

\* Every variable has its type; verification identifiers in use have been
\* allocated, and a result belongs to a stored submission.
TypeOK ==
    /\ ContextTypeOK
    /\ pc \in [Requests -> Steps \cup {"idle", "done", "lost"}]
    /\ call \in [Requests -> Calls \cup {NoCall}]
    /\ open \in [Requests -> BOOLEAN]
    /\ sequence \in Nat
    /\ vid \in [Requests -> 0..sequence]
    /\ found \in [Requests -> CredentialRows \cup {NoRow}]
    /\ reply \in [Requests -> Replies]
    /\ submissions \in [DOMAIN submissions -> {SubmissionRow(c) : c \in
                            {d \in Calls : d.op = "create" /\ d.artifact.text \in DOMAIN Envelope}}]
    /\ DOMAIN submissions \subseteq 1..sequence
    /\ results \in [DOMAIN results -> [verdict : Verdicts]]
    /\ DOMAIN results \subseteq DOMAIN submissions
    /\ DOMAIN idempotency \subseteq {SlotOf(c) : c \in {d \in Calls : Keyed(d)}}
    /\ \A slot \in DOMAIN idempotency : idempotency[slot].reply \in Replies
    /\ \A id \in DOMAIN credentials : credentials[id] \in CredentialRows
    /\ trust \in TrustTables
    /\ clock \in Nat
    /\ spoiled \in [Requests -> SUBSET CredentialIds]
    /\ arrived \in [Requests -> 0..clock]

\* A keyed submission that was answered, with a verdict or with "credential
\* not found", stays replayable: its slot holds that very reply for good, so
\* a partner that retries never sees the decision change under one key.
AnswersReplay ==
    \A r \in Requests :
        Answered(r) /\ Keyed(call[r])
        /\ (Success(reply[r]) \/ reply[r].error = "credential_not_found") =>
            LET slot == SlotOf(call[r])
            IN  /\ slot \in DOMAIN idempotency
                /\ idempotency[slot].state = "completed"
                /\ idempotency[slot].fingerprint = Fingerprint(call[r])
                /\ idempotency[slot].reply = reply[r]

\* A verdict that was given, replayed or not, is one the caller can read back:
\* its submission is stored for the caller's organization with what the caller
\* asked, and its result says the same.
VerdictsReadBack ==
    \A r \in Requests :
        Answered(r) /\ Success(reply[r]) =>
            LET id == reply[r].resource
            IN  /\ id \in DOMAIN submissions /\ id \in DOMAIN results
                /\ results[id].verdict = reply[r].status
                /\ submissions[id].verifier = Org(call[r])
                /\ call[r].op = "create" =>
                        /\ submissions[id].policy = call[r].policy
                        /\ submissions[id].digest.text = call[r].artifact.text

\* A stored "allow" is for the very artifact that was issued, byte for byte,
\* under the known policy and for a credential not expired at the time of
\* evaluation the result states.
AllowIsJustified ==
    \A id \in DOMAIN results :
        results[id].verdict = "allow" =>
            LET submission == submissions[id]
            IN  /\ submission.credential \in DOMAIN credentials
                /\ credentials[submission.credential].digest = submission.digest
                /\ Compatible(submission.policy, credentials[submission.credential].template)
                /\ EvaluatedAt(id) <= credentials[submission.credential].expires

\* A submission that arrives after a credential was revoked or superseded is
\* not evaluated to "allow", however its reads interleave with other writes.
NoAllowAfterRevocation ==
    \A r \in Requests :
        /\ call[r].op = "create"
        /\ vid[r] \in DOMAIN results
        /\ results[vid[r]].verdict = "allow"
        => submissions[vid[r]].credential \notin spoiled[r]

\* The audit trail tells an allow from a denial as the stored result does.
AuditTellsVerdict ==
    \A id \in DOMAIN audits :
        LET row == audits[id]
        IN  row.action = "create" /\ row.outcome \in {"succeeded", "denied"} =>
                /\ row.resource \in DOMAIN results
                /\ row.outcome = "succeeded" <=> results[row.resource].verdict = "allow"

\* Another request carried the same X-Request-ID.
SharesId(r) ==
    \E q \in Requests \ {r} : pc[q] # "idle" /\ call[q].requestId = call[r].requestId

\* r was told that its submission has failed or could not be resolved; and
\* unless something did fail, or a second request with its X-Request-ID took
\* the key of the record, that is in the audit trail.
ToldOfFailure(r) ==
    /\ Answered(r)
    /\ reply[r].error \in {"persistence_error", "credential_not_found"}
    /\ \/ \E a \in DOMAIN audits :
                audits[a].resource = vid[r] /\ audits[a].outcome = "failed"
       \/ budget # Budget
       \/ SharesId(r)

\* A submission is stored before it is decided, so an error, an expired context
\* or a crash may leave it without a result.  Then its own request is still on
\* its way, went down with the process, or was told of the failure: nobody got
\* a verdict, and no submission is undecided that nobody submitted.
SubmissionsAreDecided ==
    \A id \in DOMAIN submissions \ DOMAIN results :
        \E r \in Requests :
            /\ call[r].op = "create" /\ vid[r] = id
            /\ InFlight(r) \/ pc[r] = "lost" \/ ToldOfFailure(r)

\* "The submitted credential artifact did not resolve to a known credential"
\* is stored for replay only when no credential has that artifact; a lookup
\* that failed is no reason to store it.
NotFoundMeansUnknown ==
    \A slot \in DOMAIN idempotency :
        idempotency[slot].reply.error = "credential_not_found" =>
            \A id \in DOMAIN credentials :
                credentials[id].digest.text # idempotency[slot].fingerprint[3]

\* "allow" means the credential is not expired: at the least, it had not
\* expired by the time its submission arrived.
AllowMeansNotExpired ==
    \A r \in Requests :
        /\ call[r].op = "create"
        /\ vid[r] \in DOMAIN results
        /\ results[vid[r]].verdict = "allow"
        => arrived[r] <= credentials[submissions[vid[r]].credential].expires
=============================================================================
