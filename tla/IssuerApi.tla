----------------------------- MODULE IssuerApi -----------------------------
(***************************************************************************)
(* The issuer service (services/issuer-api/internal/httpapi/phase1.go):    *)
(* issuing a credential, changing a credential's status, and reading one.  *)
(* Every request is a goroutine that runs one SQL statement per step on    *)
(* the shared store, so requests interleave between any two statements;    *)
(* a statement can fail, a request's context can expire, and the process   *)
(* can crash.                                                              *)
(***************************************************************************)
EXTENDS Sequences, Phase1Sql, RequestContext

CONSTANTS Calls,        \* the HTTP calls that clients make
          OrgOf,        \* the organization each caller is attributed to
          TemplateOf,   \* the template a request body names
          NoKey,        \* stands for an absent Idempotency-Key header
          IssuerTables, \* what the trust registry's issuer table may hold
          Preissued     \* issuer and body of the credentials that exist already

Callers == DOMAIN OrgOf
Bodies == DOMAIN TemplateOf
Orgs == {OrgOf[p] : p \in Callers}

ASSUME PreissuedAssumption == Preissued \in Seq([issuer : Orgs, body : Bodies])
ASSUME CallsAssumption ==
    \A c \in Calls : /\ c.op \in {"issue", "status", "read"}
                     /\ c.caller \in Callers
                     /\ c.auth \in {"ok", "unauthenticated", "unavailable"}
                     /\ c.op = "issue" => c.body \in Bodies
                     /\ c.status \in {"active", "revoked", "superseded", "none"}
                     /\ c.target \in Nat /\ c.by \in Nat

VARIABLES
    (* the requests *)
    pc,           \* pc[r]: the statement r runs next
    call,         \* call[r]: what r was asked, once it has arrived
    open,         \* open[r]: the handler's reservationOpen
    cred,         \* cred[r]: the credential r allocated or loaded
    reply,        \* reply[r]: the response r has prepared or given
    (* the database *)
    issuers,      \* trust_registry_issuer_records: issuer -> allowed templates
    sequence,     \* phase1_sequences, row "credential"
    credentials,  \* issuer_api_credential_records
    idempotency,  \* phase1_idempotency_records
    audits        \* phase1_audit_records

requestVars == <<pc, call, open, cred, reply>>
dbVars == <<issuers, sequence, credentials, idempotency, audits>>
vars == <<requestVars, dbVars, contextVars>>

-----------------------------------------------------------------------------
(* What the handlers compute from a call.                                  *)

Org(c) == OrgOf[c.caller]
Keyed(c) == c.key # NoKey

\* The primary key of an idempotency row.
SlotOf(c) == <<c.op, c.caller, c.key>>
Slots == {SlotOf(c) : c \in {d \in Calls : Keyed(d)}}

\* The request fingerprint: a hash of what was asked, white space around the
\* fields apart; a body stands for all its spellings.
Fingerprint(c) == IF c.op = "issue"
                  THEN <<c.body>>
                  ELSE <<c.target, c.status, c.by>>

\* A validation that accepts every known status.
AnyStatusChange(c) == c.status # "none"

\* validate() of a status change.
ValidStatusChange(c) == \/ c.status = "revoked" /\ c.by = NoResource
                        \/ c.status = "superseded" /\ c.by # NoResource

\* What is refused before any statement: attribution, scope, body.
FrontDoor(c) ==
    CASE c.auth = "unavailable" -> Refusal(503, "auth_unavailable")
      [] c.auth = "unauthenticated" -> Refusal(401, "unauthenticated")
      [] c.auth = "ok" /\ c.op \notin c.scopes -> Refusal(403, "insufficient_scope")
      [] /\ c.auth = "ok" /\ c.op \in c.scopes
         /\ ~c.wellFormed \/ (c.op = "status" /\ ~ValidStatusChange(c)) ->
            Refusal(400, "invalid_request")
      [] OTHER -> NoReply

WriteStep(c) == IF c.op = "issue" THEN "allocate" ELSE "load"
ReserveStep(c) == IF Keyed(c) THEN "reserve" ELSE WriteStep(c)
FirstStep(c) == CASE c.op = "issue" -> "issuer"
                  [] c.op = "status" -> ReserveStep(c)
                  [] c.op = "read" -> "read"

\* The audit record each closing step appends: suffix of its key, outcome.
AuditSteps == {"audit", "replay", "in_progress", "conflict"}
AuditOutcome(step) == CASE step = "audit" -> "succeeded"
                        [] step = "replay" -> "replayed"
                        [] step \in {"in_progress", "conflict"} -> "failed"

AuditId(c, step) == <<c.requestId, IF step = "audit" THEN c.op ELSE step>>

Steps == {"issuer", "reserve", "lookup", "allocate", "create", "load",
          "update", "read", "complete", "release"} \cup AuditSteps

InFlight(r) == pc[r] \in Steps
Answered(r) == pc[r] = "done"

-----------------------------------------------------------------------------
(* How a step of a request ends.                                           *)

Goto(r, step) == pc' = [pc EXCEPT ![r] = step]

\* A return that forgets the open reservation.
FailWithoutRelease(r, refusal) ==
    /\ reply' = [reply EXCEPT ![r] = refusal]
    /\ Goto(r, "done")

\* The handler returns early; its deferred release runs if a reservation
\* is open.
Fail(r, refusal) ==
    /\ reply' = [reply EXCEPT ![r] = refusal]
    /\ Goto(r, IF open[r] THEN "release" ELSE "done")

PersistenceError == Refusal(500, "persistence_error")
NotFound == Refusal(404, "credential_not_found")

-----------------------------------------------------------------------------
NoCall == [op |-> "none", key |-> NoKey]

Init ==
    /\ pc = [r \in Requests |-> "idle"]
    /\ call = [r \in Requests |-> NoCall]
    /\ open = [r \in Requests |-> FALSE]
    /\ cred = [r \in Requests |-> NoResource]
    /\ reply = [r \in Requests |-> NoReply]
    /\ issuers \in IssuerTables
    /\ credentials = [id \in 1..Len(Preissued) |->
                        CredentialRow(Preissued[id].issuer, Preissued[id].body)]
    /\ sequence = Len(Preissued)
    /\ idempotency = <<>>
    /\ audits = <<>>
    /\ ContextInit

-----------------------------------------------------------------------------
(* Arrival, and the reservation of an idempotency key.                     *)

Refuse(r, c) ==
    /\ pc[r] = "idle"
    /\ FrontDoor(c) # NoReply
    /\ call' = [call EXCEPT ![r] = c]
    /\ reply' = [reply EXCEPT ![r] = FrontDoor(c)]
    /\ Goto(r, "done")
    /\ UNCHANGED <<open, cred, dbVars, contextVars>>

Arrive(r, c) ==
    /\ pc[r] = "idle"
    /\ FrontDoor(c) = NoReply
    /\ call' = [call EXCEPT ![r] = c]
    /\ Goto(r, FirstStep(c))
    /\ UNCHANGED <<open, cred, reply, dbVars, contextVars>>

\* GetIssuerRecord: any error, a failed statement too, reads as "not trusted".
\* The trust state in the row is not looked at.
ReadIssuer(r, out) ==
    LET org == Org(call[r])
        found == Acked(out) /\ org \in DOMAIN issuers
        allowed == found /\ TemplateOf[call[r].body] \in issuers[org]
    IN  /\ pc[r] = "issuer"
        /\ Query(r, out)
        /\ \/ ~found /\ Fail(r, Refusal(403, "issuer_not_trusted"))
           \/ found /\ ~allowed /\ Fail(r, Refusal(400, "unsupported_template"))
           \/ allowed /\ Goto(r, ReserveStep(call[r])) /\ UNCHANGED reply
        /\ UNCHANGED <<call, open, cred, dbVars>>

\* The INSERT of ReserveIdempotencyRecord.  When the slot is taken, the row
\* is read by a statement of its own.
Reserve(r, out) ==
    LET slot == SlotOf(call[r])
        taken == Taken(idempotency, slot)
    IN  /\ pc[r] = "reserve"
        /\ Statement(r, out)
        /\ idempotency' = IF Reaches(out)
                          THEN ReserveIdempotencyRecord(idempotency, slot, Fingerprint(call[r]))
                          ELSE idempotency
        /\ \/ /\ Acked(out) /\ ~taken
              /\ open' = [open EXCEPT ![r] = TRUE]
              /\ Goto(r, WriteStep(call[r]))
              /\ UNCHANGED reply
           \/ /\ Acked(out) /\ taken
              /\ Goto(r, "lookup")
              /\ UNCHANGED <<open, reply>>
           \/ /\ ~Acked(out)
              /\ Fail(r, PersistenceError)
              /\ UNCHANGED open
        /\ UNCHANGED <<call, cred, issuers, sequence, credentials, audits>>

\* What an occupied slot answers: the stored reply, or a conflict.  The
\* audit record that follows names the resource of the stored reply.
OccupiedReply(outcome, row) ==
    CASE outcome = "replay" -> row.reply
      [] outcome = "in_progress" ->
            Reply(409, "idempotency_in_progress", row.reply.resource, "none")
      [] OTHER ->
            Reply(409, "idempotency_conflict", row.reply.resource, "none")

Lookup(r, out) ==
    LET slot == SlotOf(call[r])
        found == Acked(out) /\ slot \in DOMAIN idempotency
        outcome == ReservationOutcome(idempotency[slot], Fingerprint(call[r]))
    IN  /\ pc[r] = "lookup"
        /\ Query(r, out)
        /\ \/ ~found /\ Fail(r, PersistenceError)
           \/ /\ found
              /\ reply' = [reply EXCEPT ![r] = OccupiedReply(outcome, idempotency[slot])]
              /\ Goto(r, outcome)
        /\ UNCHANGED <<call, open, cred, dbVars>>

-----------------------------------------------------------------------------
(* issueCredential                                                         *)

\* NextCredentialID: one transaction, the identifier is never given back.
Allocate(r, out) ==
    /\ pc[r] = "allocate"
    /\ Statement(r, out)
    /\ sequence' = IF Reaches(out) THEN NextSequence(sequence) ELSE sequence
    /\ \/ /\ Acked(out)
          /\ cred' = [cred EXCEPT ![r] = NextSequence(sequence)]
          /\ Goto(r, "create")
          /\ UNCHANGED reply
       \/ /\ ~Acked(out)
          /\ Fail(r, PersistenceError)
          /\ UNCHANGED cred
    /\ UNCHANGED <<call, open, issuers, credentials, idempotency, audits>>

\* A write that never completes its reservation.
CompletionSkipped(c) == "audit"
CompleteStep(c) == IF Keyed(c) THEN "complete" ELSE "audit"

\* A create that does not look at what its statement returned.
CreateUnchecked(r, out) ==
    LET row == CredentialRow(Org(call[r]), call[r].body)
    IN  /\ pc[r] = "create"
        /\ Statement(r, out)
        /\ credentials' = IF Reaches(out)
                          THEN CreateCredentialRecord(credentials, cred[r], row)
                          ELSE credentials
        /\ reply' = [reply EXCEPT ![r] = Reply(201, "none", cred[r], "active")]
        /\ Goto(r, CompleteStep(call[r]))
        /\ UNCHANGED <<call, open, cred, issuers, sequence, idempotency, audits>>

Create(r, out) ==
    LET row == CredentialRow(Org(call[r]), call[r].body)
    IN  /\ pc[r] = "create"
        /\ Statement(r, out)
        /\ credentials' = IF Reaches(out)
                          THEN CreateCredentialRecord(credentials, cred[r], row)
                          ELSE credentials
        /\ \/ /\ Acked(out) /\ cred[r] \notin DOMAIN credentials
              /\ reply' = [reply EXCEPT ![r] = Reply(201, "none", cred[r], "active")]
              /\ Goto(r, CompleteStep(call[r]))
           \/ /\ ~(Acked(out) /\ cred[r] \notin DOMAIN credentials)
              /\ Fail(r, PersistenceError)
        /\ UNCHANGED <<call, open, cred, issuers, sequence, idempotency, audits>>

-----------------------------------------------------------------------------
(* updateCredentialStatus                                                  *)

\* A credential of another organization reads as one that does not exist.
OwnedByAnyone(row, org) == row.issuer \in Orgs
OwnedBy(row, org) == row.issuer = org

\* GetCredentialRecord and the three checks on the row it returned.
Load(r, out) ==
    LET id == call[r].target
        found == Acked(out) /\ id \in DOMAIN credentials
        owned == found /\ OwnedBy(credentials[id], Org(call[r]))
        active == owned /\ credentials[id].status = "active"
    IN  /\ pc[r] = "load"
        /\ Query(r, out)
        /\ \/ ~Acked(out) /\ Fail(r, PersistenceError) /\ UNCHANGED cred
           \/ Acked(out) /\ ~owned /\ Fail(r, NotFound) /\ UNCHANGED cred
           \/ owned /\ ~active /\ Fail(r, Refusal(409, "invalid_status_transition"))
                /\ UNCHANGED cred
           \/ /\ active
              /\ cred' = [cred EXCEPT ![r] = id]
              /\ Goto(r, "update")
              /\ UNCHANGED reply
        /\ UNCHANGED <<call, open, dbVars>>

\* The row may have changed since Load: the statement does not look.  Rows
\* are never deleted, so it always finds its row.
Update(r, out) ==
    /\ pc[r] = "update"
    /\ Statement(r, out)
    /\ credentials' = IF Reaches(out)
                      THEN UpdateCredentialStatus(credentials, cred[r], call[r].status, call[r].by)
                      ELSE credentials
    /\ \/ /\ Acked(out)
          /\ reply' = [reply EXCEPT ![r] = Reply(200, "none", cred[r], call[r].status)]
          /\ Goto(r, CompleteStep(call[r]))
       \/ /\ ~Acked(out)
          /\ Fail(r, PersistenceError)
    /\ UNCHANGED <<call, open, cred, issuers, sequence, idempotency, audits>>

-----------------------------------------------------------------------------
(* getCredential                                                           *)

ReadCredential(r, out) ==
    LET id == call[r].target
        owned == id \in DOMAIN credentials /\ OwnedBy(credentials[id], Org(call[r]))
    IN  /\ pc[r] = "read"
        /\ Query(r, out)
        /\ \/ ~Acked(out) /\ Fail(r, PersistenceError) /\ UNCHANGED cred
           \/ Acked(out) /\ ~owned /\ Fail(r, NotFound) /\ UNCHANGED cred
           \/ /\ Acked(out) /\ owned
              /\ cred' = [cred EXCEPT ![r] = id]
              /\ reply' = [reply EXCEPT ![r] = Reply(200, "none", id, credentials[id].status)]
              /\ Goto(r, "audit")
        /\ UNCHANGED <<call, open, dbVars>>

-----------------------------------------------------------------------------
(* How a request closes.                                                   *)

\* completeIdempotencyResponse: a failure sends the handler to its deferred
\* release although the write it protects has been made.
Complete(r, out) ==
    LET slot == SlotOf(call[r])
        stored == Acked(out) /\ slot \in DOMAIN idempotency
    IN  /\ pc[r] = "complete"
        /\ Statement(r, out)
        /\ idempotency' = IF Reaches(out)
                          THEN CompleteIdempotencyRecord(idempotency, slot, reply[r])
                          ELSE idempotency
        /\ \/ /\ stored
              /\ open' = [open EXCEPT ![r] = FALSE]
              /\ Goto(r, "audit")
              /\ UNCHANGED reply
           \/ /\ ~stored
              /\ Fail(r, PersistenceError)
              /\ UNCHANGED open
        /\ UNCHANGED <<call, cred, issuers, sequence, credentials, audits>>

\* A release that outlives its request, as under context.WithoutCancel.
DetachedRelease(r, out) == out = "done" /\ UNCHANGED contextVars

\* The deferred release runs under the request's own context.
ReleaseStatement(r, out) == Statement(r, out)

\* The deferred ReleaseIdempotencyRecord; its error is dropped.
Release(r, out) ==
    /\ pc[r] = "release"
    /\ ReleaseStatement(r, out)
    /\ idempotency' = IF Reaches(out)
                      THEN ReleaseIdempotencyRecord(idempotency, SlotOf(call[r]))
                      ELSE idempotency
    /\ open' = [open EXCEPT ![r] = FALSE]
    /\ Goto(r, "done")
    /\ UNCHANGED <<call, cred, reply, issuers, sequence, credentials, audits>>

\* AppendAuditRecord; its error, a taken primary key included, is dropped.
Audit(r, out) ==
    LET id == AuditId(call[r], pc[r])
        row == AuditRow(call[r].caller, call[r].op, reply[r].resource, AuditOutcome(pc[r]))
    IN  /\ pc[r] \in AuditSteps
        /\ Statement(r, out)
        /\ audits' = IF Reaches(out) THEN AppendAuditRecord(audits, id, row) ELSE audits
        /\ Goto(r, "done")
        /\ UNCHANGED <<call, open, cred, reply, issuers, sequence, credentials, idempotency>>

-----------------------------------------------------------------------------
(* What happens around the handlers.                                       *)

Expire(r) ==
    /\ InFlight(r)
    /\ ExpireContext(r)
    /\ UNCHANGED <<requestVars, dbVars>>

\* The process stops: its goroutines are gone, the database is not.
Crash ==
    /\ \E r \in Requests : InFlight(r)
    /\ Spend("crash")
    /\ pc' = [r \in Requests |-> IF InFlight(r) THEN "lost" ELSE pc[r]]
    /\ open' = [r \in Requests |-> FALSE]
    /\ UNCHANGED <<call, cred, reply, dbVars, expired>>

\* The trust registry rewrites its issuer table (code outside this service).
TrustRegistryWrites ==
    /\ issuers' \in IssuerTables
    /\ UNCHANGED <<requestVars, sequence, credentials, idempotency, audits, contextVars>>

Step(r) ==
    \E out \in Outcomes :
        \/ ReadIssuer(r, out)
        \/ Reserve(r, out)
        \/ Lookup(r, out)
        \/ Allocate(r, out)
        \/ Create(r, out)
        \/ Load(r, out)
        \/ Update(r, out)
        \/ ReadCredential(r, out)
        \/ Complete(r, out)
        \/ Release(r, out)
        \/ Audit(r, out)

Next ==
    \/ \E r \in Requests, c \in Calls : Refuse(r, c) \/ Arrive(r, c)
    \/ \E r \in Requests : Step(r) \/ Expire(r)
    \/ Crash
    \/ TrustRegistryWrites

Spec == Init /\ [][Next]_vars

\* A statement returns, at the latest when the request's context expires.
Fairness == \A r \in Requests : WF_vars(Step(r))
FairSpec == Spec /\ Fairness
-----------------------------------------------------------------------------
(* Properties                                                              *)

Statuses == {"active", "revoked", "superseded", "none"}
Errors == {"none", "auth_unavailable", "unauthenticated", "insufficient_scope",
           "invalid_request", "issuer_not_trusted", "unsupported_template",
           "persistence_error", "credential_not_found", "invalid_status_transition",
           "idempotency_in_progress", "idempotency_conflict"}
Replies == [code : Nat, error : Errors, resource : Nat, status : Statuses]
CredentialRows == [issuer : Orgs, body : Bodies, status : Statuses, by : Nat]
IdempotencyRows == [state : {"reserved", "completed"},
                    fingerprint : {Fingerprint(c) : c \in Calls},
                    reply : Replies]

\* Every variable has its type; identifiers in use have been allocated.
TypeOK ==
    /\ ContextTypeOK
    /\ pc \in [Requests -> Steps \cup {"idle", "done", "lost"}]
    /\ call \in [Requests -> Calls \cup {NoCall}]
    /\ \A r \in Requests : pc[r] # "idle" => call[r] \in Calls
    /\ open \in [Requests -> BOOLEAN]
    /\ cred \in [Requests -> 0..sequence]
    /\ reply \in [Requests -> Replies]
    /\ issuers \in IssuerTables
    /\ sequence \in Nat
    /\ credentials \in [DOMAIN credentials -> CredentialRows]
    /\ DOMAIN credentials \subseteq 1..sequence
    /\ idempotency \in [DOMAIN idempotency -> IdempotencyRows]
    /\ DOMAIN idempotency \subseteq Slots

\* r holds the open reservation of this slot.
Holds(r, slot) == open[r] /\ SlotOf(call[r]) = slot

\* At most one request has a slot's reservation open at any time, and while
\* it does, the row in the slot is the one it inserted: the exclusion that
\* ReserveIdempotencyRecord, the deferred release and the completion share.
ReservationExclusive ==
    \A r \in Requests : open[r] =>
        LET slot == SlotOf(call[r])
        IN  /\ Keyed(call[r])
            /\ slot \in DOMAIN idempotency
            /\ idempotency[slot].fingerprint = Fingerprint(call[r])
            /\ \A q \in Requests : Holds(q, slot) => q = r

\* A keyed write that has been answered with success stays replayable: its
\* slot holds, for good, the same reply under the same fingerprint, so two
\* requests with one key never see two different successes, whatever failed,
\* expired or crashed in between.
SuccessIsReplayable ==
    \A r \in Requests :
        Answered(r) /\ Success(reply[r]) /\ call[r].op # "read" /\ Keyed(call[r]) =>
            LET slot == SlotOf(call[r])
            IN  /\ slot \in DOMAIN idempotency
                /\ idempotency[slot].state = "completed"
                /\ idempotency[slot].fingerprint = Fingerprint(call[r])
                /\ idempotency[slot].reply = reply[r]

\* A 201, replayed or not, names a stored credential of the caller's own
\* organization with the body this caller sent (up to white space around its
\* fields, which the fingerprint trims).
IssuedMeansStored ==
    \A r \in Requests :
        Answered(r) /\ Success(reply[r]) /\ call[r].op = "issue" =>
            LET id == reply[r].resource
            IN  /\ id \in DOMAIN credentials
                /\ credentials[id].issuer = Org(call[r])
                /\ credentials[id].body = call[r].body

\* Requests that share an idempotency key store at most one credential
\* between them.
AtMostOneCredentialPerKey ==
    \A r, q \in Requests :
        /\ call[r].op = "issue" /\ call[q].op = "issue"
        /\ Keyed(call[r]) /\ Keyed(call[q])
        /\ SlotOf(call[r]) = SlotOf(call[q])
        /\ cred[r] \in DOMAIN credentials /\ cred[q] \in DOMAIN credentials
        => r = q

\* The same, as long as no statement has failed: contexts may have expired
\* and the process crashed, in the middle of any statement.  It rests on the
\* deferred release running under the context that cut the request short.
OneCredentialPerKeyUnlessFault ==
    budget["fault"] = Budget["fault"] => AtMostOneCredentialPerKey

\* A slot reserved by a request that is gone.
Orphan(slot) ==
    /\ slot \in DOMAIN idempotency
    /\ idempotency[slot].state = "reserved"
    /\ \A r \in Requests : ~Holds(r, slot)

\* A reservation whose request crashed or timed out is never taken over: the
\* key fails closed for good, rather than running its write a second time.
OrphanStaysOrphan == [][\A slot \in Slots : Orphan(slot) => Orphan(slot)']_vars

\* A stored credential keeps its issuer and body, and its status changes only
\* in the UPDATE of a status request of its own issuer, never back to active.
CredentialLifecycle ==
    [][\A id \in DOMAIN credentials :
        /\ id \in DOMAIN credentials'
        /\ credentials'[id] # credentials[id] =>
            /\ credentials'[id].issuer = credentials[id].issuer
            /\ credentials'[id].body = credentials[id].body
            /\ credentials'[id].status # "active"
            /\ \E r \in Requests : /\ pc[r] = "update" /\ pc'[r] # "update"
                                   /\ call[r].target = id
                                   /\ Org(call[r]) = credentials[id].issuer]_vars

\* A credential that is no longer active keeps its status and its successor:
\* the transitions of ADR 0007 start in active only.
TerminalStatusIsFinal ==
    [][\A id \in DOMAIN credentials :
        credentials[id].status # "active" => credentials'[id] = credentials[id]]_vars

\* What the audit table says succeeded did happen, and to a credential of the
\* organization it is attributed to.
AuditTruthful ==
    \A id \in DOMAIN audits :
        LET row == audits[id]
        IN  row.outcome = "succeeded" =>
                /\ row.resource \in DOMAIN credentials
                /\ credentials[row.resource].issuer = OrgOf[row.caller]
                /\ row.action = "status" => credentials[row.resource].status # "active"

\* A request is told "reserved by an in-flight request" only while a request
\* that holds the reservation is in flight, or after something has failed: a
\* refused or invalid write leaves no reservation behind.
InProgressMeansInFlight ==
    [][\A r \in Requests :
        budget = Budget /\ pc[r] = "lookup" /\ pc'[r] = "in_progress" =>
            \E q \in Requests : InFlight(q) /\ Holds(q, SlotOf(call[r]))]_vars

\* Every request that has arrived is answered, or lost with the process: no
\* step waits for another request, whoever holds the slot.
RequestsEnd == \A r \in Requests : InFlight(r) ~> ~InFlight(r)

\* A reservation ends, completed or released, unless something fails.
ReservationsSettle ==
    \A slot \in Slots :
        (slot \in DOMAIN idempotency /\ idempotency[slot].state = "reserved")
            ~> \/ slot \in DOMAIN idempotency => idempotency[slot].state = "completed"
               \/ budget # Budget

-----------------------------------------------------------------------------
(* The promise behind a key, IdempotentWrite, is kept by this service for  *)
(* its keyed writes: a slot is decided when its row is completed.          *)

KeyedWrites == {r \in Requests :
                    pc[r] # "idle" /\ call[r].op # "read" /\ Keyed(call[r])}
CompletedSlots == {s \in DOMAIN idempotency : idempotency[s].state = "completed"}

Promise == INSTANCE IdempotentWrite WITH
    asked <- [r \in KeyedWrites |-> <<SlotOf(call[r]), Fingerprint(call[r])>>],
    outcome <- [s \in CompletedSlots |->
                    [fingerprint |-> idempotency[s].fingerprint,
                     reply |-> idempotency[s].reply]],
    answer <- [r \in {q \in KeyedWrites : Answered(q)} |-> reply[r]]

\* Keyed writes implement IdempotentWrite under every failure: one outcome
\* per key, decided once, served only to the request it was decided for.
KeepsPromise == Promise!Spec
=============================================================================
