----------------------------- MODULE Phase1Sql -----------------------------
(***************************************************************************)
(* The tables of the shared Phase 1 store and the statements the services  *)
(* run on them (services/internal/phase1sql/store.go).  A table is a       *)
(* function from the primary keys present to their rows; a statement is an *)
(* operator from a table to the table it leaves.  Each operator is one SQL *)
(* statement, or one transaction, which the database runs atomically.      *)
(***************************************************************************)
EXTENDS Naturals

-----------------------------------------------------------------------------
(* INSERT under a primary key: an existing row is left alone.  The code    *)
(* sees the conflict as an error, or as zero rows under DO NOTHING.        *)
InsertRow(table, id, row) ==
    IF id \in DOMAIN table
    THEN table
    ELSE [k \in DOMAIN table \cup {id} |-> IF k = id THEN row ELSE table[k]]

DeleteRow(table, id) == [k \in DOMAIN table \ {id} |-> table[k]]

\* nextSequence: INSERT, UPDATE and SELECT in one transaction; a number is
\* never given back.
SequenceNotAdvanced(value) == value
NextSequence(value) == value + 1

-----------------------------------------------------------------------------
(* What a handler answers, and what a completed idempotency row stores of  *)
(* it: the HTTP code, the error code, the resource and its status.         *)
Reply(code, error, resource, status) ==
    [code |-> code, error |-> error, resource |-> resource, status |-> status]

NoResource == 0
NoReply == Reply(0, "none", NoResource, "none")
Refusal(code, error) == Reply(code, error, NoResource, "none")
Success(reply) == reply.code \in {200, 201}

-----------------------------------------------------------------------------
(* phase1_idempotency_records, one row per slot: operation, caller, key.   *)
ReservedRow(fingerprint) ==
    [state |-> "reserved", fingerprint |-> fingerprint, reply |-> NoReply]

\* A slot that only a completed row occupies: a reserved one may be reclaimed.
TakenOnceCompleted(idempotency, slot) ==
    slot \in DOMAIN idempotency /\ idempotency[slot].state = "completed"

\* Whether the INSERT of a reservation meets a row.
Taken(idempotency, slot) == slot \in DOMAIN idempotency

\* A reservation that overwrites whatever the slot holds.
OverwritingReservation(idempotency, slot, fingerprint) ==
    [k \in DOMAIN idempotency \cup {slot} |->
        IF k = slot THEN ReservedRow(fingerprint) ELSE idempotency[k]]

\* The INSERT ... ON CONFLICT DO NOTHING half of ReserveIdempotencyRecord.
ReserveIdempotencyRecord(idempotency, slot, fingerprint) ==
    InsertRow(idempotency, slot, ReservedRow(fingerprint))

\* An outcome decided by the state of the row alone.
OutcomeIgnoringFingerprint(row, fingerprint) ==
    IF row.state = "completed" THEN "replay" ELSE "in_progress"

\* An outcome that sends a request back to wait for the one in progress.
OutcomeThatWaits(row, fingerprint) ==
    CASE row.fingerprint # fingerprint -> "conflict"
      [] row.fingerprint = fingerprint /\ row.state = "completed" -> "replay"
      [] row.fingerprint = fingerprint /\ row.state # "completed" -> "reserve"

\* The SELECT half: what the row found in the slot means to this request.
ReservationOutcome(row, fingerprint) ==
    CASE row.fingerprint # fingerprint -> "conflict"
      [] row.fingerprint = fingerprint /\ row.state = "completed" -> "replay"
      [] row.fingerprint = fingerprint /\ row.state # "completed" -> "in_progress"

\* The UPDATE names the slot only: not the state, not the fingerprint.
CompleteIdempotencyRecord(idempotency, slot, reply) ==
    IF slot \in DOMAIN idempotency
    THEN [idempotency EXCEPT ![slot] =
            [state |-> "completed", fingerprint |-> @.fingerprint, reply |-> reply]]
    ELSE idempotency

\* A DELETE that forgets the condition on reservation_state.
ReleaseInAnyState(idempotency, slot) == DeleteRow(idempotency, slot)

ReleaseIdempotencyRecord(idempotency, slot) ==
    IF slot \in DOMAIN idempotency /\ idempotency[slot].state = "reserved"
    THEN DeleteRow(idempotency, slot)
    ELSE idempotency

-----------------------------------------------------------------------------
(* issuer_api_credential_records.  A credential identifier is named by the *)
(* sequence number it is formatted from.                                   *)
CredentialRow(issuer, body) ==
    [issuer |-> issuer, body |-> body, status |-> "active", by |-> NoResource]

CreateCredentialRecord(credentials, id, row) == InsertRow(credentials, id, row)

\* The UPDATE names the credential only: not the status it was read in.
UpdateCredentialStatus(credentials, id, status, by) ==
    IF id \in DOMAIN credentials
    THEN [credentials EXCEPT ![id].status = status, ![id].by = by]
    ELSE credentials

-----------------------------------------------------------------------------
(* phase1_audit_records.  The primary key is the request identifier and    *)
(* the action's suffix.                                                    *)
AuditRow(caller, action, resource, outcome) ==
    [caller |-> caller, action |-> action, resource |-> resource, outcome |-> outcome]

AppendAuditRecord(audits, id, row) == InsertRow(audits, id, row)
=============================================================================
