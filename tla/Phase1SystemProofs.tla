------------------------ MODULE Phase1SystemProofs ------------------------
(***************************************************************************)
(* Proofs about Phase1System, for any requests, calls and failures at both *)
(* services.                                                               *)
(***************************************************************************)
EXTENDS Phase1System, SequenceTheorems, TLAPS

\* The operators of Phase1Sql that the properties use are those that the two
\* services' statements use.
LEMMA OneStore ==
    /\ \A reply : (Issuer!Success(reply) <=> Success(reply)) /\ (Verifier!Success(reply) <=> Success(reply))
    /\ Issuer!NoReply = NoReply /\ Verifier!NoReply = NoReply
    /\ Issuer!NoResource = NoResource /\ Verifier!NoResource = NoResource
BY DEF Success, NoReply, NoResource, Reply, Issuer!Success, Issuer!NoReply, Issuer!NoResource,
   Issuer!Reply, Verifier!Success, Verifier!NoReply, Verifier!NoResource, Verifier!Reply

LEMMA OutcomeNames ==
    ASSUME NEW row, NEW fingerprint
    PROVE  /\ Issuer!ReservationOutcome(row, fingerprint) \in {"conflict", "replay", "in_progress"}
           /\ Verifier!ReservationOutcome(row, fingerprint) \in {"conflict", "replay", "in_progress"}
BY DEF Issuer!ReservationOutcome, Verifier!ReservationOutcome

-----------------------------------------------------------------------------
(* The issuer service: what each step of a request allows                  *)

Closed == {"idle", "done", "lost"}
Final == {"revoked", "superseded"}

IssuerTyped ==
    /\ ipc \in [IssuerRequests -> Issuer!Steps \cup Closed]
    /\ DOMAIN icall = IssuerRequests
    /\ DOMAIN ireply = IssuerRequests
    /\ DOMAIN icred = IssuerRequests /\ DOMAIN iopen = IssuerRequests
    /\ credentials \in [DOMAIN credentials -> Issuer!CredentialRows]

IssuerFlow(r) ==
    /\ ipc[r] # "idle" => icall[r] \in IssuerCalls
    /\ ipc[r] \in {"issuer", "allocate", "create"} => icall[r].op = "issue"
    /\ ipc[r] \in {"load", "update"} => icall[r].op = "status" /\ icall[r].status \in Final
    /\ ipc[r] = "read" => icall[r].op = "read"
    /\ ipc[r] \in {"reserve", "lookup"} =>
            /\ icall[r].key # NoKey
            /\ icall[r].op \in {"issue", "status"}
            /\ icall[r].op = "status" => icall[r].status \in Final
    /\ ipc[r] \in {"replay", "in_progress", "conflict"} => icall[r].key # NoKey
    /\ ipc[r] \in {"idle", "release", "in_progress", "conflict"} => ~Success(ireply[r])

IssuerInv == IssuerTyped /\ \A r \in IssuerRequests : IssuerFlow(r)

\* A step of r leaves the other requests alone and begins nothing anew.
LEMMA IssuerStepFrame ==
    ASSUME IssuerTyped, NEW r \in IssuerRequests, Issuer!Step(r)
    PROVE  /\ icall' = icall
           /\ ipc[r] \notin Closed /\ ipc'[r] # "idle"
           /\ \A q \in IssuerRequests \ {r} :
                /\ ipc'[q] = ipc[q] /\ ireply'[q] = ireply[q]
                /\ icred'[q] = icred[q] /\ iopen'[q] = iopen[q]
<1> USE DEF IssuerTyped, Closed, Issuer!Goto, Issuer!Fail
<1>1. PICK out \in Issuer!Outcomes :
        \/ Issuer!ReadIssuer(r, out) \/ Issuer!Reserve(r, out) \/ Issuer!Lookup(r, out)
        \/ Issuer!Allocate(r, out) \/ Issuer!Create(r, out) \/ Issuer!Load(r, out)
        \/ Issuer!Update(r, out) \/ Issuer!ReadCredential(r, out) \/ Issuer!Complete(r, out)
        \/ Issuer!Release(r, out) \/ Issuer!Audit(r, out)
  BY DEF Issuer!Step
<1>2. CASE Issuer!ReadIssuer(r, out)
  BY <1>2 DEF Issuer!ReadIssuer, Issuer!ReserveStep, Issuer!WriteStep
<1>3. CASE Issuer!Reserve(r, out)
  BY <1>3 DEF Issuer!Reserve, Issuer!WriteStep
<1>4. CASE Issuer!Lookup(r, out)
  <2> DEFINE outcome == Issuer!ReservationOutcome(idempotency[Issuer!SlotOf(icall[r])],
                                                  Issuer!Fingerprint(icall[r]))
  <2>1. outcome \in {"conflict", "replay", "in_progress"}
    BY OutcomeNames
  <2> QED
    BY <1>4, <2>1 DEF Issuer!Lookup
<1>5. CASE Issuer!Allocate(r, out) \/ Issuer!Create(r, out) \/ Issuer!Load(r, out)
  BY <1>5 DEF Issuer!Allocate, Issuer!Create, Issuer!Load, Issuer!CompleteStep
<1>6. CASE Issuer!Update(r, out) \/ Issuer!ReadCredential(r, out)
  BY <1>6 DEF Issuer!Update, Issuer!ReadCredential, Issuer!CompleteStep
<1>7. CASE Issuer!Complete(r, out) \/ Issuer!Release(r, out) \/ Issuer!Audit(r, out)
  BY <1>7 DEF Issuer!Complete, Issuer!Release, Issuer!Audit, Issuer!AuditSteps
<1> QED
  BY <1>1, <1>2, <1>3, <1>4, <1>5, <1>6, <1>7

\* Every value that a statement on the credential table takes has its type.
LEMMA IssuerStepTyped ==
    ASSUME IssuerInv, NEW r \in IssuerRequests, Issuer!Step(r)
    PROVE  IssuerTyped'
<1> USE DEF Issuer!Goto, Issuer!Fail
<1>a. IssuerTyped /\ IssuerFlow(r)
  BY DEF IssuerInv
<1>1. PICK out \in Issuer!Outcomes :
        \/ Issuer!ReadIssuer(r, out) \/ Issuer!Reserve(r, out) \/ Issuer!Lookup(r, out)
        \/ Issuer!Allocate(r, out) \/ Issuer!Create(r, out) \/ Issuer!Load(r, out)
        \/ Issuer!Update(r, out) \/ Issuer!ReadCredential(r, out) \/ Issuer!Complete(r, out)
        \/ Issuer!Release(r, out) \/ Issuer!Audit(r, out)
  BY DEF Issuer!Step
<1>2. /\ DOMAIN icall' = IssuerRequests
      /\ DOMAIN ireply' = IssuerRequests
      /\ DOMAIN icred' = IssuerRequests /\ DOMAIN iopen' = IssuerRequests
  BY <1>1, <1>a DEF IssuerTyped, Issuer!ReadIssuer, Issuer!Reserve, Issuer!Lookup, Issuer!Allocate,
     Issuer!Create, Issuer!Load, Issuer!Update, Issuer!ReadCredential, Issuer!Complete,
     Issuer!Release, Issuer!Audit
<1>3. ipc' \in [IssuerRequests -> Issuer!Steps \cup Closed]
  <2>1. CASE Issuer!ReadIssuer(r, out)
    BY <2>1, <1>a DEF IssuerTyped, Closed, Issuer!Steps, Issuer!ReadIssuer, Issuer!ReserveStep,
       Issuer!WriteStep
  <2>2. CASE Issuer!Reserve(r, out)
    BY <2>2, <1>a DEF IssuerTyped, Closed, Issuer!Steps, Issuer!Reserve, Issuer!WriteStep
  <2>3. CASE Issuer!Lookup(r, out)
    <3> DEFINE outcome == Issuer!ReservationOutcome(idempotency[Issuer!SlotOf(icall[r])],
                                                    Issuer!Fingerprint(icall[r]))
    <3>1. outcome \in {"conflict", "replay", "in_progress"}
      BY OutcomeNames
    <3> QED
      BY <2>3, <3>1, <1>a DEF IssuerTyped, Closed, Issuer!Steps, Issuer!AuditSteps, Issuer!Lookup
  <2>4. CASE Issuer!Allocate(r, out) \/ Issuer!Create(r, out) \/ Issuer!Load(r, out)
    BY <2>4, <1>a DEF IssuerTyped, Closed, Issuer!Steps, Issuer!AuditSteps, Issuer!Allocate,
       Issuer!Create, Issuer!Load, Issuer!CompleteStep
  <2>5. CASE Issuer!Update(r, out) \/ Issuer!ReadCredential(r, out)
    BY <2>5, <1>a DEF IssuerTyped, Closed, Issuer!Steps, Issuer!AuditSteps, Issuer!Update,
       Issuer!ReadCredential, Issuer!CompleteStep
  <2>6. CASE Issuer!Complete(r, out) \/ Issuer!Release(r, out) \/ Issuer!Audit(r, out)
    BY <2>6, <1>a DEF IssuerTyped, Closed, Issuer!Steps, Issuer!AuditSteps, Issuer!Complete,
       Issuer!Release, Issuer!Audit
  <2> QED
    BY <1>1, <2>1, <2>2, <2>3, <2>4, <2>5, <2>6
<1>4. credentials' \in [DOMAIN credentials' -> Issuer!CredentialRows]
  <2>1. CASE UNCHANGED credentials
    BY <2>1, <1>a DEF IssuerTyped
  <2>2. CASE Issuer!Create(r, out)
    <3>1. Issuer!CredentialRow(Issuer!Org(icall[r]), icall[r].body) \in Issuer!CredentialRows
      BY <2>2, <1>a, CallsAssumption DEF IssuerFlow, Issuer!Create, Issuer!CredentialRow, Issuer!NoResource,
         Issuer!CredentialRows, Issuer!Org, Issuer!Orgs, Issuer!Callers, Issuer!Bodies,
         Issuer!Statuses
    <3>2. credentials \in [DOMAIN credentials -> Issuer!CredentialRows]
      BY <1>a DEF IssuerTyped
    <3>3. \/ UNCHANGED credentials
          \/ credentials' = [k \in DOMAIN credentials \cup {icred[r]} |->
                IF k = icred[r] THEN Issuer!CredentialRow(Issuer!Org(icall[r]), icall[r].body)
                                ELSE credentials[k]]
      BY <2>2 DEF Issuer!Create, Issuer!CreateCredentialRecord, Issuer!InsertRow
    <3> QED
      BY <3>1, <3>2, <3>3
  <2>3. CASE Issuer!Update(r, out)
    <3>1. icall[r].by \in Nat /\ icall[r].status \in Issuer!Statuses
      BY <2>3, <1>a, CallsAssumption DEF IssuerFlow, Issuer!Update, Final, Issuer!Statuses
    <3>2. credentials \in [DOMAIN credentials -> Issuer!CredentialRows]
      BY <1>a DEF IssuerTyped
    <3>3. \/ UNCHANGED credentials
          \/ /\ icred[r] \in DOMAIN credentials
             /\ credentials' = [credentials EXCEPT ![icred[r]].status = icall[r].status,
                                                   ![icred[r]].by = icall[r].by]
      BY <2>3 DEF Issuer!Update, Issuer!UpdateCredentialStatus
    <3> QED
      BY <3>1, <3>2, <3>3 DEF Issuer!CredentialRows
  <2> QED
    BY <1>1, <2>1, <2>2, <2>3 DEF Issuer!ReadIssuer, Issuer!Reserve, Issuer!Lookup,
       Issuer!Allocate, Issuer!Load, Issuer!ReadCredential, Issuer!Complete, Issuer!Release,
       Issuer!Audit, Issuer!dbVars
<1> QED
  BY <1>2, <1>3, <1>4 DEF IssuerTyped

\* What is refused is no success.
LEMMA IssuerRefusals ==
    /\ ~Success(Issuer!NoReply) /\ ~Success(Issuer!PersistenceError) /\ ~Success(Issuer!NotFound)
    /\ \A code \in {400, 401, 403, 409, 503} : \A error : ~Success(Issuer!Refusal(code, error))
    /\ \A c \in IssuerCalls : ~Success(Issuer!FrontDoor(c))
<1> USE DEF Success, Issuer!NoReply, Issuer!Refusal, Issuer!Reply
<1>1. \A c \in IssuerCalls : ~Success(Issuer!FrontDoor(c))
  BY CallsAssumption DEF Issuer!FrontDoor
<1> QED
  BY <1>1 DEF Issuer!PersistenceError, Issuer!NotFound

LEMMA IssuerStepFlow ==
    ASSUME IssuerInv, NEW r \in IssuerRequests, Issuer!Step(r)
    PROVE  IssuerFlow(r)'
<1> USE DEF Issuer!Goto, Issuer!Fail
<1>a. IssuerTyped /\ IssuerFlow(r)
  BY DEF IssuerInv
<1>b. icall' = icall /\ ipc[r] \notin Closed
  BY <1>a, IssuerStepFrame
<1>c. icall[r] \in IssuerCalls
  BY <1>a, <1>b DEF IssuerFlow, Closed
<1>1. PICK out \in Issuer!Outcomes :
        \/ Issuer!ReadIssuer(r, out) \/ Issuer!Reserve(r, out) \/ Issuer!Lookup(r, out)
        \/ Issuer!Allocate(r, out) \/ Issuer!Create(r, out) \/ Issuer!Load(r, out)
        \/ Issuer!Update(r, out) \/ Issuer!ReadCredential(r, out) \/ Issuer!Complete(r, out)
        \/ Issuer!Release(r, out) \/ Issuer!Audit(r, out)
  BY DEF Issuer!Step
<1>2. CASE Issuer!ReadIssuer(r, out)
  BY <1>2, <1>a, <1>b, <1>c, IssuerRefusals DEF IssuerTyped, IssuerFlow, Issuer!ReadIssuer,
     Issuer!ReserveStep, Issuer!WriteStep, Issuer!Keyed
<1>3. CASE Issuer!Reserve(r, out)
  BY <1>3, <1>a, <1>b, <1>c, IssuerRefusals DEF IssuerTyped, IssuerFlow, Issuer!Reserve,
     Issuer!WriteStep
<1>4. CASE Issuer!Lookup(r, out)
  <2> DEFINE row == idempotency[Issuer!SlotOf(icall[r])]
             outcome == Issuer!ReservationOutcome(row, Issuer!Fingerprint(icall[r]))
  <2>1. outcome \in {"conflict", "replay", "in_progress"}
    BY OutcomeNames
  <2>2. outcome # "replay" => ~Success(Issuer!OccupiedReply(outcome, row))
    BY <2>1 DEF Issuer!OccupiedReply, Success, Issuer!Reply
  <2> HIDE DEF row
  <2>3. \/ ireply' = [ireply EXCEPT ![r] = Issuer!PersistenceError]
           /\ ipc'[r] \in {"release", "done"}
        \/ ireply' = [ireply EXCEPT ![r] = Issuer!OccupiedReply(outcome, row)]
           /\ ipc'[r] = outcome
    BY <1>4, <1>a DEF Issuer!Lookup, IssuerTyped, row
  <2>4. icall[r].key # NoKey
    BY <1>4, <1>a DEF IssuerFlow, Issuer!Lookup
  <2> QED
    BY <2>1, <2>2, <2>3, <2>4, <1>a, <1>b, <1>c, IssuerRefusals DEF IssuerTyped, IssuerFlow
<1>5. CASE Issuer!Allocate(r, out) \/ Issuer!Create(r, out) \/ Issuer!Load(r, out)
  BY <1>5, <1>a, <1>b, <1>c, IssuerRefusals DEF IssuerTyped, IssuerFlow, Issuer!Allocate,
     Issuer!Create, Issuer!Load, Issuer!CompleteStep
<1>6. CASE Issuer!Update(r, out) \/ Issuer!ReadCredential(r, out)
  BY <1>6, <1>a, <1>b, <1>c, IssuerRefusals DEF IssuerTyped, IssuerFlow, Issuer!Update,
     Issuer!ReadCredential, Issuer!CompleteStep
<1>7. CASE Issuer!Complete(r, out) \/ Issuer!Release(r, out) \/ Issuer!Audit(r, out)
  BY <1>7, <1>a, <1>b, <1>c, IssuerRefusals DEF IssuerTyped, IssuerFlow, Issuer!Complete,
     Issuer!Release, Issuer!Audit
<1> QED
  BY <1>1, <1>2, <1>3, <1>4, <1>5, <1>6, <1>7

\* What a call is admitted with, it keeps to its end.
LEMMA IssuerNextInv ==
    ASSUME IssuerInv, Issuer!Next
    PROVE  IssuerInv'
<1>a. IssuerTyped /\ \A r \in IssuerRequests : IssuerFlow(r)
  BY DEF IssuerInv
<1>1. ASSUME NEW r \in IssuerRequests, NEW c \in IssuerCalls,
             Issuer!Refuse(r, c) \/ Issuer!Arrive(r, c)
      PROVE  IssuerInv'
  <2>1. IssuerTyped'
    <3>1. Issuer!FirstStep(c) \in Issuer!Steps
      BY CallsAssumption DEF Issuer!Steps, Issuer!FirstStep, Issuer!ReserveStep, Issuer!WriteStep
    <3> QED
      BY <1>1, <1>a, <3>1 DEF IssuerTyped, Closed, Issuer!Refuse, Issuer!Arrive, Issuer!Goto,
         Issuer!dbVars
  <2>2. IssuerFlow(r)'
    <3>1. CASE Issuer!Refuse(r, c)
      BY <3>1, <1>a DEF IssuerTyped, IssuerFlow, Issuer!Refuse, Issuer!Goto
    <3>2. CASE Issuer!Arrive(r, c)
      <4>1. c.op = "status" => c.status \in Final
        BY <3>2, CallsAssumption, OneStore DEF Issuer!Arrive, Issuer!FrontDoor, Issuer!ValidStatusChange,
           Issuer!NoReply, Issuer!Refusal, Issuer!Reply, Final
      <4> QED
        BY <3>2, <4>1, <1>a, CallsAssumption DEF IssuerTyped, IssuerFlow, Issuer!Arrive,
           Issuer!Goto, Issuer!FirstStep, Issuer!ReserveStep, Issuer!WriteStep, Issuer!Keyed
    <3> QED
      BY <1>1, <3>1, <3>2
  <2>3. \A q \in IssuerRequests \ {r} : IssuerFlow(q)'
    BY <1>1, <1>a DEF IssuerTyped, IssuerFlow, Issuer!Refuse, Issuer!Arrive, Issuer!Goto
  <2> QED
    BY <2>1, <2>2, <2>3 DEF IssuerInv
<1>2. ASSUME NEW r \in IssuerRequests, Issuer!Step(r) PROVE IssuerInv'
  <2>1. \A q \in IssuerRequests \ {r} : IssuerFlow(q)'
    BY <1>2, <1>a, IssuerStepFrame DEF IssuerFlow
  <2> QED
    BY <1>2, <2>1, IssuerStepTyped, IssuerStepFlow DEF IssuerInv
<1>3. ASSUME \/ \E r \in IssuerRequests : Issuer!Expire(r)
             \/ Issuer!TrustRegistryWrites
      PROVE  IssuerInv'
  BY <1>3, <1>a DEF Issuer!Expire, Issuer!TrustRegistryWrites, Issuer!requestVars, Issuer!dbVars,
     IssuerInv, IssuerTyped, IssuerFlow
<1>4. CASE Issuer!Crash
  <2>1. \A r \in IssuerRequests :
            ipc'[r] = ipc[r] \/ (ipc[r] # "idle" /\ ipc'[r] = "lost")
    BY <1>4 DEF Issuer!Crash, Issuer!InFlight, Issuer!Steps, Issuer!AuditSteps
  <2>2. UNCHANGED <<icall, ireply, credentials>> /\ DOMAIN ipc' = IssuerRequests
    BY <1>4 DEF Issuer!Crash, Issuer!dbVars
  <2>3. IssuerTyped'
    BY <1>4, <1>a, <2>1, <2>2 DEF Issuer!Crash, IssuerTyped, Closed
  <2> QED
    BY <1>a, <2>1, <2>2, <2>3 DEF IssuerInv, IssuerFlow
<1> QED
  BY <1>1, <1>2, <1>3, <1>4 DEF Issuer!Next

LEMMA IssuerInitInv == Init => IssuerInv
<1> SUFFICES ASSUME Init PROVE IssuerInv
  OBVIOUS
<1>1. credentials \in [DOMAIN credentials -> Issuer!CredentialRows]
  <2>1. Len(Preissued) \in Nat /\ \A id \in 1..Len(Preissued) :
            Preissued[id] \in [issuer : Issuer!Orgs, body : Issuer!Bodies]
    BY PreissuedAssumption, LenProperties, ElementOfSeq
       DEF Issuer!Orgs, Issuer!Callers, Issuer!Bodies
  <2>2. \A id \in 1..Len(Preissued) :
            Issuer!CredentialRow(Preissued[id].issuer, Preissued[id].body)
                \in Issuer!CredentialRows
    BY <2>1 DEF Issuer!CredentialRow, Issuer!CredentialRows, Issuer!Statuses, Issuer!NoResource
  <2> QED
    BY <2>2 DEF Init, Issuer!Init
<1> QED
  BY <1>1, IssuerRefusals DEF Init, Issuer!Init, IssuerInv, IssuerTyped, IssuerFlow, Closed

LEMMA IssuerAnyInv ==
    ASSUME IssuerInv, [Next]_vars
    PROVE  IssuerInv'
<1>1. CASE IssuerActs
  BY <1>1, IssuerNextInv DEF IssuerActs
<1>2. CASE VerifierActs \/ BootstrapWrites \/ UNCHANGED vars
  BY <1>2 DEF VerifierActs, BootstrapWrites, vars, issuerVars, IssuerInv, IssuerTyped, IssuerFlow
<1> QED
  BY <1>1, <1>2 DEF Next

LEMMA AlwaysIssuer == Spec => []IssuerInv
BY IssuerInitInv, IssuerAnyInv, PTL DEF Spec

-----------------------------------------------------------------------------
(* The issuer service is the verifier service's world                      *)

\* What the issuer service does to the credential table, seen by the verifier
\* service, is what VerifierApi supposes of IssuerIssues and
\* IssuerChangesStatus: a new active row under its own digest, or a status
\* that changes to an end.
THEOREM VerifierSeesItsWorld == Spec => IssuerIsTheVerifiersWorld
<1> DEFINE Added == \E id \in DOMAIN credentials' \ DOMAIN credentials :
                        /\ SeenByVerifier' = InsertRow(SeenByVerifier, id, SeenByVerifier'[id])
                        /\ SeenByVerifier'[id].status = "active"
                        /\ SeenByVerifier'[id].digest.text.id = id
           Changed == \E id \in DOMAIN credentials, status \in {"revoked", "superseded"} :
                        Verifier!IssuerChangesStatus(id, status)
<1>1. ASSUME IssuerInv, Next PROVE Added \/ Changed \/ UNCHANGED credentials
  <2>a. IssuerTyped /\ \A r \in IssuerRequests : IssuerFlow(r)
    BY <1>1 DEF IssuerInv
  <2>1. CASE VerifierActs \/ BootstrapWrites
    BY <2>1 DEF VerifierActs, BootstrapWrites
  <2>2. CASE IssuerActs
    <3>1. ASSUME NEW r \in IssuerRequests, NEW out, Issuer!Create(r, out),
                 ~UNCHANGED credentials
          PROVE  Added
      <4> DEFINE id == icred[r]
                 row == Issuer!CredentialRow(Issuer!Org(icall[r]), icall[r].body)
      <4>1. /\ id \notin DOMAIN credentials
            /\ credentials' = [k \in DOMAIN credentials \cup {id} |->
                                 IF k = id THEN row ELSE credentials[k]]
        BY <3>1 DEF Issuer!Create, Issuer!CreateCredentialRecord, Issuer!InsertRow
      <4>2. row.status = "active"
        BY DEF Issuer!CredentialRow
      <4> HIDE DEF id, row
      <4>3. /\ DOMAIN SeenByVerifier = DOMAIN credentials
            /\ DOMAIN SeenByVerifier' = DOMAIN credentials \cup {id}
        BY <4>1 DEF SeenByVerifier
      <4>4. \A k \in DOMAIN credentials : SeenByVerifier'[k] = SeenByVerifier[k]
        BY <4>1 DEF SeenByVerifier, ArtifactOf
      <4>5. SeenByVerifier'[id].status = "active" /\ SeenByVerifier'[id].digest.text.id = id
        BY <4>1, <4>2 DEF SeenByVerifier, ArtifactOf, Artifact
      <4>6. SeenByVerifier' = [k \in DOMAIN credentials \cup {id} |-> SeenByVerifier'[k]]
        BY <4>1 DEF SeenByVerifier
      <4>7. SeenByVerifier' = InsertRow(SeenByVerifier, id, SeenByVerifier'[id])
        BY <4>1, <4>3, <4>4, <4>6 DEF InsertRow
      <4> QED
        BY <4>1, <4>5, <4>7
    <3>2. ASSUME NEW r \in IssuerRequests, NEW out, Issuer!Update(r, out),
                 ~UNCHANGED credentials
          PROVE  Changed
      <4> DEFINE id == icred[r]
                 status == icall[r].status
      <4>1. /\ id \in DOMAIN credentials
            /\ credentials' = [credentials EXCEPT ![id].status = status, ![id].by = icall[r].by]
        BY <3>2 DEF Issuer!Update, Issuer!UpdateCredentialStatus
      <4>2. status \in {"revoked", "superseded"}
        BY <3>2, <2>a DEF Issuer!Update, IssuerFlow, Final
      <4> HIDE DEF id, status
      <4>3. DOMAIN credentials' = DOMAIN credentials
        BY <4>1
      <4>4. \A k \in DOMAIN credentials : k # id => credentials'[k] = credentials[k]
        BY <4>1
      <4>5. /\ credentials'[id].issuer = credentials[id].issuer
            /\ credentials'[id].body = credentials[id].body
            /\ credentials'[id].status = status
        BY <4>1, <2>a DEF IssuerTyped, Issuer!CredentialRows
      <4>6. SeenByVerifier' = [SeenByVerifier EXCEPT ![id].status = status]
        BY <4>1, <4>3, <4>4, <4>5 DEF SeenByVerifier, ArtifactOf, Artifact
      <4>7. Verifier!IssuerChangesStatus(id, status)
        <5>1. UNCHANGED <<idempotency, audits>>
          BY <3>2 DEF Issuer!Update
        <5> QED
          BY <4>1, <4>6, <5>1, <2>2 DEF Verifier!IssuerChangesStatus, SeenByVerifier, IssuerActs,
             verifierVars, Verifier!requestVars, Verifier!verifierVars, Verifier!history,
             Verifier!contextVars
      <4> QED
        BY <4>1, <4>2, <4>7
    <3>3. ASSUME NEW r \in IssuerRequests, Issuer!Step(r)
          PROVE  Added \/ Changed \/ UNCHANGED credentials
      <4> HIDE DEF Added, Changed
      <4> QED
        BY <3>1, <3>2, <3>3 DEF Issuer!Step, Issuer!ReadIssuer, Issuer!Reserve, Issuer!Lookup,
           Issuer!Allocate, Issuer!Load, Issuer!ReadCredential, Issuer!Complete, Issuer!Release,
           Issuer!Audit, Issuer!dbVars
    <3>4. Issuer!Next
      BY <2>2 DEF IssuerActs
    <3> HIDE DEF Added, Changed
    <3> QED
      BY <3>3, <3>4 DEF Issuer!Next, Issuer!Refuse, Issuer!Arrive, Issuer!Expire, Issuer!Crash,
         Issuer!TrustRegistryWrites, Issuer!dbVars
  <2> QED
    BY <1>1, <2>1, <2>2 DEF Next
<1>2. IssuerInv /\ [Next]_vars => [Added \/ Changed]_credentials
  BY <1>1 DEF vars
<1> QED
  BY <1>2, AlwaysIssuer, PTL DEF Spec, IssuerIsTheVerifiersWorld

-----------------------------------------------------------------------------
(* The verifier service: what each step of a request allows                *)

VerifierTyped ==
    /\ vpc \in [VerifierRequests -> Verifier!Steps \cup Closed]
    /\ DOMAIN vcall = VerifierRequests
    /\ DOMAIN vreply = VerifierRequests
    /\ DOMAIN vvid = VerifierRequests /\ DOMAIN vopen = VerifierRequests
    /\ DOMAIN vfound = VerifierRequests

\* The steps of a submission.
Writing == {"reserve", "lookup", "allocate", "submit", "digest", "byid", "trust", "result",
            "complete", "replay", "in_progress", "conflict", "audit_failed"}

VerifierFlow(r) ==
    /\ vpc[r] # "idle" => vcall[r] \in VerifierCalls
    /\ vpc[r] \in {"reserve", "lookup", "replay", "in_progress", "conflict"} =>
            vcall[r].key # NoKey
    /\ vpc[r] \in Writing => vcall[r].op = "create"
    /\ vpc[r] \in {"read", "readresult"} => vcall[r].op = "read"
    /\ vpc[r] \in {"idle", "release", "in_progress", "conflict", "audit_failed"} =>
            ~Success(vreply[r])

VerifierInv == VerifierTyped /\ \A r \in VerifierRequests : VerifierFlow(r)

LEMMA VerifierRefusals ==
    /\ ~Success(Verifier!NoReply) /\ ~Success(Verifier!PersistenceError)
    /\ ~Success(Verifier!VerificationNotFound)
    /\ \A code \in {400, 401, 403, 409, 503} : \A error : ~Success(Verifier!Refusal(code, error))
    /\ \A c \in VerifierCalls : ~Success(Verifier!FrontDoor(c))
<1> USE DEF Success, Verifier!NoReply, Verifier!Refusal, Verifier!Reply
<1>1. \A c \in VerifierCalls : ~Success(Verifier!FrontDoor(c))
  BY CallsAssumption DEF Verifier!FrontDoor
<1> QED
  BY <1>1 DEF Verifier!PersistenceError, Verifier!VerificationNotFound

\* A step of r leaves the other requests alone and keeps to what r allows.
LEMMA VerifierStep ==
    ASSUME VerifierInv, NEW r \in VerifierRequests, Verifier!Step(r)
    PROVE  /\ vcall' = vcall /\ DOMAIN vreply' = VerifierRequests
           /\ DOMAIN vvid' = VerifierRequests /\ DOMAIN vopen' = VerifierRequests
           /\ DOMAIN vfound' = VerifierRequests
           /\ vpc' = [vpc EXCEPT ![r] = vpc'[r]]
           /\ vpc[r] \notin Closed /\ vpc'[r] \in Verifier!Steps \cup {"done"}
           /\ \A q \in VerifierRequests \ {r} :
                /\ vpc'[q] = vpc[q] /\ vreply'[q] = vreply[q] /\ vvid'[q] = vvid[q]
                /\ vopen'[q] = vopen[q] /\ vfound'[q] = vfound[q]
           /\ VerifierFlow(r)'
<1> USE DEF Closed, Verifier!Goto, Verifier!Fail, Verifier!Steps, Verifier!AuditSteps, Writing
<1>a. VerifierTyped /\ VerifierFlow(r)
  BY DEF VerifierInv
<1>b. DOMAIN vpc = VerifierRequests
  BY <1>a DEF VerifierTyped
<1>1. PICK out \in Verifier!Outcomes :
        \/ Verifier!Reserve(r, out) \/ Verifier!Lookup(r, out) \/ Verifier!Allocate(r, out)
        \/ Verifier!Submit(r, out) \/ Verifier!ResolveByDigest(r, out)
        \/ Verifier!ResolveById(r, out) \/ Verifier!ReadTrust(r, out)
        \/ Verifier!StoreResult(r, out) \/ Verifier!ReadSubmission(r, out)
        \/ Verifier!ReadResult(r, out) \/ Verifier!Complete(r, out)
        \/ Verifier!Release(r, out) \/ Verifier!Audit(r, out)
  BY DEF Verifier!Step
<1>2. CASE Verifier!Reserve(r, out)
  BY <1>2, <1>a, <1>b, VerifierRefusals DEF VerifierTyped, VerifierFlow, Writing, Verifier!Reserve
<1>3. CASE Verifier!Lookup(r, out)
  <2> DEFINE row == idempotency[Verifier!SlotOf(vcall[r])]
             outcome == Verifier!ReservationOutcome(row, Verifier!Fingerprint(vcall[r]))
  <2>1. outcome \in {"conflict", "replay", "in_progress"}
    BY OutcomeNames
  <2>2. outcome # "replay" => ~Success(Verifier!OccupiedReply(outcome, row))
    BY <2>1 DEF Verifier!OccupiedReply, Success, Verifier!Reply
  <2> HIDE DEF row
  <2>3. \/ vreply' = [vreply EXCEPT ![r] = Verifier!PersistenceError]
           /\ vpc' = [vpc EXCEPT ![r] = IF vopen[r] THEN "release" ELSE "done"]
        \/ vreply' = [vreply EXCEPT ![r] = Verifier!OccupiedReply(outcome, row)]
           /\ vpc' = [vpc EXCEPT ![r] = outcome]
    BY <1>3 DEF Verifier!Lookup, row
  <2>4. vpc[r] = "lookup" /\ UNCHANGED <<vcall, vopen, vvid, vfound>>
    BY <1>3 DEF Verifier!Lookup
  <2> HIDE DEF outcome
  <2> QED
    BY <2>1, <2>2, <2>3, <2>4, <1>a, <1>b, VerifierRefusals DEF VerifierTyped, VerifierFlow, Writing
<1>4. CASE Verifier!Allocate(r, out)
  BY <1>4, <1>a, <1>b, VerifierRefusals DEF VerifierTyped, VerifierFlow, Writing, Verifier!Allocate
<1>5. CASE Verifier!Submit(r, out)
  BY <1>5, <1>a, <1>b, VerifierRefusals DEF VerifierTyped, VerifierFlow, Writing, Verifier!Submit
<1>6. CASE Verifier!ResolveByDigest(r, out)
  <2>1. /\ vpc[r] = "digest" /\ UNCHANGED <<vcall, vopen, vvid>>
        /\ vfound' = vfound \/ \E new : vfound' = [vfound EXCEPT ![r] = new]
        /\ \E step \in {"trust", "result", "byid"} : vpc' = [vpc EXCEPT ![r] = step]
        /\ vreply' = vreply \/ \E new : vreply' = [vreply EXCEPT ![r] = new]
    BY <1>6 DEF Verifier!ResolveByDigest, Verifier!Resolved, Verifier!Decide
  <2> QED
    BY <2>1, <1>a, <1>b DEF VerifierTyped, VerifierFlow, Writing
<1>7. CASE Verifier!ResolveById(r, out)
  <2> DEFINE answer == Verifier!Reply(404, "credential_not_found", vvid[r], "none")
  <2>a. ~Success(answer)
    BY DEF Verifier!Reply, Success
  <2> HIDE DEF answer
  <2>1. /\ vpc[r] = "byid" /\ UNCHANGED <<vcall, vopen, vvid>>
        /\ vfound' = vfound \/ \E new : vfound' = [vfound EXCEPT ![r] = new]
        /\ \/ /\ \E step \in {"trust", "result"} : vpc' = [vpc EXCEPT ![r] = step]
              /\ vreply' = vreply \/ \E new : vreply' = [vreply EXCEPT ![r] = new]
           \/ /\ vpc' = [vpc EXCEPT ![r] = "audit_failed"]
              /\ vreply' = [vreply EXCEPT ![r] = answer]
    BY <1>7 DEF Verifier!ResolveById, Verifier!Resolved, Verifier!Decide, answer
  <2> QED
    BY <2>a, <2>1, <1>a, <1>b DEF VerifierTyped, VerifierFlow, Writing
<1>8. CASE Verifier!ReadTrust(r, out)
  BY <1>8, <1>a, <1>b, VerifierRefusals DEF VerifierTyped, VerifierFlow, Writing, Verifier!ReadTrust,
     Verifier!Decide
<1>9. CASE Verifier!StoreResult(r, out)
  BY <1>9, <1>a, <1>b, VerifierRefusals DEF VerifierTyped, VerifierFlow, Writing, Verifier!StoreResult,
     Verifier!CompleteStep
<1>10. CASE Verifier!ReadSubmission(r, out) \/ Verifier!ReadResult(r, out)
  BY <1>10, <1>a, <1>b, VerifierRefusals DEF VerifierTyped, VerifierFlow, Writing,
     Verifier!ReadSubmission, Verifier!ReadResult
<1>11. CASE Verifier!Complete(r, out)
  BY <1>11, <1>a, <1>b, VerifierRefusals DEF VerifierTyped, VerifierFlow, Writing, Verifier!Complete
<1>12. CASE Verifier!Release(r, out) \/ Verifier!Audit(r, out)
  BY <1>12, <1>a, <1>b, VerifierRefusals DEF VerifierTyped, VerifierFlow, Writing, Verifier!Release,
     Verifier!Audit
<1> QED
  BY <1>1, <1>2, <1>3, <1>4, <1>5, <1>6, <1>7, <1>8, <1>9, <1>10, <1>11, <1>12

LEMMA VerifierNextInv ==
    ASSUME VerifierInv, Verifier!Next
    PROVE  VerifierInv'
<1>a. VerifierTyped /\ \A r \in VerifierRequests : VerifierFlow(r)
  BY DEF VerifierInv
<1>1. ASSUME NEW r \in VerifierRequests, NEW c \in VerifierCalls,
             Verifier!Refuse(r, c) \/ Verifier!Arrive(r, c)
      PROVE  VerifierInv'
  <2>1. Verifier!FirstStep(c) \in {"read", "reserve", "allocate"}
    BY DEF Verifier!FirstStep
  <2>2. VerifierTyped'
    BY <1>1, <1>a, <2>1 DEF VerifierTyped, Closed, Verifier!Refuse, Verifier!Arrive,
       Verifier!Goto, Verifier!Steps
  <2>3. VerifierFlow(r)'
    BY <1>1, <1>a, <2>1, CallsAssumption DEF VerifierTyped, VerifierFlow, Writing,
       Verifier!Refuse, Verifier!Arrive, Verifier!Goto, Verifier!FirstStep, Verifier!Keyed
  <2>4. \A q \in VerifierRequests \ {r} : VerifierFlow(q)'
    BY <1>1, <1>a DEF VerifierTyped, VerifierFlow, Writing, Verifier!Refuse, Verifier!Arrive, Verifier!Goto
  <2> QED
    BY <2>2, <2>3, <2>4 DEF VerifierInv
<1>2. ASSUME NEW r \in VerifierRequests, Verifier!Step(r) PROVE VerifierInv'
  <2>1. \A q \in VerifierRequests \ {r} : VerifierFlow(q)'
    BY <1>2, <1>a, VerifierStep DEF VerifierFlow, Writing
  <2>2. VerifierTyped'
    BY <1>2, <1>a, VerifierStep DEF VerifierTyped, Closed
  <2> QED
    BY <1>2, <2>1, <2>2, VerifierStep DEF VerifierInv
<1>3. ASSUME (\E r \in VerifierRequests : Verifier!Expire(r)) \/ Verifier!World
      PROVE  VerifierInv'
  BY <1>3, <1>a DEF Verifier!Expire, Verifier!World, Verifier!IssuerIssues,
     Verifier!IssuerChangesStatus, Verifier!TrustRegistryWrites, Verifier!Tick,
     Verifier!requestVars, VerifierInv, VerifierTyped, VerifierFlow, Writing
<1>4. CASE Verifier!Crash
  <2>1. \A r \in VerifierRequests :
            vpc'[r] = vpc[r] \/ (vpc[r] # "idle" /\ vpc'[r] = "lost")
    BY <1>4 DEF Verifier!Crash, Verifier!InFlight, Verifier!Steps, Verifier!AuditSteps
  <2>2. UNCHANGED <<vcall, vreply>>
    BY <1>4 DEF Verifier!Crash
  <2>3. VerifierTyped'
    BY <1>4, <1>a, <2>1, <2>2 DEF Verifier!Crash, VerifierTyped, Closed
  <2> QED
    BY <1>a, <2>1, <2>2, <2>3 DEF VerifierInv, VerifierFlow, Writing
<1> QED
  BY <1>1, <1>2, <1>3, <1>4 DEF Verifier!Next

LEMMA VerifierAnyInv ==
    ASSUME VerifierInv, [Next]_vars
    PROVE  VerifierInv'
<1>1. CASE VerifierActs
  BY <1>1, VerifierNextInv DEF VerifierActs
<1>2. CASE IssuerActs \/ BootstrapWrites \/ UNCHANGED vars
  BY <1>2 DEF IssuerActs, BootstrapWrites, vars, verifierVars, VerifierInv, VerifierTyped,
     VerifierFlow, Writing
<1> QED
  BY <1>1, <1>2 DEF Next

LEMMA VerifierInitInv == Init => VerifierInv
BY VerifierRefusals DEF Init, Verifier!Init, VerifierInv, VerifierTyped, VerifierFlow, Writing,
   Closed

-----------------------------------------------------------------------------
(* Failures that are left, while none has happened                         *)

Calm == ibudget = IssuerBudget /\ vbudget = VerifierBudget

\* No failure is regained, so what is calm has always been.
Spent ==
    /\ ibudget \in [Failures -> Nat] /\ vbudget \in [Failures -> Nat]
    /\ \A f \in Failures : ibudget[f] <= IssuerBudget[f] /\ vbudget[f] <= VerifierBudget[f]

NothingExpired ==
    /\ iexpired = [r \in IssuerRequests |-> FALSE]
    /\ vexpired = [r \in VerifierRequests |-> FALSE]

\* What is spent shows: a step after which nothing has failed spends nothing.
LEMMA IssuerSpend ==
    ASSUME Spent, NEW f \in Failures, Issuer!Spend(f)
    PROVE  /\ ibudget' \in [Failures -> Nat]
           /\ \A g \in Failures : ibudget'[g] <= IssuerBudget[g]
           /\ ibudget' # IssuerBudget
<1>1. /\ ibudget \in [Failures -> Nat] /\ ibudget[f] \in Nat /\ ibudget[f] > 0
      /\ ibudget' = [ibudget EXCEPT ![f] = ibudget[f] - 1]
  BY DEF Spent, Issuer!Spend
<1>2. ibudget'[f] = ibudget[f] - 1 /\ \A g \in Failures \ {f} : ibudget'[g] = ibudget[g]
  BY <1>1
<1>3. ibudget' \in [Failures -> Nat]
  BY <1>1
<1>4. \A g \in Failures : IssuerBudget[g] \in Nat /\ ibudget[g] \in Nat /\ ibudget[g] <= IssuerBudget[g]
  BY <1>1, BudgetsAssumption DEF Spent
<1>5. ibudget'[f] < IssuerBudget[f]
  BY <1>1, <1>2, <1>4
<1> QED
  BY <1>1, <1>2, <1>3, <1>4, <1>5

LEMMA VerifierSpend ==
    ASSUME Spent, NEW f \in Failures, Verifier!Spend(f)
    PROVE  /\ vbudget' \in [Failures -> Nat]
           /\ \A g \in Failures : vbudget'[g] <= VerifierBudget[g]
           /\ vbudget' # VerifierBudget
<1>1. /\ vbudget \in [Failures -> Nat] /\ vbudget[f] \in Nat /\ vbudget[f] > 0
      /\ vbudget' = [vbudget EXCEPT ![f] = vbudget[f] - 1]
  BY DEF Spent, Verifier!Spend
<1>2. vbudget'[f] = vbudget[f] - 1 /\ \A g \in Failures \ {f} : vbudget'[g] = vbudget[g]
  BY <1>1
<1>3. vbudget' \in [Failures -> Nat]
  BY <1>1
<1>4. \A g \in Failures : VerifierBudget[g] \in Nat /\ vbudget[g] \in Nat /\ vbudget[g] <= VerifierBudget[g]
  BY <1>1, BudgetsAssumption DEF Spent
<1>5. vbudget'[f] < VerifierBudget[f]
  BY <1>1, <1>2, <1>4
<1> QED
  BY <1>1, <1>2, <1>3, <1>4, <1>5

LEMMA IssuerStatement ==
    ASSUME Spent, NEW r, NEW out, Issuer!Statement(r, out)
    PROVE  /\ ibudget' \in [Failures -> Nat]
           /\ \A g \in Failures : ibudget'[g] <= IssuerBudget[g]
           /\ ibudget' = IssuerBudget =>
                /\ ibudget = IssuerBudget /\ UNCHANGED iexpired
                /\ out = "done" \/ iexpired[r]
BY IssuerSpend DEF Issuer!Statement, Issuer!ExpireContext, Issuer!contextVars, Spent, Failures

LEMMA VerifierStatement ==
    ASSUME Spent, NEW r, NEW out, Verifier!Statement(r, out)
    PROVE  /\ vbudget' \in [Failures -> Nat]
           /\ \A g \in Failures : vbudget'[g] <= VerifierBudget[g]
           /\ vbudget' = VerifierBudget =>
                /\ vbudget = VerifierBudget /\ UNCHANGED vexpired
                /\ out = "done" \/ vexpired[r]
BY VerifierSpend DEF Verifier!Statement, Verifier!ExpireContext, Verifier!contextVars, Spent,
   Failures

LEMMA NextSpent ==
    ASSUME Spent, [Next]_vars
    PROVE  /\ Spent'
           /\ ibudget' = IssuerBudget => ibudget = IssuerBudget /\ UNCHANGED iexpired
           /\ vbudget' = VerifierBudget => vbudget = VerifierBudget /\ UNCHANGED vexpired
<1>1. CASE IssuerActs
  <2>a. UNCHANGED <<vbudget, vexpired>> /\ Issuer!Next
    BY <1>1 DEF IssuerActs, verifierVars
  <2> SUFFICES /\ ibudget' \in [Failures -> Nat]
               /\ \A g \in Failures : ibudget'[g] <= IssuerBudget[g]
               /\ ibudget' = IssuerBudget => ibudget = IssuerBudget /\ UNCHANGED iexpired
    BY <2>a DEF Spent
  <2>1. ASSUME NEW r \in IssuerRequests, Issuer!Step(r)
        PROVE  \E out : Issuer!Statement(r, out)
    BY <2>1 DEF Issuer!Step, Issuer!Query, Issuer!ReadIssuer, Issuer!Reserve, Issuer!Lookup,
       Issuer!Allocate, Issuer!Create, Issuer!Load, Issuer!Update, Issuer!ReadCredential,
       Issuer!Complete, Issuer!Release, Issuer!ReleaseStatement, Issuer!Audit
  <2>2. CASE \E r \in IssuerRequests : Issuer!Step(r)
    BY <2>1, <2>2, IssuerStatement
  <2>3. CASE (\E r \in IssuerRequests : Issuer!Expire(r)) \/ Issuer!Crash
    BY <2>3, IssuerSpend DEF Issuer!Expire, Issuer!ExpireContext, Issuer!Crash, Failures
  <2>4. CASE UNCHANGED <<ibudget, iexpired>>
    BY <2>4 DEF Spent
  <2> QED
    BY <2>a, <2>2, <2>3, <2>4 DEF Issuer!Next, Issuer!Refuse, Issuer!Arrive,
       Issuer!TrustRegistryWrites, Issuer!contextVars
<1>2. CASE VerifierActs
  <2>a. UNCHANGED <<ibudget, iexpired>> /\ Verifier!Next
    BY <1>2 DEF VerifierActs, issuerVars
  <2> SUFFICES /\ vbudget' \in [Failures -> Nat]
               /\ \A g \in Failures : vbudget'[g] <= VerifierBudget[g]
               /\ vbudget' = VerifierBudget => vbudget = VerifierBudget /\ UNCHANGED vexpired
    BY <2>a DEF Spent
  <2>1. ASSUME NEW r \in VerifierRequests, Verifier!Step(r)
        PROVE  \E out : Verifier!Statement(r, out)
    BY <2>1 DEF Verifier!Step, Verifier!Query, Verifier!Reserve, Verifier!Lookup,
       Verifier!Allocate, Verifier!Submit, Verifier!ResolveByDigest, Verifier!ResolveById,
       Verifier!ReadTrust, Verifier!StoreResult, Verifier!ReadSubmission, Verifier!ReadResult,
       Verifier!Complete, Verifier!Release, Verifier!Audit
  <2>2. CASE \E r \in VerifierRequests : Verifier!Step(r)
    BY <2>1, <2>2, VerifierStatement
  <2>3. CASE (\E r \in VerifierRequests : Verifier!Expire(r)) \/ Verifier!Crash
    BY <2>3, VerifierSpend DEF Verifier!Expire, Verifier!ExpireContext, Verifier!Crash, Failures
  <2>4. CASE UNCHANGED <<vbudget, vexpired>>
    BY <2>4 DEF Spent
  <2> QED
    BY <2>a, <2>2, <2>3, <2>4 DEF Verifier!Next, Verifier!Refuse, Verifier!Arrive,
       Verifier!World, Verifier!IssuerIssues, Verifier!IssuerChangesStatus,
       Verifier!TrustRegistryWrites, Verifier!Tick, Verifier!contextVars
<1>3. CASE BootstrapWrites \/ UNCHANGED vars
  BY <1>3 DEF BootstrapWrites, vars, issuerVars, verifierVars, Spent
<1> QED
  BY <1>1, <1>2, <1>3 DEF Next

-----------------------------------------------------------------------------
(* Every success is in the audit table                                     *)

\* The keys that a call's audit records may have, beside the request's own.
Marks(c) == Suffixes(c) \cup {"in_progress", "conflict"}

\* r has been past its audit, and comes to no other.
PastAudit(r) ==
    \/ vpc[r] \in {"release", "done", "lost"}
    \/ vpc[r] = "complete" /\ ~Success(vreply[r])

\* Whose audit record it is.
IssuerWrote(a, q) ==
    /\ ipc[q] \in {"done", "lost"}
    /\ icall[q].requestId = a[1]
    /\ a[2] \in Marks(icall[q])
VerifierWrote(a, q) ==
    /\ PastAudit(q)
    /\ vcall[q].requestId = a[1]
    /\ a[2] \in Marks(vcall[q])
AuditsOwned ==
    \A a \in DOMAIN audits :
        \/ \E q \in IssuerRequests : IssuerWrote(a, q)
        \/ \E q \in VerifierRequests : VerifierWrote(a, q)

IssuerAudited(r) ==
    ipc[r] = "done" /\ Success(ireply[r]) =>
        Audited(icall[r], ireply[r].resource) \/ Clash(r, icall[r])
VerifierAudited(r) ==
    vpc[r] = "done" /\ Success(vreply[r]) =>
        Audited(vcall[r], vreply[r].resource) \/ Clash(r, vcall[r])

AuditInv ==
    /\ IssuerInv /\ VerifierInv
    /\ AuditsOwned
    /\ Spent
    /\ Calm => /\ NothingExpired
               /\ \A r \in IssuerRequests : IssuerAudited(r)
               /\ \A r \in VerifierRequests : VerifierAudited(r)

\* What every step leaves: audit records, calls that have arrived, answers.
Kept ==
    /\ \A a \in DOMAIN audits : a \in DOMAIN audits' /\ audits'[a] = audits[a]
    /\ \A q \in IssuerRequests :
        /\ ipc[q] # "idle" => ipc'[q] # "idle" /\ icall'[q] = icall[q]
        /\ ipc[q] \in {"done", "lost"} => ipc'[q] = ipc[q] /\ ireply'[q] = ireply[q]
    /\ \A q \in VerifierRequests :
        /\ vpc[q] # "idle" => vpc'[q] # "idle" /\ vcall'[q] = vcall[q]
        /\ vpc[q] = "done" => vpc'[q] = vpc[q] /\ vreply'[q] = vreply[q]
        /\ PastAudit(q) => PastAudit(q)'

LEMMA IssuerKeeps ==
    ASSUME IssuerInv, IssuerActs
    PROVE  Kept
<1>a. IssuerTyped /\ UNCHANGED <<vpc, vcall, vreply>> /\ Issuer!Next
  BY DEF IssuerInv, IssuerActs, verifierVars
<1>1. \A q \in VerifierRequests : PastAudit(q) => PastAudit(q)'
  BY <1>a DEF PastAudit
<1>2. ASSUME NEW r \in IssuerRequests, NEW c \in IssuerCalls,
             Issuer!Refuse(r, c) \/ Issuer!Arrive(r, c)
      PROVE  Kept
  BY <1>a, <1>1, <1>2 DEF Kept, IssuerTyped, Issuer!Refuse, Issuer!Arrive, Issuer!Goto,
     Issuer!dbVars
<1>3. ASSUME NEW r \in IssuerRequests, Issuer!Step(r)
      PROVE  Kept
  <2>1. /\ icall' = icall /\ ipc[r] \notin {"done", "lost"} /\ ipc'[r] # "idle"
        /\ \A q \in IssuerRequests \ {r} : ipc'[q] = ipc[q] /\ ireply'[q] = ireply[q]
    BY <1>a, <1>3, IssuerStepFrame DEF Closed
  <2>2. \A a \in DOMAIN audits : a \in DOMAIN audits' /\ audits'[a] = audits[a]
    BY <1>3 DEF Issuer!Step, Issuer!ReadIssuer, Issuer!Reserve, Issuer!Lookup, Issuer!Allocate,
       Issuer!Create, Issuer!Load, Issuer!Update, Issuer!ReadCredential, Issuer!Complete,
       Issuer!Release, Issuer!Audit, Issuer!dbVars, Issuer!AppendAuditRecord, Issuer!InsertRow
  <2> QED
    BY <1>a, <1>1, <2>1, <2>2 DEF Kept
<1>4. CASE (\E r \in IssuerRequests : Issuer!Expire(r)) \/ Issuer!TrustRegistryWrites
  BY <1>a, <1>1, <1>4 DEF Kept, Issuer!Expire, Issuer!TrustRegistryWrites, Issuer!requestVars,
     Issuer!dbVars
<1>5. CASE Issuer!Crash
  BY <1>a, <1>1, <1>5 DEF Kept, Issuer!Crash, Issuer!dbVars, Issuer!InFlight, Issuer!Steps,
     Issuer!AuditSteps
<1> QED
  BY <1>a, <1>2, <1>3, <1>4, <1>5 DEF Issuer!Next

\* A request of the verifier service that is past its audit stays so.
LEMMA VerifierPast ==
    ASSUME VerifierInv, NEW r \in VerifierRequests, Verifier!Step(r), PastAudit(r)
    PROVE  PastAudit(r)'
<1> USE DEF Verifier!Goto, Verifier!Fail
<1>1. DOMAIN vpc = VerifierRequests /\ vpc[r] \notin {"done", "lost"}
  BY VerifierStep DEF VerifierInv, VerifierTyped, Closed
<1>2. PICK out : Verifier!Complete(r, out) \/ Verifier!Release(r, out)
  BY <1>1 DEF PastAudit, Verifier!Step, Verifier!Reserve, Verifier!Lookup,
     Verifier!Allocate, Verifier!Submit, Verifier!ResolveByDigest, Verifier!ResolveById,
     Verifier!ReadTrust, Verifier!StoreResult, Verifier!ReadSubmission, Verifier!ReadResult,
     Verifier!Audit, Verifier!AuditSteps
<1> QED
  BY <1>1, <1>2, OneStore DEF PastAudit, Verifier!Complete, Verifier!Release

LEMMA VerifierKeeps ==
    ASSUME VerifierInv, VerifierActs
    PROVE  Kept
<1>a. VerifierTyped /\ UNCHANGED <<ipc, icall, ireply>> /\ Verifier!Next
  BY DEF VerifierInv, VerifierActs, issuerVars
<1>1. ASSUME UNCHANGED <<vpc, vcall, vreply, audits>> PROVE Kept
  BY <1>a, <1>1 DEF Kept, PastAudit
<1>2. ASSUME NEW r \in VerifierRequests, NEW c \in VerifierCalls,
             Verifier!Refuse(r, c) \/ Verifier!Arrive(r, c)
      PROVE  Kept
  <2>1. /\ vpc[r] = "idle" /\ UNCHANGED audits
        /\ \A q \in VerifierRequests \ {r} : UNCHANGED <<vpc[q], vcall[q], vreply[q]>>
    BY <1>a, <1>2 DEF VerifierTyped, Verifier!Refuse, Verifier!Arrive, Verifier!Goto,
       Verifier!verifierVars
  <2> QED
    BY <1>a, <2>1 DEF Kept, PastAudit
<1>3. ASSUME NEW r \in VerifierRequests, Verifier!Step(r)
      PROVE  Kept
  <2>1. /\ vcall' = vcall /\ vpc[r] \notin {"done", "lost"} /\ vpc'[r] # "idle"
        /\ \A q \in VerifierRequests \ {r} : vpc'[q] = vpc[q] /\ vreply'[q] = vreply[q]
    BY <1>3, VerifierStep DEF Closed, Verifier!Steps, Verifier!AuditSteps
  <2>2. \A a \in DOMAIN audits : a \in DOMAIN audits' /\ audits'[a] = audits[a]
    BY <1>3 DEF Verifier!Step, Verifier!Reserve, Verifier!Lookup, Verifier!Allocate,
       Verifier!Submit, Verifier!ResolveByDigest, Verifier!ResolveById, Verifier!ReadTrust,
       Verifier!StoreResult, Verifier!ReadSubmission, Verifier!ReadResult, Verifier!Complete,
       Verifier!Release, Verifier!Audit, Verifier!verifierVars, Verifier!AppendAuditRecord,
       Verifier!InsertRow
  <2>3. \A q \in VerifierRequests : PastAudit(q) => PastAudit(q)'
    BY <1>3, <2>1, VerifierPast DEF PastAudit
  <2> QED
    BY <1>a, <2>1, <2>2, <2>3 DEF Kept
<1>4. CASE (\E r \in VerifierRequests : Verifier!Expire(r)) \/ Verifier!World
  BY <1>1, <1>4 DEF Verifier!Expire, Verifier!World, Verifier!IssuerIssues,
     Verifier!IssuerChangesStatus, Verifier!TrustRegistryWrites, Verifier!Tick,
     Verifier!requestVars, Verifier!verifierVars
<1>5. CASE Verifier!Crash
  BY <1>a, <1>5 DEF Kept, PastAudit, Verifier!Crash, Verifier!verifierVars, Verifier!InFlight,
     Verifier!Steps, Verifier!AuditSteps
<1> QED
  BY <1>a, <1>2, <1>3, <1>4, <1>5 DEF Verifier!Next

LEMMA NextKeeps ==
    ASSUME IssuerInv, VerifierInv, [Next]_vars
    PROVE  Kept
<1>1. CASE BootstrapWrites \/ UNCHANGED vars
  BY <1>1 DEF BootstrapWrites, vars, issuerVars, verifierVars, Kept, PastAudit
<1> QED
  BY <1>1, IssuerKeeps, VerifierKeeps DEF Next

\* So what was audited, and who wrote it, stays.
LEMMA KeptOwned ==
    ASSUME Kept, AuditsOwned
    PROVE  \A a \in DOMAIN audits :
                \/ \E q \in IssuerRequests : IssuerWrote(a, q)'
                \/ \E q \in VerifierRequests : VerifierWrote(a, q)'
<1>1. ASSUME NEW a, NEW q \in IssuerRequests, IssuerWrote(a, q)
      PROVE  IssuerWrote(a, q)'
  BY <1>1 DEF Kept, IssuerWrote, Marks, Suffixes
<1>2. ASSUME NEW a, NEW q \in VerifierRequests, VerifierWrote(a, q)
      PROVE  VerifierWrote(a, q)'
  BY <1>2 DEF Kept, VerifierWrote, PastAudit, Marks, Suffixes
<1> QED
  BY <1>1, <1>2 DEF AuditsOwned

LEMMA KeptClash ==
    ASSUME Kept, NEW r, NEW c, Clash(r, c)
    PROVE  \/ \E q \in IssuerRequests \ {r} : ipc'[q] # "idle" /\ Clashes(c, icall'[q])
           \/ \E q \in VerifierRequests \ {r} : vpc'[q] # "idle" /\ Clashes(c, vcall'[q])
BY DEF Kept, Clash

LEMMA IssuerAuditedKept ==
    ASSUME Kept, NEW r \in IssuerRequests, IssuerAudited(r), ipc[r] = "done"
    PROVE  IssuerAudited(r)'
<1>1. ipc'[r] = "done" /\ icall'[r] = icall[r] /\ ireply'[r] = ireply[r]
  BY DEF Kept
<1>2. Audited(icall[r], ireply[r].resource) => Audited(icall[r], ireply[r].resource)'
  BY <1>1 DEF Kept, Audited
<1>3. Clash(r, icall[r]) => Clash(r, icall[r])'
  BY <1>1, KeptClash DEF Clash
<1> QED
  BY <1>1, <1>2, <1>3 DEF IssuerAudited

LEMMA VerifierAuditedKept ==
    ASSUME Kept, NEW r \in VerifierRequests, VerifierAudited(r), vpc[r] = "done"
    PROVE  VerifierAudited(r)'
<1>1. vpc'[r] = "done" /\ vcall'[r] = vcall[r] /\ vreply'[r] = vreply[r]
  BY DEF Kept
<1>2. Audited(vcall[r], vreply[r].resource) => Audited(vcall[r], vreply[r].resource)'
  BY <1>1 DEF Kept, Audited
<1>3. Clash(r, vcall[r]) => Clash(r, vcall[r])'
  BY <1>1, KeptClash DEF Clash
<1> QED
  BY <1>1, <1>2, <1>3 DEF VerifierAudited

\* Only an audit ends a request of the issuer service with a success.
LEMMA IssuerEnds ==
    ASSUME IssuerInv, NEW r \in IssuerRequests, Issuer!Step(r),
           ipc'[r] = "done", Success(ireply'[r])
    PROVE  \E out : Issuer!Audit(r, out) /\ ipc[r] \in {"audit", "replay"}
<1> USE DEF Issuer!Goto, Issuer!Fail
<1>a. DOMAIN ipc = IssuerRequests /\ DOMAIN ireply = IssuerRequests /\ IssuerFlow(r)
  BY DEF IssuerInv, IssuerTyped
<1>1. PICK out : Issuer!Audit(r, out)
  <2>1. ASSUME NEW out, Issuer!Lookup(r, out) PROVE FALSE
    <3> DEFINE outcome == Issuer!ReservationOutcome(idempotency[Issuer!SlotOf(icall[r])],
                                                    Issuer!Fingerprint(icall[r]))
    <3>1. outcome # "done"
      BY OutcomeNames
    <3>2. \/ ireply' = [ireply EXCEPT ![r] = Issuer!PersistenceError]
          \/ ipc' = [ipc EXCEPT ![r] = outcome]
      BY <2>1 DEF Issuer!Lookup
    <3> HIDE DEF outcome
    <3> QED
      BY <1>a, <3>1, <3>2, IssuerRefusals
  <2>2. ASSUME NEW out,
               Issuer!ReadIssuer(r, out) \/ Issuer!Reserve(r, out) \/ Issuer!Allocate(r, out)
        PROVE  FALSE
    BY <2>2, <1>a, IssuerRefusals DEF Issuer!ReadIssuer, Issuer!Reserve, Issuer!Allocate,
       Issuer!ReserveStep, Issuer!WriteStep
  <2>3. ASSUME NEW out, Issuer!Create(r, out) \/ Issuer!Load(r, out) \/ Issuer!Update(r, out)
        PROVE  FALSE
    BY <2>3, <1>a, IssuerRefusals DEF Issuer!Create, Issuer!Load, Issuer!Update,
       Issuer!CompleteStep
  <2>4. ASSUME NEW out, Issuer!ReadCredential(r, out) \/ Issuer!Complete(r, out)
        PROVE  FALSE
    BY <2>4, <1>a, IssuerRefusals DEF Issuer!ReadCredential, Issuer!Complete
  <2>5. ASSUME NEW out, Issuer!Release(r, out) PROVE FALSE
    BY <2>5, <1>a DEF IssuerFlow, Issuer!Release
  <2> QED
    BY <2>1, <2>2, <2>3, <2>4, <2>5 DEF Issuer!Step
<1> QED
  BY <1>1, <1>a DEF Issuer!Audit, Issuer!AuditSteps, IssuerFlow

\* The record of a success is there when the request ends, unless its key was
\* taken, and then the one who took it is known.
LEMMA IssuerAuditRecords ==
    ASSUME AuditInv, Kept, NEW r \in IssuerRequests, Issuer!Audit(r, "done"),
           ipc[r] \in {"audit", "replay"}
    PROVE  IssuerAudited(r)'
<1> DEFINE c == icall[r]
           id == Issuer!AuditId(icall[r], ipc[r])
           row == Issuer!AuditRow(icall[r].caller, icall[r].op, ireply[r].resource,
                                  Issuer!AuditOutcome(ipc[r]))
<1>a. IssuerFlow(r) /\ AuditsOwned
  BY DEF AuditInv, IssuerInv
<1>b. c.op \in {"issue", "status", "read"}
  BY <1>a, CallsAssumption DEF IssuerFlow
<1>1. id[1] = c.requestId /\ id[2] \in Suffixes(c) /\ id[2] \notin {"in_progress", "conflict"}
  BY <1>a, <1>b DEF Issuer!AuditId, Suffixes, IssuerFlow
<1>2. /\ audits' = IF id \in DOMAIN audits THEN audits
                   ELSE [k \in DOMAIN audits \cup {id} |-> IF k = id THEN row ELSE audits[k]]
      /\ icall' = icall /\ ireply' = ireply
  BY DEF Issuer!Audit, Issuer!AppendAuditRecord, Issuer!InsertRow, Issuer!Reaches
<1>3. /\ row.caller = c.caller /\ row.action = c.op
      /\ row.resource = ireply[r].resource /\ row.outcome # "failed"
  BY DEF Issuer!AuditRow, Issuer!AuditOutcome
<1> HIDE DEF id, row
<1>4. CASE id \notin DOMAIN audits
  <2>1. id \in DOMAIN audits' /\ audits'[id] = row
    BY <1>2, <1>4
  <2>2. Audited(icall[r], ireply[r].resource)'
    BY <1>2, <1>3, <2>1 DEF Audited
  <2> QED
    BY <2>2 DEF IssuerAudited
<1>5. CASE id \in DOMAIN audits
  <2>1. ASSUME NEW q \in IssuerRequests, IssuerWrote(id, q)
        PROVE  Clash(r, c)
    BY <1>1, <2>1 DEF IssuerWrote, Marks, Clash, Clashes
  <2>2. ASSUME NEW q \in VerifierRequests, VerifierWrote(id, q)
        PROVE  Clash(r, c)
    BY <1>1, <2>2, RequestsAssumption DEF VerifierWrote, PastAudit, Marks, Clash, Clashes
  <2>3. Clash(r, c)
    BY <1>a, <1>5, <2>1, <2>2 DEF AuditsOwned
  <2>4. Clash(r, icall[r])'
    BY <1>2, <2>3, KeptClash DEF Clash
  <2> QED
    BY <2>4 DEF IssuerAudited
<1> QED
  BY <1>4, <1>5

\* The same at the verifier service.
LEMMA VerifierEnds ==
    ASSUME VerifierInv, NEW r \in VerifierRequests, Verifier!Step(r),
           vpc'[r] = "done", Success(vreply'[r])
    PROVE  \E out : Verifier!Audit(r, out) /\ vpc[r] \in {"audit", "replay"}
<1> USE DEF Verifier!Goto, Verifier!Fail
<1>a. DOMAIN vpc = VerifierRequests /\ DOMAIN vreply = VerifierRequests /\ VerifierFlow(r)
  BY DEF VerifierInv, VerifierTyped
<1>1. PICK out : Verifier!Audit(r, out)
  <2>1. ASSUME NEW out, Verifier!Lookup(r, out) PROVE FALSE
    <3> DEFINE outcome == Verifier!ReservationOutcome(idempotency[Verifier!SlotOf(vcall[r])],
                                                      Verifier!Fingerprint(vcall[r]))
    <3>1. outcome # "done"
      BY OutcomeNames
    <3>2. \/ vreply' = [vreply EXCEPT ![r] = Verifier!PersistenceError]
          \/ vpc' = [vpc EXCEPT ![r] = outcome]
      BY <2>1 DEF Verifier!Lookup
    <3> HIDE DEF outcome
    <3> QED
      BY <1>a, <3>1, <3>2, VerifierRefusals
  <2>2. ASSUME NEW out, Verifier!Reserve(r, out) \/ Verifier!Allocate(r, out)
                        \/ Verifier!Submit(r, out) \/ Verifier!StoreResult(r, out)
        PROVE  FALSE
    BY <2>2, <1>a, VerifierRefusals DEF Verifier!Reserve, Verifier!Allocate, Verifier!Submit,
       Verifier!StoreResult, Verifier!CompleteStep
  <2>3. ASSUME NEW out, Verifier!ResolveByDigest(r, out) \/ Verifier!ResolveById(r, out)
                        \/ Verifier!ReadTrust(r, out)
        PROVE  FALSE
    BY <2>3, <1>a DEF Verifier!ResolveByDigest, Verifier!ResolveById, Verifier!Resolved,
       Verifier!Decide, Verifier!ReadTrust
  <2>4. ASSUME NEW out, Verifier!ReadSubmission(r, out) \/ Verifier!ReadResult(r, out)
        PROVE  FALSE
    BY <2>4, <1>a, VerifierRefusals DEF Verifier!ReadSubmission, Verifier!ReadResult
  <2>5. ASSUME NEW out, Verifier!Complete(r, out) PROVE FALSE
    BY <2>5, <1>a, VerifierRefusals, OneStore DEF Verifier!Complete
  <2>6. ASSUME NEW out, Verifier!Release(r, out) PROVE FALSE
    BY <2>6, <1>a DEF VerifierFlow, Verifier!Release
  <2> QED
    BY <2>1, <2>2, <2>3, <2>4, <2>5, <2>6 DEF Verifier!Step
<1> QED
  BY <1>1, <1>a DEF Verifier!Audit, Verifier!AuditSteps, VerifierFlow

LEMMA VerifierAuditRecords ==
    ASSUME AuditInv, Kept, NEW r \in VerifierRequests, Verifier!Audit(r, "done"),
           vpc[r] \in {"audit", "replay"}
    PROVE  VerifierAudited(r)'
<1> DEFINE c == vcall[r]
           id == Verifier!AuditId(vcall[r], vpc[r])
           verdict == IF vcall[r].op = "read" THEN "none" ELSE vreply[r].status
           row == Verifier!AuditRow(vcall[r].caller, vcall[r].op, vreply[r].resource,
                                    Verifier!AuditOutcome(vpc[r], verdict))
<1>a. VerifierFlow(r) /\ AuditsOwned
  BY DEF AuditInv, VerifierInv
<1>b. c.op \in {"create", "read"}
  BY <1>a, CallsAssumption DEF VerifierFlow
<1>1. id[1] = c.requestId /\ id[2] \in Suffixes(c) /\ id[2] \notin {"in_progress", "conflict"}
  BY <1>a, <1>b DEF Verifier!AuditId, Suffixes, VerifierFlow
<1>2. /\ audits' = IF id \in DOMAIN audits THEN audits
                   ELSE [k \in DOMAIN audits \cup {id} |-> IF k = id THEN row ELSE audits[k]]
      /\ vcall' = vcall /\ vreply' = vreply
  BY DEF Verifier!Audit, Verifier!AppendAuditRecord, Verifier!InsertRow, Verifier!Reaches
<1>3. /\ row.caller = c.caller /\ row.action = c.op
      /\ row.resource = vreply[r].resource /\ row.outcome # "failed"
  BY DEF Verifier!AuditRow, Verifier!AuditOutcome
<1> HIDE DEF id, row
<1>4. CASE id \notin DOMAIN audits
  <2>1. id \in DOMAIN audits' /\ audits'[id] = row
    BY <1>2, <1>4
  <2>2. Audited(vcall[r], vreply[r].resource)'
    BY <1>2, <1>3, <2>1 DEF Audited
  <2> QED
    BY <2>2 DEF VerifierAudited
<1>5. CASE id \in DOMAIN audits
  <2>1. ASSUME NEW q \in IssuerRequests, IssuerWrote(id, q)
        PROVE  Clash(r, c)
    BY <1>1, <2>1, RequestsAssumption DEF IssuerWrote, Marks, Clash, Clashes
  <2>2. ASSUME NEW q \in VerifierRequests, VerifierWrote(id, q)
        PROVE  Clash(r, c)
    BY <1>1, <2>2 DEF VerifierWrote, PastAudit, Marks, Clash, Clashes
  <2>3. Clash(r, c)
    BY <1>a, <1>5, <2>1, <2>2 DEF AuditsOwned
  <2>4. Clash(r, vcall[r])'
    BY <1>2, <2>3, KeptClash DEF Clash
  <2> QED
    BY <2>4 DEF VerifierAudited
<1> QED
  BY <1>4, <1>5

\* A record that is new is that of the request whose audit appended it.
LEMMA NextAuditsOwned ==
    ASSUME AuditInv, Kept, [Next]_vars
    PROVE  AuditsOwned'
<1>a. IssuerInv /\ VerifierInv /\ AuditsOwned
  BY DEF AuditInv
<1> SUFFICES ASSUME NEW a \in DOMAIN audits', a \notin DOMAIN audits
             PROVE  \/ \E q \in IssuerRequests : IssuerWrote(a, q)'
                    \/ \E q \in VerifierRequests : VerifierWrote(a, q)'
  BY <1>a, KeptOwned DEF AuditsOwned
<1>1. CASE IssuerActs
  <2>0. PICK r \in IssuerRequests : \E out : Issuer!Audit(r, out)
    BY <1>1 DEF IssuerActs, Issuer!Next, Issuer!Refuse, Issuer!Arrive, Issuer!Expire,
       Issuer!Crash, Issuer!TrustRegistryWrites, Issuer!Step, Issuer!ReadIssuer, Issuer!Reserve,
       Issuer!Lookup, Issuer!Allocate, Issuer!Create, Issuer!Load, Issuer!Update,
       Issuer!ReadCredential, Issuer!Complete, Issuer!Release, Issuer!dbVars
  <2>1. PICK out : Issuer!Audit(r, out)
    BY <2>0
  <2>2. a = Issuer!AuditId(icall[r], ipc[r])
    BY <2>1 DEF Issuer!Audit, Issuer!AppendAuditRecord, Issuer!InsertRow
  <2>3. IssuerFlow(r) /\ DOMAIN ipc = IssuerRequests
    BY <1>a DEF IssuerInv, IssuerTyped
  <2>4. a[1] = icall[r].requestId /\ a[2] \in Marks(icall[r])
    BY <2>1, <2>2, <2>3 DEF Issuer!AuditId, Issuer!Audit, Issuer!AuditSteps, IssuerFlow, Marks,
       Suffixes
  <2>5. ipc'[r] = "done" /\ icall' = icall
    BY <2>1, <2>3 DEF Issuer!Audit, Issuer!Goto
  <2>6. IssuerWrote(a, r)'
    BY <2>4, <2>5 DEF IssuerWrote
  <2> QED
    BY <2>6
<1>2. CASE VerifierActs
  <2>a. audits' # audits
    OBVIOUS
  <2>b. PICK r \in VerifierRequests : Verifier!Step(r)
    BY <1>2, <2>a DEF VerifierActs, Verifier!Next, Verifier!Refuse, Verifier!Arrive,
       Verifier!Expire, Verifier!Crash, Verifier!World, Verifier!IssuerIssues,
       Verifier!IssuerChangesStatus, Verifier!TrustRegistryWrites, Verifier!Tick,
       Verifier!verifierVars
  <2>1. PICK out : Verifier!Audit(r, out)
    BY <2>a, <2>b DEF Verifier!Step, Verifier!Reserve, Verifier!Lookup, Verifier!Allocate,
       Verifier!Submit, Verifier!ResolveByDigest, Verifier!ResolveById, Verifier!ReadTrust,
       Verifier!StoreResult, Verifier!ReadSubmission, Verifier!ReadResult, Verifier!Complete,
       Verifier!Release, Verifier!verifierVars
  <2>2. a = Verifier!AuditId(vcall[r], vpc[r])
    BY <2>1 DEF Verifier!Audit, Verifier!AppendAuditRecord, Verifier!InsertRow
  <2>3. VerifierFlow(r) /\ DOMAIN vpc = VerifierRequests
    BY <1>a DEF VerifierInv, VerifierTyped
  <2>4. a[1] = vcall[r].requestId /\ a[2] \in Marks(vcall[r])
    BY <2>1, <2>2, <2>3 DEF Verifier!AuditId, Verifier!Audit, Verifier!AuditSteps, VerifierFlow,
       Marks, Suffixes
  <2>5. PastAudit(r)' /\ vcall' = vcall
    BY <2>1, <2>3 DEF PastAudit, VerifierFlow, Verifier!Audit, Verifier!Goto
  <2>6. VerifierWrote(a, r)'
    BY <2>4, <2>5 DEF VerifierWrote
  <2> QED
    BY <2>6
<1> QED
  BY <1>1, <1>2 DEF Next, BootstrapWrites, vars

\* While nothing fails, what ends now or has ended is audited.
LEMMA NextAudited ==
    ASSUME AuditInv, Kept, [Next]_vars, Calm'
    PROVE  /\ \A r \in IssuerRequests : IssuerAudited(r)'
           /\ \A r \in VerifierRequests : VerifierAudited(r)'
<1>a. /\ IssuerInv /\ VerifierInv /\ Spent /\ Calm /\ NothingExpired
      /\ \A r \in IssuerRequests : IssuerAudited(r)
      /\ \A r \in VerifierRequests : VerifierAudited(r)
  BY NextSpent DEF AuditInv, Calm
<1>1. ASSUME NEW r \in IssuerRequests PROVE IssuerAudited(r)'
  <2>1. CASE ipc[r] = "done"
    BY <1>a, <2>1, IssuerAuditedKept
  <2>2. CASE ~(ipc'[r] = "done" /\ Success(ireply'[r]))
    BY <2>2 DEF IssuerAudited
  <2>3. CASE ipc[r] # "done" /\ ipc'[r] = "done" /\ Success(ireply'[r])
    <3>1. IssuerActs
      BY <2>3 DEF Next, vars, VerifierActs, BootstrapWrites, issuerVars
    <3>2. Issuer!Step(r)
      <4>1. ASSUME NEW q \in IssuerRequests, Issuer!Step(q), q # r PROVE FALSE
        BY <1>a, <2>3, <4>1, IssuerStepFrame DEF IssuerInv
      <4>2. ASSUME NEW q \in IssuerRequests, NEW d \in IssuerCalls,
                   Issuer!Refuse(q, d) \/ Issuer!Arrive(q, d)
            PROVE  FALSE
        <5>1. Issuer!FirstStep(d) # "done"
          BY CallsAssumption DEF Issuer!FirstStep, Issuer!ReserveStep, Issuer!WriteStep
        <5> QED
          BY <1>a, <2>3, <4>2, <5>1, IssuerRefusals DEF IssuerInv, IssuerTyped, Issuer!Refuse,
             Issuer!Arrive, Issuer!Goto
      <4>3. ~(\E q \in IssuerRequests : Issuer!Expire(q)) /\ ~Issuer!TrustRegistryWrites
            /\ ~Issuer!Crash
        BY <2>3 DEF Issuer!Expire, Issuer!TrustRegistryWrites, Issuer!Crash, Issuer!requestVars
      <4> QED
        BY <3>1, <4>1, <4>2, <4>3 DEF IssuerActs, Issuer!Next
    <3>3. PICK out : Issuer!Audit(r, out) /\ ipc[r] \in {"audit", "replay"}
      BY <1>a, <2>3, <3>2, IssuerEnds
    <3>4. Issuer!Statement(r, out)
      BY <3>3 DEF Issuer!Audit
    <3>5. ibudget' = IssuerBudget
      BY DEF Calm
    <3>6. out = "done"
      BY <1>a, <3>4, <3>5, IssuerStatement DEF NothingExpired
    <3> QED
      BY <3>3, <3>6, IssuerAuditRecords
  <2> QED
    BY <2>1, <2>2, <2>3
<1>2. ASSUME NEW r \in VerifierRequests PROVE VerifierAudited(r)'
  <2>1. CASE vpc[r] = "done"
    BY <1>a, <2>1, VerifierAuditedKept
  <2>2. CASE ~(vpc'[r] = "done" /\ Success(vreply'[r]))
    BY <2>2 DEF VerifierAudited
  <2>3. CASE vpc[r] # "done" /\ vpc'[r] = "done" /\ Success(vreply'[r])
    <3>1. VerifierActs
      BY <2>3 DEF Next, vars, IssuerActs, BootstrapWrites, verifierVars
    <3>2. Verifier!Step(r)
      <4>1. ASSUME NEW q \in VerifierRequests, Verifier!Step(q), q # r PROVE FALSE
        BY <1>a, <2>3, <4>1, VerifierStep
      <4>2. ASSUME NEW q \in VerifierRequests, NEW d \in VerifierCalls,
                   Verifier!Refuse(q, d) \/ Verifier!Arrive(q, d)
            PROVE  FALSE
        <5>1. Verifier!FirstStep(d) # "done"
          BY DEF Verifier!FirstStep
        <5> QED
          BY <1>a, <2>3, <4>2, <5>1, VerifierRefusals DEF VerifierInv, VerifierTyped,
             Verifier!Refuse, Verifier!Arrive, Verifier!Goto
      <4>3. ~(\E q \in VerifierRequests : Verifier!Expire(q)) /\ ~Verifier!World
            /\ ~Verifier!Crash
        BY <2>3 DEF Verifier!Expire, Verifier!World, Verifier!IssuerIssues,
           Verifier!IssuerChangesStatus, Verifier!TrustRegistryWrites, Verifier!Tick,
           Verifier!Crash, Verifier!requestVars
      <4> QED
        BY <3>1, <4>1, <4>2, <4>3 DEF VerifierActs, Verifier!Next
    <3>3. PICK out : Verifier!Audit(r, out) /\ vpc[r] \in {"audit", "replay"}
      BY <1>a, <2>3, <3>2, VerifierEnds
    <3>4. Verifier!Statement(r, out)
      BY <3>3 DEF Verifier!Audit
    <3>5. vbudget' = VerifierBudget
      BY DEF Calm
    <3>6. out = "done"
      BY <1>a, <3>4, <3>5, VerifierStatement DEF NothingExpired
    <3> QED
      BY <3>3, <3>6, VerifierAuditRecords
  <2> QED
    BY <2>1, <2>2, <2>3
<1> QED
  BY <1>1, <1>2

\* appendAuditRecord in both services: what a caller was told had succeeded is
\* in the audit table for it, while nothing fails, unless another request
\* carried the same X-Request-ID and took the key of the record.
THEOREM EverySuccessIsAudited == Spec => []SuccessesAreAudited
<1>1. Init => AuditInv
  <2>1. Init => IssuerInv /\ VerifierInv
    BY IssuerInitInv, VerifierInitInv
  <2>2. Init => Spent /\ NothingExpired
    BY BudgetsAssumption DEF Init, Issuer!Init, Verifier!Init, Issuer!ContextInit,
       Verifier!ContextInit, Spent, NothingExpired
  <2>3. Init => AuditsOwned
    BY DEF Init, Issuer!Init, AuditsOwned
  <2>4. Init => /\ \A r \in IssuerRequests : IssuerAudited(r)
                /\ \A r \in VerifierRequests : VerifierAudited(r)
    BY DEF Init, Issuer!Init, Verifier!Init, IssuerAudited, VerifierAudited
  <2> QED
    BY <2>1, <2>2, <2>3, <2>4 DEF AuditInv
<1>2. ASSUME AuditInv, [Next]_vars PROVE AuditInv'
  <2>1. IssuerInv /\ VerifierInv /\ Spent
    BY <1>2 DEF AuditInv
  <2>2. Kept
    BY <1>2, <2>1, NextKeeps
  <2>3. IssuerInv' /\ VerifierInv'
    BY <1>2, <2>1, IssuerAnyInv, VerifierAnyInv
  <2>4. Spent' /\ (Calm' => Calm /\ UNCHANGED <<iexpired, vexpired>>)
    BY <1>2, <2>1, NextSpent DEF Calm
  <2>5. AuditsOwned'
    BY <1>2, <2>2, NextAuditsOwned
  <2>6. Calm' => NothingExpired'
    BY <1>2, <2>4 DEF AuditInv, NothingExpired
  <2>7. Calm' => /\ \A r \in IssuerRequests : IssuerAudited(r)'
                 /\ \A r \in VerifierRequests : VerifierAudited(r)'
    BY <1>2, <2>2, NextAudited
  <2> QED
    BY <2>3, <2>4, <2>5, <2>6, <2>7 DEF AuditInv
<1>3. AuditInv => SuccessesAreAudited
  BY DEF AuditInv, Calm, SuccessesAreAudited, IssuerAudited, VerifierAudited
<1> QED
  BY <1>1, <1>2, <1>3, PTL DEF Spec

-----------------------------------------------------------------------------
(* What the issuer service has answered stays true                         *)

Stored(id, issuer, body) ==
    id \in DOMAIN credentials /\ credentials[id].issuer = issuer /\ credentials[id].body = body
Ended(id) == id \in DOMAIN credentials /\ credentials[id].status \in Final
HandedOut(text) == \E id \in DOMAIN credentials : text = ArtifactOf(id)

\* What a success says of the credential table, given to this call or stored
\* for it.
Holds(op, caller, body, reply) ==
    Success(reply) =>
        /\ op = "issue" => Stored(reply.resource, OrgOf[caller], body)
        /\ op = "status" => Ended(reply.resource)
        /\ op = "read" => reply.resource \in DOMAIN credentials

CredentialsKept ==
    /\ \A id \in DOMAIN credentials : credentials[id].status \in {"active"} \cup Final
    /\ \A id \in DOMAIN Preissued : Stored(id, Preissued[id].issuer, Preissued[id].body)

\* No credential goes, changes its artifact, or comes back from an end.
CredentialsGrow ==
    \A id \in DOMAIN credentials :
        /\ id \in DOMAIN credentials'
        /\ credentials'[id].issuer = credentials[id].issuer
        /\ credentials'[id].body = credentials[id].body
        /\ credentials[id].status \in Final => credentials'[id].status \in Final

LEMMA NextGrows ==
    ASSUME IssuerInv, CredentialsKept, [Next]_vars
    PROVE  CredentialsGrow /\ CredentialsKept'
<1>a. IssuerTyped /\ \A r \in IssuerRequests : IssuerFlow(r)
  BY DEF IssuerInv
<1>1. CASE UNCHANGED credentials
  BY <1>1 DEF CredentialsGrow, CredentialsKept, Stored
<1>2. ASSUME NEW r \in IssuerRequests, NEW out, Issuer!Create(r, out), ~UNCHANGED credentials
      PROVE  CredentialsGrow /\ CredentialsKept'
  <2>1. /\ icred[r] \notin DOMAIN credentials
        /\ credentials' = [k \in DOMAIN credentials \cup {icred[r]} |->
                IF k = icred[r] THEN Issuer!CredentialRow(Issuer!Org(icall[r]), icall[r].body)
                                ELSE credentials[k]]
    BY <1>2 DEF Issuer!Create, Issuer!CreateCredentialRecord, Issuer!InsertRow
  <2>2. credentials'[icred[r]].status = "active"
    BY <2>1 DEF Issuer!CredentialRow
  <2>3. \A id \in DOMAIN credentials : id \in DOMAIN credentials' /\ credentials'[id] = credentials[id]
    BY <2>1
  <2>4. CredentialsGrow
    BY <2>3 DEF CredentialsGrow
  <2> QED
    BY <2>1, <2>2, <2>3, <2>4 DEF CredentialsKept, Stored
<1>3. ASSUME NEW r \in IssuerRequests, NEW out, Issuer!Update(r, out), ~UNCHANGED credentials
      PROVE  CredentialsGrow /\ CredentialsKept'
  <2>1. /\ icred[r] \in DOMAIN credentials
        /\ credentials' = [credentials EXCEPT ![icred[r]].status = icall[r].status,
                                              ![icred[r]].by = icall[r].by]
    BY <1>3 DEF Issuer!Update, Issuer!UpdateCredentialStatus
  <2>2. icall[r].status \in Final
    BY <1>3, <1>a DEF Issuer!Update, IssuerFlow
  <2>3. /\ DOMAIN credentials' = DOMAIN credentials
        /\ \A id \in DOMAIN credentials : id # icred[r] => credentials'[id] = credentials[id]
        /\ credentials'[icred[r]].issuer = credentials[icred[r]].issuer
        /\ credentials'[icred[r]].body = credentials[icred[r]].body
        /\ credentials'[icred[r]].status = icall[r].status
    BY <2>1, <1>a DEF IssuerTyped, Issuer!CredentialRows
  <2>4. CredentialsGrow
    BY <2>2, <2>3 DEF CredentialsGrow
  <2> QED
    BY <2>2, <2>3, <2>4 DEF CredentialsKept, Stored
<1>4. ASSUME ~UNCHANGED credentials
      PROVE  \E r \in IssuerRequests : \E out : Issuer!Create(r, out) \/ Issuer!Update(r, out)
  <2>1. IssuerActs
    BY <1>4 DEF Next, vars, VerifierActs, BootstrapWrites
  <2>2. \E r \in IssuerRequests : Issuer!Step(r)
    BY <1>4, <2>1 DEF IssuerActs, Issuer!Next, Issuer!Refuse, Issuer!Arrive, Issuer!Expire,
       Issuer!Crash, Issuer!TrustRegistryWrites, Issuer!dbVars
  <2> QED
    BY <1>4, <2>2 DEF Issuer!Step, Issuer!ReadIssuer, Issuer!Reserve, Issuer!Lookup,
       Issuer!Allocate, Issuer!Load, Issuer!ReadCredential, Issuer!Complete, Issuer!Release,
       Issuer!Audit, Issuer!dbVars
<1> QED
  BY <1>1, <1>2, <1>3, <1>4

\* So what was said of the table stays true.
LEMMA GrowKeeps ==
    ASSUME CredentialsGrow
    PROVE  /\ \A id : Ended(id) => Ended(id)'
           /\ \A text : HandedOut(text) => HandedOut(text)'
           /\ \A op, caller, body, reply :
                Holds(op, caller, body, reply) => Holds(op, caller, body, reply)'
<1>1. ASSUME NEW id, Ended(id) PROVE Ended(id)'
  BY <1>1 DEF CredentialsGrow, Ended
<1>2. ASSUME NEW id, NEW issuer, NEW body, Stored(id, issuer, body)
      PROVE  Stored(id, issuer, body)'
  BY <1>2 DEF CredentialsGrow, Stored
<1>3. ASSUME NEW text, HandedOut(text) PROVE HandedOut(text)'
  BY <1>3 DEF CredentialsGrow, HandedOut, ArtifactOf
<1>4. ASSUME NEW op, NEW caller, NEW body, NEW reply, Holds(op, caller, body, reply)
      PROVE  Holds(op, caller, body, reply)'
  <2>1. reply.resource \in DOMAIN credentials => reply.resource \in DOMAIN credentials'
    BY DEF CredentialsGrow
  <2> QED
    BY <1>4, <2>1, <1>1, <1>2 DEF Holds
<1> QED
  BY <1>1, <1>3, <1>4

-----------------------------------------------------------------------------
(* Reservations: whoever holds one is the only one to write its row        *)

\* A request that holds a reservation is the only one to hold it.
IssuerHolds(r) ==
    iopen[r] =>
        /\ ipc[r] \in {"allocate", "create", "load", "update", "complete", "release"}
        /\ icall[r].key # NoKey /\ icall[r].op \in {"issue", "status"}
        /\ Issuer!SlotOf(icall[r]) \in DOMAIN idempotency
        /\ idempotency[Issuer!SlotOf(icall[r])].fingerprint = Issuer!Fingerprint(icall[r])
        /\ \A q \in IssuerRequests \ {r} :
                iopen[q] => Issuer!SlotOf(icall[q]) # Issuer!SlotOf(icall[r])

\* Nothing is written for a key that is not reserved.
IssuerWrites(r) ==
    /\ ipc[r] \in {"allocate", "create", "load", "update"} /\ icall[r].key # NoKey => iopen[r]
    /\ ipc[r] \in {"complete", "release"} => iopen[r]
    /\ ipc[r] = "update" => icred[r] \in DOMAIN credentials

IssuerReserved == \A r \in IssuerRequests : IssuerHolds(r) /\ IssuerWrites(r)

\* A step of r leaves every row but that of its own key.
IssuerOwnRow(r) ==
    \A slot : slot # Issuer!SlotOf(icall[r]) =>
        /\ slot \in DOMAIN idempotency' <=> slot \in DOMAIN idempotency
        /\ slot \in DOMAIN idempotency => idempotency'[slot] = idempotency[slot]

LEMMA IssuerRow ==
    ASSUME IssuerInv, NEW r \in IssuerRequests, Issuer!Step(r)
    PROVE  LET s == Issuer!SlotOf(icall[r])
           IN  /\ IssuerOwnRow(r)
               /\ \/ UNCHANGED <<idempotency, iopen>>
                  \/ /\ ipc[r] = "reserve" /\ s \notin DOMAIN idempotency
                     /\ s \in DOMAIN idempotency'
                     /\ idempotency'[s] = Issuer!ReservedRow(Issuer!Fingerprint(icall[r]))
                     /\ iopen' \in {iopen, [iopen EXCEPT ![r] = TRUE]}
                     /\ ipc'[r] \in {"allocate", "load"} \/ iopen' = iopen
                  \/ /\ ipc[r] = "complete"
                     /\ s \in DOMAIN idempotency /\ s \in DOMAIN idempotency'
                     /\ idempotency'[s].fingerprint = idempotency[s].fingerprint
                     /\ idempotency'[s] = idempotency[s] \/ idempotency'[s].reply = ireply[r]
                     /\ iopen' \in {iopen, [iopen EXCEPT ![r] = FALSE]}
                  \/ /\ ipc[r] = "release"
                     /\ s \in DOMAIN idempotency' =>
                            s \in DOMAIN idempotency /\ idempotency'[s] = idempotency[s]
                     /\ iopen' = [iopen EXCEPT ![r] = FALSE]
<1> DEFINE s == Issuer!SlotOf(icall[r])
<1>a. DOMAIN ipc = IssuerRequests
  BY DEF IssuerInv, IssuerTyped
<1>1. CASE UNCHANGED <<idempotency, iopen>>
  BY <1>1 DEF IssuerOwnRow
<1>2. ASSUME NEW out, Issuer!Reserve(r, out), ~UNCHANGED <<idempotency, iopen>>
      PROVE  /\ IssuerOwnRow(r)
             /\ ipc[r] = "reserve" /\ s \notin DOMAIN idempotency
             /\ s \in DOMAIN idempotency'
             /\ idempotency'[s] = Issuer!ReservedRow(Issuer!Fingerprint(icall[r]))
             /\ iopen' \in {iopen, [iopen EXCEPT ![r] = TRUE]}
             /\ ipc'[r] \in {"allocate", "load"} \/ iopen' = iopen
  <2>1. /\ ipc[r] = "reserve"
        /\ \/ /\ Issuer!Acked(out) /\ s \notin DOMAIN idempotency
              /\ iopen' = [iopen EXCEPT ![r] = TRUE]
              /\ ipc' = [ipc EXCEPT ![r] = Issuer!WriteStep(icall[r])]
           \/ iopen' = iopen
        /\ \/ idempotency' = idempotency
           \/ idempotency' =
                Issuer!InsertRow(idempotency, s,
                                 Issuer!ReservedRow(Issuer!Fingerprint(icall[r])))
        /\ Issuer!Acked(out) =>
                idempotency' =
                    Issuer!InsertRow(idempotency, s,
                                     Issuer!ReservedRow(Issuer!Fingerprint(icall[r])))
    BY <1>2 DEF Issuer!Reserve, Issuer!Taken, Issuer!ReserveIdempotencyRecord, Issuer!Goto,
       Issuer!Reaches, Issuer!Acked
  <2> HIDE DEF s
  <2>2. /\ s \notin DOMAIN idempotency
        /\ idempotency' = [k \in DOMAIN idempotency \cup {s} |->
                IF k = s THEN Issuer!ReservedRow(Issuer!Fingerprint(icall[r]))
                         ELSE idempotency[k]]
    BY <1>2, <2>1 DEF Issuer!InsertRow
  <2>3. IssuerOwnRow(r)
    BY <2>2 DEF IssuerOwnRow, s
  <2>4. Issuer!WriteStep(icall[r]) \in {"allocate", "load"}
    BY DEF Issuer!WriteStep
  <2> QED
    BY <1>a, <2>1, <2>2, <2>3, <2>4
<1>3. ASSUME NEW out, Issuer!Complete(r, out), ~UNCHANGED <<idempotency, iopen>>
      PROVE  /\ IssuerOwnRow(r)
             /\ ipc[r] = "complete"
             /\ s \in DOMAIN idempotency /\ s \in DOMAIN idempotency'
             /\ idempotency'[s].fingerprint = idempotency[s].fingerprint
             /\ idempotency'[s] = idempotency[s] \/ idempotency'[s].reply = ireply[r]
             /\ iopen' \in {iopen, [iopen EXCEPT ![r] = FALSE]}
  <2>1. /\ ipc[r] = "complete"
        /\ \/ s \in DOMAIN idempotency /\ iopen' = [iopen EXCEPT ![r] = FALSE]
           \/ iopen' = iopen
        /\ \/ idempotency' = idempotency
           \/ idempotency' = Issuer!CompleteIdempotencyRecord(idempotency, s, ireply[r])
    BY <1>3 DEF Issuer!Complete
  <2> HIDE DEF s
  <2>2. /\ s \in DOMAIN idempotency
        /\ \/ idempotency' = idempotency
           \/ idempotency' = [idempotency EXCEPT ![s] =
                [state |-> "completed", fingerprint |-> idempotency[s].fingerprint,
                 reply |-> ireply[r]]]
    BY <1>3, <2>1 DEF Issuer!CompleteIdempotencyRecord
  <2>3. IssuerOwnRow(r)
    BY <2>2 DEF IssuerOwnRow, s
  <2> QED
    BY <2>1, <2>2, <2>3
<1>4. ASSUME NEW out, Issuer!Release(r, out)
      PROVE  /\ IssuerOwnRow(r)
             /\ ipc[r] = "release"
             /\ s \in DOMAIN idempotency' =>
                    s \in DOMAIN idempotency /\ idempotency'[s] = idempotency[s]
             /\ iopen' = [iopen EXCEPT ![r] = FALSE]
  <2>1. /\ ipc[r] = "release"
        /\ iopen' = [iopen EXCEPT ![r] = FALSE]
        /\ \/ idempotency' = idempotency
           \/ idempotency' = Issuer!ReleaseIdempotencyRecord(idempotency, s)
    BY <1>4 DEF Issuer!Release
  <2> HIDE DEF s
  <2>2. \/ idempotency' = idempotency
        \/ idempotency' = [k \in DOMAIN idempotency \ {s} |-> idempotency[k]]
    BY <2>1 DEF Issuer!ReleaseIdempotencyRecord, Issuer!DeleteRow
  <2>3. IssuerOwnRow(r)
    BY <2>2 DEF IssuerOwnRow, s
  <2> QED
    BY <2>1, <2>2, <2>3
<1>5. \/ UNCHANGED <<idempotency, iopen>>
      \/ \E out : Issuer!Reserve(r, out) \/ Issuer!Complete(r, out) \/ Issuer!Release(r, out)
  BY DEF Issuer!Step, Issuer!ReadIssuer, Issuer!Lookup, Issuer!Allocate, Issuer!Create,
     Issuer!Load, Issuer!Update, Issuer!ReadCredential, Issuer!Audit, Issuer!dbVars
<1> HIDE DEF s
<1> QED
  BY <1>1, <1>2, <1>3, <1>4, <1>5 DEF s

LEMMA IssuerStepHolds ==
    ASSUME IssuerInv, IssuerReserved, NEW r \in IssuerRequests, Issuer!Step(r)
    PROVE  \A q \in IssuerRequests : IssuerHolds(q)'
<1> DEFINE s == Issuer!SlotOf(icall[r])
<1>a. /\ DOMAIN ipc = IssuerRequests /\ DOMAIN iopen = IssuerRequests /\ IssuerFlow(r)
      /\ icall' = icall
      /\ \A q \in IssuerRequests \ {r} : ipc'[q] = ipc[q] /\ iopen'[q] = iopen[q]
  BY IssuerStepFrame DEF IssuerInv, IssuerTyped
<1>b. \A q \in IssuerRequests : IssuerHolds(q)
  BY DEF IssuerReserved
<1>c. iopen[r] /\ iopen'[r] =>
        ipc'[r] \in {"allocate", "create", "load", "update", "complete", "release"}
  <2> SUFFICES ASSUME iopen[r], iopen'[r]
               PROVE  ipc'[r] \in {"create", "update", "complete", "release"}
    OBVIOUS
  <2>a. ipc[r] \in {"allocate", "create", "load", "update", "complete", "release"}
        /\ icall[r].key # NoKey
    BY <1>b DEF IssuerHolds
  <2>1. PICK out : \/ Issuer!Allocate(r, out) \/ Issuer!Create(r, out) \/ Issuer!Load(r, out)
                   \/ Issuer!Update(r, out) \/ Issuer!Complete(r, out)
                   \/ Issuer!Release(r, out)
    BY <2>a DEF Issuer!Step, Issuer!ReadIssuer, Issuer!Reserve, Issuer!Lookup,
       Issuer!ReadCredential, Issuer!Audit, Issuer!AuditSteps
  <2> QED
    BY <1>a, <2>a, <2>1 DEF Issuer!Allocate, Issuer!Create, Issuer!Load, Issuer!Update,
       Issuer!Complete, Issuer!Release, Issuer!Goto, Issuer!Fail, Issuer!CompleteStep,
       Issuer!Keyed
<1>d. ipc[r] = "reserve" => icall[r].key # NoKey /\ icall[r].op \in {"issue", "status"}
  BY <1>a DEF IssuerFlow
<1>e. Issuer!ReservedRow(Issuer!Fingerprint(icall[r])).fingerprint = Issuer!Fingerprint(icall[r])
  BY DEF Issuer!ReservedRow
<1>1. /\ IssuerOwnRow(r)
      /\ \/ UNCHANGED <<idempotency, iopen>>
         \/ /\ ipc[r] = "reserve" /\ s \notin DOMAIN idempotency
            /\ s \in DOMAIN idempotency'
            /\ idempotency'[s] = Issuer!ReservedRow(Issuer!Fingerprint(icall[r]))
            /\ iopen' \in {iopen, [iopen EXCEPT ![r] = TRUE]}
            /\ ipc'[r] \in {"allocate", "load"} \/ iopen' = iopen
         \/ /\ ipc[r] = "complete"
            /\ s \in DOMAIN idempotency /\ s \in DOMAIN idempotency'
            /\ idempotency'[s].fingerprint = idempotency[s].fingerprint
            /\ iopen' \in {iopen, [iopen EXCEPT ![r] = FALSE]}
         \/ ipc[r] = "release" /\ iopen' = [iopen EXCEPT ![r] = FALSE]
  BY IssuerRow
<1> HIDE DEF s
<1>2. ASSUME NEW q \in IssuerRequests \ {r}, iopen[q], Issuer!SlotOf(icall[q]) # s
      PROVE  /\ Issuer!SlotOf(icall[q]) \in DOMAIN idempotency'
             /\ idempotency'[Issuer!SlotOf(icall[q])].fingerprint
                    = Issuer!Fingerprint(icall[q])
  BY <1>b, <1>1, <1>2 DEF IssuerHolds, IssuerOwnRow, s
<1>3. CASE UNCHANGED <<idempotency, iopen>>
  BY <1>a, <1>b, <1>c, <1>3 DEF IssuerHolds
<1>4. CASE /\ ipc[r] = "reserve" /\ s \notin DOMAIN idempotency
           /\ s \in DOMAIN idempotency'
           /\ idempotency'[s] = Issuer!ReservedRow(Issuer!Fingerprint(icall[r]))
           /\ iopen' \in {iopen, [iopen EXCEPT ![r] = TRUE]}
           /\ ipc'[r] \in {"allocate", "load"} \/ iopen' = iopen
  <2>1. \A q \in IssuerRequests : iopen[q] => Issuer!SlotOf(icall[q]) # s
    BY <1>b, <1>4 DEF IssuerHolds
  <2>2. ~iopen[r]
    BY <2>1 DEF s
  <2>3. ASSUME NEW q \in IssuerRequests \ {r} PROVE IssuerHolds(q)'
    BY <1>a, <1>b, <1>2, <1>4, <2>1, <2>3 DEF IssuerHolds, s
  <2>4. IssuerHolds(r)'
    BY <1>a, <1>d, <1>e, <1>4, <2>1, <2>2 DEF IssuerHolds, s
  <2> QED
    BY <2>3, <2>4
<1>5. CASE \/ /\ ipc[r] = "complete"
              /\ s \in DOMAIN idempotency /\ s \in DOMAIN idempotency'
              /\ idempotency'[s].fingerprint = idempotency[s].fingerprint
              /\ iopen' \in {iopen, [iopen EXCEPT ![r] = FALSE]}
           \/ ipc[r] = "release" /\ iopen' = [iopen EXCEPT ![r] = FALSE]
  <2>1. iopen[r]
    BY <1>5 DEF IssuerReserved, IssuerWrites
  <2>2. \A q \in IssuerRequests \ {r} : iopen[q] => Issuer!SlotOf(icall[q]) # s
    BY <1>b, <2>1 DEF IssuerHolds, s
  <2>3. ASSUME NEW q \in IssuerRequests \ {r} PROVE IssuerHolds(q)'
    BY <1>a, <1>b, <1>2, <1>5, <2>2, <2>3 DEF IssuerHolds, s
  <2>4. IssuerHolds(r)'
    BY <1>a, <1>b, <1>c, <1>5, <2>1, <2>2 DEF IssuerHolds, s
  <2> QED
    BY <2>3, <2>4
<1> QED
  BY <1>1, <1>3, <1>4, <1>5

LEMMA IssuerStepWrites ==
    ASSUME IssuerInv, IssuerReserved, NEW r \in IssuerRequests, Issuer!Step(r)
    PROVE  IssuerWrites(r)'
<1> USE DEF Issuer!Goto, Issuer!Fail
<1>a. /\ DOMAIN ipc = IssuerRequests /\ DOMAIN iopen = IssuerRequests
      /\ DOMAIN icred = IssuerRequests /\ IssuerFlow(r)
      /\ icall' = icall
  BY IssuerStepFrame DEF IssuerInv, IssuerTyped
<1>b. IssuerHolds(r) /\ IssuerWrites(r)
  BY DEF IssuerReserved
<1>c. icall[r] \in IssuerCalls
  BY <1>a, IssuerStepFrame DEF IssuerInv, IssuerFlow, Closed
<1>2. ASSUME NEW out, Issuer!ReadIssuer(r, out) \/ Issuer!ReadCredential(r, out)
      PROVE  IssuerWrites(r)'
  BY <1>2, <1>a, <1>b, <1>c DEF IssuerHolds, IssuerWrites, Issuer!ReadIssuer,
     Issuer!ReadCredential, Issuer!ReserveStep, Issuer!WriteStep, Issuer!Keyed
<1>3. ASSUME NEW out, Issuer!Reserve(r, out)
      PROVE  IssuerWrites(r)'
  BY <1>3, <1>a, <1>b DEF IssuerHolds, IssuerWrites, Issuer!Reserve, Issuer!WriteStep
<1>4. ASSUME NEW out, Issuer!Lookup(r, out)
      PROVE  IssuerWrites(r)'
  <2> DEFINE outcome == Issuer!ReservationOutcome(idempotency[Issuer!SlotOf(icall[r])],
                                                  Issuer!Fingerprint(icall[r]))
  <2>1. outcome \in {"conflict", "replay", "in_progress"}
    BY OutcomeNames
  <2>2. /\ iopen' = iopen
        /\ \/ ipc' = [ipc EXCEPT ![r] = IF iopen[r] THEN "release" ELSE "done"]
           \/ ipc' = [ipc EXCEPT ![r] = outcome]
    BY <1>4 DEF Issuer!Lookup
  <2> HIDE DEF outcome
  <2> QED
    BY <1>a, <2>1, <2>2 DEF IssuerWrites
<1>5. ASSUME NEW out, Issuer!Allocate(r, out) \/ Issuer!Create(r, out)
      PROVE  IssuerWrites(r)'
  BY <1>5, <1>a, <1>b DEF IssuerWrites, Issuer!Allocate, Issuer!Create, Issuer!CompleteStep,
     Issuer!Keyed
<1>6. ASSUME NEW out, Issuer!Load(r, out) \/ Issuer!Update(r, out)
      PROVE  IssuerWrites(r)'
  BY <1>6, <1>a, <1>b DEF IssuerWrites, Issuer!Load, Issuer!Update, Issuer!dbVars,
     Issuer!CompleteStep, Issuer!Keyed
<1>7. ASSUME NEW out, Issuer!Complete(r, out) \/ Issuer!Release(r, out) \/ Issuer!Audit(r, out)
      PROVE  IssuerWrites(r)'
  BY <1>7, <1>a, <1>b DEF IssuerWrites, Issuer!Complete, Issuer!Release, Issuer!Audit
<1> QED
  BY <1>2, <1>3, <1>4, <1>5, <1>6, <1>7 DEF Issuer!Step

\* The verifier service writes rows of its own operation only, and the issuer
\* service of its own.
VerifierRowsAlone ==
    \A slot : slot[1] = "create" =>
        /\ slot \in DOMAIN idempotency' <=> slot \in DOMAIN idempotency
        /\ slot \in DOMAIN idempotency => idempotency'[slot] = idempotency[slot]
IssuerRowsAlone ==
    \A slot : slot[1] # "create" =>
        /\ slot \in DOMAIN idempotency' <=> slot \in DOMAIN idempotency
        /\ slot \in DOMAIN idempotency => idempotency'[slot] = idempotency[slot]

LEMMA IssuerNextReserved ==
    ASSUME IssuerInv, IssuerReserved, CredentialsGrow, Issuer!Next
    PROVE  IssuerReserved' /\ VerifierRowsAlone
<1>a. IssuerTyped
  BY DEF IssuerInv
<1>b. \A q \in IssuerRequests : IssuerHolds(q) /\ IssuerWrites(q)
  BY DEF IssuerReserved
<1>1. ASSUME NEW r \in IssuerRequests, NEW c \in IssuerCalls,
             Issuer!Refuse(r, c) \/ Issuer!Arrive(r, c)
      PROVE  IssuerReserved' /\ VerifierRowsAlone
  <2>0. /\ ipc[r] = "idle" /\ UNCHANGED <<iopen, icred, idempotency, credentials>>
        /\ \A q \in IssuerRequests \ {r} : UNCHANGED <<ipc[q], icall[q]>>
        /\ icall'[r] = c
    BY <1>1, <1>a DEF IssuerTyped, Issuer!Refuse, Issuer!Arrive, Issuer!Goto, Issuer!dbVars
  <2>1. ~iopen[r]
    BY <2>0, <1>b DEF IssuerHolds
  <2>2. \/ ipc'[r] \in {"done", "issuer", "read", "reserve"}
        \/ ipc'[r] = "load" /\ c.key = NoKey
    BY <1>1, <1>a, CallsAssumption DEF IssuerTyped, Issuer!Refuse, Issuer!Arrive, Issuer!Goto,
       Issuer!FirstStep, Issuer!ReserveStep, Issuer!WriteStep, Issuer!Keyed
  <2>3. \A q \in IssuerRequests : IssuerHolds(q)'
    BY <2>0, <2>1, <1>b DEF IssuerHolds
  <2>4. \A q \in IssuerRequests : IssuerWrites(q)'
    BY <2>0, <2>1, <2>2, <1>b DEF IssuerWrites
  <2> QED
    BY <2>0, <2>3, <2>4 DEF IssuerReserved, VerifierRowsAlone
<1>2. ASSUME NEW r \in IssuerRequests, Issuer!Step(r)
      PROVE  IssuerReserved' /\ VerifierRowsAlone
  <2>0. icall' = icall /\ \A q \in IssuerRequests \ {r} :
            ipc'[q] = ipc[q] /\ icred'[q] = icred[q] /\ iopen'[q] = iopen[q]
    BY <1>2, <1>a, IssuerStepFrame
  <2>1. \A q \in IssuerRequests \ {r} : IssuerWrites(q)'
    BY <2>0, <1>b DEF IssuerWrites, CredentialsGrow
  <2>2. VerifierRowsAlone
    <3>1. CASE UNCHANGED idempotency
      BY <3>1 DEF VerifierRowsAlone
    <3>2. CASE ipc[r] \in {"reserve", "complete", "release"} /\ IssuerOwnRow(r)
      <4>1. icall[r].op # "create"
        BY <3>2, <1>b DEF IssuerInv, IssuerFlow, IssuerHolds, IssuerWrites
      <4>2. Issuer!SlotOf(icall[r])[1] # "create"
        BY <4>1 DEF Issuer!SlotOf
      <4> QED
        BY <3>2, <4>2 DEF IssuerOwnRow, VerifierRowsAlone
    <3> QED
      BY <1>2, <3>1, <3>2, IssuerRow
  <2> QED
    BY <1>2, <2>1, <2>2, IssuerStepHolds, IssuerStepWrites DEF IssuerReserved
<1>3. ASSUME \/ \E r \in IssuerRequests : Issuer!Expire(r)
             \/ Issuer!TrustRegistryWrites
      PROVE  IssuerReserved' /\ VerifierRowsAlone
  BY <1>3, <1>b DEF Issuer!Expire, Issuer!TrustRegistryWrites, Issuer!requestVars, Issuer!dbVars,
     IssuerReserved, IssuerHolds, IssuerWrites, VerifierRowsAlone
<1>4. CASE Issuer!Crash
  <2>1. \A r \in IssuerRequests : ~iopen'[r] /\ ipc'[r] \in Closed
    BY <1>4, <1>a DEF Issuer!Crash, Issuer!InFlight, IssuerTyped, Closed
  <2> QED
    BY <1>4, <2>1 DEF Issuer!Crash, Issuer!dbVars, IssuerReserved, IssuerHolds, IssuerWrites,
       VerifierRowsAlone, Closed
<1> QED
  BY <1>1, <1>2, <1>3, <1>4 DEF Issuer!Next

\* The same at the verifier service.
Deciding == {"allocate", "submit", "digest", "byid", "trust", "result", "audit_failed"}

VerifierHolds(r) ==
    vopen[r] =>
        /\ vpc[r] \in Deciding \cup {"complete", "release"}
        /\ vcall[r].key # NoKey /\ vcall[r].op = "create"
        /\ Verifier!SlotOf(vcall[r]) \in DOMAIN idempotency
        /\ idempotency[Verifier!SlotOf(vcall[r])].fingerprint = Verifier!Fingerprint(vcall[r])
        /\ \A q \in VerifierRequests \ {r} :
                vopen[q] => Verifier!SlotOf(vcall[q]) # Verifier!SlotOf(vcall[r])

VerifierWrites(r) ==
    /\ vpc[r] \in Deciding /\ vcall[r].key # NoKey => vopen[r]
    /\ vpc[r] \in {"complete", "release"} => vopen[r]

VerifierReserved == \A r \in VerifierRequests : VerifierHolds(r) /\ VerifierWrites(r)

VerifierOwnRow(r) ==
    \A slot : slot # Verifier!SlotOf(vcall[r]) =>
        /\ slot \in DOMAIN idempotency' <=> slot \in DOMAIN idempotency
        /\ slot \in DOMAIN idempotency => idempotency'[slot] = idempotency[slot]

LEMMA VerifierRow ==
    ASSUME VerifierInv, NEW r \in VerifierRequests, Verifier!Step(r)
    PROVE  LET s == Verifier!SlotOf(vcall[r])
           IN  /\ VerifierOwnRow(r)
               /\ \/ UNCHANGED <<idempotency, vopen>>
                  \/ /\ vpc[r] = "reserve" /\ s \notin DOMAIN idempotency
                     /\ s \in DOMAIN idempotency'
                     /\ idempotency'[s] = Verifier!ReservedRow(Verifier!Fingerprint(vcall[r]))
                     /\ vopen' \in {vopen, [vopen EXCEPT ![r] = TRUE]}
                     /\ vpc'[r] = "allocate" \/ vopen' = vopen
                  \/ /\ vpc[r] = "complete"
                     /\ s \in DOMAIN idempotency /\ s \in DOMAIN idempotency'
                     /\ idempotency'[s].fingerprint = idempotency[s].fingerprint
                     /\ idempotency'[s] = idempotency[s] \/ idempotency'[s].reply = vreply[r]
                     /\ vopen' \in {vopen, [vopen EXCEPT ![r] = FALSE]}
                  \/ /\ vpc[r] = "release"
                     /\ s \in DOMAIN idempotency' =>
                            s \in DOMAIN idempotency /\ idempotency'[s] = idempotency[s]
                     /\ vopen' = [vopen EXCEPT ![r] = FALSE]
<1> DEFINE s == Verifier!SlotOf(vcall[r])
<1>a. DOMAIN vpc = VerifierRequests
  BY DEF VerifierInv, VerifierTyped
<1>1. CASE UNCHANGED <<idempotency, vopen>>
  BY <1>1 DEF VerifierOwnRow
<1>2. ASSUME NEW out, Verifier!Reserve(r, out), ~UNCHANGED <<idempotency, vopen>>
      PROVE  /\ VerifierOwnRow(r)
             /\ vpc[r] = "reserve" /\ s \notin DOMAIN idempotency
             /\ s \in DOMAIN idempotency'
             /\ idempotency'[s] = Verifier!ReservedRow(Verifier!Fingerprint(vcall[r]))
             /\ vopen' \in {vopen, [vopen EXCEPT ![r] = TRUE]}
             /\ vpc'[r] = "allocate" \/ vopen' = vopen
  <2>1. /\ vpc[r] = "reserve"
        /\ \/ /\ Verifier!Acked(out) /\ s \notin DOMAIN idempotency
              /\ vopen' = [vopen EXCEPT ![r] = TRUE]
              /\ vpc' = [vpc EXCEPT ![r] = "allocate"]
           \/ vopen' = vopen
        /\ \/ idempotency' = idempotency
           \/ idempotency' =
                Verifier!InsertRow(idempotency, s,
                                 Verifier!ReservedRow(Verifier!Fingerprint(vcall[r])))
        /\ Verifier!Acked(out) =>
                idempotency' =
                    Verifier!InsertRow(idempotency, s,
                                     Verifier!ReservedRow(Verifier!Fingerprint(vcall[r])))
    BY <1>2 DEF Verifier!Reserve, Verifier!Taken, Verifier!ReserveIdempotencyRecord, Verifier!Goto,
       Verifier!Reaches, Verifier!Acked
  <2> HIDE DEF s
  <2>2. /\ s \notin DOMAIN idempotency
        /\ idempotency' = [k \in DOMAIN idempotency \cup {s} |->
                IF k = s THEN Verifier!ReservedRow(Verifier!Fingerprint(vcall[r]))
                         ELSE idempotency[k]]
    BY <1>2, <2>1 DEF Verifier!InsertRow
  <2>3. VerifierOwnRow(r)
    BY <2>2 DEF VerifierOwnRow, s
  <2> QED
    BY <1>a, <2>1, <2>2, <2>3
<1>3. ASSUME NEW out, Verifier!Complete(r, out), ~UNCHANGED <<idempotency, vopen>>
      PROVE  /\ VerifierOwnRow(r)
             /\ vpc[r] = "complete"
             /\ s \in DOMAIN idempotency /\ s \in DOMAIN idempotency'
             /\ idempotency'[s].fingerprint = idempotency[s].fingerprint
             /\ idempotency'[s] = idempotency[s] \/ idempotency'[s].reply = vreply[r]
             /\ vopen' \in {vopen, [vopen EXCEPT ![r] = FALSE]}
  <2>1. /\ vpc[r] = "complete"
        /\ \/ s \in DOMAIN idempotency /\ vopen' = [vopen EXCEPT ![r] = FALSE]
           \/ vopen' = vopen
        /\ \/ idempotency' = idempotency
           \/ idempotency' = Verifier!CompleteIdempotencyRecord(idempotency, s, vreply[r])
    BY <1>3 DEF Verifier!Complete
  <2> HIDE DEF s
  <2>2. /\ s \in DOMAIN idempotency
        /\ \/ idempotency' = idempotency
           \/ idempotency' = [idempotency EXCEPT ![s] =
                [state |-> "completed", fingerprint |-> idempotency[s].fingerprint,
                 reply |-> vreply[r]]]
    BY <1>3, <2>1 DEF Verifier!CompleteIdempotencyRecord
  <2>3. VerifierOwnRow(r)
    BY <2>2 DEF VerifierOwnRow, s
  <2> QED
    BY <2>1, <2>2, <2>3
<1>4. ASSUME NEW out, Verifier!Release(r, out)
      PROVE  /\ VerifierOwnRow(r)
             /\ vpc[r] = "release"
             /\ s \in DOMAIN idempotency' =>
                    s \in DOMAIN idempotency /\ idempotency'[s] = idempotency[s]
             /\ vopen' = [vopen EXCEPT ![r] = FALSE]
  <2>1. /\ vpc[r] = "release"
        /\ vopen' = [vopen EXCEPT ![r] = FALSE]
        /\ \/ idempotency' = idempotency
           \/ idempotency' = Verifier!ReleaseIdempotencyRecord(idempotency, s)
    BY <1>4 DEF Verifier!Release
  <2> HIDE DEF s
  <2>2. \/ idempotency' = idempotency
        \/ idempotency' = [k \in DOMAIN idempotency \ {s} |-> idempotency[k]]
    BY <2>1 DEF Verifier!ReleaseIdempotencyRecord, Verifier!DeleteRow
  <2>3. VerifierOwnRow(r)
    BY <2>2 DEF VerifierOwnRow, s
  <2> QED
    BY <2>1, <2>2, <2>3
<1>5. \/ UNCHANGED <<idempotency, vopen>>
      \/ \E out : Verifier!Reserve(r, out) \/ Verifier!Complete(r, out) \/ Verifier!Release(r, out)
  BY DEF Verifier!Step, Verifier!Lookup, Verifier!Allocate, Verifier!Submit,
     Verifier!ResolveByDigest, Verifier!ResolveById, Verifier!ReadTrust, Verifier!StoreResult,
     Verifier!ReadSubmission, Verifier!ReadResult, Verifier!Audit, Verifier!verifierVars
<1> HIDE DEF s
<1> QED
  BY <1>1, <1>2, <1>3, <1>4, <1>5 DEF s

LEMMA VerifierStepHolds ==
    ASSUME VerifierInv, VerifierReserved, NEW r \in VerifierRequests, Verifier!Step(r)
    PROVE  \A q \in VerifierRequests : VerifierHolds(q)'
<1> DEFINE s == Verifier!SlotOf(vcall[r])
<1>a. /\ DOMAIN vpc = VerifierRequests /\ DOMAIN vopen = VerifierRequests /\ VerifierFlow(r)
      /\ vcall' = vcall
      /\ \A q \in VerifierRequests \ {r} : vpc'[q] = vpc[q] /\ vopen'[q] = vopen[q]
  BY VerifierStep DEF VerifierInv, VerifierTyped
<1>b. \A q \in VerifierRequests : VerifierHolds(q)
  BY DEF VerifierReserved
<1>c. vopen[r] /\ vopen'[r] => vpc'[r] \in Deciding \cup {"complete", "release"}
  <2> SUFFICES ASSUME vopen[r], vopen'[r]
               PROVE  vpc'[r] \in Deciding \cup {"complete", "release"}
    OBVIOUS
  <2> USE DEF Deciding, Verifier!Goto, Verifier!Fail
  <2>a. /\ vpc[r] \in Deciding \cup {"complete", "release"}
        /\ vcall[r].key # NoKey /\ vcall[r].op = "create"
    BY <1>b DEF VerifierHolds
  <2>1. PICK out : \/ Verifier!Allocate(r, out) \/ Verifier!Submit(r, out)
                   \/ Verifier!ResolveByDigest(r, out) \/ Verifier!ResolveById(r, out)
                   \/ Verifier!ReadTrust(r, out) \/ Verifier!StoreResult(r, out)
                   \/ Verifier!Complete(r, out) \/ Verifier!Release(r, out)
                   \/ vpc[r] = "audit_failed" /\ Verifier!Audit(r, out)
    BY <2>a DEF Verifier!Step, Verifier!Reserve, Verifier!Lookup, Verifier!ReadSubmission,
       Verifier!ReadResult, Verifier!Audit, Verifier!AuditSteps
  <2>2. CASE Verifier!ResolveByDigest(r, out) \/ Verifier!ResolveById(r, out)
    BY <1>a, <2>2 DEF Verifier!ResolveByDigest, Verifier!ResolveById, Verifier!Resolved,
       Verifier!Decide
  <2> QED
    BY <1>a, <2>a, <2>1, <2>2 DEF Verifier!Allocate, Verifier!Submit, Verifier!ReadTrust,
       Verifier!Decide, Verifier!StoreResult, Verifier!Complete, Verifier!Release, Verifier!Audit,
       Verifier!CompleteStep, Verifier!Keyed
<1>d. vpc[r] = "reserve" => vcall[r].key # NoKey /\ vcall[r].op = "create"
  BY <1>a DEF VerifierFlow, Writing
<1>e. Verifier!ReservedRow(Verifier!Fingerprint(vcall[r])).fingerprint = Verifier!Fingerprint(vcall[r])
  BY DEF Verifier!ReservedRow
<1>1. /\ VerifierOwnRow(r)
      /\ \/ UNCHANGED <<idempotency, vopen>>
         \/ /\ vpc[r] = "reserve" /\ s \notin DOMAIN idempotency
            /\ s \in DOMAIN idempotency'
            /\ idempotency'[s] = Verifier!ReservedRow(Verifier!Fingerprint(vcall[r]))
            /\ vopen' \in {vopen, [vopen EXCEPT ![r] = TRUE]}
            /\ vpc'[r] = "allocate" \/ vopen' = vopen
         \/ /\ vpc[r] = "complete"
            /\ s \in DOMAIN idempotency /\ s \in DOMAIN idempotency'
            /\ idempotency'[s].fingerprint = idempotency[s].fingerprint
            /\ vopen' \in {vopen, [vopen EXCEPT ![r] = FALSE]}
         \/ vpc[r] = "release" /\ vopen' = [vopen EXCEPT ![r] = FALSE]
  BY VerifierRow
<1> HIDE DEF s
<1>2. ASSUME NEW q \in VerifierRequests \ {r}, vopen[q], Verifier!SlotOf(vcall[q]) # s
      PROVE  /\ Verifier!SlotOf(vcall[q]) \in DOMAIN idempotency'
             /\ idempotency'[Verifier!SlotOf(vcall[q])].fingerprint
                    = Verifier!Fingerprint(vcall[q])
  BY <1>b, <1>1, <1>2 DEF VerifierHolds, VerifierOwnRow, s
<1>3. CASE UNCHANGED <<idempotency, vopen>>
  BY <1>a, <1>b, <1>c, <1>3 DEF VerifierHolds
<1>4. CASE /\ vpc[r] = "reserve" /\ s \notin DOMAIN idempotency
           /\ s \in DOMAIN idempotency'
           /\ idempotency'[s] = Verifier!ReservedRow(Verifier!Fingerprint(vcall[r]))
           /\ vopen' \in {vopen, [vopen EXCEPT ![r] = TRUE]}
           /\ vpc'[r] = "allocate" \/ vopen' = vopen
  <2>1. \A q \in VerifierRequests : vopen[q] => Verifier!SlotOf(vcall[q]) # s
    BY <1>b, <1>4 DEF VerifierHolds
  <2>2. ~vopen[r]
    BY <2>1 DEF s
  <2>3. ASSUME NEW q \in VerifierRequests \ {r} PROVE VerifierHolds(q)'
    BY <1>a, <1>b, <1>2, <1>4, <2>1, <2>3 DEF VerifierHolds, s
  <2>4. VerifierHolds(r)'
    BY <1>a, <1>d, <1>e, <1>4, <2>1, <2>2 DEF VerifierHolds, Deciding, s
  <2> QED
    BY <2>3, <2>4
<1>5. CASE \/ /\ vpc[r] = "complete"
              /\ s \in DOMAIN idempotency /\ s \in DOMAIN idempotency'
              /\ idempotency'[s].fingerprint = idempotency[s].fingerprint
              /\ vopen' \in {vopen, [vopen EXCEPT ![r] = FALSE]}
           \/ vpc[r] = "release" /\ vopen' = [vopen EXCEPT ![r] = FALSE]
  <2>1. vopen[r]
    BY <1>5 DEF VerifierReserved, VerifierWrites
  <2>2. \A q \in VerifierRequests \ {r} : vopen[q] => Verifier!SlotOf(vcall[q]) # s
    BY <1>b, <2>1 DEF VerifierHolds, s
  <2>3. ASSUME NEW q \in VerifierRequests \ {r} PROVE VerifierHolds(q)'
    BY <1>a, <1>b, <1>2, <1>5, <2>2, <2>3 DEF VerifierHolds, s
  <2>4. VerifierHolds(r)'
    BY <1>a, <1>b, <1>c, <1>5, <2>1, <2>2 DEF VerifierHolds, s
  <2> QED
    BY <2>3, <2>4
<1> QED
  BY <1>1, <1>3, <1>4, <1>5

LEMMA VerifierStepWrites ==
    ASSUME VerifierInv, VerifierReserved, NEW r \in VerifierRequests, Verifier!Step(r)
    PROVE  VerifierWrites(r)'
<1> USE DEF Verifier!Goto, Verifier!Fail, Deciding
<1>a. /\ DOMAIN vpc = VerifierRequests /\ DOMAIN vopen = VerifierRequests
      /\ VerifierFlow(r) /\ vcall' = vcall
  BY VerifierStep DEF VerifierInv, VerifierTyped
<1>b. VerifierHolds(r) /\ VerifierWrites(r)
  BY DEF VerifierReserved
<1>2. ASSUME NEW out, Verifier!Reserve(r, out)
      PROVE  VerifierWrites(r)'
  BY <1>2, <1>a, <1>b DEF VerifierWrites, Verifier!Reserve
<1>3. ASSUME NEW out, Verifier!Lookup(r, out)
      PROVE  VerifierWrites(r)'
  <2> DEFINE outcome == Verifier!ReservationOutcome(idempotency[Verifier!SlotOf(vcall[r])],
                                                    Verifier!Fingerprint(vcall[r]))
  <2>1. outcome \in {"conflict", "replay", "in_progress"}
    BY OutcomeNames
  <2>2. /\ vopen' = vopen
        /\ \/ vpc' = [vpc EXCEPT ![r] = IF vopen[r] THEN "release" ELSE "done"]
           \/ vpc' = [vpc EXCEPT ![r] = outcome]
    BY <1>3 DEF Verifier!Lookup
  <2> HIDE DEF outcome
  <2> QED
    BY <1>a, <2>1, <2>2 DEF VerifierWrites
<1>4. ASSUME NEW out, Verifier!Allocate(r, out) \/ Verifier!Submit(r, out)
                      \/ Verifier!StoreResult(r, out)
      PROVE  VerifierWrites(r)'
  BY <1>4, <1>a, <1>b DEF VerifierWrites, Verifier!Allocate, Verifier!Submit,
     Verifier!StoreResult, Verifier!CompleteStep, Verifier!Keyed
<1>5. ASSUME NEW out, Verifier!ResolveByDigest(r, out) \/ Verifier!ResolveById(r, out)
                      \/ Verifier!ReadTrust(r, out)
      PROVE  VerifierWrites(r)'
  <2>1. /\ UNCHANGED <<vopen, vcall>> /\ vpc[r] \in Deciding
        /\ \E step \in {"trust", "result", "byid", "audit_failed"} :
                vpc' = [vpc EXCEPT ![r] = step]
    BY <1>5 DEF Verifier!ResolveByDigest, Verifier!ResolveById, Verifier!Resolved,
       Verifier!Decide, Verifier!ReadTrust
  <2> QED
    BY <1>a, <1>b, <2>1 DEF VerifierWrites
<1>6. ASSUME NEW out, Verifier!ReadSubmission(r, out) \/ Verifier!ReadResult(r, out)
      PROVE  VerifierWrites(r)'
  BY <1>6, <1>a, <1>b DEF VerifierWrites, Verifier!ReadSubmission, Verifier!ReadResult
<1>7. ASSUME NEW out, Verifier!Complete(r, out) \/ Verifier!Release(r, out)
                      \/ Verifier!Audit(r, out)
      PROVE  VerifierWrites(r)'
  BY <1>7, <1>a, <1>b DEF VerifierWrites, VerifierFlow, Writing, Verifier!Complete,
     Verifier!Release, Verifier!Audit, Verifier!Keyed
<1> QED
  BY <1>2, <1>3, <1>4, <1>5, <1>6, <1>7 DEF Verifier!Step

LEMMA VerifierNextReserved ==
    ASSUME VerifierInv, VerifierReserved, Verifier!Next
    PROVE  VerifierReserved' /\ IssuerRowsAlone
<1>a. VerifierTyped
  BY DEF VerifierInv
<1>b. \A q \in VerifierRequests : VerifierHolds(q) /\ VerifierWrites(q)
  BY DEF VerifierReserved
<1>1. ASSUME NEW r \in VerifierRequests, NEW c \in VerifierCalls,
             Verifier!Refuse(r, c) \/ Verifier!Arrive(r, c)
      PROVE  VerifierReserved' /\ IssuerRowsAlone
  <2>0. /\ vpc[r] = "idle" /\ UNCHANGED <<vopen, idempotency>>
        /\ \A q \in VerifierRequests \ {r} : UNCHANGED <<vpc[q], vcall[q]>>
        /\ vcall'[r] = c
    BY <1>1, <1>a DEF VerifierTyped, Verifier!Refuse, Verifier!Arrive, Verifier!Goto,
       Verifier!verifierVars
  <2>1. ~vopen[r]
    BY <2>0, <1>b DEF VerifierHolds, Deciding
  <2>2. \/ vpc'[r] \in {"done", "read", "reserve"}
        \/ vpc'[r] = "allocate" /\ c.key = NoKey
    BY <1>1, <1>a, CallsAssumption DEF VerifierTyped, Verifier!Refuse, Verifier!Arrive,
       Verifier!Goto, Verifier!FirstStep, Verifier!Keyed
  <2>3. \A q \in VerifierRequests : VerifierHolds(q)'
    BY <2>0, <2>1, <1>b DEF VerifierHolds
  <2>4. \A q \in VerifierRequests : VerifierWrites(q)'
    BY <2>0, <2>1, <2>2, <1>b DEF VerifierWrites, Deciding
  <2> QED
    BY <2>0, <2>3, <2>4 DEF VerifierReserved, IssuerRowsAlone
<1>2. ASSUME NEW r \in VerifierRequests, Verifier!Step(r)
      PROVE  VerifierReserved' /\ IssuerRowsAlone
  <2>0. vcall' = vcall /\ \A q \in VerifierRequests \ {r} :
            vpc'[q] = vpc[q] /\ vopen'[q] = vopen[q]
    BY <1>2, <1>a, VerifierStep
  <2>1. \A q \in VerifierRequests \ {r} : VerifierWrites(q)'
    BY <2>0, <1>b DEF VerifierWrites
  <2>2. IssuerRowsAlone
    <3>1. CASE UNCHANGED idempotency
      BY <3>1 DEF IssuerRowsAlone
    <3>2. CASE vpc[r] \in {"reserve", "complete", "release"} /\ VerifierOwnRow(r)
      <4>1. vcall[r].op = "create"
        BY <3>2, <1>b DEF VerifierInv, VerifierFlow, Writing, VerifierHolds, VerifierWrites
      <4>2. Verifier!SlotOf(vcall[r])[1] = "create"
        BY <4>1 DEF Verifier!SlotOf
      <4> QED
        BY <3>2, <4>2 DEF VerifierOwnRow, IssuerRowsAlone
    <3> QED
      BY <1>2, <3>1, <3>2, VerifierRow
  <2> QED
    BY <1>2, <2>1, <2>2, VerifierStepHolds, VerifierStepWrites DEF VerifierReserved
<1>3. ASSUME (\E r \in VerifierRequests : Verifier!Expire(r)) \/ Verifier!World
      PROVE  VerifierReserved' /\ IssuerRowsAlone
  BY <1>3, <1>b DEF Verifier!Expire, Verifier!World, Verifier!IssuerIssues,
     Verifier!IssuerChangesStatus, Verifier!TrustRegistryWrites, Verifier!Tick,
     Verifier!requestVars, Verifier!verifierVars, VerifierReserved, VerifierHolds, VerifierWrites,
     IssuerRowsAlone
<1>4. CASE Verifier!Crash
  <2>1. \A r \in VerifierRequests : ~vopen'[r] /\ vpc'[r] \in Closed
    BY <1>4, <1>a DEF Verifier!Crash, Verifier!InFlight, VerifierTyped, Closed
  <2> QED
    BY <1>4, <2>1 DEF Verifier!Crash, Verifier!verifierVars, VerifierReserved, VerifierHolds,
       VerifierWrites, IssuerRowsAlone, Closed, Deciding
<1> QED
  BY <1>1, <1>2, <1>3, <1>4 DEF Verifier!Next

LEMMA NextReserved ==
    ASSUME IssuerInv, VerifierInv, IssuerReserved, VerifierReserved, CredentialsGrow, [Next]_vars
    PROVE  /\ IssuerReserved' /\ VerifierReserved'
           /\ VerifierActs => IssuerRowsAlone
           /\ IssuerActs => VerifierRowsAlone
<1>1. CASE IssuerActs
  <2>1. IssuerReserved' /\ VerifierRowsAlone
    BY <1>1, IssuerNextReserved DEF IssuerActs
  <2>2. UNCHANGED <<vpc, vcall, vopen>>
    BY <1>1 DEF IssuerActs, verifierVars
  <2>3. \A r \in VerifierRequests : vcall[r].op = "create" => Verifier!SlotOf(vcall[r])[1] = "create"
    BY DEF Verifier!SlotOf
  <2>4. VerifierReserved'
    BY <2>1, <2>2, <2>3 DEF VerifierReserved, VerifierHolds, VerifierWrites, VerifierRowsAlone
  <2>5. VerifierActs => IssuerRowsAlone
    BY VerifierNextReserved DEF VerifierActs
  <2> QED
    BY <2>1, <2>4, <2>5
<1>2. CASE VerifierActs
  <2>1. VerifierReserved' /\ IssuerRowsAlone
    BY <1>2, VerifierNextReserved DEF VerifierActs
  <2>2. UNCHANGED <<ipc, icall, iopen, icred, credentials>>
    BY <1>2 DEF VerifierActs, issuerVars
  <2>3. \A r \in IssuerRequests :
            icall[r].op \in {"issue", "status"} => Issuer!SlotOf(icall[r])[1] # "create"
    BY DEF Issuer!SlotOf
  <2>4. IssuerReserved'
    BY <2>1, <2>2, <2>3 DEF IssuerReserved, IssuerHolds, IssuerWrites, IssuerRowsAlone
  <2>5. IssuerActs => VerifierRowsAlone
    BY IssuerNextReserved DEF IssuerActs
  <2> QED
    BY <2>1, <2>4, <2>5
<1>3. CASE BootstrapWrites \/ UNCHANGED vars
  <2>1. IssuerReserved' /\ VerifierReserved'
    BY <1>3 DEF BootstrapWrites, vars, issuerVars, verifierVars, IssuerReserved, IssuerHolds,
       IssuerWrites, VerifierReserved, VerifierHolds, VerifierWrites
  <2>2. UNCHANGED idempotency
    BY <1>3 DEF BootstrapWrites, vars
  <2> QED
    BY <2>1, <2>2 DEF VerifierRowsAlone, IssuerRowsAlone
<1> QED
  BY <1>1, <1>2, <1>3 DEF Next

-----------------------------------------------------------------------------
(* What the two services' answers rest on                                  *)

IssuerSays ==
    \A r \in IssuerRequests : Holds(icall[r].op, icall[r].caller, icall[r].body, ireply[r])

\* What the issuer service had answered when a submission arrived is true of
\* the table.
AnswersHold ==
    \A r \in VerifierRequests :
        /\ \A id \in before[r].ended : Ended(id)
        /\ \A text \in before[r].handedOut : HandedOut(text)

\* q was evaluated as the verification id, and arrived before cid had ended.
Begun(q) == vpc[q] \notin {"idle", "reserve", "lookup", "allocate", "read"}
Witness(q, id, cid) == Begun(q) /\ vvid[q] = id /\ cid \notin before[q].ended
Witnessed(id, cid) == \E q \in VerifierRequests : Witness(q, id, cid)

\* A stored reply is as true as the one that was given.
RowHolds(slot) ==
    /\ slot[1] # "create" =>
            Holds(slot[1], slot[2], idempotency[slot].fingerprint[1], idempotency[slot].reply)
    /\ slot[1] = "create" /\ idempotency[slot].reply.status = "allow" =>
            Witnessed(idempotency[slot].reply.resource, idempotency[slot].fingerprint[3].id)
RowsHold == \A slot \in DOMAIN idempotency : RowHolds(slot)

\* An allow is decided on a credential whose end nobody had been told of.
Allows(r) ==
    /\ vpc[r] = "trust" =>
        /\ vfound[r].status \in {"active"} \cup Final
        /\ vcall[r].artifact.text.id \in before[r].ended => vfound[r].status # "active"
    /\ vreply[r].status = "allow" /\ vcall[r].op = "create" =>
        Witnessed(vreply[r].resource, vcall[r].artifact.text.id)
    /\ vpc[r] \in {"idle", "reserve", "lookup", "allocate"} =>
        vreply[r] = NoReply /\ vvid[r] = NoResource
    /\ vpc[r] \in {"replay", "in_progress", "conflict"} => vvid[r] = NoResource

\* What has been handed out is found by its digest.
Known(r) ==
    /\ vpc[r] # "idle" /\ vcall[r].op = "create" /\ vvid[r] # NoResource
    /\ vcall[r].artifact.text \in before[r].handedOut
    /\ ~vcall[r].artifact.padded
    => /\ vpc[r] # "byid"
       /\ vreply[r].error # "credential_not_found"
       /\ vreply[r].status # "artifact_continuity_failed"

VerifierCalm == vbudget = VerifierBudget

HistoryInv ==
    /\ IssuerInv /\ VerifierInv /\ Spent
    /\ CredentialsKept /\ IssuerReserved /\ VerifierReserved
    /\ IssuerSays /\ AnswersHold /\ RowsHold
    /\ \A r \in VerifierRequests : Allows(r)
    /\ VerifierCalm => /\ vexpired = [r \in VerifierRequests |-> FALSE]
                       /\ \A r \in VerifierRequests : Known(r)

\* A replay tells what was told to the same caller about the same body.
LEMMA IssuerReplays ==
    ASSUME IssuerInv, RowsHold, NEW r \in IssuerRequests, NEW out, Issuer!Lookup(r, out)
    PROVE  Holds(icall[r].op, icall[r].caller, icall[r].body, ireply'[r])
<1> DEFINE slot == Issuer!SlotOf(icall[r])
           row == idempotency[slot]
           outcome == Issuer!ReservationOutcome(row, Issuer!Fingerprint(icall[r]))
<1>a. DOMAIN ireply = IssuerRequests /\ IssuerFlow(r) /\ ipc[r] = "lookup"
  BY DEF IssuerInv, IssuerTyped, Issuer!Lookup
<1>1. outcome \in {"conflict", "replay", "in_progress"}
  BY OutcomeNames
<1>2. outcome # "replay" => ~Success(Issuer!OccupiedReply(outcome, row))
  BY <1>1 DEF Issuer!OccupiedReply, Success, Issuer!Reply
<1>3. outcome = "replay" => /\ Issuer!OccupiedReply(outcome, row) = row.reply
                            /\ row.fingerprint = Issuer!Fingerprint(icall[r])
  BY DEF Issuer!OccupiedReply, Issuer!ReservationOutcome
<1>4. \/ ireply'[r] = Issuer!PersistenceError
      \/ /\ slot \in DOMAIN idempotency
         /\ ireply'[r] = Issuer!OccupiedReply(outcome, row)
  BY <1>a DEF Issuer!Lookup, Issuer!Fail
<1>5. /\ slot[1] = icall[r].op /\ slot[2] = icall[r].caller
      /\ icall[r].op \in {"issue", "status"}
      /\ icall[r].op = "issue" => Issuer!Fingerprint(icall[r])[1] = icall[r].body
  BY <1>a DEF Issuer!SlotOf, Issuer!Fingerprint, IssuerFlow
<1>6. slot \in DOMAIN idempotency =>
            Holds(slot[1], slot[2], row.fingerprint[1], row.reply)
  BY <1>5 DEF RowsHold, RowHolds
<1> HIDE DEF slot, row, outcome
<1> QED
  BY <1>2, <1>3, <1>4, <1>5, <1>6, IssuerRefusals DEF Holds

LEMMA IssuerStepSays ==
    ASSUME IssuerInv, IssuerReserved, RowsHold, CredentialsGrow, IssuerSays,
           NEW r \in IssuerRequests, Issuer!Step(r)
    PROVE  Holds(icall[r].op, icall[r].caller, icall[r].body, ireply[r])'
<1> USE DEF Issuer!Goto, Issuer!Fail
<1>a. /\ IssuerTyped /\ IssuerFlow(r) /\ icall' = icall
      /\ IssuerWrites(r)
  BY IssuerStepFrame DEF IssuerInv, IssuerReserved
<1>b. DOMAIN ireply = IssuerRequests
  BY <1>a DEF IssuerTyped
<1>c. Holds(icall[r].op, icall[r].caller, icall[r].body, ireply[r])
  BY DEF IssuerSays
<1>0. ASSUME ireply'[r] = ireply[r] \/ ~Success(ireply'[r])
      PROVE  Holds(icall[r].op, icall[r].caller, icall[r].body, ireply[r])'
  <2>1. CASE ireply'[r] = ireply[r]
    BY <1>a, <1>c, <2>1, GrowKeeps
  <2>2. CASE ~Success(ireply'[r])
    BY <2>2 DEF Holds
  <2> QED
    BY <1>0, <2>1, <2>2
<1>1. ASSUME NEW out,
             \/ Issuer!ReadIssuer(r, out) \/ Issuer!Reserve(r, out) \/ Issuer!Allocate(r, out)
             \/ Issuer!Load(r, out) \/ Issuer!Complete(r, out) \/ Issuer!Release(r, out)
             \/ Issuer!Audit(r, out)
      PROVE  ireply'[r] = ireply[r] \/ ~Success(ireply'[r])
  BY <1>1, <1>b, IssuerRefusals DEF Issuer!ReadIssuer, Issuer!Reserve, Issuer!Allocate,
     Issuer!Load, Issuer!Complete, Issuer!Release, Issuer!Audit
<1>2. ASSUME NEW out, Issuer!Lookup(r, out)
      PROVE  Holds(icall[r].op, icall[r].caller, icall[r].body, ireply[r])'
  <2>1. Holds(icall[r].op, icall[r].caller, icall[r].body, ireply'[r])
    BY <1>2, IssuerReplays DEF IssuerInv
  <2>2. UNCHANGED credentials
    BY <1>2 DEF Issuer!Lookup, Issuer!dbVars
  <2> QED
    BY <1>a, <2>1, <2>2 DEF Holds, Stored, Ended
<1>3. ASSUME NEW out, Issuer!Create(r, out), Success(ireply'[r]), ireply'[r] # ireply[r]
      PROVE  Holds(icall[r].op, icall[r].caller, icall[r].body, ireply[r])'
  <2>1. /\ icall[r].op = "issue"
        /\ Issuer!Acked(out) /\ icred[r] \notin DOMAIN credentials
        /\ ireply'[r] = Issuer!Reply(201, "none", icred[r], "active")
    BY <1>3, <1>a, <1>b, IssuerRefusals DEF Issuer!Create, IssuerFlow
  <2>2. credentials' = [k \in DOMAIN credentials \cup {icred[r]} |->
                IF k = icred[r] THEN Issuer!CredentialRow(Issuer!Org(icall[r]), icall[r].body)
                                ELSE credentials[k]]
    BY <1>3, <2>1 DEF Issuer!Create, Issuer!CreateCredentialRecord, Issuer!InsertRow,
       Issuer!Acked, Issuer!Reaches
  <2>3. /\ icred[r] \in DOMAIN credentials'
        /\ credentials'[icred[r]].issuer = OrgOf[icall[r].caller]
        /\ credentials'[icred[r]].body = icall[r].body
    BY <2>2 DEF Issuer!CredentialRow, Issuer!Org
  <2>4. ireply'[r].resource = icred[r]
    BY <2>1 DEF Issuer!Reply
  <2> QED
    BY <1>a, <2>1, <2>3, <2>4 DEF Holds, Stored
<1>4. ASSUME NEW out, Issuer!Update(r, out), Success(ireply'[r]), ireply'[r] # ireply[r]
      PROVE  Holds(icall[r].op, icall[r].caller, icall[r].body, ireply[r])'
  <2>1. /\ icall[r].op = "status" /\ icall[r].status \in Final
        /\ icred[r] \in DOMAIN credentials
        /\ Issuer!Acked(out)
        /\ ireply'[r] = Issuer!Reply(200, "none", icred[r], icall[r].status)
    BY <1>4, <1>a, <1>b, IssuerRefusals DEF Issuer!Update, IssuerFlow, IssuerWrites
  <2>2. credentials' = [credentials EXCEPT ![icred[r]].status = icall[r].status,
                                           ![icred[r]].by = icall[r].by]
    BY <1>4, <2>1 DEF Issuer!Update, Issuer!UpdateCredentialStatus, Issuer!Acked, Issuer!Reaches
  <2>3. icred[r] \in DOMAIN credentials' /\ credentials'[icred[r]].status = icall[r].status
    BY <1>a, <2>1, <2>2 DEF IssuerTyped, Issuer!CredentialRows
  <2> QED
    BY <1>a, <2>1, <2>3 DEF Holds, Ended, Issuer!Reply
<1>5. ASSUME NEW out, Issuer!ReadCredential(r, out), Success(ireply'[r]), ireply'[r] # ireply[r]
      PROVE  Holds(icall[r].op, icall[r].caller, icall[r].body, ireply[r])'
  <2>1. /\ icall[r].op = "read" /\ UNCHANGED credentials
        /\ icall[r].target \in DOMAIN credentials
        /\ ireply'[r].resource = icall[r].target
    BY <1>5, <1>a, <1>b, IssuerRefusals DEF Issuer!ReadCredential, IssuerFlow, Issuer!dbVars,
       Issuer!Reply
  <2> QED
    BY <1>a, <2>1 DEF Holds
<1> QED
  BY <1>0, <1>1, <1>2, <1>3, <1>4, <1>5 DEF Issuer!Step

LEMMA NextIssuerSays ==
    ASSUME IssuerInv, IssuerReserved, RowsHold, CredentialsGrow, IssuerSays, [Next]_vars
    PROVE  IssuerSays'
<1>a. IssuerTyped /\ \A r \in IssuerRequests : IssuerFlow(r)
  BY DEF IssuerInv
<1>0. ASSUME NEW q \in IssuerRequests, icall'[q] = icall[q], ireply'[q] = ireply[q]
      PROVE  Holds(icall[q].op, icall[q].caller, icall[q].body, ireply[q])'
  BY <1>0, GrowKeeps DEF IssuerSays
<1>1. ASSUME NEW r \in IssuerRequests, NEW c \in IssuerCalls,
             Issuer!Refuse(r, c) \/ Issuer!Arrive(r, c)
      PROVE  IssuerSays'
  <2>1. ~Success(ireply'[r])
    BY <1>1, <1>a, IssuerRefusals DEF IssuerTyped, IssuerFlow, Issuer!Refuse, Issuer!Arrive
  <2>2. \A q \in IssuerRequests \ {r} : icall'[q] = icall[q] /\ ireply'[q] = ireply[q]
    BY <1>1, <1>a DEF IssuerTyped, Issuer!Refuse, Issuer!Arrive
  <2>3. Holds(icall[r].op, icall[r].caller, icall[r].body, ireply[r])'
    BY <2>1 DEF Holds
  <2> QED
    BY <1>0, <2>2, <2>3 DEF IssuerSays
<1>2. ASSUME NEW r \in IssuerRequests, Issuer!Step(r)
      PROVE  IssuerSays'
  <2>1. \A q \in IssuerRequests \ {r} : icall'[q] = icall[q] /\ ireply'[q] = ireply[q]
    BY <1>2, <1>a, IssuerStepFrame
  <2> QED
    BY <1>0, <1>2, <2>1, IssuerStepSays DEF IssuerSays
<1>3. CASE UNCHANGED <<icall, ireply>>
  BY <1>0, <1>3 DEF IssuerSays
<1> QED
  BY <1>1, <1>2, <1>3 DEF Next, IssuerActs, VerifierActs, BootstrapWrites, vars, issuerVars,
     Issuer!Next, Issuer!Expire, Issuer!Crash, Issuer!TrustRegistryWrites, Issuer!requestVars

\* What the issuer service has answered is true.
LEMMA AnswersTrue ==
    ASSUME CredentialsKept, IssuerSays
    PROVE  /\ \A id \in Answers.ended : Ended(id)
           /\ \A text \in Answers.handedOut : HandedOut(text)
<1>1. ASSUME NEW r \in Told({"status"}) PROVE Ended(ireply[r].resource)
  BY DEF Told, IssuerSays, Holds
<1>2. ASSUME NEW r \in Told({"issue", "read"}) PROVE HandedOut(ArtifactTold(r))
  BY DEF Told, IssuerSays, Holds, Stored, HandedOut, ArtifactTold, ArtifactOf
<1>3. ASSUME NEW id \in DOMAIN Preissued PROVE HandedOut(HandedOutBefore[id])
  BY DEF CredentialsKept, Stored, HandedOut, HandedOutBefore, ArtifactOf
<1> QED
  BY <1>1, <1>2, <1>3 DEF Answers

LEMMA NextAnswersHold ==
    ASSUME CredentialsKept, IssuerSays, AnswersHold, CredentialsGrow, [Next]_vars
    PROVE  AnswersHold'
<1>1. ASSUME NEW r \in VerifierRequests
      PROVE  before'[r] = before[r] \/ before'[r] = Answers
  BY DEF Next, vars, IssuerActs, VerifierActs, BootstrapWrites, verifierVars
<1>2. ASSUME NEW r \in VerifierRequests
      PROVE  /\ \A id \in before'[r].ended : Ended(id)
             /\ \A text \in before'[r].handedOut : HandedOut(text)
  BY <1>1, AnswersTrue DEF AnswersHold
<1> QED
  BY <1>2, GrowKeeps DEF AnswersHold

-----------------------------------------------------------------------------
(* An allow on a credential that has ended is the replay of an earlier one *)

\* A request whose evaluation has begun stays what it is.
LEMMA VerifierBegun ==
    ASSUME VerifierInv, NEW r \in VerifierRequests, Verifier!Step(r), Begun(r)
    PROVE  Begun(r)' /\ vvid'[r] = vvid[r]
<1> USE DEF Begun, Verifier!Goto, Verifier!Fail
<1>a. VerifierTyped /\ VerifierFlow(r) /\ vpc[r] \notin {"idle", "reserve", "lookup", "allocate", "read"}
  BY DEF VerifierInv
<1>b. DOMAIN vpc = VerifierRequests
  BY <1>a DEF VerifierTyped
<1>1. PICK out : \/ Verifier!Submit(r, out) \/ Verifier!ResolveByDigest(r, out)
                 \/ Verifier!ResolveById(r, out) \/ Verifier!ReadTrust(r, out)
                 \/ Verifier!StoreResult(r, out) \/ Verifier!ReadResult(r, out)
                 \/ Verifier!Complete(r, out) \/ Verifier!Release(r, out)
                 \/ Verifier!Audit(r, out)
  BY <1>a DEF Verifier!Step, Verifier!Reserve, Verifier!Lookup, Verifier!Allocate,
     Verifier!ReadSubmission
<1>2. CASE Verifier!Submit(r, out) \/ Verifier!StoreResult(r, out) \/ Verifier!ReadResult(r, out)
  BY <1>b, <1>2 DEF Verifier!Submit, Verifier!StoreResult, Verifier!ReadResult,
     Verifier!CompleteStep
<1>3. CASE \/ Verifier!ResolveByDigest(r, out) \/ Verifier!ResolveById(r, out)
           \/ Verifier!ReadTrust(r, out)
  <2>1. /\ vvid' = vvid
        /\ \E step \in {"trust", "result", "byid", "audit_failed"} :
                vpc' = [vpc EXCEPT ![r] = step]
    BY <1>3 DEF Verifier!ResolveByDigest, Verifier!ResolveById, Verifier!Resolved,
       Verifier!Decide, Verifier!ReadTrust
  <2> QED
    BY <1>b, <2>1
<1>4. CASE Verifier!Complete(r, out) \/ Verifier!Release(r, out) \/ Verifier!Audit(r, out)
  BY <1>b, <1>4 DEF Verifier!Complete, Verifier!Release, Verifier!Audit
<1> QED
  BY <1>1, <1>2, <1>3, <1>4

\* So a witness stays one.
LEMMA NextWitnessed ==
    ASSUME VerifierInv, [Next]_vars
    PROVE  \A id, cid : Witnessed(id, cid) => Witnessed(id, cid)'
<1>a. VerifierTyped
  BY DEF VerifierInv
<1> SUFFICES ASSUME NEW id, NEW cid, NEW q \in VerifierRequests, Witness(q, id, cid)
             PROVE  Witness(q, id, cid)'
  BY DEF Witnessed
<1>1. CASE IssuerActs \/ BootstrapWrites \/ UNCHANGED vars
  BY <1>1 DEF IssuerActs, BootstrapWrites, vars, verifierVars, Witness, Begun
<1>2. CASE VerifierActs
  <2>1. before'[q] = before[q]
    BY <1>2 DEF VerifierActs, Witness, Begun
  <2>2. Begun(q)' /\ vvid'[q] = vvid[q]
    <3>1. ASSUME NEW r \in VerifierRequests, NEW c \in VerifierCalls,
                 Verifier!Refuse(r, c) \/ Verifier!Arrive(r, c)
          PROVE  vpc'[q] = vpc[q] /\ vvid'[q] = vvid[q]
      BY <1>a, <3>1 DEF VerifierTyped, Witness, Begun, Verifier!Refuse, Verifier!Arrive,
         Verifier!Goto
    <3>2. ASSUME NEW r \in VerifierRequests, Verifier!Step(r), r # q
          PROVE  vpc'[q] = vpc[q] /\ vvid'[q] = vvid[q]
      BY <3>2, VerifierStep
    <3>3. CASE Verifier!Step(q)
      BY <3>3, VerifierBegun DEF Witness
    <3>4. CASE (\E r \in VerifierRequests : Verifier!Expire(r)) \/ Verifier!World
      BY <3>4 DEF Verifier!Expire, Verifier!World, Verifier!IssuerIssues,
         Verifier!IssuerChangesStatus, Verifier!TrustRegistryWrites, Verifier!Tick,
         Verifier!requestVars, Witness, Begun
    <3>5. CASE Verifier!Crash
      BY <3>5, <1>a DEF Verifier!Crash, VerifierTyped, Witness, Begun
    <3> QED
      BY <1>2, <3>1, <3>2, <3>3, <3>4, <3>5 DEF VerifierActs, Verifier!Next, Witness, Begun
  <2> QED
    BY <2>1, <2>2 DEF Witness
<1> QED
  BY <1>1, <1>2 DEF Next

\* Only an active credential is allowed, and the trust state says nothing of
\* the artifact.
LEMMA TrustVerdicts ==
    ASSUME NEW c, NEW row, NEW state, NEW minute, row.status \in {"active"} \cup Final
    PROVE  /\ Verifier!VerdictAfterTrust(c, row, state, minute) # "artifact_continuity_failed"
           /\ Verifier!VerdictAfterTrust(c, row, state, minute) = "allow" =>
                    row.status = "active"
<1>1. Verifier!StatusForEvaluation(row, minute) \in {row.status, "expired"}
  BY DEF Verifier!StatusForEvaluation
<1>2. \A status \in Final \cup {"expired"} :
            /\ Verifier!StatusDenial[status] # "artifact_continuity_failed"
            /\ Verifier!StatusDenial[status] # "allow"
  BY DEF Verifier!StatusDenial, Final
<1>3. Verifier!StatusForEvaluation(row, minute) = "active" => row.status = "active"
  BY DEF Verifier!StatusForEvaluation
<1> QED
  BY <1>1, <1>2, <1>3 DEF Verifier!VerdictAfterTrust

\* What the resolution of a credential finds.
LEMMA Resolution ==
    ASSUME VerifierInv, CredentialsKept, NEW r \in VerifierRequests, NEW out,
           Verifier!ResolveByDigest(r, out) \/ Verifier!ResolveById(r, out)
    PROVE  /\ UNCHANGED <<vcall, vopen, vvid>>
           /\ vcall[r].op = "create"
           /\ \/ /\ vpc'[r] = "trust" /\ vreply' = vreply
                 /\ vcall[r].artifact.text.id \in DOMAIN credentials
                 /\ vfound'[r].status = credentials[vcall[r].artifact.text.id].status
              \/ /\ vpc'[r] = "result"
                 /\ vreply'[r].error = "none"
                 /\ vreply'[r].status \in {"credential_id_mismatch", "artifact_continuity_failed"}
              \/ vpc'[r] = "byid" /\ vreply' = vreply
              \/ /\ vpc'[r] = "audit_failed"
                 /\ vreply'[r].status = "none"
<1> USE DEF Verifier!Goto
<1>a. /\ VerifierTyped /\ VerifierFlow(r) /\ vpc[r] \in {"digest", "byid"}
      /\ UNCHANGED <<vcall, vopen, vvid>>
  BY DEF VerifierInv, Verifier!ResolveByDigest, Verifier!ResolveById
<1>b. vcall[r] \in VerifierCalls /\ vcall[r].op = "create"
  BY <1>a DEF VerifierFlow, Writing
<1>c. vcall[r].artifact.text \in Artifacts
  BY <1>b, ArtifactsAssumption
<1> DEFINE text == vcall[r].artifact.text
           envelope == [t \in Artifacts |-> t][text]
<1>d. envelope = text
  BY <1>c
<1>e. DOMAIN vpc = VerifierRequests /\ DOMAIN vreply = VerifierRequests
      /\ DOMAIN vfound = VerifierRequests
  BY <1>a DEF VerifierTyped
<1>1. ASSUME NEW id \in DOMAIN credentials, NEW byDigest,
             Verifier!Resolved(r, SeenByVerifier[id], byDigest)
      PROVE  \/ /\ vpc'[r] = "trust" /\ vreply' = vreply
                /\ text.id \in DOMAIN credentials
                /\ vfound'[r].status = credentials[text.id].status
             \/ /\ vpc'[r] = "result"
                /\ vreply'[r].error = "none"
                /\ vreply'[r].status \in {"credential_id_mismatch", "artifact_continuity_failed"}
  <2> DEFINE verdict == Verifier!VerdictBeforeTrust(vcall[r], envelope, SeenByVerifier[id],
                                                    byDigest)
  <2>1. /\ vfound' = [vfound EXCEPT ![r] = SeenByVerifier[id]]
        /\ \/ verdict = "pending" /\ vpc' = [vpc EXCEPT ![r] = "trust"] /\ vreply' = vreply
           \/ verdict # "pending" /\ Verifier!Decide(r, verdict)
    BY <1>1 DEF Verifier!Resolved
  <2>2. verdict \in {"credential_id_mismatch", "artifact_continuity_failed", "pending"}
    BY DEF Verifier!VerdictBeforeTrust
  <2>3. SeenByVerifier[id].id = id /\ SeenByVerifier[id].status = credentials[id].status
    BY DEF SeenByVerifier
  <2>4. verdict = "pending" => envelope.id = SeenByVerifier[id].id
    BY DEF Verifier!VerdictBeforeTrust, Verifier!Continuous
  <2> HIDE DEF verdict, envelope
  <2>5. CASE verdict = "pending" /\ vpc' = [vpc EXCEPT ![r] = "trust"] /\ vreply' = vreply
    BY <1>d, <1>e, <2>1, <2>3, <2>4, <2>5
  <2>6. CASE verdict # "pending" /\ Verifier!Decide(r, verdict)
    BY <1>e, <2>2, <2>6 DEF Verifier!Decide, Verifier!Reply
  <2> QED
    BY <2>1, <2>5, <2>6
<1>2. CASE Verifier!ResolveByDigest(r, out)
  <2>1. \/ \E id \in DOMAIN credentials : Verifier!Resolved(r, SeenByVerifier[id], TRUE)
        \/ vpc' = [vpc EXCEPT ![r] = "byid"] /\ vreply' = vreply
    BY <1>2 DEF Verifier!ResolveByDigest, SeenByVerifier
  <2> QED
    BY <1>a, <1>b, <1>e, <1>1, <2>1
<1>3. CASE Verifier!ResolveById(r, out)
  <2> DEFINE answer == Verifier!Reply(404, "credential_not_found", vvid[r], "none")
  <2>0. answer.status = "none"
    BY DEF Verifier!Reply
  <2>1. \/ \E id \in DOMAIN credentials : Verifier!Resolved(r, SeenByVerifier[id], FALSE)
        \/ /\ vpc' = [vpc EXCEPT ![r] = "audit_failed"]
           /\ vreply' = [vreply EXCEPT ![r] = answer]
    BY <1>3 DEF Verifier!ResolveById, SeenByVerifier
  <2> HIDE DEF answer
  <2> QED
    BY <1>a, <1>b, <1>e, <1>1, <2>0, <2>1
<1> QED
  BY <1>2, <1>3

\* An allow that is replayed has its witness in the row.
LEMMA VerifierReplays ==
    ASSUME VerifierInv, RowsHold, NEW r \in VerifierRequests, NEW out, Verifier!Lookup(r, out),
           vreply'[r].status = "allow"
    PROVE  Witnessed(vreply'[r].resource, vcall[r].artifact.text.id)
<1> DEFINE slot == Verifier!SlotOf(vcall[r])
           row == idempotency[slot]
           outcome == Verifier!ReservationOutcome(row, Verifier!Fingerprint(vcall[r]))
<1>a. DOMAIN vreply = VerifierRequests /\ VerifierFlow(r) /\ vpc[r] = "lookup"
  BY DEF VerifierInv, VerifierTyped, Verifier!Lookup
<1>1. outcome \in {"conflict", "replay", "in_progress"}
  BY OutcomeNames
<1>2. outcome # "replay" => Verifier!OccupiedReply(outcome, row).status = "none"
  BY <1>1 DEF Verifier!OccupiedReply, Verifier!Reply
<1>3. outcome = "replay" => /\ Verifier!OccupiedReply(outcome, row) = row.reply
                            /\ row.fingerprint = Verifier!Fingerprint(vcall[r])
  BY DEF Verifier!OccupiedReply, Verifier!ReservationOutcome
<1>4. \/ vreply'[r] = Verifier!PersistenceError
      \/ /\ slot \in DOMAIN idempotency
         /\ vreply'[r] = Verifier!OccupiedReply(outcome, row)
  BY <1>a DEF Verifier!Lookup, Verifier!Fail
<1>5. slot[1] = "create" /\ Verifier!Fingerprint(vcall[r])[3] = vcall[r].artifact.text
  BY <1>a DEF Verifier!SlotOf, Verifier!Fingerprint, VerifierFlow, Writing
<1>6. slot \in DOMAIN idempotency /\ row.reply.status = "allow" =>
            Witnessed(row.reply.resource, row.fingerprint[3].id)
  BY <1>5 DEF RowsHold, RowHolds
<1>7. Verifier!PersistenceError.status = "none"
  BY DEF Verifier!PersistenceError, Verifier!Refusal, Verifier!Reply
<1> HIDE DEF slot, row, outcome
<1> QED
  BY <1>2, <1>3, <1>4, <1>5, <1>6, <1>7

LEMMA VerifierStepAllows ==
    ASSUME VerifierInv, CredentialsKept, AnswersHold, RowsHold, NEW r \in VerifierRequests,
           Allows(r), Verifier!Step(r), before'[r] = before[r],
           \A id, cid : Witnessed(id, cid) => Witnessed(id, cid)'
    PROVE  Allows(r)'
<1> USE DEF Verifier!Goto, Verifier!Fail
<1>a. /\ VerifierTyped /\ VerifierFlow(r) /\ vcall' = vcall
      /\ vpc[r] \notin {"idle", "done", "lost"}
  BY VerifierStep DEF VerifierInv, Closed
<1>b. /\ DOMAIN vpc = VerifierRequests /\ DOMAIN vreply = VerifierRequests
      /\ DOMAIN vvid = VerifierRequests /\ DOMAIN vfound = VerifierRequests
  BY <1>a DEF VerifierTyped
<1>c. /\ Verifier!PersistenceError.status = "none"
      /\ Verifier!VerificationNotFound.status = "none"
      /\ \A code, error : Verifier!Refusal(code, error).status = "none"
  BY DEF Verifier!PersistenceError, Verifier!VerificationNotFound, Verifier!Refusal,
     Verifier!Reply
<1>d. vreply'[r] = vreply[r] /\ vreply[r].status = "allow" /\ vcall[r].op = "create" =>
            Witnessed(vreply[r].resource, vcall[r].artifact.text.id)'
  BY <1>a DEF Allows
<1>1. ASSUME NEW out, Verifier!Reserve(r, out)
      PROVE  Allows(r)'
  <2>1. /\ UNCHANGED vvid
        /\ \/ vpc'[r] \in {"allocate", "lookup"} /\ vreply' = vreply
           \/ vpc'[r] \in {"release", "done"} /\ vreply'[r] = Verifier!PersistenceError
    BY <1>1, <1>b DEF Verifier!Reserve
  <2>2. vreply[r] = NoReply /\ vvid[r] = NoResource
    BY <1>1 DEF Allows, Verifier!Reserve
  <2> QED
    BY <1>a, <1>c, <1>d, <2>1, <2>2 DEF Allows
<1>2. ASSUME NEW out, Verifier!Lookup(r, out)
      PROVE  Allows(r)'
  <2> DEFINE outcome == Verifier!ReservationOutcome(idempotency[Verifier!SlotOf(vcall[r])],
                                                    Verifier!Fingerprint(vcall[r]))
  <2>1. outcome \in {"conflict", "replay", "in_progress"}
    BY OutcomeNames
  <2>2. /\ UNCHANGED vvid
        /\ \/ vpc' = [vpc EXCEPT ![r] = IF vopen[r] THEN "release" ELSE "done"]
           \/ vpc' = [vpc EXCEPT ![r] = outcome]
    BY <1>2 DEF Verifier!Lookup
  <2>3. vvid[r] = NoResource
    BY <1>2 DEF Allows, Verifier!Lookup
  <2> HIDE DEF outcome
  <2>4. vpc'[r] \in {"release", "done", "conflict", "replay", "in_progress"}
    BY <1>b, <2>1, <2>2
  <2>5. vreply'[r].status = "allow" =>
            Witnessed(vreply[r].resource, vcall[r].artifact.text.id)'
    BY <1>2, <1>a, VerifierReplays
  <2> QED
    BY <1>a, <2>2, <2>3, <2>4, <2>5 DEF Allows
<1>3. ASSUME NEW out, Verifier!Allocate(r, out) \/ Verifier!Submit(r, out)
                      \/ Verifier!StoreResult(r, out) \/ Verifier!Complete(r, out)
                      \/ Verifier!Release(r, out)
      PROVE  Allows(r)'
  <2>1. /\ vpc'[r] \in {"submit", "digest", "complete", "audit", "release", "done"}
        /\ vreply'[r] = vreply[r] \/ vreply'[r].status = "none"
    BY <1>3, <1>b, <1>c DEF Verifier!Allocate, Verifier!Submit, Verifier!StoreResult,
       Verifier!Complete, Verifier!Release, Verifier!CompleteStep
  <2> QED
    BY <1>a, <1>d, <2>1 DEF Allows
<1>4. ASSUME NEW out, Verifier!ResolveByDigest(r, out) \/ Verifier!ResolveById(r, out)
      PROVE  Allows(r)'
  <2>1. \/ /\ vpc'[r] = "trust" /\ vreply' = vreply
           /\ vcall[r].artifact.text.id \in DOMAIN credentials
           /\ vfound'[r].status = credentials[vcall[r].artifact.text.id].status
        \/ vpc'[r] = "result" /\ vreply'[r].status # "allow"
        \/ vpc'[r] = "byid" /\ vreply' = vreply
        \/ vpc'[r] = "audit_failed" /\ vreply'[r].status # "allow"
    BY <1>4, Resolution
  <2>2. CASE /\ vpc'[r] = "trust" /\ vreply' = vreply
             /\ vcall[r].artifact.text.id \in DOMAIN credentials
             /\ vfound'[r].status = credentials[vcall[r].artifact.text.id].status
    <3>1. vfound'[r].status \in {"active"} \cup Final
      BY <2>2 DEF CredentialsKept
    <3>2. vcall[r].artifact.text.id \in before[r].ended => vfound'[r].status \in Final
      BY <2>2 DEF AnswersHold, Ended
    <3> QED
      BY <1>a, <1>d, <2>2, <3>1, <3>2 DEF Allows, Final
  <2> QED
    BY <1>a, <1>d, <2>1, <2>2 DEF Allows
<1>5. ASSUME NEW out, Verifier!ReadTrust(r, out)
      PROVE  Allows(r)'
  <2>1. /\ vpc[r] = "trust" /\ vpc'[r] = "result" /\ UNCHANGED vvid
        /\ \E state :
            vreply'[r] = Verifier!Reply(201, "none", vvid[r],
                Verifier!VerdictAfterTrust(vcall[r], vfound[r], state,
                                           Verifier!EvaluatedAt(vvid[r])))
    BY <1>5, <1>b DEF Verifier!ReadTrust, Verifier!Decide
  <2>2. vreply'[r].resource = vvid[r]
    BY <2>1 DEF Verifier!Reply
  <2>3. vreply'[r].status = "allow" => vfound[r].status = "active"
    BY <2>1, TrustVerdicts DEF Verifier!Reply, Allows
  <2>4. vreply'[r].status = "allow" => Witness(r, vreply'[r].resource, vcall[r].artifact.text.id)
    BY <2>1, <2>2, <2>3 DEF Witness, Begun, Allows
  <2>5. vreply'[r].status = "allow" => Witnessed(vreply'[r].resource, vcall[r].artifact.text.id)
    BY <2>4 DEF Witnessed
  <2>6. vreply'[r].status = "allow" => Witnessed(vreply[r].resource, vcall[r].artifact.text.id)'
    BY <1>a, <2>5
  <2> QED
    BY <1>a, <2>1, <2>6 DEF Allows
<1>6. ASSUME NEW out, Verifier!ReadSubmission(r, out) \/ Verifier!ReadResult(r, out)
      PROVE  Allows(r)'
  <2>1. vcall[r].op = "read" /\ vpc'[r] \in {"readresult", "audit", "release", "done"}
    BY <1>6, <1>a, <1>b DEF Verifier!ReadSubmission, Verifier!ReadResult, VerifierFlow
  <2> QED
    BY <1>a, <2>1 DEF Allows
<1>7. ASSUME NEW out, Verifier!Audit(r, out)
      PROVE  Allows(r)'
  <2>1. vpc'[r] \in {"complete", "done"} /\ vreply' = vreply
    BY <1>7, <1>b DEF Verifier!Audit
  <2> QED
    BY <1>a, <1>d, <2>1 DEF Allows
<1> QED
  BY <1>1, <1>2, <1>3, <1>4, <1>5, <1>6, <1>7 DEF Verifier!Step

LEMMA NextAllows ==
    ASSUME VerifierInv, CredentialsKept, AnswersHold, RowsHold,
           \A r \in VerifierRequests : Allows(r), [Next]_vars
    PROVE  \A r \in VerifierRequests : Allows(r)'
<1>a. VerifierTyped /\ \A r \in VerifierRequests : VerifierFlow(r)
  BY DEF VerifierInv
<1>b. \A id, cid : Witnessed(id, cid) => Witnessed(id, cid)'
  BY NextWitnessed
<1>1. CASE IssuerActs \/ BootstrapWrites \/ UNCHANGED vars
  BY <1>1, <1>b DEF IssuerActs, BootstrapWrites, vars, verifierVars, Allows
<1>2. CASE VerifierActs
  <2>0. ASSUME NEW q \in VerifierRequests, vpc[q] # "idle", vpc'[q] = vpc[q] \/ vpc'[q] = "lost",
               UNCHANGED <<vcall[q], vfound[q], vreply[q], vvid[q]>>
        PROVE  Allows(q)'
    <3>1. before'[q] = before[q]
      BY <1>2, <2>0 DEF VerifierActs
    <3> QED
      BY <1>b, <2>0, <3>1 DEF Allows
  <2>1. ASSUME NEW q \in VerifierRequests, vpc[q] = "idle", vpc'[q] = "idle",
               UNCHANGED <<vreply[q], vvid[q]>>
        PROVE  Allows(q)'
    BY <2>1, OneStore DEF Allows, Verifier!NoReply, Verifier!Reply
  <2>2. ASSUME NEW r \in VerifierRequests, NEW c \in VerifierCalls,
               Verifier!Refuse(r, c) \/ Verifier!Arrive(r, c)
        PROVE  \A q \in VerifierRequests : Allows(q)'
    <3>1. /\ vpc[r] = "idle" /\ UNCHANGED <<vfound, vvid>>
          /\ \A q \in VerifierRequests \ {r} : UNCHANGED <<vpc[q], vcall[q], vreply[q]>>
          /\ \/ vpc'[r] = "done" /\ vreply'[r] = Verifier!FrontDoor(c)
             \/ vpc'[r] \in {"read", "reserve", "allocate"} /\ vreply' = vreply
      BY <1>a, <2>2 DEF VerifierTyped, Verifier!Refuse, Verifier!Arrive, Verifier!Goto,
         Verifier!FirstStep
    <3>2. Verifier!FrontDoor(c).status = "none" /\ NoReply.status = "none"
      BY OneStore DEF Verifier!FrontDoor, Verifier!NoReply, Verifier!Refusal, Verifier!Reply
    <3>3. Allows(r)'
      BY <3>1, <3>2 DEF Allows
    <3> QED
      BY <2>0, <2>1, <3>1, <3>3
  <2>3. ASSUME NEW r \in VerifierRequests, Verifier!Step(r)
        PROVE  \A q \in VerifierRequests : Allows(q)'
    <3>1. /\ vcall' = vcall /\ vpc[r] # "idle"
          /\ \A q \in VerifierRequests \ {r} :
                UNCHANGED <<vpc[q], vcall[q], vfound[q], vreply[q], vvid[q]>>
      BY <2>3, VerifierStep DEF Closed
    <3>2. before'[r] = before[r]
      BY <1>2, <3>1 DEF VerifierActs
    <3>3. Allows(r)'
      BY <1>b, <2>3, <3>2, VerifierStepAllows
    <3> QED
      BY <2>0, <2>1, <3>1, <3>3
  <2>4. ASSUME (\E r \in VerifierRequests : Verifier!Expire(r)) \/ Verifier!World
        PROVE  \A q \in VerifierRequests : Allows(q)'
    <3>1. UNCHANGED <<vpc, vcall, vfound, vreply, vvid>>
      BY <2>4 DEF Verifier!Expire, Verifier!World, Verifier!IssuerIssues,
         Verifier!IssuerChangesStatus, Verifier!TrustRegistryWrites, Verifier!Tick,
         Verifier!requestVars
    <3> QED
      BY <2>0, <2>1, <3>1
  <2>5. CASE Verifier!Crash
    <3>1. /\ UNCHANGED <<vcall, vfound, vreply, vvid>>
          /\ \A q \in VerifierRequests :
                vpc'[q] = vpc[q] \/ (vpc[q] # "idle" /\ vpc'[q] = "lost")
      BY <2>5 DEF Verifier!Crash, Verifier!InFlight, Verifier!Steps, Verifier!AuditSteps
    <3> QED
      BY <2>0, <2>1, <3>1
  <2> QED
    BY <1>2, <2>2, <2>3, <2>4, <2>5 DEF VerifierActs, Verifier!Next
<1> QED
  BY <1>1, <1>2 DEF Next

\* A row is rewritten by the request that holds it, with what it answers.
LEMMA NextRowsHold ==
    ASSUME HistoryInv, CredentialsGrow, [Next]_vars
    PROVE  RowsHold'
<1>a. /\ IssuerInv /\ VerifierInv /\ IssuerReserved /\ VerifierReserved /\ IssuerSays /\ RowsHold
      /\ \A r \in VerifierRequests : Allows(r)
  BY DEF HistoryInv
<1>b. \A id, cid : Witnessed(id, cid) => Witnessed(id, cid)'
  BY <1>a, NextWitnessed
<1>c. /\ VerifierActs => IssuerRowsAlone
      /\ IssuerActs => VerifierRowsAlone
  BY <1>a, NextReserved
<1> SUFFICES ASSUME NEW slot \in DOMAIN idempotency' PROVE RowHolds(slot)'
  BY DEF RowsHold
<1>1. ASSUME slot \in DOMAIN idempotency, idempotency'[slot] = idempotency[slot]
      PROVE  RowHolds(slot)'
  <2>1. RowHolds(slot)
    BY <1>a, <1>1 DEF RowsHold
  <2>2. slot[1] # "create" =>
            Holds(slot[1], slot[2], idempotency[slot].fingerprint[1], idempotency[slot].reply)'
    BY <1>1, <2>1, GrowKeeps DEF RowHolds
  <2>3. slot[1] = "create" /\ idempotency[slot].reply.status = "allow" =>
            Witnessed(idempotency[slot].reply.resource, idempotency[slot].fingerprint[3].id)'
    BY <1>1, <1>b, <2>1 DEF RowHolds
  <2> QED
    BY <1>1, <2>2, <2>3 DEF RowHolds
<1>2. ASSUME ~Success(idempotency'[slot].reply), idempotency'[slot].reply.status # "allow"
      PROVE  RowHolds(slot)'
  BY <1>2 DEF RowHolds, Holds
<1>3. ASSUME NEW r \in IssuerRequests, Issuer!Step(r), IssuerActs
      PROVE  RowHolds(slot)'
  <2> DEFINE s == Issuer!SlotOf(icall[r])
  <2>1. CASE slot \in DOMAIN idempotency /\ idempotency'[slot] = idempotency[slot]
    BY <1>1, <2>1
  <2>2. CASE /\ slot = s /\ ipc[r] = "reserve"
             /\ idempotency'[s] = Issuer!ReservedRow(Issuer!Fingerprint(icall[r]))
    BY <1>2, <2>2, IssuerRefusals DEF Issuer!ReservedRow, Issuer!NoReply, Issuer!Reply
  <2>3. CASE /\ slot = s /\ ipc[r] = "complete" /\ s \in DOMAIN idempotency
             /\ idempotency'[s].fingerprint = idempotency[s].fingerprint
             /\ idempotency'[s].reply = ireply[r]
    <3>1. /\ icall[r].op \in {"issue", "status"}
          /\ idempotency[s].fingerprint = Issuer!Fingerprint(icall[r])
      BY <1>a, <2>3 DEF IssuerReserved, IssuerWrites, IssuerHolds
    <3>2. /\ s[1] = icall[r].op /\ s[2] = icall[r].caller
          /\ icall[r].op = "issue" => idempotency[s].fingerprint[1] = icall[r].body
      BY <3>1 DEF Issuer!SlotOf, Issuer!Fingerprint
    <3> HIDE DEF s
    <3>3. Holds(s[1], s[2], idempotency'[s].fingerprint[1], idempotency'[s].reply)
      BY <1>a, <2>3, <3>1, <3>2 DEF IssuerSays, Holds
    <3>4. slot = s => Holds(slot[1], slot[2], idempotency[slot].fingerprint[1],
                            idempotency[slot].reply)'
      BY <3>3, GrowKeeps
    <3> QED
      BY <2>3, <3>1, <3>2, <3>4 DEF RowHolds
  <2>4. IssuerOwnRow(r)
    BY <1>3, <1>a, IssuerRow
  <2>5. CASE slot # s
    BY <1>1, <2>4, <2>5 DEF IssuerOwnRow
  <2>6. CASE slot = s
    <3>1. \/ idempotency' = idempotency
          \/ /\ ipc[r] = "reserve"
             /\ idempotency'[s] = Issuer!ReservedRow(Issuer!Fingerprint(icall[r]))
          \/ /\ ipc[r] = "complete" /\ s \in DOMAIN idempotency
             /\ idempotency'[s].fingerprint = idempotency[s].fingerprint
             /\ idempotency'[s] = idempotency[s] \/ idempotency'[s].reply = ireply[r]
          \/ s \in DOMAIN idempotency' => s \in DOMAIN idempotency /\ idempotency'[s] = idempotency[s]
      BY <1>3, <1>a, IssuerRow
    <3> HIDE DEF s
    <3> QED
      BY <2>1, <2>2, <2>3, <2>6, <3>1
  <2> QED
    BY <2>5, <2>6
<1>4. ASSUME NEW r \in VerifierRequests, Verifier!Step(r), VerifierActs
      PROVE  RowHolds(slot)'
  <2> DEFINE s == Verifier!SlotOf(vcall[r])
  <2>1. CASE slot \in DOMAIN idempotency /\ idempotency'[slot] = idempotency[slot]
    BY <1>1, <2>1
  <2>2. CASE /\ slot = s /\ vpc[r] = "reserve"
             /\ idempotency'[s] = Verifier!ReservedRow(Verifier!Fingerprint(vcall[r]))
    BY <1>2, <2>2, VerifierRefusals DEF Verifier!ReservedRow, Verifier!NoReply, Verifier!Reply
  <2>3. CASE /\ slot = s /\ vpc[r] = "complete" /\ s \in DOMAIN idempotency
             /\ idempotency'[s].fingerprint = idempotency[s].fingerprint
             /\ idempotency'[s].reply = vreply[r]
    <3>1. /\ vcall[r].op = "create"
          /\ idempotency[s].fingerprint = Verifier!Fingerprint(vcall[r])
      BY <1>a, <2>3 DEF VerifierReserved, VerifierWrites, VerifierHolds
    <3>2. s[1] = "create" /\ idempotency[s].fingerprint[3] = vcall[r].artifact.text
      BY <3>1 DEF Verifier!SlotOf, Verifier!Fingerprint
    <3> HIDE DEF s
    <3>3. idempotency'[s].reply.status = "allow" =>
                Witnessed(idempotency'[s].reply.resource, idempotency'[s].fingerprint[3].id)
      BY <1>a, <2>3, <3>1, <3>2 DEF Allows
    <3>4. slot = s /\ idempotency'[slot].reply.status = "allow" =>
                Witnessed(idempotency[slot].reply.resource,
                          idempotency[slot].fingerprint[3].id)'
      BY <3>3, <1>b
    <3> QED
      BY <2>3, <3>2, <3>4 DEF RowHolds
  <2>4. VerifierOwnRow(r)
    BY <1>4, <1>a, VerifierRow
  <2>5. CASE slot # s
    BY <1>1, <2>4, <2>5 DEF VerifierOwnRow
  <2>6. CASE slot = s
    <3>1. \/ idempotency' = idempotency
          \/ /\ vpc[r] = "reserve"
             /\ idempotency'[s] = Verifier!ReservedRow(Verifier!Fingerprint(vcall[r]))
          \/ /\ vpc[r] = "complete" /\ s \in DOMAIN idempotency
             /\ idempotency'[s].fingerprint = idempotency[s].fingerprint
             /\ idempotency'[s] = idempotency[s] \/ idempotency'[s].reply = vreply[r]
          \/ s \in DOMAIN idempotency' => s \in DOMAIN idempotency /\ idempotency'[s] = idempotency[s]
      BY <1>4, <1>a, VerifierRow
    <3> HIDE DEF s
    <3> QED
      BY <2>1, <2>2, <2>3, <2>6, <3>1
  <2> QED
    BY <2>5, <2>6
<1>5. CASE UNCHANGED idempotency
  BY <1>1, <1>5
<1> QED
  BY <1>3, <1>4, <1>5 DEF Next, vars, IssuerActs, VerifierActs, BootstrapWrites,
     Issuer!Next, Issuer!Refuse, Issuer!Arrive, Issuer!Expire, Issuer!Crash,
     Issuer!TrustRegistryWrites, Issuer!dbVars, Verifier!Next, Verifier!Refuse, Verifier!Arrive,
     Verifier!Expire, Verifier!Crash, Verifier!World, Verifier!IssuerIssues,
     Verifier!IssuerChangesStatus, Verifier!TrustRegistryWrites, Verifier!Tick,
     Verifier!verifierVars

\* What has been handed out is found by its digest, when the statement is
\* answered, and what is found so is what was handed out.
LEMMA HandedOutFound ==
    ASSUME VerifierInv, AnswersHold, NEW r \in VerifierRequests,
           Verifier!ResolveByDigest(r, "done"),
           vcall[r].artifact.text \in before[r].handedOut, ~vcall[r].artifact.padded
    PROVE  vpc'[r] # "byid" /\ vreply'[r].error \in {"none", vreply[r].error}
           /\ vreply'[r].status \in {"credential_id_mismatch", vreply[r].status}
<1> USE DEF Verifier!Goto
<1>a. /\ VerifierTyped /\ VerifierFlow(r) /\ vpc[r] = "digest"
  BY DEF VerifierInv, Verifier!ResolveByDigest
<1>b. vcall[r] \in VerifierCalls /\ vcall[r].op = "create"
  BY <1>a DEF VerifierFlow, Writing
<1> DEFINE text == vcall[r].artifact.text
           envelope == [t \in Artifacts |-> t][text]
<1>c. /\ text \in Artifacts /\ envelope = text
      /\ vcall[r].artifact = [text |-> text, padded |-> FALSE]
  BY <1>b, ArtifactsAssumption
<1>d. DOMAIN vpc = VerifierRequests /\ DOMAIN vreply = VerifierRequests
  BY <1>a DEF VerifierTyped
<1>1. PICK known \in DOMAIN credentials : text = ArtifactOf(known)
  BY DEF AnswersHold, HandedOut
<1>2. SeenByVerifier[known].digest = vcall[r].artifact
  BY <1>1, <1>c DEF SeenByVerifier
<1>3. PICK id \in DOMAIN credentials :
            /\ SeenByVerifier[id].digest = vcall[r].artifact
            /\ Verifier!Resolved(r, SeenByVerifier[id], TRUE)
  <2>1. DOMAIN SeenByVerifier = DOMAIN credentials
    BY DEF SeenByVerifier
  <2> QED
    BY <1>2, <2>1 DEF Verifier!ResolveByDigest, Verifier!Digest, Verifier!Acked
<1> DEFINE verdict == Verifier!VerdictBeforeTrust(vcall[r], envelope, SeenByVerifier[id], TRUE)
<1>4. text = ArtifactOf(id)
  BY <1>3, <1>c DEF SeenByVerifier
<1>5. verdict \in {"credential_id_mismatch", "pending"}
  <2>1. /\ text.id = SeenByVerifier[id].id
        /\ text.issuer = SeenByVerifier[id].issuer
        /\ text.template = SeenByVerifier[id].template
        /\ text.expires = SeenByVerifier[id].expires
    BY <1>4 DEF SeenByVerifier, ArtifactOf, Artifact
  <2> HIDE DEF text, envelope
  <2> QED
    BY <1>c, <2>1 DEF Verifier!VerdictBeforeTrust, Verifier!Continuous
<1>6. \/ verdict = "pending" /\ vpc' = [vpc EXCEPT ![r] = "trust"] /\ vreply' = vreply
      \/ /\ verdict # "pending" /\ vpc' = [vpc EXCEPT ![r] = "result"]
         /\ vreply' = [vreply EXCEPT ![r] = Verifier!Reply(201, "none", vvid[r], verdict)]
  BY <1>3 DEF Verifier!Resolved, Verifier!Decide
<1> HIDE DEF verdict
<1> QED
  BY <1>d, <1>5, <1>6 DEF Verifier!Reply

LEMMA VerifierStepKnown ==
    ASSUME HistoryInv, VerifierCalm, VerifierCalm', NEW r \in VerifierRequests, Verifier!Step(r),
           before'[r] = before[r]
    PROVE  Known(r)'
<1> USE DEF Verifier!Goto, Verifier!Fail
<1>a. /\ VerifierInv /\ VerifierTyped /\ VerifierFlow(r) /\ vcall' = vcall
      /\ AnswersHold /\ Spent /\ Known(r) /\ Allows(r)
      /\ vpc[r] \notin {"idle", "done", "lost"} /\ vpc'[r] # "idle"
  BY VerifierStep DEF HistoryInv, VerifierInv, Closed, Verifier!Steps, Verifier!AuditSteps
<1>b. /\ DOMAIN vpc = VerifierRequests /\ DOMAIN vreply = VerifierRequests
      /\ DOMAIN vvid = VerifierRequests
  BY <1>a DEF VerifierTyped
<1>c. \A answer \in {Verifier!PersistenceError, Verifier!Refusal(400, "invalid_request")} :
            answer.error # "credential_not_found" /\ answer.status # "artifact_continuity_failed"
  BY DEF Verifier!PersistenceError, Verifier!Refusal, Verifier!Reply
<1> SUFFICES ASSUME vcall[r].op = "create", vvid'[r] # NoResource,
                    vcall[r].artifact.text \in before[r].handedOut,
                    ~vcall[r].artifact.padded
             PROVE  /\ vpc'[r] # "byid"
                    /\ vreply'[r].error # "credential_not_found"
                    /\ vreply'[r].status # "artifact_continuity_failed"
  BY <1>a DEF Known
<1>d. vvid[r] # NoResource => /\ vpc[r] # "byid"
                              /\ vreply[r].error # "credential_not_found"
                              /\ vreply[r].status # "artifact_continuity_failed"
  BY <1>a DEF Known
<1>1. ASSUME NEW out, Verifier!Reserve(r, out) \/ Verifier!Lookup(r, out)
      PROVE  FALSE
  <2>1. vpc[r] \in {"reserve", "lookup"} /\ vvid' = vvid
    BY <1>1 DEF Verifier!Reserve, Verifier!Lookup
  <2> QED
    BY <1>a, <2>1 DEF Allows
<1>2. ASSUME NEW out, Verifier!Allocate(r, out)
      PROVE  /\ vpc'[r] # "byid"
             /\ vreply'[r].error # "credential_not_found"
             /\ vreply'[r].status # "artifact_continuity_failed"
  <2>1. vreply[r].error = "none" /\ vreply[r].status = "none"
    BY <1>2, <1>a, OneStore DEF Allows, Verifier!Allocate, Verifier!NoReply, Verifier!Reply
  <2>2. /\ vpc'[r] # "byid"
        /\ \/ vreply' = vreply
           \/ vreply'[r] \in {Verifier!PersistenceError, Verifier!Refusal(400, "invalid_request")}
    BY <1>2, <1>b DEF Verifier!Allocate
  <2> QED
    BY <1>c, <2>1, <2>2
<1>3. ASSUME NEW out, Verifier!Submit(r, out) \/ Verifier!StoreResult(r, out)
                      \/ Verifier!Complete(r, out) \/ Verifier!Release(r, out)
                      \/ Verifier!Audit(r, out)
      PROVE  /\ vpc'[r] # "byid"
             /\ vreply'[r].error # "credential_not_found"
             /\ vreply'[r].status # "artifact_continuity_failed"
  <2>1. /\ vvid' = vvid /\ vpc'[r] # "byid"
        /\ vreply' = vreply \/ vreply'[r] = Verifier!PersistenceError
    BY <1>3, <1>b DEF Verifier!Submit, Verifier!StoreResult, Verifier!Complete,
       Verifier!Release, Verifier!Audit, Verifier!CompleteStep
  <2> QED
    BY <1>c, <1>d, <2>1
<1>4. ASSUME NEW out, Verifier!ResolveByDigest(r, out)
      PROVE  /\ vpc'[r] # "byid"
             /\ vreply'[r].error # "credential_not_found"
             /\ vreply'[r].status # "artifact_continuity_failed"
  <2>1. Verifier!Statement(r, out) /\ vvid' = vvid
    BY <1>4 DEF Verifier!ResolveByDigest, Verifier!Query
  <2>2. out = "done"
    BY <1>a, <2>1, VerifierStatement DEF HistoryInv, VerifierCalm
  <2> QED
    BY <1>4, <1>a, <1>d, <2>1, <2>2, HandedOutFound
<1>5. ASSUME NEW out, Verifier!ResolveById(r, out)
      PROVE  FALSE
  <2>1. vpc[r] = "byid" /\ vvid' = vvid
    BY <1>5 DEF Verifier!ResolveById
  <2> QED
    BY <1>d, <2>1
<1>6. ASSUME NEW out, Verifier!ReadTrust(r, out)
      PROVE  /\ vpc'[r] # "byid"
             /\ vreply'[r].error # "credential_not_found"
             /\ vreply'[r].status # "artifact_continuity_failed"
  <2>1. /\ vpc[r] = "trust" /\ vpc'[r] = "result"
        /\ \E state :
            vreply'[r] = Verifier!Reply(201, "none", vvid[r],
                Verifier!VerdictAfterTrust(vcall[r], vfound[r], state,
                                           Verifier!EvaluatedAt(vvid[r])))
    BY <1>6, <1>b DEF Verifier!ReadTrust, Verifier!Decide
  <2>2. vfound[r].status \in {"active"} \cup Final
    BY <1>a, <2>1 DEF Allows
  <2> QED
    BY <2>1, <2>2, TrustVerdicts DEF Verifier!Reply
<1>7. ASSUME NEW out, Verifier!ReadSubmission(r, out) \/ Verifier!ReadResult(r, out)
      PROVE  FALSE
  BY <1>7, <1>a DEF Verifier!ReadSubmission, Verifier!ReadResult, VerifierFlow
<1> QED
  BY <1>1, <1>2, <1>3, <1>4, <1>5, <1>6, <1>7 DEF Verifier!Step

LEMMA NextKnown ==
    ASSUME HistoryInv, VerifierCalm, VerifierCalm', [Next]_vars
    PROVE  \A r \in VerifierRequests : Known(r)'
<1>a. /\ VerifierInv /\ VerifierTyped
      /\ \A r \in VerifierRequests : Allows(r) /\ Known(r)
  BY DEF HistoryInv, VerifierInv
<1>1. CASE IssuerActs \/ BootstrapWrites \/ UNCHANGED vars
  BY <1>1, <1>a DEF IssuerActs, BootstrapWrites, vars, verifierVars, Known
<1>2. CASE VerifierActs
  <2>0. ASSUME NEW q \in VerifierRequests, vpc'[q] \in {vpc[q], "lost"},
               UNCHANGED <<vcall[q], vreply[q], vvid[q]>>
        PROVE  Known(q)'
    <3>1. CASE vpc[q] = "idle"
      BY <1>a, <2>0, <3>1 DEF Known, Allows
    <3>2. CASE vpc[q] # "idle"
      <4>1. before'[q] = before[q]
        BY <1>2, <3>2 DEF VerifierActs
      <4> QED
        BY <1>a, <2>0, <3>2, <4>1 DEF Known
    <3> QED
      BY <3>1, <3>2
  <2>1. ASSUME NEW r \in VerifierRequests, NEW c \in VerifierCalls,
               Verifier!Refuse(r, c) \/ Verifier!Arrive(r, c)
        PROVE  \A q \in VerifierRequests : Known(q)'
    <3>1. /\ vpc[r] = "idle" /\ vvid' = vvid
          /\ \A q \in VerifierRequests \ {r} : UNCHANGED <<vpc[q], vcall[q], vreply[q]>>
      BY <1>a, <2>1 DEF VerifierTyped, Verifier!Refuse, Verifier!Arrive, Verifier!Goto
    <3>2. Known(r)'
      BY <1>a, <3>1 DEF Known, Allows
    <3> QED
      BY <2>0, <3>1, <3>2
  <2>2. ASSUME NEW r \in VerifierRequests, Verifier!Step(r)
        PROVE  \A q \in VerifierRequests : Known(q)'
    <3>1. /\ vcall' = vcall /\ vpc[r] # "idle"
          /\ \A q \in VerifierRequests \ {r} :
                UNCHANGED <<vpc[q], vcall[q], vreply[q], vvid[q]>>
      BY <1>a, <2>2, VerifierStep DEF Closed
    <3>2. before'[r] = before[r]
      BY <1>2, <3>1 DEF VerifierActs
    <3>3. Known(r)'
      BY <2>2, <3>2, VerifierStepKnown
    <3> QED
      BY <2>0, <3>1, <3>3
  <2>3. ASSUME (\E r \in VerifierRequests : Verifier!Expire(r)) \/ Verifier!World
        PROVE  \A q \in VerifierRequests : Known(q)'
    <3>1. UNCHANGED <<vpc, vcall, vreply, vvid>>
      BY <2>3 DEF Verifier!Expire, Verifier!World, Verifier!IssuerIssues,
         Verifier!IssuerChangesStatus, Verifier!TrustRegistryWrites, Verifier!Tick,
         Verifier!requestVars
    <3> QED
      BY <2>0, <3>1
  <2>4. CASE Verifier!Crash
    <3>1. /\ UNCHANGED <<vcall, vreply, vvid>>
          /\ \A q \in VerifierRequests : vpc'[q] \in {vpc[q], "lost"}
      BY <2>4 DEF Verifier!Crash
    <3> QED
      BY <2>0, <3>1
  <2> QED
    BY <1>2, <2>1, <2>2, <2>3, <2>4 DEF VerifierActs, Verifier!Next
<1> QED
  BY <1>1, <1>2 DEF Next

LEMMA InitHistory == Init => HistoryInv
<1> SUFFICES ASSUME Init PROVE HistoryInv
  OBVIOUS
<1>a. IssuerInv /\ VerifierInv
  BY IssuerInitInv, VerifierInitInv
<1>b. /\ ipc = [r \in IssuerRequests |-> "idle"] /\ iopen = [r \in IssuerRequests |-> FALSE]
      /\ ireply = [r \in IssuerRequests |-> Issuer!NoReply]
      /\ idempotency = <<>>
      /\ credentials = [id \in 1..Len(Preissued) |->
                            Issuer!CredentialRow(Preissued[id].issuer, Preissued[id].body)]
      /\ Issuer!ContextInit
  BY DEF Init, Issuer!Init
<1>c. /\ vpc = [r \in VerifierRequests |-> "idle"]
      /\ vopen = [r \in VerifierRequests |-> FALSE]
      /\ vvid = [r \in VerifierRequests |-> Verifier!NoResource]
      /\ vreply = [r \in VerifierRequests |-> Verifier!NoReply]
      /\ Verifier!ContextInit
      /\ before = [r \in VerifierRequests |-> NothingAnswered]
  BY DEF Init, Verifier!Init
<1>1. Spent /\ vexpired = [r \in VerifierRequests |-> FALSE]
  BY <1>b, <1>c, BudgetsAssumption DEF Issuer!ContextInit, Verifier!ContextInit, Spent
<1>2. CredentialsKept
  <2>1. DOMAIN Preissued = 1..Len(Preissued)
    BY PreissuedAssumption, LenProperties
  <2> QED
    BY <1>b, <2>1 DEF CredentialsKept, Stored, Issuer!CredentialRow
<1>3. IssuerReserved /\ VerifierReserved
  BY <1>b, <1>c DEF IssuerReserved, IssuerHolds, IssuerWrites, VerifierReserved, VerifierHolds,
     VerifierWrites, Deciding
<1>4. IssuerSays
  BY <1>b, IssuerRefusals DEF IssuerSays, Holds
<1>5. AnswersHold /\ RowsHold
  BY <1>b, <1>c DEF AnswersHold, NothingAnswered, RowsHold
<1>6. \A r \in VerifierRequests : Allows(r) /\ Known(r)
  BY <1>c, OneStore DEF Allows, Known, NoReply, Reply
<1> QED
  BY <1>a, <1>1, <1>2, <1>3, <1>4, <1>5, <1>6 DEF HistoryInv

LEMMA NextHistory ==
    ASSUME HistoryInv, [Next]_vars
    PROVE  HistoryInv'
<1>a. /\ IssuerInv /\ VerifierInv /\ Spent
      /\ CredentialsKept /\ IssuerReserved /\ VerifierReserved
      /\ IssuerSays /\ AnswersHold /\ RowsHold
      /\ \A r \in VerifierRequests : Allows(r)
  BY DEF HistoryInv
<1>1. IssuerInv' /\ VerifierInv'
  BY <1>a, IssuerAnyInv, VerifierAnyInv
<1>2. CredentialsGrow /\ CredentialsKept'
  BY <1>a, NextGrows
<1>3. IssuerReserved' /\ VerifierReserved'
  BY <1>a, <1>2, NextReserved
<1>4. IssuerSays' /\ AnswersHold'
  BY <1>a, <1>2, NextIssuerSays, NextAnswersHold
<1>5. RowsHold'
  BY <1>2, NextRowsHold
<1>6. \A r \in VerifierRequests : Allows(r)'
  BY <1>a, NextAllows
<1>7. Spent' /\ (VerifierCalm' => VerifierCalm /\ UNCHANGED vexpired)
  BY <1>a, NextSpent DEF VerifierCalm
<1>8. VerifierCalm' => /\ vexpired' = [r \in VerifierRequests |-> FALSE]
                       /\ \A r \in VerifierRequests : Known(r)'
  BY <1>7, NextKnown DEF HistoryInv
<1> QED
  BY <1>1, <1>2, <1>3, <1>4, <1>5, <1>6, <1>7, <1>8 DEF HistoryInv

LEMMA AlwaysHistory == Spec => []HistoryInv
BY InitHistory, NextHistory, PTL DEF Spec

\* createVerification: an allow on a credential whose end the issuer had
\* confirmed before the submission arrived was decided for a submission that
\* had arrived before that, and only replayed; at whatever statement either
\* service fails, and whatever its clients retry.
THEOREM AllowIsFromBefore == Spec => []AllowPredatesRevocation
<1>1. HistoryInv => AllowPredatesRevocation
  BY DEF HistoryInv, Allows, Witnessed, Witness, AllowPredatesRevocation, VerifierAnswered
<1> QED
  BY <1>1, AlwaysHistory, PTL

\* resolveCredentialForArtifact: what the issuer service has handed out, the
\* verifier service finds by its digest in every submission that arrives later.
THEOREM HandedOutIsFound == Spec => []HandedOutIsKnown
<1>1. HistoryInv => HandedOutIsKnown
  BY DEF HistoryInv, VerifierCalm, Known, HandedOutIsKnown, Evaluated, VerifierAnswered
<1> QED
  BY <1>1, AlwaysHistory, PTL
=============================================================================
