---------------------------- MODULE Phase1System ----------------------------
(***************************************************************************)
(* The issuer service and the verifier service on the store they share:    *)
(* IssuerApi and VerifierApi side by side, each statement of either        *)
(* between any two of the other.  They have the credential table, the      *)
(* idempotency table, the audit table and the trust table in common, and   *)
(* nothing else: no call goes from one to the other.                       *)
(*                                                                         *)
(* The stores in internal/phase1/runtime.go of each service hand out views *)
(* of one row: the issuer service looks at its claims and its successor,   *)
(* the verifier service at its digest, and both at the status.             *)
(***************************************************************************)
EXTENDS Sequences, Phase1Sql

CONSTANTS
    IssuerRequests, IssuerCalls, IssuerBudget,
    VerifierRequests, VerifierCalls, VerifierBudget,
    OrgOf,           \* the organization each caller is attributed to
    TemplateOf,      \* the template a body names
    ExpiresOf,       \* and when its claims expire
    NoKey, NoClaim,
    DefaultPolicy, DefaultTemplate,
    TrustTables,     \* what bootstraps may leave: issuer -> state, templates
    Preissued        \* issuer and body of the credentials handed out before

Failures == {"fault", "expiry", "crash"}

ASSUME RequestsAssumption == IssuerRequests \cap VerifierRequests = {}
ASSUME BudgetsAssumption == /\ IssuerBudget \in [Failures -> Nat]
                            /\ VerifierBudget \in [Failures -> Nat]
ASSUME PreissuedAssumption ==
    Preissued \in Seq([issuer : {OrgOf[p] : p \in DOMAIN OrgOf}, body : DOMAIN TemplateOf])
ASSUME CallsAssumption ==
    /\ \A c \in IssuerCalls : /\ c.op \in {"issue", "status", "read"}
                              /\ c.caller \in DOMAIN OrgOf
                              /\ c.auth \in {"ok", "unauthenticated", "unavailable"}
                              /\ c.op = "issue" => c.body \in DOMAIN TemplateOf
                              /\ c.by \in Nat
    /\ \A c \in VerifierCalls : c.op \in {"create", "read"}

VARIABLES
    (* the store *)
    trust,           \* trust_registry_issuer_records
    sequence,        \* phase1_sequences, row "credential"
    vsequence,       \* phase1_sequences, row "verification"
    credentials, submissions, results, idempotency, audits,
    (* the requests of the issuer service, as in IssuerApi *)
    ipc, icall, iopen, icred, ireply, iexpired, ibudget,
    (* the requests of the verifier service, as in VerifierApi *)
    vpc, vcall, vopen, vvid, vfound, vreply, vexpired, vbudget,
    (* history *)
    spoiled,         \* as in VerifierApi
    before           \* before[r]: what the issuer had answered when r arrived

issuerVars == <<ipc, icall, iopen, icred, ireply, iexpired, ibudget>>
verifierVars == <<vpc, vcall, vopen, vvid, vfound, vreply, vexpired, vbudget, spoiled, before>>
vars == <<trust, sequence, vsequence, credentials, submissions, results, idempotency, audits,
          issuerVars, verifierVars>>

-----------------------------------------------------------------------------
(* The views.                                                              *)

\* materializeCredentialArtifact: the text is its envelope, encoded.
Artifact(id, issuer, body) ==
    [id |-> id, issuer |-> issuer, template |-> TemplateOf[body], expires |-> ExpiresOf[body]]
ArtifactOf(id) == Artifact(id, credentials[id].issuer, credentials[id].body)

\* A view that takes every credential for an active one.
SeenAsIssued ==
    [id \in DOMAIN credentials |->
        [id |-> id, digest |-> [text |-> ArtifactOf(id), padded |-> FALSE],
         issuer |-> credentials[id].issuer, template |-> TemplateOf[credentials[id].body],
         expires |-> ExpiresOf[credentials[id].body], status |-> "active"]]

\* The row the verifier service reads, digest and all.
SeenByVerifier ==
    [id \in DOMAIN credentials |->
        [id |-> id, digest |-> [text |-> ArtifactOf(id), padded |-> FALSE],
         issuer |-> credentials[id].issuer, template |-> TemplateOf[credentials[id].body],
         expires |-> ExpiresOf[credentials[id].body], status |-> credentials[id].status]]

AllowedTemplates(table) == [o \in DOMAIN table |-> table[o].templates]
TrustStates(table) == [o \in DOMAIN table |-> table[o].state]

HandedOutBefore ==
    [id \in DOMAIN Preissued |-> Artifact(id, Preissued[id].issuer, Preissued[id].body)]
Artifacts == {HandedOutBefore[id] : id \in DOMAIN Preissued}
             \cup {c.artifact.text : c \in {d \in VerifierCalls : d.op = "create"}}

\* An artifact is a text, with white space around it or without.
ASSUME ArtifactsAssumption ==
    \A c \in VerifierCalls :
        c.op = "create" => c.artifact \in [text : Artifacts, padded : BOOLEAN]

Issuer == INSTANCE IssuerApi WITH
    Requests <- IssuerRequests, Calls <- IssuerCalls, Budget <- IssuerBudget,
    IssuerTables <- {AllowedTemplates(table) : table \in TrustTables},
    issuers <- AllowedTemplates(trust),
    pc <- ipc, call <- icall, open <- iopen, cred <- icred, reply <- ireply,
    expired <- iexpired, budget <- ibudget

Verifier == INSTANCE VerifierApi WITH
    Requests <- VerifierRequests, Calls <- VerifierCalls, Budget <- VerifierBudget,
    Envelope <- [text \in Artifacts |-> text],
    Issuable <- HandedOutBefore, Issued <- DOMAIN Preissued,
    TrustTables <- {TrustStates(table) : table \in TrustTables}, LastMinute <- 0,
    trust <- TrustStates(trust), sequence <- vsequence,
    credentials <- SeenByVerifier, clock <- 0, arrived <- [r \in VerifierRequests |-> 0],
    pc <- vpc, call <- vcall, open <- vopen, vid <- vvid, found <- vfound, reply <- vreply,
    expired <- vexpired, budget <- vbudget
-----------------------------------------------------------------------------
(* What the issuer service has answered so far.                            *)

Told(ops) == {r \in IssuerRequests :
                ipc[r] = "done" /\ Success(ireply[r]) /\ icall[r].op \in ops}

ArtifactTold(r) ==
    IF icall[r].op = "issue"
    THEN Artifact(ireply[r].resource, OrgOf[icall[r].caller], icall[r].body)
    ELSE ArtifactOf(ireply[r].resource)

\* The artifacts somebody holds, and the credentials whose change of status
\* was confirmed.
Answers ==
    [handedOut |-> {ArtifactTold(r) : r \in Told({"issue", "read"})}
                    \cup {HandedOutBefore[id] : id \in DOMAIN Preissued},
     ended |-> {ireply[r].resource : r \in Told({"status"})}]
NothingAnswered == [handedOut |-> {}, ended |-> {}]

Init ==
    /\ trust \in TrustTables
    /\ Issuer!Init
    /\ Verifier!Init
    /\ before = [r \in VerifierRequests |-> NothingAnswered]

\* The issuer service goes on, and the tables it does not write stay.
IssuerActs ==
    /\ UNCHANGED <<trust, vsequence, submissions, results, verifierVars>>
    /\ Issuer!Next

\* The verifier service goes on; it writes neither credentials nor trust.
VerifierActs ==
    /\ UNCHANGED <<trust, sequence, credentials, issuerVars>>
    /\ Verifier!Next
    /\ before' = [r \in VerifierRequests |->
                    IF vpc[r] = "idle" /\ vpc'[r] # "idle" THEN Answers ELSE before[r]]

\* A bootstrap has rewritten the trust table (see TrustLifecycle).
BootstrapWrites ==
    /\ trust' \in TrustTables
    /\ UNCHANGED <<sequence, vsequence, credentials, submissions, results, idempotency, audits,
                   issuerVars, verifierVars>>

Next == IssuerActs \/ VerifierActs \/ BootstrapWrites

Spec == Init /\ [][Next]_vars

-----------------------------------------------------------------------------
(* Properties.                                                             *)

VerifierAnswered(r) == vpc[r] = "done" /\ vcall[r].op = "create"
Evaluated(r) == VerifierAnswered(r) /\ vvid[r] # NoResource

\* An artifact that the issuer service has handed out, in a 201, in its replay
\* or in a read, is known to the verifier service from then on, and evaluated
\* as what it is: whatever failed at the issuer service, and as long as
\* nothing fails at the verifier's.
HandedOutIsKnown ==
    vbudget = VerifierBudget =>
        \A r \in VerifierRequests :
            /\ Evaluated(r)
            /\ vcall[r].artifact.text \in before[r].handedOut
            /\ ~vcall[r].artifact.padded
            => /\ vreply[r].error # "credential_not_found"
               /\ vreply[r].status # "artifact_continuity_failed"

\* An allow that a partner gets although the issuer had been told before that
\* the credential is revoked or superseded is the replay of a verdict on a
\* submission that had arrived before that.
AllowPredatesRevocation ==
    \A r \in VerifierRequests :
        /\ VerifierAnswered(r)
        /\ vreply[r].status = "allow"
        /\ vcall[r].artifact.text.id \in before[r].ended
        => \E q \in VerifierRequests \ {r} :
                /\ vvid[q] = vreply[r].resource
                /\ vcall[r].artifact.text.id \notin before[q].ended

\* Another request, of this service or of the other, whose audit record has the
\* key of r's: the same X-Request-ID and the same suffix.
Suffixes(c) == {c.op} \cup (IF c.key = NoKey THEN {} ELSE {"replay"})
Clashes(c, d) == c.requestId = d.requestId /\ Suffixes(c) \cap Suffixes(d) # {}
Clash(r, c) ==
    \/ \E q \in IssuerRequests \ {r} : ipc[q] # "idle" /\ Clashes(c, icall[q])
    \/ \E q \in VerifierRequests \ {r} : vpc[q] # "idle" /\ Clashes(c, vcall[q])

Audited(c, resource) ==
    \E id \in DOMAIN audits :
        /\ audits[id].caller = c.caller /\ audits[id].action = c.op
        /\ audits[id].resource = resource /\ audits[id].outcome # "failed"

\* Every success of either service is in the one audit table, under its
\* caller, action and resource; unless something failed, or a request of
\* either service has taken the key of its record.
SuccessesAreAudited ==
    ibudget = IssuerBudget /\ vbudget = VerifierBudget =>
        /\ \A r \in IssuerRequests :
            ipc[r] = "done" /\ Success(ireply[r]) =>
                Audited(icall[r], ireply[r].resource) \/ Clash(r, icall[r])
        /\ \A r \in VerifierRequests :
            vpc[r] = "done" /\ Success(vreply[r]) =>
                Audited(vcall[r], vreply[r].resource) \/ Clash(r, vcall[r])

\* What VerifierApi assumes of the table it reads, the issuer service does:
\* it adds an active row under the digest of that row's own artifact, or ends
\* a status for good, and nothing else.
IssuerIsTheVerifiersWorld ==
    [][\/ \E id \in DOMAIN credentials' \ DOMAIN credentials :
            /\ SeenByVerifier' = InsertRow(SeenByVerifier, id, SeenByVerifier'[id])
            /\ SeenByVerifier'[id].status = "active"
            /\ SeenByVerifier'[id].digest.text.id = id
       \/ \E id \in DOMAIN credentials, status \in {"revoked", "superseded"} :
            Verifier!IssuerChangesStatus(id, status)]_credentials
=============================================================================
