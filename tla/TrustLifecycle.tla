--------------------------- MODULE TrustLifecycle ---------------------------
(***************************************************************************)
(* How the shared store comes to be usable: `phase1sql migrate up',        *)
(* `phase1sql bootstrap trust', and the services that refuse to open       *)
(* before both (services/internal/phase1sql/schema.go, trust_bootstrap.go  *)
(* and cmd/phase1sql; phase1.OpenStore and CheckReadiness of each service). *)
(*                                                                         *)
(* No command is a transaction.  A migration runs one CREATE after the     *)
(* other, a bootstrap reads, writes and audits issuer after issuer, and    *)
(* the schema check asks for one object at a time, so each of them meets   *)
(* the store half-way through another.  A statement may fail, before or    *)
(* after it took effect, and a process may stop between any two.  A        *)
(* command that ended may be started again, and so may a service.          *)
(***************************************************************************)
EXTENDS Naturals, Sequences, FiniteSets

CONSTANTS
    MigrateJobs,     \* invocations of `phase1sql migrate up'
    BootstrapJobs,   \* invocations of `phase1sql bootstrap trust'
    Services,        \* issuer-api, verifier-api and trust-registry processes
    Objects,         \* the tables and indexes of the schema
    MigrationOrder,  \* the objects, as the migration creates them
    CheckOrder,      \* the objects, as MissingSchemaObjects asks for them
    Document,        \* Document[j]: what the file of bootstrap j holds
    MaxFailures,     \* bound on failed statements and on stopped processes
    LastRun          \* bound on the bootstraps that get to their document

Jobs == MigrateJobs \cup BootstrapJobs
Actors == Jobs \cup Services
Issuers == UNION {{Document[j][k].issuer : k \in DOMAIN Document[j]} : j \in BootstrapJobs}
Contents == UNION {{Document[j][k].content : k \in DOMAIN Document[j]} : j \in BootstrapJobs}

ASSUME ActorsAssumption ==
    /\ MigrateJobs \cap BootstrapJobs = {}
    /\ Jobs \cap Services = {}
ASSUME OrderAssumption ==
    /\ MigrationOrder \in Seq(Objects)
    /\ CheckOrder \in Seq(Objects)
    /\ \A o \in Objects : \E k \in DOMAIN MigrationOrder : MigrationOrder[k] = o
    /\ \A o \in Objects : \E k \in DOMAIN CheckOrder : CheckOrder[k] = o
ASSUME DocumentAssumption ==
    \A j \in BootstrapJobs :
        Document[j] \in Seq([issuer : Issuers, content : Contents, valid : BOOLEAN])
ASSUME BoundsAssumption == MaxFailures \in Nat /\ LastRun \in Nat

VARIABLES
    (* the database *)
    schema,     \* the objects that exist
    issuers,    \* trust_registry_issuer_records
    audits,     \* the audit rows of bootstraps: job, index, time
    (* the processes *)
    pc,         \* pc[a]: what a is doing
    at,         \* at[a]: which statement, object or document entry is next
    lacking,    \* lacking[a]: the check under way has missed an object
    now,        \* now[j]: when the bootstrap got to its document
    created,    \* created[j]: the created_at it will write
    open,       \* open[s]: the service has its store and accepts requests
    (* the world *)
    clock,
    failures,   \* failures that may still happen
    (* history *)
    ended,      \* ended[n]: how the bootstrap that began at n fared
    overlap     \* overlap[n]: the bootstraps under way together with it

database == <<schema, issuers, audits>>
history == <<ended, overlap>>
vars == <<database, pc, at, lacking, now, created, open, clock, failures, history>>

Steps == {"idle", "migrating", "checking", "loading", "upserting",
          "auditing", "serving", "done", "failed", "crashed"}
Applying == {"loading", "upserting", "auditing"}
Restartable == {"idle", "failed", "crashed"}
Running(a) == pc[a] \notin Restartable \cup {"serving", "done"}
Times == 0..LastRun

Entry(j) == Document[j][at[j]]
Goto(a, step) == pc' = [pc EXCEPT ![a] = step]
Advance(a) == at' = [at EXCEPT ![a] = @ + 1]
\* A loop that counts from zero.
RestartFromZero(a, step) == Goto(a, step) /\ at' = [at EXCEPT ![a] = 0]
Restart(a, step) == Goto(a, step) /\ at' = [at EXCEPT ![a] = 1]

Init ==
    /\ schema = {}
    /\ issuers = <<>>
    /\ audits = {}
    /\ pc = [a \in Actors |-> "idle"]
    /\ at = [a \in Actors |-> 1]
    /\ lacking = [a \in Actors |-> FALSE]
    /\ now = [j \in BootstrapJobs |-> 0]
    /\ created = [j \in BootstrapJobs |-> 0]
    /\ open = [s \in Services |-> FALSE]
    /\ clock = 0
    /\ failures = MaxFailures
    /\ ended = [n \in Times |-> "none"]
    /\ overlap = [n \in Times |-> {}]

\* The run of job a, if a is a bootstrap that got to its document, ends so.
EndRun(a, how) ==
    ended' = IF a \in BootstrapJobs /\ pc[a] \in Applying
             THEN [ended EXCEPT ![now[a]] = how] ELSE ended

\* A statement of a fails: a command exits with an error, an opening service
\* too, and an open one answers its probe "not ready" and serves on.
GiveUp(a) ==
    /\ Goto(a, IF a \in Jobs THEN "failed" ELSE IF open[a] THEN "serving" ELSE "idle")
    /\ EndRun(a, "failed")
    /\ UNCHANGED <<at, lacking, now, created, open, clock, overlap>>

FailureHappens == failures > 0 /\ failures' = failures - 1

\* The next statement of a is refused, and nothing is written.
StatementFails(a) ==
    /\ Running(a)
    /\ FailureHappens
    /\ GiveUp(a)
    /\ UNCHANGED database

\* The process of a stops: what it had written stays.
Crash(a) ==
    /\ Running(a) \/ pc[a] = "serving"
    /\ FailureHappens
    /\ IF a \in Jobs THEN Goto(a, "crashed") /\ UNCHANGED open
       ELSE Goto(a, "idle") /\ open' = [open EXCEPT ![a] = FALSE]
    /\ EndRun(a, "crashed")
    /\ UNCHANGED <<database, at, lacking, now, created, clock, overlap>>

-----------------------------------------------------------------------------
(* phase1sql migrate up.                                                   *)

StartMigration(j) ==
    /\ pc[j] \in Restartable
    /\ Restart(j, "migrating")
    /\ UNCHANGED <<database, lacking, now, created, open, clock, failures, history>>

\* A migration that takes the first object for the whole schema.
CreateUnlessBegun(j) ==
    /\ pc[j] = "migrating"
    /\ at[j] <= Len(MigrationOrder)
    /\ schema' = schema \cup {MigrationOrder[at[j]]}
    /\ at' = [at EXCEPT ![j] = IF MigrationOrder[1] \in schema /\ @ = 1
                               THEN Len(MigrationOrder) + 1 ELSE @ + 1]
    /\ UNCHANGED <<issuers, audits, pc, lacking, now, created, open, clock, failures, history>>

\* CREATE ... IF NOT EXISTS, each statement on its own.
CreateObject(j) ==
    /\ pc[j] = "migrating"
    /\ at[j] <= Len(MigrationOrder)
    /\ schema' = schema \cup {MigrationOrder[at[j]]}
    /\ Advance(j)
    /\ UNCHANGED <<issuers, audits, pc, lacking, now, created, open, clock, failures, history>>

\* The CREATE took effect, but the migration sees an error.
CreateUnacked(j) ==
    /\ pc[j] = "migrating"
    /\ at[j] <= Len(MigrationOrder)
    /\ FailureHappens
    /\ schema' = schema \cup {MigrationOrder[at[j]]}
    /\ GiveUp(j)
    /\ UNCHANGED <<issuers, audits>>

EndMigration(j) ==
    /\ pc[j] = "migrating"
    /\ at[j] > Len(MigrationOrder)
    /\ Goto(j, "done")
    /\ UNCHANGED <<database, at, lacking, now, created, open, clock, failures, history>>

-----------------------------------------------------------------------------
(* RequireSchema and RequireTrustBootstrap, as a bootstrap, an opening     *)
(* service and a readiness probe call them.                                *)

\* The bootstraps that may still need one of the times up to LastRun.
Waiting == {j \in BootstrapJobs : pc[j] = "checking"}

\* Connect, whose ping may fail as the first statement does.
StartCheck(a) ==
    /\ \/ a \in BootstrapJobs /\ pc[a] \in Restartable /\ clock + Cardinality(Waiting) < LastRun
       \/ a \in Services /\ pc[a] \in {"idle", "serving"}
    /\ Restart(a, "checking")
    /\ lacking' = [lacking EXCEPT ![a] = FALSE]
    /\ UNCHANGED <<database, now, created, open, clock, failures, history>>

\* A check that stops remembering once it has found an object.
CheckLastObjectOnly(a) ==
    /\ pc[a] = "checking"
    /\ at[a] <= Len(CheckOrder)
    /\ lacking' = [lacking EXCEPT ![a] = CheckOrder[at[a]] \notin schema]
    /\ Advance(a)
    /\ UNCHANGED <<database, pc, now, created, open, clock, failures, history>>

CheckObject(a) ==
    /\ pc[a] = "checking"
    /\ at[a] <= Len(CheckOrder)
    /\ lacking' = [lacking EXCEPT ![a] = @ \/ CheckOrder[at[a]] \notin schema]
    /\ Advance(a)
    /\ UNCHANGED <<database, pc, now, created, open, clock, failures, history>>

SchemaChecked(a) == pc[a] = "checking" /\ at[a] > Len(CheckOrder) /\ ~lacking[a]

RefuseSchema(a) ==
    /\ pc[a] = "checking"
    /\ at[a] > Len(CheckOrder)
    /\ lacking[a]
    /\ GiveUp(a)
    /\ UNCHANGED <<database, failures>>

\* A service that opens its store on the schema alone.
OpenUnbootstrapped(s) ==
    /\ SchemaChecked(s)
    /\ Goto(s, "serving")
    /\ open' = [open EXCEPT ![s] = TRUE]
    /\ UNCHANGED <<database, at, lacking, now, created, clock, failures, history>>

\* The service serves, or its probe answers "ready" (if Hydra answers too: see
\* TrustRuntime).
CountIssuers(s) ==
    /\ SchemaChecked(s)
    /\ DOMAIN issuers # {}
    /\ Goto(s, "serving")
    /\ open' = [open EXCEPT ![s] = TRUE]
    /\ UNCHANGED <<database, at, lacking, now, created, clock, failures, history>>

RefuseBootstrap(s) ==
    /\ SchemaChecked(s)
    /\ DOMAIN issuers = {}
    /\ GiveUp(s)
    /\ UNCHANGED <<database, failures>>

-----------------------------------------------------------------------------
(* phase1sql bootstrap trust: ApplyTrustBootstrapDocument.                 *)

UnderWay == {now[j] : j \in {i \in BootstrapJobs : pc[i] \in Applying}}

\* The schema is there: the file is read, and the time taken.  The clock is
\* finer than the start of a process, so no two bootstraps share a time.
BeginApply(j) ==
    /\ SchemaChecked(j)
    /\ clock < LastRun
    /\ clock' = clock + 1
    /\ now' = [now EXCEPT ![j] = clock']
    /\ Restart(j, "loading")
    /\ ended' = [ended EXCEPT ![clock'] = "under_way"]
    /\ overlap' = [n \in Times |->
                    CASE n = clock' -> UnderWay
                      [] n \in UnderWay -> overlap[n] \cup {clock'}
                      [] OTHER -> overlap[n]]
    /\ UNCHANGED <<database, lacking, created, open, failures>>

\* A load that takes every issuer for a new one.
LoadAsNew(j) ==
    /\ pc[j] = "loading"
    /\ at[j] <= Len(Document[j])
    /\ Entry(j).valid
    /\ created' = [created EXCEPT ![j] = now[j]]
    /\ Goto(j, "upserting")
    /\ UNCHANGED <<database, at, lacking, now, open, clock, failures, history>>

\* toIssuerRecord and GetIssuerRecord: a row that is there keeps its time.
LoadIssuer(j) ==
    /\ pc[j] = "loading"
    /\ at[j] <= Len(Document[j])
    /\ Entry(j).valid
    /\ created' = [created EXCEPT ![j] = IF Entry(j).issuer \in DOMAIN issuers
                                         THEN issuers[Entry(j).issuer].created ELSE now[j]]
    /\ Goto(j, "upserting")
    /\ UNCHANGED <<database, at, lacking, now, open, clock, failures, history>>

RefuseEntry(j) ==
    /\ pc[j] = "loading"
    /\ at[j] <= Len(Document[j])
    /\ ~Entry(j).valid
    /\ GiveUp(j)
    /\ UNCHANGED <<database, failures>>

\* An INSERT that leaves the row that is there.
InsertIssuer(j) ==
    issuers' = [i \in DOMAIN issuers \cup {Entry(j).issuer} |->
        IF i \in DOMAIN issuers THEN issuers[i]
        ELSE [content |-> Entry(j).content, created |-> created[j], updated |-> now[j]]]

\* Every column is overwritten, created_at too.
UpsertIssuer(j) ==
    issuers' = [i \in DOMAIN issuers \cup {Entry(j).issuer} |->
        IF i = Entry(j).issuer
        THEN [content |-> Entry(j).content, created |-> created[j], updated |-> now[j]]
        ELSE issuers[i]]

Upsert(j) ==
    /\ pc[j] = "upserting"
    /\ UpsertIssuer(j)
    /\ Goto(j, "auditing")
    /\ UNCHANGED <<schema, audits, at, lacking, now, created, open, clock, failures, history>>

UpsertUnacked(j) ==
    /\ pc[j] = "upserting"
    /\ UpsertIssuer(j)
    /\ FailureHappens
    /\ GiveUp(j)
    /\ UNCHANGED <<schema, audits>>

\* A loop that goes on when the audit record is not written.
AuditIfPossible(j) ==
    /\ pc[j] = "auditing"
    /\ \/ audits' = audits \cup {<<j, at[j], now[j]>>} /\ UNCHANGED failures
       \/ FailureHappens /\ UNCHANGED audits
    /\ Advance(j)
    /\ Goto(j, "loading")
    /\ UNCHANGED <<schema, issuers, lacking, now, created, open, clock, history>>

\* The audit row, keyed by the source, the index and the time.
Audit(j) ==
    /\ pc[j] = "auditing"
    /\ audits' = audits \cup {<<j, at[j], now[j]>>}
    /\ Advance(j)
    /\ Goto(j, "loading")
    /\ UNCHANGED <<schema, issuers, lacking, now, created, open, clock, failures, history>>

AuditUnacked(j) ==
    /\ pc[j] = "auditing"
    /\ audits' = audits \cup {<<j, at[j], now[j]>>}
    /\ FailureHappens
    /\ GiveUp(j)
    /\ UNCHANGED <<schema, issuers>>

EndBootstrap(j) ==
    /\ pc[j] = "loading"
    /\ at[j] > Len(Document[j])
    /\ Goto(j, "done")
    /\ EndRun(j, "done")
    /\ UNCHANGED <<database, at, lacking, now, created, open, clock, failures, overlap>>

-----------------------------------------------------------------------------
Checks(a) == CheckObject(a) \/ RefuseSchema(a)

Migration(j) == CreateObject(j) \/ EndMigration(j)

Bootstrap(j) ==
    \/ Checks(j) \/ BeginApply(j)
    \/ LoadIssuer(j) \/ RefuseEntry(j) \/ Upsert(j) \/ Audit(j)
    \/ EndBootstrap(j)

Service(s) == Checks(s) \/ CountIssuers(s) \/ RefuseBootstrap(s)

Next ==
    \/ \E j \in MigrateJobs : StartMigration(j) \/ Migration(j) \/ CreateUnacked(j)
    \/ \E j \in BootstrapJobs : Bootstrap(j) \/ UpsertUnacked(j) \/ AuditUnacked(j)
    \/ \E s \in Services : Service(s)
    \/ \E a \in BootstrapJobs \cup Services : StartCheck(a)
    \/ \E a \in Actors : StatementFails(a) \/ Crash(a)

Spec == Init /\ [][Next]_vars

\* A process that runs gets to its next statement, and whoever deploys the
\* system starts again what has not succeeded.
Fairness ==
    /\ \A j \in MigrateJobs : WF_vars(StartMigration(j)) /\ WF_vars(Migration(j))
    /\ \A j \in BootstrapJobs : WF_vars(StartCheck(j)) /\ WF_vars(Bootstrap(j))
    /\ \A s \in Services :
        /\ WF_vars(~open[s] /\ StartCheck(s))
        /\ WF_vars(Service(s))

FairSpec == Spec /\ Fairness

-----------------------------------------------------------------------------
(* Properties.                                                             *)

Row == [content : Contents, created : Times, updated : Times]

\* Every variable holds what the store, a command or a service can hold.
TypeOK ==
    /\ schema \subseteq Objects
    /\ DOMAIN issuers \subseteq Issuers
    /\ \A i \in DOMAIN issuers : issuers[i] \in Row
    /\ audits \subseteq BootstrapJobs \X Nat \X Times
    /\ pc \in [Actors -> Steps]
    /\ at \in [Actors -> Nat \ {0}]
    /\ lacking \in [Actors -> BOOLEAN]
    /\ now \in [BootstrapJobs -> Times]
    /\ created \in [BootstrapJobs -> Times]
    /\ open \in [Services -> BOOLEAN]
    /\ clock \in Times
    /\ failures \in Nat
    /\ ended \in [Times -> {"none", "under_way", "done", "failed", "crashed"}]
    /\ overlap \in [Times -> SUBSET Times]

Usable == schema = Objects /\ DOMAIN issuers # {}

\* A service that accepts requests has every table and index it will use and
\* an issuer to trust, and no probe of it ever misses one: although the check
\* asked for the objects one by one while a migration was creating them, and
\* although migrations and bootstraps are started again under it.
ServingMeansReady == \A s \in Services : open[s] => Usable /\ ~lacking[s]

\* A migration that reported success left the whole schema, even if an
\* earlier one had stopped half-way or another ran at the same time; and no
\* bootstrap reads or writes a table before it is there.
MigratedMeansComplete ==
    /\ \A j \in MigrateJobs : pc[j] = "done" => schema = Objects
    /\ \A j \in BootstrapJobs : pc[j] \in Applying \cup {"done"} => schema = Objects

\* The entry of the document that decides an issuer's row: its last.
Decides(j, k) ==
    \A l \in DOMAIN Document[j] : l > k => Document[j][l].issuer # Document[j][k].issuer

\* A bootstrap that reported success, and that ran alone, is in force: each
\* of its issuers has its content, unless a later bootstrap rewrote the row.
\* (Two that overlap may leave some issuers of each.)
DoneMeansApplied ==
    \A j \in BootstrapJobs :
        pc[j] = "done" /\ overlap[now[j]] = {} =>
            \A k \in DOMAIN Document[j] :
                LET entry == Document[j][k]
                IN  /\ entry.issuer \in DOMAIN issuers
                    /\ \/ issuers[entry.issuer].updated > now[j]
                       \/ /\ issuers[entry.issuer].updated = now[j]
                          /\ Decides(j, k) => issuers[entry.issuer].content = entry.content

\* Every state of the trust table is accounted for: the bootstrap that wrote
\* a row has audited it, unless it failed or stopped, or is about to.
TrustChangesAreAudited ==
    \A i \in DOMAIN issuers :
        \/ ended[issuers[i].updated] \in {"failed", "crashed"}
        \/ \E j \in BootstrapJobs : \E k \in DOMAIN Document[j] :
            /\ Document[j][k].issuer = i
            /\ \/ <<j, k, issuers[i].updated>> \in audits
               \/ pc[j] = "auditing" /\ at[j] = k /\ now[j] = issuers[i].updated

\* What a bootstrap that broke off leaves is the beginning of its document:
\* no entry is audited before the ones that precede it, and none without its
\* issuer's row.
BrokenRunsLeaveAPrefix ==
    \A audit \in audits :
        LET j == audit[1]
            k == audit[2]
        IN  /\ Document[j][k].issuer \in DOMAIN issuers
            /\ \A l \in 1..k : <<j, l, audit[3]>> \in audits

\* A bootstrap keeps the creation time of an issuer that is known (the test
\* of the trust registry's bootstrap says so, of one run after another), if
\* no bootstrap ran together with the one that writes the row.
CreationTimeKept ==
    [][\A i \in DOMAIN issuers :
        /\ i \in DOMAIN issuers'
        /\ \/ issuers'[i].created = issuers[i].created
           \/ overlap[issuers'[i].updated] # {}]_vars

\* However the failures fall, starting again what did not succeed brings the
\* services up: no half-done migration or bootstrap is beyond repair.
ServicesComeUp == \A s \in Services : <>[]open[s]
=============================================================================
