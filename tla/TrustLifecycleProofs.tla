------------------------ MODULE TrustLifecycleProofs ------------------------
(***************************************************************************)
(* Proofs about TrustLifecycle, for every schema, every order of creating  *)
(* and of checking its objects, any documents and any number of commands   *)
(* and services.  A check that was made object by object still speaks for  *)
(* the whole schema when it ends, because objects are only ever created.   *)
(* Of the bootstraps, with failures and crashes anywhere: what one that    *)
(* broke off leaves, what is audited, what becomes of the creation times,  *)
(* and that success means that the document is in force.                   *)
(***************************************************************************)
EXTENDS TrustLifecycle, TLAPS

\* What a check that has missed nothing knows.
ChecksKnow ==
    \A a \in Actors :
        pc[a] = "checking" /\ ~lacking[a] =>
            \A k \in DOMAIN CheckOrder : k < at[a] => CheckOrder[k] \in schema

\* What a migration has done.
MigrationsKnow ==
    \A j \in MigrateJobs :
        pc[j] = "migrating" =>
            \A k \in DOMAIN MigrationOrder : k < at[j] => MigrationOrder[k] \in schema

\* A bootstrap works on an entry of its document.
EntriesExist ==
    \A j \in BootstrapJobs : pc[j] \in {"upserting", "auditing"} => at[j] \in DOMAIN Document[j]

Inv ==
    /\ TypeOK
    /\ ChecksKnow
    /\ MigrationsKnow
    /\ EntriesExist
    /\ MigratedMeansComplete
    /\ ServingMeansReady

-----------------------------------------------------------------------------
\* Once every object checked is there, the schema is complete.
LEMMA CheckedAll ==
    ASSUME schema \subseteq Objects,
           \A k \in DOMAIN CheckOrder : CheckOrder[k] \in schema
    PROVE  schema = Objects
BY OrderAssumption

\* Once every object of the migration is there, the schema is complete.
LEMMA MigratedAll ==
    ASSUME schema \subseteq Objects,
           \A k \in DOMAIN MigrationOrder : MigrationOrder[k] \in schema
    PROVE  schema = Objects
BY OrderAssumption

\* A check that ends with nothing missing speaks for the whole schema.
LEMMA SchemaCheckedMeansComplete ==
    ASSUME Inv, NEW a \in Actors, SchemaChecked(a)
    PROVE  schema = Objects
<1>1. \A k \in DOMAIN CheckOrder : k < at[a]
    BY OrderAssumption DEF SchemaChecked, Inv, TypeOK
<1>2. \A k \in DOMAIN CheckOrder : CheckOrder[k] \in schema
    BY <1>1 DEF SchemaChecked, Inv, ChecksKnow
<1> QED
    BY <1>2, CheckedAll DEF Inv, TypeOK

\* An entry of a document names an issuer and a content of the instance.
LEMMA EntryType ==
    ASSUME NEW j \in BootstrapJobs, at[j] \in DOMAIN Document[j]
    PROVE  Entry(j).issuer \in Issuers /\ Entry(j).content \in Contents
<1> DEFINE Rec == [issuer : Issuers, content : Contents, valid : BOOLEAN]
<1>1. Document[j] \in Seq(Rec)
    BY DocumentAssumption
<1>2. Entry(j) \in Rec
    <2> HIDE DEF Rec
    <2> QED
        BY <1>1 DEF Entry
<1> QED
    BY <1>2

LEMMA InitInv == Init => Inv
<1> SUFFICES ASSUME Init PROVE Inv
    OBVIOUS
<1>1. TypeOK
    BY BoundsAssumption, Z3 DEF Init, TypeOK, Steps, Times
<1>2. ChecksKnow /\ MigrationsKnow /\ EntriesExist
    BY DEF Init, ChecksKnow, MigrationsKnow, EntriesExist, Actors, Jobs
<1>3. MigratedMeansComplete /\ ServingMeansReady
    BY DEF Init, MigratedMeansComplete, ServingMeansReady, Applying, Actors, Jobs
<1> QED
    BY <1>1, <1>2, <1>3 DEF Inv

-----------------------------------------------------------------------------
(* A process that gives up, fails or stops changes no table: what is known *)
(* of the others stays known, and of itself nothing is claimed.            *)

\* Ending a run touches the history alone.
LEMMA EndRunType ==
    ASSUME TypeOK, NEW a \in Actors, NEW how \in {"done", "failed", "crashed"}, EndRun(a, how)
    PROVE  ended' \in [Times -> {"none", "under_way", "done", "failed", "crashed"}]
BY DEF EndRun, TypeOK

LEMMA GiveUpKeeps ==
    ASSUME Inv, NEW a \in Actors, GiveUp(a), failures' \in Nat,
           schema' \subseteq Objects, schema \subseteq schema',
           DOMAIN issuers \subseteq DOMAIN issuers',
           DOMAIN issuers' \subseteq Issuers, \A i \in DOMAIN issuers' : issuers'[i] \in Row,
           audits' \subseteq BootstrapJobs \X Nat \X Times
    PROVE  Inv'
<1> DEFINE next == IF a \in Jobs THEN "failed" ELSE IF open[a] THEN "serving" ELSE "idle"
<1>1. pc' = [pc EXCEPT ![a] = next] /\ next \in {"failed", "serving", "idle"}
    BY DEF GiveUp, Goto
<1> HIDE DEF next
<1>2. UNCHANGED <<at, lacking, now, created, open, clock, overlap>>
    BY DEF GiveUp
<1>3. ended' \in [Times -> {"none", "under_way", "done", "failed", "crashed"}]
    BY EndRunType DEF GiveUp, Inv
<1>4. pc \in [Actors -> Steps] /\ pc' \in [Actors -> Steps]
    BY <1>1 DEF Inv, TypeOK, Steps
<1>5. TypeOK'
    BY <1>2, <1>3, <1>4 DEF Inv, TypeOK, Row
<1>6. \A b \in Actors : pc'[b] = pc[b] \/ pc'[b] \in {"failed", "serving", "idle"}
    BY <1>1, <1>4
<1>7. ChecksKnow' /\ MigrationsKnow' /\ EntriesExist'
    BY <1>2, <1>6 DEF Inv, ChecksKnow, MigrationsKnow, EntriesExist, Actors, Jobs
<1>8. MigratedMeansComplete'
    BY <1>6 DEF Inv, TypeOK, MigratedMeansComplete, Applying, Actors, Jobs
<1>9. ServingMeansReady'
    BY <1>2 DEF Inv, TypeOK, ServingMeansReady, Usable
<1> QED
    BY <1>5, <1>7, <1>8, <1>9 DEF Inv

LEMMA StatementFailsKeeps ==
    ASSUME Inv, NEW a \in Actors, StatementFails(a)
    PROVE  Inv'
<1>1. failures' \in Nat
    BY DEF StatementFails, FailureHappens, Inv, TypeOK
<1> QED
    BY <1>1, GiveUpKeeps DEF StatementFails, database, Inv, TypeOK

LEMMA CrashKeeps ==
    ASSUME Inv, NEW a \in Actors, Crash(a)
    PROVE  Inv'
<1>1. UNCHANGED <<schema, issuers, audits, at, lacking, now, created, clock, overlap>>
    BY DEF Crash, database
<1>2. failures' \in Nat
    BY DEF Crash, FailureHappens, Inv, TypeOK
<1>3. ended' \in [Times -> {"none", "under_way", "done", "failed", "crashed"}]
    BY EndRunType DEF Crash, Inv
<1>4. \E next \in {"crashed", "idle"} : pc' = [pc EXCEPT ![a] = next]
    BY DEF Crash, Goto
<1>5. pc \in [Actors -> Steps] /\ pc' \in [Actors -> Steps]
    BY <1>4 DEF Inv, TypeOK, Steps
<1>6. open' \in [Services -> BOOLEAN] /\ \A s \in Services : open'[s] => open[s]
    BY DEF Crash, Inv, TypeOK
<1>7. \A b \in Actors : pc'[b] = pc[b] \/ pc'[b] \in {"crashed", "idle"}
    BY <1>4, <1>5
<1>8. TypeOK'
    BY <1>1, <1>2, <1>3, <1>5, <1>6 DEF Inv, TypeOK, Row
<1>9. ChecksKnow' /\ MigrationsKnow' /\ EntriesExist'
    BY <1>1, <1>7 DEF Inv, ChecksKnow, MigrationsKnow, EntriesExist, Actors, Jobs
<1>10. MigratedMeansComplete' /\ ServingMeansReady'
    BY <1>1, <1>6, <1>7 DEF Inv, MigratedMeansComplete, ServingMeansReady, Usable, Applying, Actors, Jobs
<1> QED
    BY <1>8, <1>9, <1>10 DEF Inv

-----------------------------------------------------------------------------
(* The steps of the migration.                                             *)

LEMMA StartMigrationKeeps ==
    ASSUME Inv, NEW j \in MigrateJobs, StartMigration(j)
    PROVE  Inv'
<1>1. /\ pc' = [pc EXCEPT ![j] = "migrating"]
      /\ at' = [at EXCEPT ![j] = 1]
      /\ UNCHANGED <<schema, issuers, audits, lacking, now, created, open, clock, failures,
                    ended, overlap>>
    BY DEF StartMigration, Restart, Goto, database, history
<1>2. j \in Actors /\ j \notin BootstrapJobs /\ j \notin Services
    BY ActorsAssumption DEF Actors, Jobs
<1>3. TypeOK'
    BY <1>1, <1>2 DEF Inv, TypeOK, Row, Steps
<1>4. ChecksKnow' /\ EntriesExist'
    BY <1>1, <1>2 DEF Inv, TypeOK, ChecksKnow, EntriesExist, Actors, Jobs
<1>5. MigrationsKnow'
    <2> SUFFICES ASSUME NEW i \in MigrateJobs, pc'[i] = "migrating",
                        NEW k \in DOMAIN MigrationOrder, k < at'[i]
                 PROVE  MigrationOrder[k] \in schema
        BY <1>1 DEF MigrationsKnow
    <2>1. CASE i = j
        BY <2>1, <1>1, <1>2, OrderAssumption DEF Inv, TypeOK
    <2>2. CASE i # j
        BY <2>2, <1>1 DEF Inv, TypeOK, MigrationsKnow, Actors, Jobs
    <2> QED
        BY <2>1, <2>2
<1>6. MigratedMeansComplete' /\ ServingMeansReady'
    BY <1>1, <1>2 DEF Inv, TypeOK, MigratedMeansComplete, ServingMeansReady, Usable, Actors, Jobs
<1> QED
    BY <1>3, <1>4, <1>5, <1>6 DEF Inv

LEMMA CreateObjectKeeps ==
    ASSUME Inv, NEW j \in MigrateJobs, CreateObject(j)
    PROVE  Inv'
<1>1. /\ pc[j] = "migrating"
      /\ at[j] \in DOMAIN MigrationOrder
      /\ schema' = schema \cup {MigrationOrder[at[j]]}
      /\ at' = [at EXCEPT ![j] = @ + 1]
      /\ UNCHANGED <<issuers, audits, pc, lacking, now, created, open, clock, failures,
                    ended, overlap>>
    BY OrderAssumption DEF CreateObject, Advance, history, Inv, TypeOK, Actors, Jobs
<1>2. j \in Actors /\ j \notin BootstrapJobs /\ j \notin Services
    BY ActorsAssumption DEF Actors, Jobs
<1>3. schema' \subseteq Objects /\ schema \subseteq schema'
    BY <1>1, OrderAssumption DEF Inv, TypeOK
<1>4. TypeOK'
    BY <1>1, <1>2, <1>3 DEF Inv, TypeOK, Row
<1>5. ChecksKnow'
    BY <1>1, <1>2, <1>3 DEF Inv, TypeOK, ChecksKnow
<1>6. EntriesExist'
    BY <1>1, <1>2 DEF Inv, TypeOK, EntriesExist, Actors, Jobs
<1>7. MigrationsKnow'
    <2> SUFFICES ASSUME NEW i \in MigrateJobs, pc'[i] = "migrating",
                        NEW k \in DOMAIN MigrationOrder, k < at'[i]
                 PROVE  MigrationOrder[k] \in schema'
        BY DEF MigrationsKnow
    <2>1. CASE i = j /\ k = at[j]
        BY <2>1, <1>1
    <2>2. CASE i # j \/ k # at[j]
        <3>1. k < at[i]
            BY <2>2, <1>1, <1>2, OrderAssumption DEF Inv, TypeOK, Actors, Jobs
        <3> QED
            BY <3>1, <1>1, <1>3 DEF Inv, MigrationsKnow
    <2> QED
        BY <2>1, <2>2
<1>8. MigratedMeansComplete' /\ ServingMeansReady'
    BY <1>1, <1>3 DEF Inv, MigratedMeansComplete, ServingMeansReady, Usable
<1> QED
    BY <1>4, <1>5, <1>6, <1>7, <1>8 DEF Inv

LEMMA CreateUnackedKeeps ==
    ASSUME Inv, NEW j \in MigrateJobs, CreateUnacked(j)
    PROVE  Inv'
<1>1. schema' \subseteq Objects /\ schema \subseteq schema'
    BY OrderAssumption DEF CreateUnacked, Inv, TypeOK, Actors, Jobs
<1>2. failures' \in Nat
    BY DEF CreateUnacked, FailureHappens, Inv, TypeOK
<1> QED
    BY <1>1, <1>2, GiveUpKeeps DEF CreateUnacked, Inv, TypeOK, Actors, Jobs

LEMMA EndMigrationKeeps ==
    ASSUME Inv, NEW j \in MigrateJobs, EndMigration(j)
    PROVE  Inv'
<1>1. /\ pc[j] = "migrating"
      /\ at[j] > Len(MigrationOrder)
      /\ pc' = [pc EXCEPT ![j] = "done"]
      /\ UNCHANGED <<schema, issuers, audits, at, lacking, now, created, open, clock, failures,
                    ended, overlap>>
    BY DEF EndMigration, Goto, database, history
<1>2. j \in Actors /\ j \notin BootstrapJobs /\ j \notin Services
    BY ActorsAssumption DEF Actors, Jobs
<1>3. schema = Objects
    <2>1. \A k \in DOMAIN MigrationOrder : k < at[j]
        BY <1>1, <1>2, OrderAssumption DEF Inv, TypeOK
    <2> QED
        BY <2>1, <1>1, MigratedAll DEF Inv, TypeOK, MigrationsKnow
<1>4. TypeOK'
    BY <1>1, <1>2 DEF Inv, TypeOK, Row, Steps
<1>5. ChecksKnow' /\ MigrationsKnow' /\ EntriesExist'
    BY <1>1, <1>2 DEF Inv, TypeOK, ChecksKnow, MigrationsKnow, EntriesExist, Actors, Jobs
<1>6. MigratedMeansComplete' /\ ServingMeansReady'
    BY <1>1, <1>2, <1>3 DEF Inv, TypeOK, MigratedMeansComplete, ServingMeansReady, Usable
<1> QED
    BY <1>4, <1>5, <1>6 DEF Inv

-----------------------------------------------------------------------------
(* The steps of a check, and what follows it.                              *)

LEMMA StartCheckKeeps ==
    ASSUME Inv, NEW a \in BootstrapJobs \cup Services, StartCheck(a)
    PROVE  Inv'
<1>1. /\ pc' = [pc EXCEPT ![a] = "checking"]
      /\ at' = [at EXCEPT ![a] = 1]
      /\ lacking' = [lacking EXCEPT ![a] = FALSE]
      /\ UNCHANGED <<schema, issuers, audits, now, created, open, clock, failures,
                    ended, overlap>>
    BY DEF StartCheck, Restart, Goto, database, history
<1>2. a \in Actors /\ a \notin MigrateJobs
    BY ActorsAssumption DEF Actors, Jobs
<1>3. TypeOK'
    BY <1>1, <1>2 DEF Inv, TypeOK, Row, Steps
<1>4. ChecksKnow'
    <2> SUFFICES ASSUME NEW b \in Actors, pc'[b] = "checking", ~lacking'[b],
                        NEW k \in DOMAIN CheckOrder, k < at'[b]
                 PROVE  CheckOrder[k] \in schema
        BY <1>1 DEF ChecksKnow
    <2>1. CASE b = a
        BY <2>1, <1>1, <1>2, OrderAssumption DEF Inv, TypeOK
    <2>2. CASE b # a
        BY <2>2, <1>1, <1>2 DEF Inv, TypeOK, ChecksKnow
    <2> QED
        BY <2>1, <2>2
<1>5. MigrationsKnow' /\ EntriesExist'
    BY <1>1, <1>2 DEF Inv, TypeOK, MigrationsKnow, EntriesExist, Actors, Jobs
<1>6. MigratedMeansComplete'
    BY <1>1, <1>2 DEF Inv, TypeOK, MigratedMeansComplete, Applying, Actors, Jobs
<1>7. ServingMeansReady'
    BY <1>1, <1>2 DEF Inv, TypeOK, ServingMeansReady, Usable, Actors
<1> QED
    BY <1>3, <1>4, <1>5, <1>6, <1>7 DEF Inv

LEMMA CheckObjectKeeps ==
    ASSUME Inv, NEW a \in BootstrapJobs \cup Services, CheckObject(a)
    PROVE  Inv'
<1>1. /\ pc[a] = "checking"
      /\ at' = [at EXCEPT ![a] = @ + 1]
      /\ lacking' = [lacking EXCEPT ![a] = @ \/ CheckOrder[at[a]] \notin schema]
      /\ UNCHANGED <<schema, issuers, audits, pc, now, created, open, clock, failures,
                    ended, overlap>>
    BY DEF CheckObject, Advance, database, history
<1>2. a \in Actors /\ a \notin MigrateJobs /\ at[a] \in DOMAIN CheckOrder
    BY ActorsAssumption, OrderAssumption DEF CheckObject, Inv, TypeOK, Actors, Jobs
<1>3. lacking' \in [Actors -> BOOLEAN]
    BY <1>1 DEF Inv, TypeOK
<1>4. TypeOK'
    BY <1>1, <1>2, <1>3 DEF Inv, TypeOK, Row
<1>5. ChecksKnow'
    <2> SUFFICES ASSUME NEW b \in Actors, pc'[b] = "checking", ~lacking'[b],
                        NEW k \in DOMAIN CheckOrder, k < at'[b]
                 PROVE  CheckOrder[k] \in schema
        BY <1>1 DEF ChecksKnow
    <2>1. CASE b = a /\ k = at[a]
        BY <2>1, <1>1, <1>2 DEF Inv, TypeOK
    <2>2. CASE b # a \/ k # at[a]
        <3>1. k < at[b]
            BY <2>2, <1>1, <1>2, OrderAssumption DEF Inv, TypeOK
        <3>2. ~lacking[b]
            BY <1>1, <1>2 DEF Inv, TypeOK
        <3> QED
            BY <3>1, <3>2, <1>1 DEF Inv, ChecksKnow
    <2> QED
        BY <2>1, <2>2
<1>6. MigrationsKnow' /\ EntriesExist'
    BY <1>1, <1>2 DEF Inv, TypeOK, MigrationsKnow, EntriesExist, Actors, Jobs
<1>7. MigratedMeansComplete'
    BY <1>1 DEF Inv, MigratedMeansComplete
<1>8. ServingMeansReady'
    <2> SUFFICES ASSUME NEW s \in Services, open[s]
                 PROVE  Usable /\ ~lacking'[s]
        BY <1>1 DEF ServingMeansReady, Usable
    <2>1. Usable /\ ~lacking[s]
        BY DEF Inv, ServingMeansReady
    <2>2. CheckOrder[at[a]] \in Objects
        BY <1>2, OrderAssumption
    <2> QED
        BY <2>1, <2>2, <1>1, <1>2 DEF Inv, TypeOK, Usable, Actors
<1> QED
    BY <1>4, <1>5, <1>6, <1>7, <1>8 DEF Inv

LEMMA RefusalsKeep ==
    ASSUME Inv, NEW a \in Actors, GiveUp(a), UNCHANGED database, UNCHANGED failures
    PROVE  Inv'
BY GiveUpKeeps DEF database, Inv, TypeOK

LEMMA CountIssuersKeeps ==
    ASSUME Inv, NEW s \in Services, CountIssuers(s)
    PROVE  Inv'
<1>1. /\ pc' = [pc EXCEPT ![s] = "serving"]
      /\ open' = [open EXCEPT ![s] = TRUE]
      /\ UNCHANGED <<schema, issuers, audits, at, lacking, now, created, clock, failures,
                    ended, overlap>>
    BY DEF CountIssuers, Goto, database, history
<1>2. s \in Actors /\ s \notin Jobs
    BY ActorsAssumption DEF Actors
<1>3. Usable /\ ~lacking[s]
    BY <1>2, SchemaCheckedMeansComplete DEF CountIssuers, SchemaChecked, Usable
<1>4. TypeOK'
    BY <1>1, <1>2 DEF Inv, TypeOK, Row, Steps
<1>5. ChecksKnow' /\ MigrationsKnow' /\ EntriesExist'
    BY <1>1, <1>2 DEF Inv, TypeOK, ChecksKnow, MigrationsKnow, EntriesExist, Actors, Jobs
<1>6. MigratedMeansComplete'
    BY <1>1, <1>2 DEF Inv, TypeOK, MigratedMeansComplete, Actors, Jobs
<1>7. ServingMeansReady'
    BY <1>1, <1>3 DEF Inv, TypeOK, ServingMeansReady, Usable
<1> QED
    BY <1>4, <1>5, <1>6, <1>7 DEF Inv

-----------------------------------------------------------------------------
(* The steps of a bootstrap.                                               *)

LEMMA BeginApplyKeeps ==
    ASSUME Inv, NEW j \in BootstrapJobs, BeginApply(j)
    PROVE  Inv'
<1>1. /\ clock' = clock + 1
      /\ now' = [now EXCEPT ![j] = clock']
      /\ pc' = [pc EXCEPT ![j] = "loading"]
      /\ at' = [at EXCEPT ![j] = 1]
      /\ ended' = [ended EXCEPT ![clock'] = "under_way"]
      /\ UNCHANGED <<schema, issuers, audits, lacking, created, open, failures>>
    BY DEF BeginApply, Restart, Goto, database
<1>2. j \in Actors /\ j \notin MigrateJobs /\ j \notin Services
    BY ActorsAssumption DEF Actors, Jobs
<1>3. schema = Objects
    BY <1>2, SchemaCheckedMeansComplete DEF BeginApply
<1>4. clock' \in Times
    BY <1>1, BoundsAssumption DEF BeginApply, Inv, TypeOK, Times
<1>5. overlap' \in [Times -> SUBSET Times]
    <2>1. UnderWay \subseteq Times
        BY DEF UnderWay, Inv, TypeOK
    <2>2. \A n \in Times : overlap[n] \subseteq Times
        BY DEF Inv, TypeOK
    <2> DEFINE next(n) == CASE n = clock' -> UnderWay
                            [] n \in UnderWay -> overlap[n] \cup {clock'}
                            [] OTHER -> overlap[n]
    <2>3. \A n \in Times : next(n) \subseteq Times
        BY <2>1, <2>2, <1>4, Zenon
    <2>4. overlap' = [n \in Times |-> next(n)]
        BY DEF BeginApply
    <2> HIDE DEF next
    <2> QED
        BY <2>3, <2>4
<1>6. TypeOK'
    <2>1. ended' \in [Times -> {"none", "under_way", "done", "failed", "crashed"}]
        BY <1>1, <1>4 DEF Inv, TypeOK
    <2>2. now' \in [BootstrapJobs -> Times]
        BY <1>1, <1>4 DEF Inv, TypeOK
    <2>3. pc' \in [Actors -> Steps] /\ at' \in [Actors -> Nat \ {0}]
        BY <1>1, <1>2 DEF Inv, TypeOK, Steps
    <2> QED
        BY <2>1, <2>2, <2>3, <1>1, <1>4, <1>5 DEF Inv, TypeOK, Row
<1>7. ChecksKnow' /\ MigrationsKnow' /\ EntriesExist'
    BY <1>1, <1>2 DEF Inv, TypeOK, ChecksKnow, MigrationsKnow, EntriesExist, Actors, Jobs
<1>8. MigratedMeansComplete' /\ ServingMeansReady'
    BY <1>1, <1>2, <1>3 DEF Inv, TypeOK, MigratedMeansComplete, ServingMeansReady, Usable
<1> QED
    BY <1>6, <1>7, <1>8 DEF Inv

LEMMA LoadIssuerKeeps ==
    ASSUME Inv, NEW j \in BootstrapJobs, LoadIssuer(j)
    PROVE  Inv'
<1>1. /\ pc[j] = "loading"
      /\ pc' = [pc EXCEPT ![j] = "upserting"]
      /\ UNCHANGED <<schema, issuers, audits, at, lacking, now, open, clock, failures,
                    ended, overlap>>
    BY DEF LoadIssuer, Goto, database, history
<1>2. j \in Actors /\ j \notin MigrateJobs /\ j \notin Services
    BY ActorsAssumption DEF Actors, Jobs
<1>3. at[j] \in DOMAIN Document[j]
    BY <1>2, DocumentAssumption DEF LoadIssuer, Inv, TypeOK
<1>4. created' \in [BootstrapJobs -> Times]
    BY DEF LoadIssuer, Inv, TypeOK, Row
<1>5. TypeOK'
    BY <1>1, <1>2, <1>4 DEF Inv, TypeOK, Row, Steps
<1>6. ChecksKnow' /\ MigrationsKnow' /\ EntriesExist'
    BY <1>1, <1>2, <1>3 DEF Inv, TypeOK, ChecksKnow, MigrationsKnow, EntriesExist, Actors, Jobs
<1>7. MigratedMeansComplete' /\ ServingMeansReady'
    BY <1>1, <1>2 DEF Inv, TypeOK, MigratedMeansComplete, ServingMeansReady, Usable, Applying, Actors, Jobs
<1> QED
    BY <1>5, <1>6, <1>7 DEF Inv

\* What an upsert leaves is a table of issuers.
LEMMA UpsertType ==
    ASSUME Inv, NEW j \in BootstrapJobs, pc[j] = "upserting", UpsertIssuer(j)
    PROVE  /\ DOMAIN issuers' \subseteq Issuers
           /\ DOMAIN issuers \subseteq DOMAIN issuers'
           /\ \A i \in DOMAIN issuers' : issuers'[i] \in Row
<1>1. Entry(j).issuer \in Issuers /\ Entry(j).content \in Contents
    BY EntryType DEF Inv, EntriesExist
<1>2. now[j] \in Times /\ created[j] \in Times
    BY DEF Inv, TypeOK
<1>3. DOMAIN issuers \subseteq Issuers /\ \A i \in DOMAIN issuers : issuers[i] \in Row
    BY DEF Inv, TypeOK
<1> QED
    BY <1>1, <1>2, <1>3 DEF UpsertIssuer, Row

LEMMA UpsertKeeps ==
    ASSUME Inv, NEW j \in BootstrapJobs, Upsert(j)
    PROVE  Inv'
<1>1. /\ pc[j] = "upserting"
      /\ UpsertIssuer(j)
      /\ pc' = [pc EXCEPT ![j] = "auditing"]
      /\ UNCHANGED <<schema, audits, at, lacking, now, created, open, clock, failures,
                    ended, overlap>>
    BY DEF Upsert, Goto, history
<1>2. j \in Actors /\ j \notin MigrateJobs /\ j \notin Services
    BY ActorsAssumption DEF Actors, Jobs
<1>3. /\ DOMAIN issuers' \subseteq Issuers
      /\ DOMAIN issuers \subseteq DOMAIN issuers'
      /\ \A i \in DOMAIN issuers' : issuers'[i] \in Row
    BY <1>1, UpsertType
<1>4. TypeOK'
    <2>1. pc' \in [Actors -> Steps]
        BY <1>1, <1>2 DEF Inv, TypeOK, Steps
    <2> QED
        BY <2>1, <1>1, <1>3 DEF Inv, TypeOK, Row
<1>5. ChecksKnow' /\ MigrationsKnow' /\ EntriesExist'
    BY <1>1, <1>2 DEF Inv, TypeOK, ChecksKnow, MigrationsKnow, EntriesExist, Actors, Jobs
<1>6. MigratedMeansComplete' /\ ServingMeansReady'
    BY <1>1, <1>2, <1>3 DEF Inv, TypeOK, MigratedMeansComplete, ServingMeansReady, Usable, Applying, Actors, Jobs
<1> QED
    BY <1>4, <1>5, <1>6 DEF Inv

LEMMA UpsertUnackedKeeps ==
    ASSUME Inv, NEW j \in BootstrapJobs, UpsertUnacked(j)
    PROVE  Inv'
<1>1. failures' \in Nat
    BY DEF UpsertUnacked, FailureHappens, Inv, TypeOK
<1> QED
    BY <1>1, UpsertType, GiveUpKeeps DEF UpsertUnacked, Inv, TypeOK, Actors, Jobs

LEMMA AuditKeeps ==
    ASSUME Inv, NEW j \in BootstrapJobs, Audit(j)
    PROVE  Inv'
<1>1. /\ pc[j] = "auditing"
      /\ audits' = audits \cup {<<j, at[j], now[j]>>}
      /\ at' = [at EXCEPT ![j] = @ + 1]
      /\ pc' = [pc EXCEPT ![j] = "loading"]
      /\ UNCHANGED <<schema, issuers, lacking, now, created, open, clock, failures,
                    ended, overlap>>
    BY DEF Audit, Advance, Goto, history
<1>2. j \in Actors /\ j \notin MigrateJobs /\ j \notin Services
    BY ActorsAssumption DEF Actors, Jobs
<1>3. TypeOK'
    BY <1>1, <1>2 DEF Inv, TypeOK, Row, Steps
<1>4. ChecksKnow' /\ MigrationsKnow' /\ EntriesExist'
    BY <1>1, <1>2 DEF Inv, TypeOK, ChecksKnow, MigrationsKnow, EntriesExist, Actors, Jobs
<1>5. MigratedMeansComplete' /\ ServingMeansReady'
    BY <1>1, <1>2 DEF Inv, TypeOK, MigratedMeansComplete, ServingMeansReady, Usable, Applying, Actors, Jobs
<1> QED
    BY <1>3, <1>4, <1>5 DEF Inv

LEMMA AuditUnackedKeeps ==
    ASSUME Inv, NEW j \in BootstrapJobs, AuditUnacked(j)
    PROVE  Inv'
<1>1. failures' \in Nat
    BY DEF AuditUnacked, FailureHappens, Inv, TypeOK
<1>2. audits' \subseteq BootstrapJobs \X Nat \X Times
    BY DEF AuditUnacked, Inv, TypeOK, Actors, Jobs
<1> QED
    BY <1>1, <1>2, GiveUpKeeps DEF AuditUnacked, Inv, TypeOK, Actors, Jobs

LEMMA EndBootstrapKeeps ==
    ASSUME Inv, NEW j \in BootstrapJobs, EndBootstrap(j)
    PROVE  Inv'
<1>1. /\ pc[j] = "loading"
      /\ pc' = [pc EXCEPT ![j] = "done"]
      /\ UNCHANGED <<schema, issuers, audits, at, lacking, now, created, open, clock, failures,
                    overlap>>
    BY DEF EndBootstrap, Goto, database
<1>2. j \in Actors /\ j \notin MigrateJobs /\ j \notin Services
    BY ActorsAssumption DEF Actors, Jobs
<1>3. ended' \in [Times -> {"none", "under_way", "done", "failed", "crashed"}]
    BY <1>2, EndRunType DEF EndBootstrap, Inv
<1>4. TypeOK'
    BY <1>1, <1>2, <1>3 DEF Inv, TypeOK, Row, Steps
<1>5. ChecksKnow' /\ MigrationsKnow' /\ EntriesExist'
    BY <1>1, <1>2 DEF Inv, TypeOK, ChecksKnow, MigrationsKnow, EntriesExist, Actors, Jobs
<1>6. MigratedMeansComplete' /\ ServingMeansReady'
    BY <1>1, <1>2 DEF Inv, TypeOK, MigratedMeansComplete, ServingMeansReady, Usable, Applying, Actors, Jobs
<1> QED
    BY <1>4, <1>5, <1>6 DEF Inv

-----------------------------------------------------------------------------
LEMMA NextInv == Inv /\ [Next]_vars => Inv'
<1> SUFFICES ASSUME Inv, [Next]_vars PROVE Inv'
    OBVIOUS
<1>1. ASSUME NEW j \in MigrateJobs, StartMigration(j) \/ Migration(j) \/ CreateUnacked(j)
      PROVE  Inv'
    BY <1>1, StartMigrationKeeps, CreateObjectKeeps, EndMigrationKeeps, CreateUnackedKeeps
       DEF Migration
<1>2. ASSUME NEW a \in BootstrapJobs \cup Services, StartCheck(a) \/ Checks(a)
      PROVE  Inv'
    BY <1>2, StartCheckKeeps, CheckObjectKeeps, RefusalsKeep
       DEF Checks, RefuseSchema, Actors, Jobs
<1>3. ASSUME NEW j \in BootstrapJobs, Bootstrap(j) \/ UpsertUnacked(j) \/ AuditUnacked(j)
      PROVE  Inv'
    <2>1. RefuseEntry(j) => Inv'
        BY RefusalsKeep DEF RefuseEntry, Actors, Jobs
    <2> QED
        BY <1>2, <1>3, <2>1, BeginApplyKeeps, LoadIssuerKeeps, UpsertKeeps, AuditKeeps,
           EndBootstrapKeeps, UpsertUnackedKeeps, AuditUnackedKeeps DEF Bootstrap
<1>4. ASSUME NEW s \in Services, Service(s)
      PROVE  Inv'
    <2>1. RefuseBootstrap(s) => Inv'
        BY RefusalsKeep DEF RefuseBootstrap, Actors
    <2> QED
        BY <1>2, <1>4, <2>1, CountIssuersKeeps DEF Service
<1>5. ASSUME UNCHANGED vars
      PROVE  Inv'
    BY <1>5 DEF vars, database, history, Inv, TypeOK, Row, ChecksKnow, MigrationsKnow,
       EntriesExist, MigratedMeansComplete, ServingMeansReady, Usable
<1> QED
    BY <1>1, <1>2, <1>3, <1>4, <1>5, StatementFailsKeeps, CrashKeeps DEF Next

LEMMA Inductive == Spec => []Inv
<1> QED
    BY InitInv, NextInv, PTL DEF Spec

\* Every variable of the life cycle keeps its type.
THEOREM LifecycleTypeCorrect == Spec => []TypeOK
<1>1. Inv => TypeOK
    BY DEF Inv
<1> QED
    BY <1>1, Inductive, PTL

\* A service accepts requests only once migrate and bootstrap have left it a
\* complete schema and an issuer, whatever ran or failed meanwhile.
THEOREM ServingIsReady == Spec => []ServingMeansReady
<1>1. Inv => ServingMeansReady
    BY DEF Inv
<1> QED
    BY <1>1, Inductive, PTL

\* A migration that reported success left the whole schema, and no bootstrap
\* touches a table before it is there.
THEOREM MigratedIsComplete == Spec => []MigratedMeansComplete
<1>1. Inv => MigratedMeansComplete
    BY DEF Inv
<1> QED
    BY <1>1, Inductive, PTL

-----------------------------------------------------------------------------
(* What bootstraps leave                                                   *)

Begun == Applying \cup {"done"}

\* No time is ahead of the clock.
PastOnly ==
    /\ \A j \in BootstrapJobs : now[j] <= clock
    /\ \A i \in DOMAIN issuers : issuers[i].updated <= clock

\* Two bootstraps share no time, and one that was there before another began,
\* or is there together with it, is remembered by the other.
Meet ==
    \A i, j \in BootstrapJobs :
        i # j /\ pc[i] \in Applying =>
            /\ pc[j] \in Applying => overlap[now[j]] # {}
            /\ pc[j] \in Begun =>
                /\ now[i] # now[j]
                /\ now[i] < now[j] => overlap[now[j]] # {}

\* A run is under way as long as its job is at it.
RunsUnderWay == \A j \in BootstrapJobs : pc[j] \in Applying => ended[now[j]] = "under_way"

\* A job has audited every entry it has left behind, and stored the one it is
\* about to audit.
AuditsFollow ==
    /\ \A j \in BootstrapJobs :
        pc[j] \in Applying => \A l \in 1..(at[j] - 1) : <<j, l, now[j]>> \in audits
    /\ \A j \in BootstrapJobs : pc[j] = "auditing" => Entry(j).issuer \in DOMAIN issuers

\* The creation time a job will write is still the one that is stored.
TimeAtHand ==
    \A j \in BootstrapJobs :
        /\ pc[j] = "upserting"
        /\ overlap[now[j]] = {}
        /\ Entry(j).issuer \in DOMAIN issuers
        => created[j] = issuers[Entry(j).issuer].created

\* The entries of its document that j has stored.
StoredBy(j) ==
    {k \in DOMAIN Document[j] : k < at[j] \/ (k = at[j] /\ pc[j] = "auditing")}

\* Entry k of j is in force, as far as j has come: its row is newer, or it is
\* j's and, if no later entry has decided it, holds k's content.
InForce(j, k) ==
    LET entry == Document[j][k]
    IN  /\ entry.issuer \in DOMAIN issuers
        /\ \/ issuers[entry.issuer].updated > now[j]
           \/ /\ issuers[entry.issuer].updated = now[j]
              /\ (\A l \in StoredBy(j) : l > k => Document[j][l].issuer # entry.issuer)
                    => issuers[entry.issuer].content = entry.content

StoredIsInForce ==
    \A j \in BootstrapJobs :
        pc[j] \in Begun /\ overlap[now[j]] = {} => \A k \in StoredBy(j) : InForce(j, k)

\* A job that is done has stored its whole document.
DoneIsWhole ==
    \A j \in BootstrapJobs : pc[j] = "done" => \A k \in DOMAIN Document[j] : k < at[j]

History == PastOnly /\ Meet /\ RunsUnderWay
Progress == AuditsFollow /\ TimeAtHand /\ StoredIsInForce /\ DoneIsWhole
BInv == History /\ Progress /\ BrokenRunsLeaveAPrefix /\ TrustChangesAreAudited

-----------------------------------------------------------------------------
LEMMA InitBInv == Init => BInv
<1> SUFFICES ASSUME Init PROVE BInv
    OBVIOUS
<1>1. \A j \in BootstrapJobs : pc[j] = "idle"
    BY DEF Init, Actors, Jobs
<1>2. DOMAIN issuers = {} /\ audits = {}
    BY DEF Init
<1>3. PastOnly
    BY <1>2 DEF Init, PastOnly
<1>4. Meet /\ RunsUnderWay /\ Progress
    BY <1>1 DEF Meet, RunsUnderWay, Progress, AuditsFollow, TimeAtHand, StoredIsInForce,
       DoneIsWhole, Applying, Begun
<1>5. BrokenRunsLeaveAPrefix /\ TrustChangesAreAudited
    BY <1>2 DEF BrokenRunsLeaveAPrefix, TrustChangesAreAudited
<1> QED
    BY <1>3, <1>4, <1>5 DEF BInv, History

\* What no bootstrap that is at its document takes part in leaves everything
\* that is said of bootstraps.
LEMMA Frame ==
    ASSUME BInv, UNCHANGED <<issuers, audits, now, created, clock, ended, overlap>>,
           \A j \in BootstrapJobs :
               \/ pc'[j] = pc[j] /\ at'[j] = at[j]
               \/ pc[j] \notin Applying /\ pc'[j] \notin Begun
    PROVE  BInv'
<1>1. \A j \in BootstrapJobs : pc'[j] \in Begun => pc'[j] = pc[j] /\ at'[j] = at[j]
    OBVIOUS
<1>2. \A j \in BootstrapJobs : pc[j] \in Applying => pc'[j] = pc[j] /\ at'[j] = at[j]
    OBVIOUS
<1>3. \A j \in BootstrapJobs : pc'[j] \in Applying => pc'[j] = pc[j] /\ at'[j] = at[j]
    BY <1>1 DEF Begun
<1>4. PastOnly' /\ RunsUnderWay'
    BY <1>3 DEF BInv, History, PastOnly, RunsUnderWay
<1>5. Meet'
    BY <1>1, <1>3 DEF BInv, History, Meet
<1>6. AuditsFollow' /\ TimeAtHand'
    BY <1>3 DEF BInv, Progress, AuditsFollow, TimeAtHand, Entry, Applying
<1>7. StoredIsInForce' /\ DoneIsWhole'
    <2>1. \A j \in BootstrapJobs : pc'[j] \in Begun => StoredBy(j)' = StoredBy(j)
        BY <1>1 DEF StoredBy
    <2> QED
        BY <1>1, <2>1 DEF BInv, Progress, StoredIsInForce, DoneIsWhole, InForce, Begun
<1>8. BrokenRunsLeaveAPrefix'
    BY DEF BInv, BrokenRunsLeaveAPrefix
<1>9. TrustChangesAreAudited'
    BY <1>2 DEF BInv, TrustChangesAreAudited, Applying
<1> QED
    BY <1>4, <1>5, <1>6, <1>7, <1>8, <1>9 DEF BInv, History, Progress

-----------------------------------------------------------------------------
(* The steps of a bootstrap.                                               *)

\* A new bootstrap is remembered by those under way, and remembers them.
LEMMA BeginOverlap ==
    ASSUME Inv, BInv, NEW j \in BootstrapJobs, BeginApply(j)
    PROVE  /\ clock' = clock + 1 /\ clock' \in Times
           /\ overlap'[clock'] = UnderWay
           /\ \A n \in UnderWay : overlap'[n] # {}
           /\ \A n \in Times : n <= clock /\ overlap'[n] = {} => overlap[n] = {}
<1>1. clock' = clock + 1 /\ clock' \in Times
    BY BoundsAssumption DEF BeginApply, Inv, TypeOK, Times
<1> DEFINE next(n) == CASE n = clock' -> UnderWay
                        [] n \in UnderWay -> overlap[n] \cup {clock'}
                        [] OTHER -> overlap[n]
<1>2. overlap' = [n \in Times |-> next(n)]
    BY DEF BeginApply
<1>3. UnderWay \subseteq Times /\ \A n \in UnderWay : n <= clock
    BY DEF UnderWay, Inv, TypeOK, BInv, History, PastOnly
<1>4. \A n \in Times : n <= clock => n # clock'
    BY <1>1, BoundsAssumption DEF Inv, TypeOK, Times
<1>5. next(clock') = UnderWay
    BY <1>3, <1>4, Zenon
<1>6. \A n \in UnderWay : next(n) = overlap[n] \cup {clock'}
    BY <1>3, <1>4, Zenon
<1>7. \A n \in Times : n <= clock /\ n \notin UnderWay => next(n) = overlap[n]
    BY <1>4, Zenon
<1> HIDE DEF next
<1>8. \A n \in UnderWay : overlap'[n] # {}
    BY <1>2, <1>3, <1>6
<1>9. \A n \in Times : n <= clock /\ overlap'[n] = {} => overlap[n] = {}
    BY <1>2, <1>7, <1>8
<1> QED
    BY <1>1, <1>2, <1>5, <1>8, <1>9

LEMMA BeginApplyKeepsB ==
    ASSUME Inv, BInv, NEW j \in BootstrapJobs, BeginApply(j)
    PROVE  BInv'
<1>1. /\ pc[j] = "checking"
      /\ pc' = [pc EXCEPT ![j] = "loading"]
      /\ at' = [at EXCEPT ![j] = 1]
      /\ now' = [now EXCEPT ![j] = clock']
      /\ ended' = [ended EXCEPT ![clock'] = "under_way"]
      /\ UNCHANGED <<issuers, audits, created>>
    BY DEF BeginApply, SchemaChecked, Restart, Goto, database
<1>2. /\ clock' = clock + 1 /\ clock' \in Times /\ clock \in Nat
      /\ overlap'[clock'] = UnderWay
      /\ \A n \in UnderWay : overlap'[n] # {}
      /\ \A n \in Times : n <= clock /\ overlap'[n] = {} => overlap[n] = {}
    <2>1. clock \in Nat
        BY DEF Inv, TypeOK, Times
    <2> QED
        BY <2>1, BeginOverlap
<1>3. /\ pc'[j] = "loading" /\ at'[j] = 1 /\ now'[j] = clock'
      /\ \A i \in BootstrapJobs \ {j} :
            pc'[i] = pc[i] /\ at'[i] = at[i] /\ now'[i] = now[i]
    BY <1>1 DEF Inv, TypeOK, Actors, Jobs
<1>4. \A i \in BootstrapJobs : now[i] \in Times /\ now[i] \in Nat /\ now[i] <= clock
    BY DEF Inv, TypeOK, Times, BInv, History, PastOnly
<1>5. \A i \in DOMAIN issuers :
        issuers[i].updated \in Times /\ issuers[i].updated \in Nat /\ issuers[i].updated <= clock
    BY DEF Inv, TypeOK, Row, Times, BInv, History, PastOnly
<1>6. \A n \in Times : n <= clock => ended'[n] = ended[n]
    BY <1>1, <1>2, BoundsAssumption DEF Inv, TypeOK, Times
<1>7. PastOnly'
    BY <1>1, <1>2, <1>3, <1>4, <1>5 DEF PastOnly
<1>8. \A i \in BootstrapJobs : pc[i] \in Applying => now[i] \in UnderWay
    BY DEF UnderWay
<1>9. Meet'
    <2> SUFFICES ASSUME NEW i \in BootstrapJobs, NEW k \in BootstrapJobs,
                        i # k, pc'[i] \in Applying
                 PROVE  /\ pc'[k] \in Applying => overlap'[now'[k]] # {}
                        /\ pc'[k] \in Begun =>
                            /\ now'[i] # now'[k]
                            /\ now'[i] < now'[k] => overlap'[now'[k]] # {}
        BY DEF Meet
    <2>1. CASE i = j
        <3>1. now'[k] = now[k] /\ now[k] \in Nat /\ now[k] <= clock /\ now'[i] = clock + 1
            BY <2>1, <1>2, <1>3, <1>4
        <3>2. pc'[k] \in Applying => overlap'[now'[k]] # {}
            BY <2>1, <1>2, <1>3, <1>8
        <3> QED
            BY <3>1, <3>2, <1>2
    <2>2. CASE k = j
        <3>1. now'[i] = now[i] /\ now[i] \in Nat /\ now[i] <= clock /\ now'[k] = clock + 1
            BY <2>2, <1>2, <1>3, <1>4
        <3>2. overlap'[now'[k]] # {}
            BY <2>2, <1>2, <1>3, <1>8
        <3> QED
            BY <3>1, <3>2, <1>2
    <2>3. CASE i # j /\ k # j
        BY <2>3, <1>2, <1>3, <1>4 DEF BInv, History, Meet
    <2> QED
        BY <2>1, <2>2, <2>3
<1>10. RunsUnderWay'
    <2> SUFFICES ASSUME NEW i \in BootstrapJobs, pc'[i] \in Applying
                 PROVE  ended'[now'[i]] = "under_way"
        BY DEF RunsUnderWay
    <2>1. CASE i = j
        BY <2>1, <1>1, <1>2, <1>3 DEF Inv, TypeOK
    <2>2. CASE i # j
        BY <2>2, <1>3, <1>4, <1>6 DEF BInv, History, RunsUnderWay
    <2> QED
        BY <2>1, <2>2
<1>11. AuditsFollow' /\ TimeAtHand' /\ DoneIsWhole'
    BY <1>1, <1>2, <1>3, <1>4 DEF BInv, Progress, AuditsFollow, TimeAtHand, DoneIsWhole, Entry
<1>12. StoredIsInForce'
    <2> SUFFICES ASSUME NEW i \in BootstrapJobs, pc'[i] \in Begun, overlap'[now'[i]] = {},
                        NEW k \in StoredBy(i)'
                 PROVE  InForce(i, k)'
        BY DEF StoredIsInForce
    <2>1. CASE i = j
        <3>1. k \in DOMAIN Document[j] /\ k < 1
            BY <2>1, <1>3, DocumentAssumption DEF StoredBy
        <3> QED
            BY <3>1, DocumentAssumption
    <2>2. CASE i # j
        <3>1. StoredBy(i)' = StoredBy(i)
            BY <2>2, <1>3 DEF StoredBy
        <3>2. InForce(i, k)
            BY <2>2, <3>1, <1>2, <1>3, <1>4 DEF BInv, Progress, StoredIsInForce
        <3> QED
            BY <2>2, <3>1, <3>2, <1>1, <1>3 DEF InForce
    <2> QED
        BY <2>1, <2>2
<1>13. BrokenRunsLeaveAPrefix'
    BY <1>1 DEF BInv, BrokenRunsLeaveAPrefix
<1>14. TrustChangesAreAudited'
    BY <1>1, <1>3, <1>5, <1>6 DEF BInv, TrustChangesAreAudited
<1> QED
    BY <1>7, <1>9, <1>10, <1>11, <1>12, <1>13, <1>14 DEF BInv, History, Progress

LEMMA LoadIssuerKeepsB ==
    ASSUME Inv, BInv, NEW j \in BootstrapJobs, LoadIssuer(j)
    PROVE  BInv'
<1>1. /\ pc[j] = "loading"
      /\ pc' = [pc EXCEPT ![j] = "upserting"]
      /\ created' = [created EXCEPT ![j] = IF Entry(j).issuer \in DOMAIN issuers
                                           THEN issuers[Entry(j).issuer].created ELSE now[j]]
      /\ UNCHANGED <<issuers, audits, at, now, clock, ended, overlap>>
    BY DEF LoadIssuer, Goto, database, history
<1>2. /\ pc'[j] = "upserting"
      /\ \A i \in BootstrapJobs \ {j} : pc'[i] = pc[i] /\ created'[i] = created[i]
      /\ Entry(j).issuer \in DOMAIN issuers => created'[j] = issuers[Entry(j).issuer].created
    BY <1>1 DEF Inv, TypeOK, Actors, Jobs
<1>3. \A i \in BootstrapJobs : (pc'[i] \in Applying <=> pc[i] \in Applying)
                               /\ (pc'[i] \in Begun <=> pc[i] \in Begun)
    BY <1>1, <1>2 DEF Applying, Begun
<1>4. PastOnly' /\ Meet' /\ RunsUnderWay'
    BY <1>1, <1>3 DEF BInv, History, PastOnly, Meet, RunsUnderWay
<1>5. AuditsFollow' /\ DoneIsWhole'
    BY <1>1, <1>2, <1>3 DEF BInv, Progress, AuditsFollow, DoneIsWhole, Entry
<1>6. TimeAtHand'
    BY <1>1, <1>2 DEF BInv, Progress, TimeAtHand, Entry
<1>7. StoredIsInForce'
    <2>1. \A i \in BootstrapJobs : StoredBy(i)' = StoredBy(i)
        BY <1>1, <1>2 DEF StoredBy
    <2> QED
        BY <1>1, <1>3, <2>1 DEF BInv, Progress, StoredIsInForce, InForce
<1>8. BrokenRunsLeaveAPrefix'
    BY <1>1 DEF BInv, BrokenRunsLeaveAPrefix
<1>9. TrustChangesAreAudited'
    BY <1>1, <1>2 DEF BInv, TrustChangesAreAudited
<1> QED
    BY <1>4, <1>5, <1>6, <1>7, <1>8, <1>9 DEF BInv, History, Progress

\* The upsert, whether the job hears of it and goes on or gives up.
LEMMA UpsertStep ==
    ASSUME Inv, BInv, NEW j \in BootstrapJobs, pc[j] = "upserting", UpsertIssuer(j),
           UNCHANGED <<audits, at, now, created, clock, overlap>>,
           NEW next \in {"auditing", "failed"}, pc' = [pc EXCEPT ![j] = next],
           ended' = IF next = "failed" THEN [ended EXCEPT ![now[j]] = "failed"] ELSE ended
    PROVE  BInv'
<1> DEFINE id == Entry(j).issuer
<1>1. /\ DOMAIN issuers' = DOMAIN issuers \cup {id}
      /\ issuers'[id].updated = now[j] /\ issuers'[id].content = Entry(j).content
      /\ \A i \in DOMAIN issuers \ {id} : issuers'[i] = issuers[i]
    BY DEF UpsertIssuer
<1>2. pc'[j] = next /\ \A i \in BootstrapJobs \ {j} : pc'[i] = pc[i]
    BY DEF Inv, TypeOK, Actors, Jobs
<1>3. /\ pc[j] \in Applying /\ pc[j] \in Begun
      /\ \A i \in BootstrapJobs : pc'[i] \in Applying => pc[i] \in Applying
      /\ \A i \in BootstrapJobs : pc'[i] \in Begun => pc[i] \in Begun
    BY <1>2 DEF Applying, Begun
<1>4. \A i \in BootstrapJobs : now[i] \in Times /\ now[i] \in Nat
    BY DEF Inv, TypeOK, Times
<1>5. at[j] \in DOMAIN Document[j]
    BY DEF Inv, EntriesExist
<1> HIDE DEF id
<1>6. PastOnly'
    BY <1>1 DEF BInv, History, PastOnly
<1>7. Meet'
    BY <1>3 DEF BInv, History, Meet
<1>8. \A n \in Times : n # now[j] => ended'[n] = ended[n]
    BY DEF Inv, TypeOK
<1>9. RunsUnderWay'
    <2> SUFFICES ASSUME NEW i \in BootstrapJobs, pc'[i] \in Applying
                 PROVE  ended'[now[i]] = "under_way"
        BY DEF RunsUnderWay
    <2>1. CASE i = j
        BY <2>1, <1>2, <1>3 DEF Applying, BInv, History, RunsUnderWay
    <2>2. CASE i # j
        BY <2>2, <1>3, <1>4, <1>8 DEF BInv, History, RunsUnderWay, Meet
    <2> QED
        BY <2>1, <2>2
<1>10. AuditsFollow'
    <2>1. \A i \in BootstrapJobs : Entry(i)' = Entry(i)
        BY DEF Entry
    <2> QED
        BY <2>1, <1>1, <1>2, <1>3 DEF BInv, Progress, AuditsFollow, id
<1>11. TimeAtHand'
    <2>1. \A i \in BootstrapJobs : pc'[i] = "upserting" => i # j /\ pc[i] \in Applying
        BY <1>2, <1>3 DEF Applying
    <2> QED
        BY <2>1, <1>3 DEF TimeAtHand, BInv, History, Meet
<1>12. DoneIsWhole'
    BY <1>2 DEF BInv, Progress, DoneIsWhole
<1>13. StoredIsInForce'
    <2> SUFFICES ASSUME NEW i \in BootstrapJobs, pc'[i] \in Begun, overlap[now[i]] = {},
                        NEW k \in StoredBy(i)'
                 PROVE  InForce(i, k)'
        BY DEF StoredIsInForce
    <2>0. Document[i][k].issuer # id =>
            issuers'[Document[i][k].issuer] = issuers[Document[i][k].issuer]
            \/ Document[i][k].issuer \notin DOMAIN issuers
        BY <1>1
    <2>1. CASE i = j /\ k = at[j]
        BY <2>1, <1>1 DEF InForce, Entry, id
    <2>2. CASE i = j /\ k # at[j]
        <3>1. k \in StoredBy(j) /\ StoredBy(j) \subseteq StoredBy(j)'
            BY <2>2, <1>2 DEF StoredBy
        <3>2. InForce(j, k)
            BY <2>2, <3>1, <1>3 DEF BInv, Progress, StoredIsInForce
        <3>3. CASE Document[j][k].issuer = id
            <4>1. next = "auditing"
                BY <2>2, <1>2 DEF Begun, Applying
            <4>2. at[j] \in StoredBy(j)'
                BY <4>1, <1>2, <1>5 DEF StoredBy
            <4>3. k \in Nat /\ at[j] \in Nat /\ k < at[j]
                BY <3>1, <2>2, <1>5, DocumentAssumption DEF StoredBy
            <4> QED
                BY <2>2, <3>3, <4>2, <4>3, <1>1 DEF InForce, Entry, id
        <3>4. CASE Document[j][k].issuer # id
            BY <2>2, <3>1, <3>2, <3>4, <2>0, <1>1 DEF InForce
        <3> QED
            BY <3>3, <3>4
    <2>3. CASE i # j
        <3>1. StoredBy(i)' = StoredBy(i)
            BY <2>3, <1>2 DEF StoredBy
        <3>2. InForce(i, k)
            BY <2>3, <3>1, <1>3 DEF BInv, Progress, StoredIsInForce
        <3>3. now[j] > now[i]
            BY <2>3, <1>3, <1>4 DEF BInv, History, Meet
        <3>4. CASE Document[i][k].issuer = id
            BY <3>3, <3>4, <1>1 DEF InForce
        <3>5. CASE Document[i][k].issuer # id
            BY <3>1, <3>2, <3>5, <2>0, <1>1 DEF InForce
        <3> QED
            BY <3>4, <3>5
    <2> QED
        BY <2>1, <2>2, <2>3
<1>14. BrokenRunsLeaveAPrefix'
    BY <1>1 DEF BInv, BrokenRunsLeaveAPrefix
<1>15. TrustChangesAreAudited'
    <2> SUFFICES ASSUME NEW i \in DOMAIN issuers'
                 PROVE  \/ ended'[issuers'[i].updated] \in {"failed", "crashed"}
                        \/ \E m \in BootstrapJobs : \E k \in DOMAIN Document[m] :
                            /\ Document[m][k].issuer = i
                            /\ \/ <<m, k, issuers'[i].updated>> \in audits
                               \/ pc'[m] = "auditing" /\ at[m] = k /\ now[m] = issuers'[i].updated
        BY DEF TrustChangesAreAudited
    <2>1. CASE i = id /\ next = "auditing"
        BY <2>1, <1>1, <1>2, <1>5 DEF Entry, id
    <2>2. CASE i = id /\ next = "failed"
        BY <2>2, <1>1, <1>4 DEF Inv, TypeOK
    <2>3. CASE i # id
        <3>1. i \in DOMAIN issuers /\ issuers'[i] = issuers[i]
            BY <2>3, <1>1
        <3>2. ended[issuers[i].updated] \in {"failed", "crashed"}
              => ended'[issuers[i].updated] \in {"failed", "crashed"}
            BY <1>4 DEF Inv, TypeOK
        <3>3. \A m \in BootstrapJobs : pc[m] = "auditing" => pc'[m] = "auditing"
            BY <1>2
        <3> QED
            BY <3>1, <3>2, <3>3 DEF BInv, TrustChangesAreAudited
    <2> QED
        BY <2>1, <2>2, <2>3
<1> QED
    BY <1>6, <1>7, <1>9, <1>10, <1>11, <1>12, <1>13, <1>14, <1>15 DEF BInv, History, Progress

\* The audit of an entry, whether the job hears of it and goes on or gives up.
LEMMA AuditStep ==
    ASSUME Inv, BInv, NEW j \in BootstrapJobs, pc[j] = "auditing",
           audits' = audits \cup {<<j, at[j], now[j]>>},
           UNCHANGED <<issuers, now, created, clock, overlap>>,
           \/ /\ pc' = [pc EXCEPT ![j] = "loading"]
              /\ at' = [at EXCEPT ![j] = @ + 1]
              /\ UNCHANGED ended
           \/ /\ pc' = [pc EXCEPT ![j] = "failed"]
              /\ ended' = [ended EXCEPT ![now[j]] = "failed"]
              /\ UNCHANGED at
    PROVE  BInv'
<1>1. /\ \/ pc'[j] = "loading" /\ at'[j] = at[j] + 1
         \/ pc'[j] = "failed" /\ at'[j] = at[j]
      /\ \A i \in BootstrapJobs \ {j} : pc'[i] = pc[i] /\ at'[i] = at[i]
    BY DEF Inv, TypeOK, Actors, Jobs
<1>2. /\ pc[j] \in Applying /\ pc[j] \in Begun
      /\ \A i \in BootstrapJobs : pc'[i] \in Applying => pc[i] \in Applying
      /\ \A i \in BootstrapJobs : pc'[i] \in Begun => pc[i] \in Begun
    BY <1>1 DEF Applying, Begun
<1>3. /\ \A i \in BootstrapJobs : now[i] \in Times
      /\ at[j] \in DOMAIN Document[j] /\ at[j] \in Nat \ {0}
    BY DEF Inv, TypeOK, EntriesExist, Actors, Jobs
<1>4. PastOnly' /\ Meet'
    BY <1>2 DEF BInv, History, PastOnly, Meet
<1>5. /\ \A n \in Times : n # now[j] => ended'[n] = ended[n]
      /\ pc'[j] \in Applying => ended' = ended
    BY <1>1 DEF Inv, TypeOK, Applying
<1>6. RunsUnderWay'
    BY <1>1, <1>2, <1>3, <1>5 DEF BInv, History, RunsUnderWay, Meet
<1>7. AuditsFollow'
    <2>1. \A l \in 1..(at[j] - 1) : <<j, l, now[j]>> \in audits
        BY <1>2 DEF BInv, Progress, AuditsFollow
    <2>2. pc'[j] \in Applying => \A l \in 1..(at'[j] - 1) : <<j, l, now[j]>> \in audits'
        BY <2>1, <1>1, <1>3 DEF Applying
    <2>3. pc'[j] # "auditing"
        BY <1>1
    <2> QED
        BY <2>2, <2>3, <1>1 DEF BInv, Progress, AuditsFollow, Entry
<1>8. TimeAtHand' /\ DoneIsWhole'
    BY <1>1 DEF BInv, Progress, TimeAtHand, DoneIsWhole, Entry
<1>9. StoredIsInForce'
    <2> SUFFICES ASSUME NEW i \in BootstrapJobs, pc'[i] \in Begun, overlap[now[i]] = {},
                        NEW k \in StoredBy(i)'
                 PROVE  InForce(i, k)'
        BY DEF StoredIsInForce
    <2>1. StoredBy(i)' = StoredBy(i)
        <3>1. CASE i = j
            <4>1. pc'[j] = "loading" /\ at'[j] = at[j] + 1
                BY <3>1, <1>1 DEF Begun, Applying
            <4>2. DOMAIN Document[j] \subseteq Nat
                BY DocumentAssumption
            <4> QED
                BY <3>1, <4>1, <4>2, <1>3 DEF StoredBy
        <3>2. CASE i # j
            BY <3>2, <1>1 DEF StoredBy
        <3> QED
            BY <3>1, <3>2
    <2>2. InForce(i, k)
        BY <2>1, <1>2 DEF BInv, Progress, StoredIsInForce
    <2> QED
        BY <2>1, <2>2 DEF InForce
<1>10. BrokenRunsLeaveAPrefix'
    <2>1. Document[j][at[j]].issuer \in DOMAIN issuers
        BY DEF BInv, Progress, AuditsFollow, Entry
    <2>2. \A l \in 1..at[j] : <<j, l, now[j]>> \in audits'
        <3>1. \A l \in 1..(at[j] - 1) : <<j, l, now[j]>> \in audits
            BY <1>2 DEF BInv, Progress, AuditsFollow
        <3> QED
            BY <3>1, <1>3
    <2> QED
        BY <2>1, <2>2 DEF BInv, BrokenRunsLeaveAPrefix
<1>11. TrustChangesAreAudited'
    <2> SUFFICES ASSUME NEW i \in DOMAIN issuers'
                 PROVE  \/ ended'[issuers'[i].updated] \in {"failed", "crashed"}
                        \/ \E m \in BootstrapJobs : \E k \in DOMAIN Document[m] :
                            /\ Document[m][k].issuer = i
                            /\ \/ <<m, k, issuers'[i].updated>> \in audits'
                               \/ /\ pc'[m] = "auditing" /\ at'[m] = k
                                  /\ now'[m] = issuers'[i].updated
        BY Zenon DEF TrustChangesAreAudited
    <2>1. CASE ended[issuers[i].updated] \in {"failed", "crashed"}
        <3>1. issuers[i].updated \in Times
            BY DEF Inv, TypeOK, Row
        <3> QED
            BY <2>1, <3>1 DEF Inv, TypeOK
    <2>2. CASE \E m \in BootstrapJobs : \E k \in DOMAIN Document[m] :
                /\ Document[m][k].issuer = i
                /\ \/ <<m, k, issuers[i].updated>> \in audits
                   \/ pc[m] = "auditing" /\ at[m] = k /\ now[m] = issuers[i].updated
        BY <2>2, <1>1
    <2> QED
        BY <2>1, <2>2 DEF BInv, TrustChangesAreAudited
<1> QED
    BY <1>4, <1>6, <1>7, <1>8, <1>9, <1>10, <1>11 DEF BInv, History, Progress

\* A bootstrap that is refused, fails or stops at its document leaves what it
\* had written.
LEMMA Abandon ==
    ASSUME Inv, BInv, NEW j \in BootstrapJobs, pc[j] \in Applying,
           NEW how \in {"failed", "crashed"},
           pc' = [pc EXCEPT ![j] = how], ended' = [ended EXCEPT ![now[j]] = how],
           UNCHANGED <<issuers, audits, at, now, created, clock, overlap>>
    PROVE  BInv'
<1>1. pc'[j] = how /\ \A i \in BootstrapJobs \ {j} : pc'[i] = pc[i]
    BY DEF Inv, TypeOK, Actors, Jobs
<1>2. \A i \in BootstrapJobs : pc'[i] \in Begun => i # j /\ pc'[i] = pc[i]
    BY <1>1 DEF Begun, Applying
<1>3. \A i \in BootstrapJobs : pc'[i] \in Applying => i # j /\ pc'[i] = pc[i]
    BY <1>2 DEF Begun
<1>4. /\ \A i \in BootstrapJobs : now[i] \in Times
      /\ \A n \in Times : n # now[j] => ended'[n] = ended[n]
      /\ ended'[now[j]] = how
    BY DEF Inv, TypeOK
<1>5. PastOnly' /\ Meet'
    BY <1>2, <1>3 DEF BInv, History, PastOnly, Meet
<1>6. RunsUnderWay'
    <2>1. \A i \in BootstrapJobs : pc'[i] \in Applying => now[i] # now[j]
        BY <1>3 DEF BInv, History, Meet, Begun
    <2> QED
        BY <2>1, <1>3, <1>4 DEF BInv, History, RunsUnderWay
<1>7. AuditsFollow' /\ TimeAtHand'
    BY <1>3 DEF BInv, Progress, AuditsFollow, TimeAtHand, Entry, Applying
<1>8. StoredIsInForce' /\ DoneIsWhole'
    <2>1. \A i \in BootstrapJobs : pc'[i] \in Begun => StoredBy(i)' = StoredBy(i)
        BY <1>2 DEF StoredBy
    <2> QED
        BY <1>2, <2>1 DEF BInv, Progress, StoredIsInForce, DoneIsWhole, InForce, Begun
<1>9. BrokenRunsLeaveAPrefix'
    BY DEF BInv, BrokenRunsLeaveAPrefix
<1>10. TrustChangesAreAudited'
    <2> SUFFICES ASSUME NEW i \in DOMAIN issuers
                 PROVE  \/ ended'[issuers[i].updated] \in {"failed", "crashed"}
                        \/ \E m \in BootstrapJobs : \E k \in DOMAIN Document[m] :
                            /\ Document[m][k].issuer = i
                            /\ \/ <<m, k, issuers[i].updated>> \in audits
                               \/ /\ pc'[m] = "auditing" /\ at[m] = k
                                  /\ now[m] = issuers[i].updated
        BY DEF TrustChangesAreAudited
    <2>1. CASE issuers[i].updated = now[j]
        BY <2>1, <1>4
    <2>2. CASE ended[issuers[i].updated] \in {"failed", "crashed"} /\ issuers[i].updated # now[j]
        BY <2>2 DEF Inv, TypeOK, Row
    <2>3. CASE /\ issuers[i].updated # now[j]
               /\ \E m \in BootstrapJobs : \E k \in DOMAIN Document[m] :
                    /\ Document[m][k].issuer = i
                    /\ \/ <<m, k, issuers[i].updated>> \in audits
                       \/ pc[m] = "auditing" /\ at[m] = k /\ now[m] = issuers[i].updated
        BY <2>3, <1>1
    <2> QED
        BY <2>1, <2>2, <2>3 DEF BInv, TrustChangesAreAudited
<1> QED
    BY <1>5, <1>6, <1>7, <1>8, <1>9, <1>10 DEF BInv, History, Progress

LEMMA EndBootstrapKeepsB ==
    ASSUME Inv, BInv, NEW j \in BootstrapJobs, EndBootstrap(j)
    PROVE  BInv'
<1>1. /\ pc[j] = "loading"
      /\ at[j] > Len(Document[j])
      /\ pc' = [pc EXCEPT ![j] = "done"]
      /\ ended' = [ended EXCEPT ![now[j]] = "done"]
      /\ UNCHANGED <<issuers, audits, at, now, created, clock, overlap>>
    BY DEF EndBootstrap, EndRun, Goto, database, Applying
<1>2. pc'[j] = "done" /\ \A i \in BootstrapJobs \ {j} : pc'[i] = pc[i]
    BY <1>1 DEF Inv, TypeOK, Actors, Jobs
<1>3. /\ pc[j] \in Applying
      /\ \A i \in BootstrapJobs : pc'[i] \in Applying => i # j /\ pc[i] \in Applying
      /\ \A i \in BootstrapJobs : pc'[i] \in Begun => pc[i] \in Begun
    BY <1>1, <1>2 DEF Begun, Applying
<1>4. /\ \A i \in BootstrapJobs : now[i] \in Times
      /\ \A n \in Times : n # now[j] => ended'[n] = ended[n]
    BY <1>1 DEF Inv, TypeOK
<1>5. PastOnly' /\ Meet'
    BY <1>1, <1>3 DEF BInv, History, PastOnly, Meet
<1>6. RunsUnderWay'
    <2>1. \A i \in BootstrapJobs : pc'[i] \in Applying => now[i] # now[j]
        BY <1>3 DEF BInv, History, Meet, Begun
    <2> QED
        BY <2>1, <1>1, <1>3, <1>4 DEF BInv, History, RunsUnderWay
<1>7. AuditsFollow' /\ TimeAtHand'
    BY <1>1, <1>2, <1>3 DEF BInv, Progress, AuditsFollow, TimeAtHand, Entry, Applying
<1>8. StoredIsInForce'
    <2>1. \A i \in BootstrapJobs : StoredBy(i)' = StoredBy(i)
        BY <1>1, <1>2 DEF StoredBy
    <2> QED
        BY <1>1, <1>3, <2>1 DEF BInv, Progress, StoredIsInForce, InForce
<1>9. DoneIsWhole'
    <2>1. \A k \in DOMAIN Document[j] : k < at[j]
        BY <1>1, DocumentAssumption DEF Inv, TypeOK, Actors, Jobs
    <2> QED
        BY <2>1, <1>1, <1>2 DEF BInv, Progress, DoneIsWhole
<1>10. BrokenRunsLeaveAPrefix'
    BY <1>1 DEF BInv, BrokenRunsLeaveAPrefix
<1>11. TrustChangesAreAudited'
    <2>1. ended[now[j]] = "under_way"
        BY <1>3 DEF BInv, History, RunsUnderWay
    <2>2. \A n \in Times : ended[n] \in {"failed", "crashed"} => ended'[n] = ended[n]
        BY <2>1, <1>4
    <2>3. \A m \in BootstrapJobs : pc[m] = "auditing" => pc'[m] = "auditing"
        BY <1>1, <1>2
    <2>4. \A i \in DOMAIN issuers : issuers[i].updated \in Times
        BY DEF Inv, TypeOK, Row
    <2> QED
        BY <2>2, <2>3, <2>4, <1>1 DEF BInv, TrustChangesAreAudited
<1> QED
    BY <1>5, <1>6, <1>7, <1>8, <1>9, <1>10, <1>11 DEF BInv, History, Progress

-----------------------------------------------------------------------------
(* What the others do.                                                     *)

\* A process that fails a statement or refuses what it finds.
LEMMA GiveUpKeepsB ==
    ASSUME Inv, BInv, NEW a \in Actors, GiveUp(a), UNCHANGED <<issuers, audits>>
    PROVE  BInv'
<1>1. UNCHANGED <<at, now, created, clock, overlap>>
    BY DEF GiveUp
<1>2. CASE a \in BootstrapJobs /\ pc[a] \in Applying
    <2>1. pc' = [pc EXCEPT ![a] = "failed"] /\ ended' = [ended EXCEPT ![now[a]] = "failed"]
        BY <1>2 DEF GiveUp, Goto, EndRun, Jobs
    <2> QED
        BY <2>1, <1>1, <1>2, Abandon
<1>3. CASE ~(a \in BootstrapJobs /\ pc[a] \in Applying)
    <2>1. UNCHANGED ended
        BY <1>3 DEF GiveUp, EndRun
    <2>2. pc'[a] \notin Begun /\ \A b \in Actors \ {a} : pc'[b] = pc[b]
        BY DEF GiveUp, Goto, Begun, Applying, Inv, TypeOK
    <2>3. \A j \in BootstrapJobs :
            \/ pc'[j] = pc[j] /\ at'[j] = at[j]
            \/ pc[j] \notin Applying /\ pc'[j] \notin Begun
        BY <2>2, <1>1, <1>3 DEF Actors, Jobs
    <2> QED
        BY <2>1, <2>3, <1>1, Frame
<1> QED
    BY <1>2, <1>3

LEMMA CrashKeepsB ==
    ASSUME Inv, BInv, NEW a \in Actors, Crash(a)
    PROVE  BInv'
<1>1. UNCHANGED <<issuers, audits, at, now, created, clock, overlap>>
    BY DEF Crash, database
<1>2. CASE a \in BootstrapJobs /\ pc[a] \in Applying
    <2>1. pc' = [pc EXCEPT ![a] = "crashed"] /\ ended' = [ended EXCEPT ![now[a]] = "crashed"]
        BY <1>2 DEF Crash, Goto, EndRun, Jobs
    <2> QED
        BY <2>1, <1>1, <1>2, Abandon
<1>3. CASE ~(a \in BootstrapJobs /\ pc[a] \in Applying)
    <2>1. UNCHANGED ended
        BY <1>3 DEF Crash, EndRun
    <2>2. pc'[a] \notin Begun /\ \A b \in Actors \ {a} : pc'[b] = pc[b]
        BY DEF Crash, Goto, Begun, Applying, Inv, TypeOK
    <2>3. \A j \in BootstrapJobs :
            \/ pc'[j] = pc[j] /\ at'[j] = at[j]
            \/ pc[j] \notin Applying /\ pc'[j] \notin Begun
        BY <2>2, <1>1, <1>3 DEF Actors, Jobs
    <2> QED
        BY <2>1, <2>3, <1>1, Frame
<1> QED
    BY <1>2, <1>3

\* A step that moves one process, which is at no document before or after it,
\* and writes neither of the tables.
LEMMA OutsideKeepsB ==
    ASSUME Inv, BInv, NEW a \in Actors,
           UNCHANGED <<issuers, audits, now, created, clock, ended, overlap>>,
           \A b \in Actors \ {a} : pc'[b] = pc[b] /\ at'[b] = at[b],
           a \in BootstrapJobs => pc[a] \notin Applying /\ pc'[a] \notin Begun
    PROVE  BInv'
<1>1. \A j \in BootstrapJobs :
        \/ pc'[j] = pc[j] /\ at'[j] = at[j]
        \/ pc[j] \notin Applying /\ pc'[j] \notin Begun
    BY DEF Actors, Jobs
<1> QED
    BY <1>1, Frame

LEMMA MigrationKeepsB ==
    ASSUME Inv, BInv, NEW j \in MigrateJobs, StartMigration(j) \/ Migration(j)
    PROVE  BInv'
<1>1. j \in Actors /\ j \notin BootstrapJobs
    BY ActorsAssumption DEF Actors, Jobs
<1>2. UNCHANGED <<issuers, audits, now, created, clock, ended, overlap>>
    BY DEF StartMigration, Migration, CreateObject, EndMigration, database, history
<1>3. \A b \in Actors \ {j} : pc'[b] = pc[b] /\ at'[b] = at[b]
    BY DEF StartMigration, Migration, CreateObject, EndMigration, Restart, Goto, Advance,
       Inv, TypeOK
<1> QED
    BY <1>1, <1>2, <1>3, OutsideKeepsB

LEMMA CheckKeepsB ==
    ASSUME Inv, BInv, NEW a \in BootstrapJobs \cup Services, StartCheck(a) \/ CheckObject(a)
    PROVE  BInv'
<1>1. a \in Actors
    BY DEF Actors, Jobs
<1>2. UNCHANGED <<issuers, audits, now, created, clock, ended, overlap>>
    BY DEF StartCheck, CheckObject, database, history
<1>3. \A b \in Actors \ {a} : pc'[b] = pc[b] /\ at'[b] = at[b]
    BY DEF StartCheck, CheckObject, Restart, Goto, Advance, Inv, TypeOK
<1>4. pc'[a] = "checking" /\ (a \in BootstrapJobs => pc[a] \in Restartable \cup {"checking"})
    BY <1>1, ActorsAssumption
       DEF StartCheck, CheckObject, Restart, Goto, Inv, TypeOK, Actors, Jobs
<1>5. a \in BootstrapJobs => pc[a] \notin Applying /\ pc'[a] \notin Begun
    BY <1>4 DEF Restartable, Applying, Begun
<1> QED
    BY <1>1, <1>2, <1>3, <1>5, OutsideKeepsB

LEMMA CountIssuersKeepsB ==
    ASSUME Inv, BInv, NEW s \in Services, CountIssuers(s)
    PROVE  BInv'
<1>1. s \in Actors /\ s \notin BootstrapJobs
    BY ActorsAssumption DEF Actors, Jobs
<1>2. UNCHANGED <<issuers, audits, at, now, created, clock, ended, overlap>>
    BY DEF CountIssuers, database, history
<1>3. \A b \in Actors \ {s} : pc'[b] = pc[b]
    BY DEF CountIssuers, Goto, Inv, TypeOK
<1> QED
    BY <1>1, <1>2, <1>3, OutsideKeepsB

LEMMA UpsertsKeepB ==
    ASSUME Inv, BInv, NEW j \in BootstrapJobs, Upsert(j) \/ UpsertUnacked(j)
    PROVE  BInv'
<1>1. CASE Upsert(j)
    <2>1. /\ pc[j] = "upserting" /\ UpsertIssuer(j)
          /\ pc' = [pc EXCEPT ![j] = "auditing"]
          /\ UNCHANGED <<audits, at, now, created, clock, ended, overlap>>
        BY <1>1 DEF Upsert, Goto, history
    <2> DEFINE next == "auditing"
    <2>2. ended' = IF next = "failed" THEN [ended EXCEPT ![now[j]] = "failed"] ELSE ended
        BY <2>1
    <2> QED
        BY <2>1, <2>2, UpsertStep
<1>2. CASE UpsertUnacked(j)
    <2>1. /\ pc[j] = "upserting" /\ UpsertIssuer(j)
          /\ pc' = [pc EXCEPT ![j] = "failed"]
          /\ ended' = [ended EXCEPT ![now[j]] = "failed"]
          /\ UNCHANGED <<audits, at, now, created, clock, overlap>>
        BY <1>2 DEF UpsertUnacked, GiveUp, Goto, EndRun, Jobs, Applying
    <2> DEFINE next == "failed"
    <2>2. ended' = IF next = "failed" THEN [ended EXCEPT ![now[j]] = "failed"] ELSE ended
        BY <2>1
    <2> QED
        BY <2>1, <2>2, UpsertStep
<1> QED
    BY <1>1, <1>2

LEMMA AuditsKeepB ==
    ASSUME Inv, BInv, NEW j \in BootstrapJobs, Audit(j) \/ AuditUnacked(j)
    PROVE  BInv'
<1>1. CASE Audit(j)
    BY <1>1, AuditStep DEF Audit, Goto, Advance, history
<1>2. CASE AuditUnacked(j)
    <2>1. /\ pc' = [pc EXCEPT ![j] = "failed"]
          /\ ended' = [ended EXCEPT ![now[j]] = "failed"]
          /\ UNCHANGED <<issuers, at, now, created, clock, overlap>>
        BY <1>2 DEF AuditUnacked, GiveUp, Goto, EndRun, Jobs, Applying
    <2> QED
        BY <2>1, <1>2, AuditStep DEF AuditUnacked
<1> QED
    BY <1>1, <1>2

-----------------------------------------------------------------------------
LEMMA NextB == Inv /\ BInv /\ [Next]_vars => BInv'
<1> SUFFICES ASSUME Inv, BInv, [Next]_vars PROVE BInv'
    OBVIOUS
<1>1. ASSUME NEW j \in MigrateJobs, StartMigration(j) \/ Migration(j) \/ CreateUnacked(j)
      PROVE  BInv'
    <2>1. CreateUnacked(j) => BInv'
        BY GiveUpKeepsB DEF CreateUnacked, Actors, Jobs
    <2> QED
        BY <1>1, <2>1, MigrationKeepsB
<1>2. ASSUME NEW a \in BootstrapJobs \cup Services, StartCheck(a) \/ Checks(a)
      PROVE  BInv'
    <2>1. RefuseSchema(a) => BInv'
        BY GiveUpKeepsB DEF RefuseSchema, database, Actors, Jobs
    <2> QED
        BY <1>2, <2>1, CheckKeepsB DEF Checks
<1>3. ASSUME NEW j \in BootstrapJobs, Bootstrap(j) \/ UpsertUnacked(j) \/ AuditUnacked(j)
      PROVE  BInv'
    <2>1. RefuseEntry(j) => BInv'
        BY GiveUpKeepsB DEF RefuseEntry, database, Actors, Jobs
    <2> QED
        BY <1>2, <1>3, <2>1, BeginApplyKeepsB, LoadIssuerKeepsB, UpsertsKeepB, AuditsKeepB,
           EndBootstrapKeepsB DEF Bootstrap
<1>4. ASSUME NEW s \in Services, Service(s)
      PROVE  BInv'
    <2>1. RefuseBootstrap(s) => BInv'
        BY GiveUpKeepsB DEF RefuseBootstrap, database, Actors
    <2> QED
        BY <1>2, <1>4, <2>1, CountIssuersKeepsB DEF Service
<1>5. ASSUME NEW a \in Actors, StatementFails(a)
      PROVE  BInv'
    BY <1>5, GiveUpKeepsB DEF StatementFails, database
<1>6. ASSUME UNCHANGED vars
      PROVE  BInv'
    BY <1>6, Frame DEF vars, database, history
<1> QED
    BY <1>1, <1>2, <1>3, <1>4, <1>5, <1>6, CrashKeepsB DEF Next

LEMMA BootstrapInductive == Spec => [](Inv /\ BInv)
<1>1. Init => Inv /\ BInv
    BY InitInv, InitBInv
<1>2. (Inv /\ BInv) /\ [Next]_vars => (Inv /\ BInv)'
    BY NextInv, NextB
<1> QED
    BY <1>1, <1>2, PTL DEF Spec

\* A bootstrap that reported success and ran alone has its whole document in
\* force, except for the rows a later one rewrote.
THEOREM AppliedWhenDone == Spec => []DoneMeansApplied
<1>1. BInv => DoneMeansApplied
    <2> SUFFICES ASSUME BInv, NEW j \in BootstrapJobs, pc[j] = "done", overlap[now[j]] = {},
                        NEW k \in DOMAIN Document[j]
                 PROVE  LET entry == Document[j][k]
                        IN  /\ entry.issuer \in DOMAIN issuers
                            /\ \/ issuers[entry.issuer].updated > now[j]
                               \/ /\ issuers[entry.issuer].updated = now[j]
                                  /\ Decides(j, k)
                                        => issuers[entry.issuer].content = entry.content
        BY DEF DoneMeansApplied
    <2>1. k \in StoredBy(j) /\ StoredBy(j) \subseteq DOMAIN Document[j]
        BY DEF BInv, Progress, DoneIsWhole, StoredBy
    <2>2. InForce(j, k)
        BY <2>1 DEF BInv, Progress, StoredIsInForce, Begun
    <2> QED
        BY <2>1, <2>2 DEF InForce, Decides
<1> QED
    BY <1>1, BootstrapInductive, PTL

\* Every row of the trust table was audited by the bootstrap that wrote it,
\* is about to be, or is of a bootstrap that failed or stopped.
THEOREM ChangesAudited == Spec => []TrustChangesAreAudited
<1>1. BInv => TrustChangesAreAudited
    BY DEF BInv
<1> QED
    BY <1>1, BootstrapInductive, PTL

\* A bootstrap that broke off has applied and audited the beginning of its
\* document, and nothing else.
THEOREM PrefixLeft == Spec => []BrokenRunsLeaveAPrefix
<1>1. BInv => BrokenRunsLeaveAPrefix
    BY DEF BInv
<1> QED
    BY <1>1, BootstrapInductive, PTL

\* The upsert of a bootstrap that runs alone keeps the creation time it read.
LEMMA UpsertKeepsTimes ==
    ASSUME Inv, BInv, NEW j \in BootstrapJobs, pc[j] = "upserting", UpsertIssuer(j),
           UNCHANGED <<overlap, now>>, NEW i \in DOMAIN issuers
    PROVE  /\ i \in DOMAIN issuers'
           /\ \/ issuers'[i].created = issuers[i].created
              \/ overlap[issuers'[i].updated] # {}
<1>1. CASE i = Entry(j).issuer
    <2>1. i \in DOMAIN issuers' /\ issuers'[i].created = created[j] /\ issuers'[i].updated = now[j]
        BY <1>1 DEF UpsertIssuer
    <2>2. overlap[now[j]] = {} => created[j] = issuers[i].created
        BY <1>1 DEF BInv, Progress, TimeAtHand
    <2> QED
        BY <2>1, <2>2
<1>2. CASE i # Entry(j).issuer
    BY <1>2 DEF UpsertIssuer
<1> QED
    BY <1>1, <1>2

\* Only an upsert writes the trust table.
LEMMA OnlyUpsertsWrite ==
    ASSUME [Next]_vars, issuers' # issuers
    PROVE  \E j \in BootstrapJobs : Upsert(j) \/ UpsertUnacked(j)
BY DEF Next, vars, database, Migration, StartMigration, CreateObject, CreateUnacked, EndMigration,
       Bootstrap, Checks, StartCheck, CheckObject, RefuseSchema, BeginApply, LoadIssuer,
       RefuseEntry, Audit, AuditUnacked, EndBootstrap, Service, CountIssuers, RefuseBootstrap,
       StatementFails, Crash

\* A known issuer stays known and keeps its creation time, unless the
\* bootstrap that rewrites it ran together with another.
THEOREM TimesKept == Spec => CreationTimeKept
<1> DEFINE Kept == \A i \in DOMAIN issuers :
                    /\ i \in DOMAIN issuers'
                    /\ \/ issuers'[i].created = issuers[i].created
                       \/ overlap[issuers'[i].updated] # {}
<1>1. Inv /\ BInv /\ [Next]_vars => [Kept]_vars
    <2> SUFFICES ASSUME Inv, BInv, [Next]_vars PROVE Kept
        OBVIOUS
    <2>1. CASE issuers' = issuers
        BY <2>1
    <2>2. CASE issuers' # issuers
        <3>1. PICK j \in BootstrapJobs : Upsert(j) \/ UpsertUnacked(j)
            BY <2>2, OnlyUpsertsWrite
        <3>2. pc[j] = "upserting" /\ UpsertIssuer(j) /\ UNCHANGED <<overlap, now>>
            BY <3>1 DEF Upsert, UpsertUnacked, GiveUp, history
        <3> QED
            BY <3>2, UpsertKeepsTimes
    <2> QED
        BY <2>1, <2>2
<1> QED
    BY <1>1, BootstrapInductive, PTL DEF Spec, CreationTimeKept
=============================================================================
