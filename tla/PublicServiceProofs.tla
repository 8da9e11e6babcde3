------------------------ MODULE PublicServiceProofs ------------------------
(***************************************************************************)
(* Proofs about PublicService, for any number of requests, any tokens and  *)
(* configurations, and every RequestTimeout below its ShutdownTimeout: a   *)
(* shutdown outlives the context of every request it waits for, and what   *)
(* reaches the store in production was vouched for.                        *)
(***************************************************************************)
EXTENDS PublicService, TLAPS

\* Where the process stands, and what that says of its requests.
StagesAgree ==
    /\ stage \in {"loading", "opening"} => \A r \in Requests : pc[r] = "idle"
    /\ stage # "loading" /\ exit # "config" => Valid(config)
    /\ stage = "exited" => \A r \in Requests : ~InFlight(r)
    /\ stage # "exited" => exit = "none" /\ \A r \in Requests : pc[r] # "cut"
    /\ config = NoConfig => \A r \in Requests : ~wrote[r]

\* How long the context of a request can last.
DeadlinesHold ==
    \A r \in Requests :
        /\ stage = "running" /\ pc[r] # "idle" => deadline[r] <= clock + RequestTimeout
        /\ stage = "draining" /\ pc[r] # "idle" => deadline[r] < drainDeadline
        /\ pc[r] = "auth" => clock <= deadline[r]
        /\ pc[r] = "work" /\ wrote[r] => clock <= deadline[r]
        /\ wrote[r] => pc[r] \in {"work", "answered", "cut"}

\* Whom Hydra vouched for.
Vouched(r) ==
    /\ call[r].token \in Tokens \ dead[r]
    /\ caller[r] = Grant[call[r].token].client
    /\ call[r].scope \in Grant[call[r].token].scopes

AdmittedAreVouched ==
    \A r \in Requests :
        /\ pc[r] # "idle" => dead[r] \cap active = {}
        /\ config.mode = "hydra" /\ (pc[r] \in {"body", "work"} \/ wrote[r]) => Vouched(r)

Inv ==
    /\ TypeOK
    /\ StagesAgree
    /\ DeadlinesHold
    /\ AdmittedAreVouched
    /\ ShutdownInterruptsNothing

-----------------------------------------------------------------------------
LEMMA InitInv == Init => Inv
<1> SUFFICES ASSUME Init PROVE Inv
    OBVIOUS
<1>1. TypeOK
    BY BoundsAssumption DEF Init, TypeOK, Stages, Exits, Steps, Clients
<1>2. StagesAgree /\ DeadlinesHold /\ AdmittedAreVouched /\ ShutdownInterruptsNothing
    BY DEF Init, StagesAgree, DeadlinesHold, AdmittedAreVouched, ShutdownInterruptsNothing, InFlight
<1> QED
    BY <1>1, <1>2 DEF Inv

-----------------------------------------------------------------------------
(* The process exits.                                                      *)

\* An exit keeps the invariant, if a shutdown only happens when every context
\* of a request in flight has expired with nothing done under it.
LEMMA ExitKeeps ==
    ASSUME Inv, NEW why \in Exits \ {"none"}, Exit(why), failures' \in Nat,
           stage # "exited", stage = "loading" => why = "config",
           why \in {"drained", "expired"} =>
               \A r \in Requests : InFlight(r) => pc[r] # "auth" /\ ~wrote[r]
    PROVE  Inv'
<1>1. /\ stage' = "exited"
      /\ exit' = why
      /\ listener' = "closed"
      /\ UNCHANGED <<clock, config, signalled, drainDeadline, call, deadline, caller, wrote,
                     answer, active, dead>>
    BY DEF Exit
<1>2. /\ pc' = [r \in Requests |-> IF InFlight(r) THEN "cut" ELSE pc[r]]
      /\ cutIn' = [r \in Requests |-> IF InFlight(r) THEN pc[r] ELSE "none"]
    BY DEF Exit
<1>3. pc' \in [Requests -> Steps] /\ cutIn' \in [Requests -> Steps \cup {"none"}]
    BY <1>2 DEF Inv, TypeOK, Steps
<1>4. TypeOK'
    BY <1>1, <1>3 DEF Inv, TypeOK, Stages, Exits, Valid, Clients
<1>5. \A r \in Requests :
        /\ pc'[r] \notin {"auth", "body", "work"}
        /\ \/ pc'[r] = pc[r]
           \/ pc'[r] = "cut" /\ pc[r] \in {"auth", "body", "work"}
    <2> TAKE r \in Requests
    <2>1. pc'[r] = IF pc[r] \in {"auth", "body", "work"} THEN "cut" ELSE pc[r]
        BY <1>2 DEF InFlight
    <2> QED
        BY <2>1
<1>6. StagesAgree'
    BY <1>1, <1>5 DEF Inv, StagesAgree, Valid, InFlight
<1>7. DeadlinesHold'
    BY <1>1, <1>5 DEF Inv, DeadlinesHold, InFlight
<1>8. AdmittedAreVouched'
    BY <1>1, <1>5 DEF Inv, AdmittedAreVouched, Vouched, InFlight
<1>9. ShutdownInterruptsNothing'
    <2> SUFFICES ASSUME why \in {"drained", "expired"}, NEW r \in Requests, pc'[r] = "cut"
                 PROVE  cutIn'[r] # "auth" /\ ~wrote'[r]
        BY <1>1 DEF ShutdownInterruptsNothing
    <2>1. InFlight(r) => pc[r] # "auth" /\ ~wrote[r]
        OBVIOUS
    <2>2. InFlight(r)
        BY <1>2 DEF Inv, StagesAgree
    <2> QED
        BY <2>1, <2>2, <1>1, <1>2
<1> QED
    BY <1>4, <1>6, <1>7, <1>8, <1>9 DEF Inv

-----------------------------------------------------------------------------
(* The other steps of the process leave the requests alone.                *)

LEMMA LoadKeeps ==
    ASSUME Inv, NEW c \in Configurations, Load(c)
    PROVE  Inv'
<1>1. /\ stage = "loading"
      /\ stage' = "opening"
      /\ Valid(c) /\ config' = c
      /\ UNCHANGED <<clock, failures, exit, listener, signalled, drainDeadline, requestVars, active>>
    BY DEF Load
<1>2. \A r \in Requests : pc[r] = "idle" /\ ~wrote[r]
    BY <1>1 DEF Inv, StagesAgree, DeadlinesHold
<1>3. TypeOK'
    BY <1>1 DEF Inv, TypeOK, requestVars, Stages, Clients, Valid
<1>4. StagesAgree'
    BY <1>1, <1>2 DEF Inv, StagesAgree, requestVars, InFlight, Valid
<1>5. DeadlinesHold' /\ AdmittedAreVouched'
    BY <1>1, <1>2 DEF Inv, DeadlinesHold, AdmittedAreVouched, Vouched, requestVars
<1>6. ShutdownInterruptsNothing'
    BY <1>1, <1>2 DEF ShutdownInterruptsNothing, requestVars
<1> QED
    BY <1>3, <1>4, <1>5, <1>6 DEF Inv

\* A step of the process that is not its exit, or of its listener.
LEMMA ProcessStepKeeps ==
    ASSUME Inv, stage \in {"opening", "running"},
           stage' \in {stage, "running"}, failures' \in Nat,
           listener' \in {"closed", "up", "failed"}, signalled' \in BOOLEAN,
           UNCHANGED <<clock, config, exit, drainDeadline, requestVars, active>>
    PROVE  Inv'
<1>1. UNCHANGED <<pc, call, deadline, caller, wrote, answer, dead, cutIn>>
    BY DEF requestVars
<1>2. exit = "none" /\ \A r \in Requests : stage = "opening" => pc[r] = "idle"
    BY DEF Inv, StagesAgree
<1>3. TypeOK'
    BY <1>1 DEF Inv, TypeOK, Stages, Clients, Valid
<1>4. StagesAgree'
    BY <1>1, <1>2 DEF Inv, StagesAgree, InFlight, Valid
<1>5. DeadlinesHold' /\ AdmittedAreVouched'
    BY <1>1, <1>2 DEF Inv, DeadlinesHold, AdmittedAreVouched, Vouched
<1>6. ShutdownInterruptsNothing'
    BY <1>1, <1>2 DEF ShutdownInterruptsNothing
<1> QED
    BY <1>3, <1>4, <1>5, <1>6 DEF Inv

\* A shutdown that begins will wait longer than any context lasts.
LEMMA BeginShutdownKeeps ==
    ASSUME Inv, BeginShutdown
    PROVE  Inv'
<1>1. /\ stage = "running"
      /\ stage' = "draining"
      /\ listener' = "closed"
      /\ drainDeadline' = clock + ShutdownTimeout
      /\ UNCHANGED <<clock, failures, config, exit, signalled, active, pc, call, deadline, caller,
                    wrote, answer, dead, cutIn>>
    BY DEF BeginShutdown, requestVars
<1>2. exit = "none"
    BY <1>1 DEF Inv, StagesAgree
<1>3. TypeOK'
    BY <1>1, TimeoutsAssumption DEF Inv, TypeOK, Stages, Clients, Valid
<1>4. StagesAgree'
    BY <1>1 DEF Inv, StagesAgree, InFlight, Valid
<1>5. \A r \in Requests : pc[r] # "idle" => deadline[r] < clock + ShutdownTimeout
    <2> SUFFICES ASSUME NEW r \in Requests, pc[r] # "idle"
                 PROVE  deadline[r] < clock + ShutdownTimeout
        OBVIOUS
    <2>1. deadline[r] <= clock + RequestTimeout
        BY <1>1 DEF Inv, DeadlinesHold
    <2>2. deadline[r] \in Nat /\ clock \in Nat
        BY DEF Inv, TypeOK
    <2> QED
        BY <2>1, <2>2, TimeoutsAssumption
<1>6. DeadlinesHold'
    BY <1>1, <1>5 DEF Inv, DeadlinesHold
<1>7. AdmittedAreVouched'
    BY <1>1 DEF Inv, AdmittedAreVouched, Vouched
<1>8. ShutdownInterruptsNothing'
    BY <1>1, <1>2 DEF ShutdownInterruptsNothing
<1> QED
    BY <1>3, <1>4, <1>6, <1>7, <1>8 DEF Inv

\* When Shutdown gives up, every context has expired: what was still alive
\* under one has ended.
LEMMA DrainExpiresKeeps ==
    ASSUME Inv, DrainExpires
    PROVE  Inv'
<1>1. stage = "draining" /\ clock >= drainDeadline /\ Exit("expired") /\ failures' = failures
    BY DEF DrainExpires
<1>2. ASSUME NEW r \in Requests, InFlight(r)
      PROVE  pc[r] # "auth" /\ ~wrote[r]
    <2>1. deadline[r] < drainDeadline
        BY <1>1, <1>2 DEF Inv, DeadlinesHold, InFlight
    <2>2. deadline[r] \in Nat /\ clock \in Nat /\ drainDeadline \in Nat
        BY DEF Inv, TypeOK
    <2>3. ~(clock <= deadline[r])
        BY <2>1, <2>2, <1>1
    <2> QED
        BY <2>3, <1>2 DEF Inv, DeadlinesHold, InFlight
<1>3. failures' \in Nat
    BY <1>1 DEF Inv, TypeOK
<1> QED
    BY <1>1, <1>2, <1>3, ExitKeeps DEF Exits

LEMMA ExitsKeep ==
    ASSUME Inv, (\E c \in Configurations : RefuseConfig(c)) \/ OpenFails \/ ExitOnListenerError
                \/ Drained
    PROVE  Inv'
<1>1. failures \in Nat
    BY DEF Inv, TypeOK
<1>2. CASE \E c \in Configurations : RefuseConfig(c)
    BY <1>1, <1>2, ExitKeeps DEF RefuseConfig, Exits
<1>3. CASE OpenFails
    BY <1>1, <1>3, ExitKeeps DEF OpenFails, FailureHappens, Exits
<1>4. CASE ExitOnListenerError
    BY <1>1, <1>4, ExitKeeps DEF ExitOnListenerError, Exits
<1>5. CASE Drained
    BY <1>1, <1>5, ExitKeeps DEF Drained, Exits
<1> QED
    BY <1>2, <1>3, <1>4, <1>5

-----------------------------------------------------------------------------
(* The steps of a request, and the clock.                                  *)

\* The requests other than the one that moves.
LEMMA OthersKeep ==
    ASSUME Inv, NEW r \in Requests, stage \notin {"loading", "opening", "exited"},
           pc' \in [Requests -> Steps], pc'[r] \notin {"idle", "cut"},
           \A q \in Requests \ {r} : pc'[q] = pc[q] /\ UNCHANGED <<call[q], deadline[q], caller[q],
                                                                  wrote[q], dead[q]>>,
           UNCHANGED <<clock, processVars, active, cutIn>>,
           call' \in [Requests -> Calls \cup {NoCall}], deadline' \in [Requests -> Nat],
           caller' \in [Requests -> Clients], wrote' \in [Requests -> BOOLEAN],
           answer' \in [Requests -> {"none", "ok", "400", "401", "403", "404", "500", "503"}],
           dead' \in [Requests -> SUBSET Tokens], failures' \in Nat,
           stage = "running" => deadline'[r] <= clock + RequestTimeout,
           stage = "draining" => deadline'[r] < drainDeadline,
           pc'[r] = "auth" => clock <= deadline'[r],
           pc'[r] = "work" /\ wrote'[r] => clock <= deadline'[r],
           wrote'[r] => pc'[r] \in {"work", "answered"},
           dead'[r] \cap active = {},
           config.mode = "hydra" /\ (pc'[r] \in {"body", "work"} \/ wrote'[r]) => Vouched(r)'
    PROVE  Inv'
<1>1. UNCHANGED <<config, stage, exit, listener, signalled, drainDeadline>>
    BY DEF processVars
<1>2. TypeOK'
    BY <1>1 DEF Inv, TypeOK, Stages, Clients, Valid
<1>3. StagesAgree'
    <2>1. \A q \in Requests : pc'[q] # "cut"
        BY DEF Inv, StagesAgree
    <2>2. config # NoConfig \/ ~Valid(config)
        BY DEF Valid, NoConfig
    <2>3. exit = "none" /\ Valid(config)
        BY DEF Inv, StagesAgree
    <2> QED
        BY <2>1, <2>2, <2>3, <1>1 DEF StagesAgree, Valid
<1>4. DeadlinesHold'
    BY <1>1 DEF Inv, DeadlinesHold
<1>5. AdmittedAreVouched'
    BY <1>1 DEF Inv, AdmittedAreVouched, Vouched
<1>6. ShutdownInterruptsNothing'
    BY <1>1 DEF Inv, StagesAgree, ShutdownInterruptsNothing
<1> QED
    BY <1>2, <1>3, <1>4, <1>5, <1>6 DEF Inv

Answers == {"none", "ok", "400", "401", "403", "404", "500", "503"}

\* A request in flight belongs to a process that runs.
LEMMA InFlightRuns ==
    ASSUME Inv, NEW r \in Requests, InFlight(r)
    PROVE  stage \notin {"loading", "opening", "exited"}
BY DEF Inv, StagesAgree, InFlight

\* What Admit leaves of the request and of the others.
LEMMA AdmitType ==
    ASSUME Inv, NEW r \in Requests, NEW identity, NEW scope, identity.client \in Clients,
           Admit(r, identity, scope)
    PROVE  /\ pc' \in [Requests -> Steps] /\ pc'[r] \in {"body", "answered"}
           /\ caller' \in [Requests -> Clients] /\ answer' \in [Requests -> Answers]
           /\ \A q \in Requests \ {r} : pc'[q] = pc[q] /\ caller'[q] = caller[q]
           /\ pc'[r] = "body" => caller'[r] = identity.client /\ scope \in identity.scopes
BY DEF Admit, Tell, Goto, Inv, TypeOK, Steps, Answers

LEMMA TellType ==
    ASSUME Inv, NEW r \in Requests, NEW code \in Answers, Tell(r, code)
    PROVE  /\ pc' \in [Requests -> Steps] /\ pc'[r] = "answered"
           /\ answer' \in [Requests -> Answers]
           /\ \A q \in Requests \ {r} : pc'[q] = pc[q]
BY DEF Tell, Goto, Inv, TypeOK, Steps, Answers

LEMMA ArriveKeeps ==
    ASSUME Inv, NEW r \in Requests, Arrive(r)
    PROVE  Inv'
<1>1. PICK c \in Calls : call' = [call EXCEPT ![r] = c] /\ Enter(r, c)
    BY DEF Arrive
<1>2. /\ pc[r] = "idle"
      /\ stage = "running"
      /\ deadline' = [deadline EXCEPT ![r] = clock + RequestTimeout]
      /\ dead' = [dead EXCEPT ![r] = Tokens \ active]
      /\ UNCHANGED <<clock, failures, processVars, wrote, active, cutIn>>
    BY DEF Arrive
<1>3. /\ call' \in [Requests -> Calls \cup {NoCall}] /\ call'[r] = c
      /\ deadline' \in [Requests -> Nat] /\ deadline'[r] = clock + RequestTimeout
      /\ dead' \in [Requests -> SUBSET Tokens] /\ dead'[r] = Tokens \ active
      /\ clock <= deadline'[r]
    BY <1>1, <1>2, TimeoutsAssumption DEF Inv, TypeOK
<1>4. ~wrote[r]
    BY <1>2 DEF Inv, DeadlinesHold
<1>5. /\ pc' \in [Requests -> Steps] /\ pc'[r] \in {"auth", "body", "answered"}
      /\ caller' \in [Requests -> Clients] /\ answer' \in [Requests -> Answers]
      /\ \A q \in Requests \ {r} : pc'[q] = pc[q] /\ caller'[q] = caller[q]
      /\ pc'[r] = "body" => config.mode = "header"
    <2>1. CASE c.route = "unknown" /\ Tell(r, "404") /\ UNCHANGED caller
        BY <2>1, TellType DEF Answers, Inv, TypeOK
    <2>2. CASE c.route = "open" /\ Tell(r, "ok") /\ UNCHANGED caller
        BY <2>2, TellType DEF Answers, Inv, TypeOK
    <2>3. CASE c.route = "phase1" /\ config.mode = "header" /\ Admit(r, c.claim, c.scope)
        <3>1. c.claim.client \in Clients
            BY DEF Clients
        <3> QED
            BY <2>3, <3>1, AdmitType
    <2>4. CASE Tell(r, "401") /\ UNCHANGED caller
        BY <2>4, TellType DEF Answers, Inv, TypeOK
    <2>5. CASE Goto(r, "auth") /\ UNCHANGED <<answer, caller>>
        BY <2>5 DEF Goto, Answers, Inv, TypeOK, Steps
    <2> QED
        BY <1>1, <2>1, <2>2, <2>3, <2>4, <2>5 DEF Enter, HeaderExtractor, HydraExtractor
<1>6. \A q \in Requests \ {r} : UNCHANGED <<call[q], deadline[q], wrote[q], dead[q]>>
    BY <1>1, <1>2 DEF Inv, TypeOK
<1>7. stage \notin {"loading", "opening", "exited"} /\ stage # "draining"
    BY <1>2
<1>8. failures' \in Nat /\ wrote' \in [Requests -> BOOLEAN] /\ ~wrote'[r]
    BY <1>2, <1>4 DEF Inv, TypeOK
<1>9. config.mode = "hydra" => pc'[r] \notin {"body", "work"}
    BY <1>5
<1> QED
    BY <1>2, <1>3, <1>5, <1>6, <1>7, <1>8, <1>9, OthersKeep DEF Answers

\* An admitted request was asked about after it arrived, and Hydra's answer
\* is about a token that was active then.
LEMMA IntrospectKeeps ==
    ASSUME Inv, NEW r \in Requests, Introspect(r)
    PROVE  Inv'
<1>1. /\ pc[r] = "auth"
      /\ UNCHANGED <<clock, failures, processVars, call, deadline, wrote, active, dead, cutIn>>
    BY DEF Introspect
<1>2. /\ pc' \in [Requests -> Steps] /\ pc'[r] \in {"body", "answered"}
      /\ caller' \in [Requests -> Clients] /\ answer' \in [Requests -> Answers]
      /\ \A q \in Requests \ {r} : pc'[q] = pc[q] /\ caller'[q] = caller[q]
      /\ pc'[r] = "body" => /\ call[r].token \in active
                            /\ caller'[r] = Grant[call[r].token].client
                            /\ call[r].scope \in Grant[call[r].token].scopes
    <2>1. CASE call[r].token \in active /\ Admit(r, Grant[call[r].token], call[r].scope)
        <3>1. Grant[call[r].token].client \in Clients
            BY <2>1 DEF Clients, Inv, TypeOK
        <3> QED
            BY <2>1, <3>1, AdmitType
    <2>2. CASE Tell(r, "401") /\ UNCHANGED caller
        BY <2>2, TellType DEF Answers, Inv, TypeOK
    <2> QED
        BY <2>1, <2>2 DEF Introspect
<1>3. dead[r] \cap active = {} /\ active \subseteq Tokens
    BY <1>1 DEF Inv, AdmittedAreVouched, TypeOK
<1>4. pc'[r] = "body" => Vouched(r)'
    BY <1>1, <1>2, <1>3 DEF Vouched
<1>5. ~wrote[r]
    BY <1>1 DEF Inv, DeadlinesHold
<1>6. stage \notin {"loading", "opening", "exited"}
    BY <1>1, InFlightRuns DEF InFlight
<1>7. /\ stage = "running" => deadline[r] <= clock + RequestTimeout
      /\ stage = "draining" => deadline[r] < drainDeadline
    BY <1>1 DEF Inv, DeadlinesHold
<1>8. /\ call' \in [Requests -> Calls \cup {NoCall}] /\ deadline' \in [Requests -> Nat]
      /\ wrote' \in [Requests -> BOOLEAN] /\ dead' \in [Requests -> SUBSET Tokens]
      /\ failures' \in Nat
    BY <1>1 DEF Inv, TypeOK
<1>9. config.mode = "hydra" /\ (pc'[r] \in {"body", "work"} \/ wrote'[r]) => Vouched(r)'
    BY <1>1, <1>2, <1>4, <1>5
<1> QED
    BY <1>1, <1>2, <1>3, <1>5, <1>6, <1>7, <1>8, <1>9, OthersKeep DEF Answers

\* A request in flight that goes on, or is answered, as the client it was.
LEMMA HandlingKeeps ==
    ASSUME Inv, NEW r \in Requests, InFlight(r),
           pc' \in [Requests -> Steps], pc'[r] \in {"work", "answered"},
           pc'[r] = "work" => pc[r] \in {"body", "work"},
           \A q \in Requests \ {r} : pc'[q] = pc[q] /\ wrote'[q] = wrote[q],
           wrote' \in [Requests -> BOOLEAN],
           wrote'[r] => pc[r] = "work" /\ pc'[r] \in {"work", "answered"},
           pc'[r] = "work" /\ wrote'[r] => clock <= deadline[r],
           answer' \in [Requests -> Answers], failures' \in Nat,
           UNCHANGED <<clock, processVars, call, deadline, caller, active, dead, cutIn>>
    PROVE  Inv'
<1>1. stage \notin {"loading", "opening", "exited"}
    BY InFlightRuns
<1>2. /\ stage = "running" => deadline[r] <= clock + RequestTimeout
      /\ stage = "draining" => deadline[r] < drainDeadline
      /\ dead[r] \cap active = {}
    BY DEF Inv, DeadlinesHold, AdmittedAreVouched, InFlight
<1>3. /\ call' \in [Requests -> Calls \cup {NoCall}] /\ deadline' \in [Requests -> Nat]
      /\ caller' \in [Requests -> Clients] /\ dead' \in [Requests -> SUBSET Tokens]
    BY DEF Inv, TypeOK
<1>4. config.mode = "hydra" /\ (pc'[r] \in {"body", "work"} \/ wrote'[r]) => Vouched(r)'
    <2>1. config.mode = "hydra" /\ pc[r] \in {"body", "work"} => Vouched(r)
        BY DEF Inv, AdmittedAreVouched
    <2> QED
        BY <2>1 DEF Vouched
<1> QED
    BY <1>1, <1>2, <1>3, <1>4, OthersKeep DEF Answers

LEMMA HandlersKeep ==
    ASSUME Inv, NEW r \in Requests,
           IntrospectFails(r) \/ ReadBody(r) \/ Statement(r) \/ Answer(r)
    PROVE  Inv'
<1>1. CASE IntrospectFails(r)
    <2>1. pc[r] = "auth" /\ failures' \in Nat /\ ~wrote[r]
        BY <1>1 DEF IntrospectFails, FailureHappens, Inv, TypeOK, DeadlinesHold
    <2>2. UNCHANGED <<clock, processVars, call, deadline, caller, wrote, active, dead, cutIn>>
        BY <1>1 DEF IntrospectFails
    <2>3. /\ pc' \in [Requests -> Steps] /\ pc'[r] = "answered"
          /\ answer' \in [Requests -> Answers]
          /\ \A q \in Requests \ {r} : pc'[q] = pc[q]
        BY <1>1, TellType DEF IntrospectFails, Answers
    <2>4. wrote \in [Requests -> BOOLEAN]
        BY DEF Inv, TypeOK
    <2> QED
        BY <2>1, <2>2, <2>3, <2>4, HandlingKeeps DEF InFlight
<1>2. CASE ReadBody(r)
    <2>1. pc[r] = "body" /\ failures' \in Nat /\ ~wrote[r]
        BY <1>2 DEF ReadBody, Inv, TypeOK, DeadlinesHold
    <2>2. UNCHANGED <<clock, processVars, call, deadline, caller, wrote, active, dead, cutIn>>
        BY <1>2 DEF ReadBody
    <2>3. /\ pc' \in [Requests -> Steps] /\ pc'[r] \in {"work", "answered"}
          /\ answer' \in [Requests -> Answers]
          /\ \A q \in Requests \ {r} : pc'[q] = pc[q]
        BY <1>2 DEF ReadBody, Tell, Goto, Answers, Inv, TypeOK, Steps
    <2>4. wrote \in [Requests -> BOOLEAN]
        BY DEF Inv, TypeOK
    <2> QED
        BY <2>1, <2>2, <2>3, <2>4, HandlingKeeps DEF InFlight
<1>3. CASE Statement(r)
    <2>1. /\ pc[r] = "work" /\ clock <= deadline[r]
          /\ wrote' = [wrote EXCEPT ![r] = TRUE]
          /\ UNCHANGED <<clock, failures, processVars, pc, call, deadline, caller, answer, active,
                        dead, cutIn>>
        BY <1>3 DEF Statement
    <2>2. /\ wrote' \in [Requests -> BOOLEAN] /\ failures' \in Nat
          /\ pc' \in [Requests -> Steps] /\ answer' \in [Requests -> Answers]
          /\ \A q \in Requests \ {r} : pc'[q] = pc[q] /\ wrote'[q] = wrote[q]
        BY <2>1 DEF Inv, TypeOK, Answers
    <2> QED
        BY <2>1, <2>2, HandlingKeeps DEF InFlight
<1>4. CASE Answer(r)
    <2>1. pc[r] = "work"
        BY <1>4 DEF Answer
    <2>2. UNCHANGED <<clock, failures, processVars, call, deadline, caller, wrote, active, dead, cutIn>>
        BY <1>4 DEF Answer
    <2>3. /\ pc' \in [Requests -> Steps] /\ pc'[r] = "answered"
          /\ answer' \in [Requests -> Answers]
          /\ \A q \in Requests \ {r} : pc'[q] = pc[q]
        BY <1>4, TellType DEF Answer, Answers
    <2>4. wrote \in [Requests -> BOOLEAN] /\ failures' \in Nat
        BY <2>2 DEF Inv, TypeOK
    <2> QED
        BY <2>1, <2>2, <2>3, <2>4, HandlingKeeps DEF InFlight
<1> QED
    BY <1>1, <1>2, <1>3, <1>4

LEMMA DeactivateKeeps ==
    ASSUME Inv, NEW t \in Tokens, Deactivate(t)
    PROVE  Inv'
<1>1. /\ active' = active \ {t}
      /\ UNCHANGED <<clock, failures, config, stage, exit, listener, signalled, drainDeadline,
                    pc, call, deadline, caller, wrote, answer, dead, cutIn>>
    BY DEF Deactivate, processVars, requestVars
<1>2. TypeOK'
    BY <1>1 DEF Inv, TypeOK, Clients, Valid
<1> QED
    BY <1>1, <1>2 DEF Inv, StagesAgree, DeadlinesHold, AdmittedAreVouched, Vouched,
       ShutdownInterruptsNothing, InFlight, Valid

\* The clock stops at the deadline of whatever is bound by one.
LEMMA TickKeeps ==
    ASSUME Inv, Tick
    PROVE  Inv'
<1>1. /\ \A r \in Requests : pc[r] \in {"auth", "work"} => clock < deadline[r]
      /\ clock' = clock + 1
      /\ UNCHANGED <<failures, config, stage, exit, listener, signalled, drainDeadline,
                    pc, call, deadline, caller, wrote, answer, active, dead, cutIn>>
    BY DEF Tick, processVars, requestVars
<1>2. TypeOK'
    BY <1>1 DEF Inv, TypeOK, Clients, Valid
<1>3. DeadlinesHold'
    <2> SUFFICES ASSUME NEW r \in Requests
                 PROVE  /\ stage = "running" /\ pc[r] # "idle" => deadline[r] <= clock' + RequestTimeout
                        /\ stage = "draining" /\ pc[r] # "idle" => deadline[r] < drainDeadline
                        /\ pc[r] = "auth" => clock' <= deadline[r]
                        /\ pc[r] = "work" /\ wrote[r] => clock' <= deadline[r]
                        /\ wrote[r] => pc[r] \in {"work", "answered", "cut"}
        BY <1>1 DEF DeadlinesHold
    <2>1. clock \in Nat /\ deadline[r] \in Nat
        BY DEF Inv, TypeOK
    <2> QED
        BY <2>1, <1>1, TimeoutsAssumption DEF Inv, DeadlinesHold
<1> QED
    BY <1>1, <1>2, <1>3 DEF Inv, StagesAgree, AdmittedAreVouched, Vouched,
       ShutdownInterruptsNothing, InFlight, Valid

-----------------------------------------------------------------------------
LEMMA NextInv == Inv /\ [Next]_vars => Inv'
<1> SUFFICES ASSUME Inv, [Next]_vars PROVE Inv'
    OBVIOUS
<1>1. failures \in Nat
    BY DEF Inv, TypeOK
<1>2. ASSUME NEW c \in Configurations, Load(c) \/ RefuseConfig(c)
      PROVE  Inv'
    BY <1>2, LoadKeeps, ExitsKeep
<1>3. CASE Open \/ Listen \/ ListenFails \/ Signal
    <2> DEFINE Kept ==
            /\ stage \in {"opening", "running"} /\ stage' \in {stage, "running"}
            /\ failures' \in Nat /\ listener' \in {"closed", "up", "failed"}
            /\ signalled' \in BOOLEAN
            /\ UNCHANGED <<clock, config, exit, drainDeadline, requestVars, active>>
    <2>0. listener \in {"closed", "up", "failed"} /\ signalled \in BOOLEAN
        BY DEF Inv, TypeOK
    <2>1. Open => Kept
        BY <1>1, <2>0 DEF Open
    <2>2. Listen => Kept
        BY <1>1, <2>0 DEF Listen
    <2>3. ListenFails => Kept
        BY <1>1, <2>0 DEF ListenFails, FailureHappens
    <2>4. Signal => Kept
        BY <1>1, <2>0 DEF Signal
    <2>5. Kept
        BY <1>3, <2>1, <2>2, <2>3, <2>4
    <2> QED
        BY <2>5, ProcessStepKeeps
<1>4. CASE Process
    BY <1>3, <1>4, BeginShutdownKeeps, DrainExpiresKeeps, ExitsKeep DEF Process
<1>5. ASSUME NEW r \in Requests, Arrive(r) \/ Handle(r) \/ ReadBody(r) \/ Statement(r)
      PROVE  Inv'
    BY <1>5, ArriveKeeps, IntrospectKeeps, HandlersKeep DEF Handle
<1>6. CASE UNCHANGED vars
    BY <1>6 DEF vars, processVars, requestVars, Inv, TypeOK, StagesAgree, DeadlinesHold,
       AdmittedAreVouched, Vouched, ShutdownInterruptsNothing, InFlight, Valid, Clients
<1> QED
    BY <1>2, <1>3, <1>4, <1>5, <1>6, DeactivateKeeps, TickKeeps DEF Next

LEMMA Inductive == Spec => []Inv
<1> QED
    BY InitInv, NextInv, PTL DEF Spec

\* Every variable of the process keeps its type, and the process only runs
\* with a configuration that Validate accepts.
THEOREM ServiceTypeCorrect == Spec => []TypeOK
<1>1. Inv => TypeOK
    BY DEF Inv
<1> QED
    BY <1>1, Inductive, PTL

\* A process that is told to stop cuts off no introspection and no request
\* that has reached the store, because ShutdownTimeout exceeds RequestTimeout.
THEOREM ShutdownIsGraceful == Spec => []ShutdownInterruptsNothing
<1>1. Inv => ShutdownInterruptsNothing
    BY DEF Inv
<1> QED
    BY <1>1, Inductive, PTL

\* In production no request reaches the store unless Hydra vouched for its
\* token after it arrived, for the client and the scope it acts under.
THEOREM ActsAreVouched == Spec => []ActsForALiveToken
<1>1. Inv => ActsForALiveToken
    <2> SUFFICES ASSUME Inv, NEW r \in Requests, wrote[r], config.environment = "production"
                 PROVE  Vouched(r)
        BY DEF ActsForALiveToken, Vouched
    <2>1. config.mode = "hydra"
        BY DEF Inv, TypeOK, StagesAgree, NoConfig, Valid
    <2> QED
        BY <2>1 DEF Inv, AdmittedAreVouched
<1> QED
    BY <1>1, Inductive, PTL
=============================================================================
