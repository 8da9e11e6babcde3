--------------------------- MODULE PublicService ---------------------------
(***************************************************************************)
(* The process of issuer-api or verifier-api, from its configuration to    *)
(* its exit, and the way of a request through it: config.Load and Validate,*)
(* app.Run, runtime.RunHTTP, httpx.ContextTimeout, the extractors of       *)
(* authctx and DecodeJSONBody.  What a handler does once it has its        *)
(* request is IssuerApi and VerifierApi; here it is work that may reach    *)
(* the store, until its context expires.                                   *)
(*                                                                         *)
(* A request's context is done RequestTimeout after its arrival, and the   *)
(* introspection call and every statement end by then.  Reading the body   *)
(* is not bounded: a client may take as long as it likes.  On a signal the *)
(* process waits for its requests, for ShutdownTimeout at most; when its   *)
(* listener fails it does not wait at all.                                 *)
(***************************************************************************)
EXTENDS Naturals

CONSTANTS
    Requests,
    Calls,           \* what a client may send
    NoToken,         \* the bearer token of a call without one
    Grant,           \* Grant[t]: the client Hydra granted t to, and its scopes
    NoClient,
    Configurations,  \* what the environment variables may hold
    RequestTimeout,
    ShutdownTimeout,
    MaxFailures,     \* bound on failures of Hydra, of the listener, of opening
    LastSecond       \* bound on the clock

Tokens == DOMAIN Grant
Clients == {Grant[t].client : t \in Tokens} \cup {c.claim.client : c \in Calls} \cup {NoClient}

ASSUME TokensAssumption ==
    /\ NoToken \notin Tokens
    /\ \A c \in Calls : c.token \in Tokens \cup {NoToken}
ASSUME BoundsAssumption == MaxFailures \in Nat /\ LastSecond \in Nat
\* 5 and 10 seconds by default; Validate asks only that each be positive.
ASSUME TimeoutsAssumption ==
    /\ RequestTimeout \in Nat \ {0}
    /\ ShutdownTimeout \in Nat
    /\ RequestTimeout < ShutdownTimeout

VARIABLES
    clock,
    failures,       \* failures that may still happen
    (* the process *)
    config,         \* the configuration it loaded
    stage,          \* how far it has come
    exit,           \* why it exited
    listener,
    signalled,      \* SIGINT or SIGTERM was delivered
    drainDeadline,  \* when Shutdown stops waiting
    (* the requests *)
    pc,             \* pc[r]: what r waits for
    call,           \* call[r]: what its client sent
    deadline,       \* deadline[r]: when its context expires
    caller,         \* caller[r]: the client it is attributed to
    wrote,          \* wrote[r]: a statement of it has reached the store
    answer,         \* answer[r]: what its client was told
    (* Hydra *)
    active,         \* the tokens that introspection calls active
    (* history *)
    dead,           \* dead[r]: the tokens that were not, when r arrived
    cutIn           \* cutIn[r]: what r was doing when the process exited

processVars == <<config, stage, exit, listener, signalled, drainDeadline>>
requestVars == <<pc, call, deadline, caller, wrote, answer, dead, cutIn>>
vars == <<clock, failures, processVars, requestVars, active>>

Stages == {"loading", "opening", "running", "draining", "exited"}
Exits == {"none", "config", "store", "listener", "drained", "expired"}
Steps == {"idle", "auth", "body", "work", "answered", "cut"}
InFlight(r) == pc[r] \in {"auth", "body", "work"}

Goto(r, step) == pc' = [pc EXCEPT ![r] = step]
Tell(r, code) == Goto(r, "answered") /\ answer' = [answer EXCEPT ![r] = code]
FailureHappens == failures > 0 /\ failures' = failures - 1

NoConfig == [environment |-> "none", mode |-> "none"]
NoCall == [route |-> "unknown", token |-> NoToken, scope |-> "none",
           claim |-> [client |-> NoClient, scopes |-> {}], wellFormed |-> FALSE]

Init ==
    /\ clock = 0
    /\ failures = MaxFailures
    /\ config = NoConfig
    /\ stage = "loading"
    /\ exit = "none"
    /\ listener = "closed"
    /\ signalled = FALSE
    /\ drainDeadline = 0
    /\ pc = [r \in Requests |-> "idle"]
    /\ call = [r \in Requests |-> NoCall]
    /\ deadline = [r \in Requests |-> 0]
    /\ caller = [r \in Requests |-> NoClient]
    /\ wrote = [r \in Requests |-> FALSE]
    /\ answer = [r \in Requests |-> "none"]
    /\ active = Tokens
    /\ dead = [r \in Requests |-> {}]
    /\ cutIn = [r \in Requests |-> "none"]

-----------------------------------------------------------------------------
(* The process.                                                            *)

\* Validate: attribution by header is for every environment but production.
Valid(c) ==
    /\ c.mode \in {"header", "hydra"}
    /\ ~(c.environment = "production" /\ c.mode = "header")

\* The process exits, and takes what is in flight with it.
Exit(why) ==
    /\ stage' = "exited"
    /\ exit' = why
    /\ listener' = "closed"
    /\ pc' = [r \in Requests |-> IF InFlight(r) THEN "cut" ELSE pc[r]]
    /\ cutIn' = [r \in Requests |-> IF InFlight(r) THEN pc[r] ELSE "none"]
    /\ UNCHANGED <<clock, config, signalled, drainDeadline, call, deadline, caller, wrote,
                   answer, active, dead>>

\* A service that starts with whatever it finds.
LoadUnvalidated(c) ==
    /\ stage = "loading"
    /\ config' = c
    /\ stage' = "opening"
    /\ UNCHANGED <<clock, failures, exit, listener, signalled, drainDeadline, requestVars, active>>

Load(c) ==
    /\ stage = "loading"
    /\ Valid(c)
    /\ config' = c
    /\ stage' = "opening"
    /\ UNCHANGED <<clock, failures, exit, listener, signalled, drainDeadline, requestVars, active>>

RefuseConfig(c) ==
    /\ stage = "loading"
    /\ ~Valid(c)
    /\ Exit("config")
    /\ UNCHANGED failures

\* NewMux has opened the store (see TrustLifecycle), and RunHTTP begins.
Open ==
    /\ stage = "opening"
    /\ stage' = "running"
    /\ UNCHANGED <<clock, failures, config, exit, listener, signalled, drainDeadline,
                   requestVars, active>>

OpenFails ==
    /\ stage = "opening"
    /\ FailureHappens
    /\ Exit("store")

Listen ==
    /\ stage = "running"
    /\ listener = "closed"
    /\ listener' = "up"
    /\ UNCHANGED <<clock, failures, config, stage, exit, signalled, drainDeadline,
                   requestVars, active>>

\* The address is taken, or the listener stops accepting: the goroutine puts
\* the error into its channel.
ListenFails ==
    /\ stage = "running"
    /\ listener \in {"closed", "up"}
    /\ FailureHappens
    /\ listener' = "failed"
    /\ UNCHANGED <<clock, config, stage, exit, signalled, drainDeadline, requestVars, active>>

\* From NotifyContext on; a second signal changes nothing.
Signal ==
    /\ stage \in {"opening", "running"}
    /\ ~signalled
    /\ signalled' = TRUE
    /\ UNCHANGED <<clock, failures, config, stage, exit, listener, drainDeadline,
                   requestVars, active>>

\* The select of RunHTTP takes the listener's error ...
ExitOnListenerError ==
    /\ stage = "running"
    /\ listener = "failed"
    /\ Exit("listener")
    /\ UNCHANGED failures

\* A service that stops at once when it is told to.
CloseOnSignal ==
    /\ stage = "running"
    /\ signalled
    /\ Exit("drained")
    /\ UNCHANGED failures

\* ... or the context's end, whichever it finds (either, when both are there).
BeginShutdown ==
    /\ stage = "running"
    /\ signalled
    /\ stage' = "draining"
    /\ listener' = "closed"
    /\ drainDeadline' = clock + ShutdownTimeout
    /\ UNCHANGED <<clock, failures, config, exit, signalled, requestVars, active>>

Drained ==
    /\ stage = "draining"
    /\ \A r \in Requests : ~InFlight(r)
    /\ Exit("drained")
    /\ UNCHANGED failures

\* A shutdown with no time limit of its own.
DrainForever == FALSE /\ UNCHANGED vars

DrainExpires ==
    /\ stage = "draining"
    /\ clock >= drainDeadline
    /\ Exit("expired")
    /\ UNCHANGED failures

-----------------------------------------------------------------------------
(* The requests.                                                           *)

\* What follows from who the caller is: ValidateFor, then RequireScope.
Admit(r, identity, scope) ==
    \/ /\ identity.client # NoClient
       /\ scope \in identity.scopes
       /\ caller' = [caller EXCEPT ![r] = identity.client]
       /\ Goto(r, "body")
       /\ UNCHANGED answer
    \/ /\ identity.client = NoClient \/ identity.scopes = {}
       /\ Tell(r, "401")
       /\ UNCHANGED caller
    \/ /\ identity.client # NoClient
       /\ identity.scopes # {}
       /\ scope \notin identity.scopes
       /\ Tell(r, "403")
       /\ UNCHANGED caller

\* headerAttributionFromRequest: the client is who the headers say.
HeaderExtractor(r, c) == Admit(r, c.claim, c.scope)

\* bearerTokenFromRequest, up to the call to Hydra.
HydraExtractor(r, c) ==
    \/ c.token = NoToken /\ Tell(r, "401") /\ UNCHANGED caller
    \/ c.token # NoToken /\ Goto(r, "auth") /\ UNCHANGED <<answer, caller>>

\* RouteHandler, and the extractor of the configured mode.
Enter(r, c) ==
    \/ c.route = "unknown" /\ Tell(r, "404") /\ UNCHANGED caller
    \/ c.route = "open" /\ Tell(r, "ok") /\ UNCHANGED caller
    \/ c.route = "phase1" /\ config.mode = "header" /\ HeaderExtractor(r, c)
    \/ c.route = "phase1" /\ config.mode = "hydra" /\ HydraExtractor(r, c)

\* A connection is accepted while the listener is up, and the first thing a
\* request gets is its deadline.
Arrive(r) ==
    /\ pc[r] = "idle"
    /\ stage = "running"
    /\ listener = "up"
    /\ \E c \in Calls : call' = [call EXCEPT ![r] = c] /\ Enter(r, c)
    /\ deadline' = [deadline EXCEPT ![r] = clock + RequestTimeout]
    /\ dead' = [dead EXCEPT ![r] = Tokens \ active]
    /\ UNCHANGED <<clock, failures, processVars, wrote, active, cutIn>>

\* An introspection that remembers the tokens it once found active.
IntrospectOnce(r) ==
    /\ pc[r] = "auth"
    /\ \/ /\ \/ call[r].token \in active
             \/ \E q \in Requests \ {r} :
                    call[q].token = call[r].token /\ caller[q] # NoClient
          /\ Admit(r, Grant[call[r].token], call[r].scope)
       \/ /\ call[r].token \notin active
          /\ Tell(r, "401")
          /\ UNCHANGED caller
    /\ UNCHANGED <<clock, failures, processVars, call, deadline, wrote, active, dead, cutIn>>

\* Hydra is asked on every request; nothing is remembered.
Introspect(r) ==
    /\ pc[r] = "auth"
    /\ \/ /\ call[r].token \in active
          /\ Admit(r, Grant[call[r].token], call[r].scope)
       \/ /\ call[r].token \notin active
          /\ Tell(r, "401")
          /\ UNCHANGED caller
    /\ UNCHANGED <<clock, failures, processVars, call, deadline, wrote, active, dead, cutIn>>

\* Hydra does not answer, or not in time.
IntrospectFails(r) ==
    /\ pc[r] = "auth"
    /\ \/ FailureHappens
       \/ clock >= deadline[r] /\ UNCHANGED failures
    /\ Tell(r, "503")
    /\ UNCHANGED <<clock, processVars, call, deadline, caller, wrote, active, dead, cutIn>>

\* The body has arrived, whenever that is; it decodes or it does not.
ReadBody(r) ==
    /\ pc[r] = "body"
    /\ \/ call[r].wellFormed /\ Goto(r, "work") /\ UNCHANGED answer
       \/ ~call[r].wellFormed /\ Tell(r, "400")
    /\ UNCHANGED <<clock, failures, processVars, call, deadline, caller, wrote, active, dead, cutIn>>

\* A statement takes effect: not after the context has expired.
Statement(r) ==
    /\ pc[r] = "work"
    /\ clock <= deadline[r]
    /\ wrote' = [wrote EXCEPT ![r] = TRUE]
    /\ UNCHANGED <<clock, failures, processVars, pc, call, deadline, caller, answer, active, dead,
                   cutIn>>

\* The handler answers, its statements done or refused.
Answer(r) ==
    /\ pc[r] = "work"
    /\ Tell(r, IF wrote[r] THEN "ok" ELSE "500")
    /\ UNCHANGED <<clock, failures, processVars, call, deadline, caller, wrote, active, dead, cutIn>>

-----------------------------------------------------------------------------
(* The world.                                                              *)

Deactivate(t) ==
    /\ t \in active
    /\ active' = active \ {t}
    /\ UNCHANGED <<clock, failures, processVars, requestVars>>

\* Time does not pass a deadline that something still waits for: the calls
\* made under a context end with it, and so does the wait of Shutdown.  The
\* clock stops early enough for a shutdown to have its time.
Tick ==
    /\ stage = "draining" \/ clock + ShutdownTimeout < LastSecond
    /\ \A r \in Requests : pc[r] \in {"auth", "work"} => clock < deadline[r]
    /\ stage = "draining" => clock < drainDeadline
    /\ clock' = clock + 1
    /\ UNCHANGED <<failures, processVars, requestVars, active>>

Process ==
    \/ Open \/ OpenFails \/ Listen
    \/ ExitOnListenerError \/ BeginShutdown \/ Drained \/ DrainExpires

Handle(r) == Introspect(r) \/ IntrospectFails(r) \/ Answer(r)

Next ==
    \/ \E c \in Configurations : Load(c) \/ RefuseConfig(c)
    \/ Process \/ ListenFails \/ Signal
    \/ \E r \in Requests : Arrive(r) \/ Handle(r) \/ ReadBody(r) \/ Statement(r)
    \/ \E t \in Tokens : Deactivate(t)
    \/ Tick

Spec == Init /\ [][Next]_vars

\* The process and its handlers run, and time passes; no client need ever
\* send the rest of its body.
Fairness ==
    /\ WF_vars(Process)
    /\ WF_vars(Tick)
    /\ \A r \in Requests : WF_vars(Handle(r))

FairSpec == Spec /\ Fairness

-----------------------------------------------------------------------------
(* Properties.                                                             *)

\* Every variable holds what the process, a request or Hydra can hold.
TypeOK ==
    /\ clock \in Nat
    /\ failures \in Nat
    /\ config \in {c \in Configurations : Valid(c)} \cup {NoConfig}
    /\ stage \in Stages
    /\ exit \in Exits
    /\ listener \in {"closed", "up", "failed"}
    /\ signalled \in BOOLEAN
    /\ drainDeadline \in Nat
    /\ pc \in [Requests -> Steps]
    /\ call \in [Requests -> Calls \cup {NoCall}]
    /\ deadline \in [Requests -> Nat]
    /\ caller \in [Requests -> Clients]
    /\ wrote \in [Requests -> BOOLEAN]
    /\ answer \in [Requests -> {"none", "ok", "400", "401", "403", "404", "500", "503"}]
    /\ active \subseteq Tokens
    /\ dead \in [Requests -> SUBSET Tokens]
    /\ cutIn \in [Requests -> Steps \cup {"none"}]

\* A process that was told to stop does not stop in the middle of anything:
\* whoever it cuts off after ShutdownTimeout was still sending its body, or
\* had sent it too late for a statement to be made.  So no reservation and no
\* credential without its record is left by a deployment.
ShutdownInterruptsNothing ==
    exit \in {"drained", "expired"} =>
        \A r \in Requests : pc[r] = "cut" => cutIn[r] # "auth" /\ ~wrote[r]

\* In production a request reaches the store only for a client that Hydra
\* vouched for after the request had arrived: not on the word of a header,
\* not with a token deactivated before, and not outside its token's scopes.
ActsForALiveToken ==
    \A r \in Requests :
        wrote[r] /\ config.environment = "production" =>
            /\ call[r].token \in Tokens \ dead[r]
            /\ caller[r] = Grant[call[r].token].client
            /\ call[r].scope \in Grant[call[r].token].scopes

\* A signal stops the process, though a client never finishes its request.
SignalStops == signalled ~> stage = "exited"
=============================================================================
