---------------------------- MODULE TrustRuntime ----------------------------
(***************************************************************************)
(* How the verifier learns an issuer's trust state (TrustReadClient with   *)
(* HydraClientCredentialsTokenSource, and the trust registry's             *)
(* getIssuerTrust behind hydraIntrospectionAuthorizer).                    *)
(*                                                                         *)
(* A read takes the cached access token or fetches one, presents it to the *)
(* registry, which has Hydra introspect it and then reads its table.  The  *)
(* cache's mutex covers a look and a store, not the fetch between them, so *)
(* fetches overlap and the last to arrive is kept.  Each HTTP exchange     *)
(* takes time, all of a request's within RequestTimeout of its arrival;    *)
(* tokens age while it does, and Hydra may deactivate one.                 *)
(*                                                                         *)
(* A request fetches at most one token, so a token is named by the request *)
(* it was granted to.  The table holds one issuer.  Time is in seconds of  *)
(* a single clock: what the processes' clocks differ by is not modelled.   *)
(***************************************************************************)
EXTENDS Naturals

CONSTANTS Requests,       \* the reads of the trust client and readiness probes
          NoToken,        \* the empty bearer token
          RequestTimeout, \* bound on a request, and on each of its exchanges
          Margin,         \* how much early a token is dropped: 30 seconds
          Offers,         \* what Hydra may grant: expires_in, and to whom
          Expected,       \* the client and the scope the registry asks for
          States,         \* what the registry's table may hold for the issuer
          NoRecord,       \* the member of States that stands for no row
          LastSecond      \* bound on the clock

Failed == {"unauthorized", "unavailable", "undecoded"}
Refusals == {"401", "403", "500", "503"}
Answers == {"none", "ready"} \cup Failed \cup States
Responses == {"none"} \cup Refusals \cup States

ASSUME NamesAssumption ==
    /\ NoToken \notin Requests
    /\ NoRecord \in States
    /\ States \cap ({"none", "ready", "ok"} \cup Failed \cup Refusals) = {}
ASSUME OffersAssumption == \A offer \in Offers : offer.life \in Nat
ASSUME ClockAssumption == LastSecond \in Nat
\* The configuration takes any positive timeout, 5 seconds by default; see
\* NeverRefusedForAge for what depends on this bound.
ASSUME TimeoutAssumption ==
    /\ RequestTimeout \in Nat \ {0}
    /\ Margin \in Nat
    /\ 2 * RequestTimeout < Margin

VARIABLES
    clock,
    (* the requests, as the verifier sees them *)
    pc,           \* pc[r]: what r waits for
    kind,         \* kind[r]: a trust "read", or a readiness "probe"
    deadline,     \* deadline[r]: when r's context expires
    token,        \* token[r]: the bearer token r holds
    answer,       \* answer[r]: what the caller was told
    (* the token source *)
    cachedToken,
    cachedExpiry,
    (* Hydra *)
    granted,      \* granted[t]: when and for whom token t was granted
    revoked,      \* the tokens Hydra no longer calls active
    (* the trust registry *)
    table,        \* the issuer's state in trust_registry_issuer_records
    response,     \* response[r]: what the registry answers r
    (* history *)
    dead          \* dead[r]: the tokens revoked before r arrived

verifierVars == <<pc, kind, deadline, token, answer>>
cacheVars == <<cachedToken, cachedExpiry>>
hydraVars == <<granted, revoked>>
vars == <<clock, verifierVars, cacheVars, hydraVars, table, response, dead>>

Exchanges == {"token", "grant", "store", "introspect", "load", "receive"}
NoGrant == [at |-> 0]
GrantOf(offer, second) == [at |-> second, life |-> offer.life, grantee |-> offer.grantee]
Grants == {GrantOf(offer, second) : offer \in Offers, second \in 0..LastSecond}

InFlight(r) == pc[r] \in Exchanges
Goto(r, step) == pc' = [pc EXCEPT ![r] = step]
Finish(r, told) ==
    /\ answer' = [answer EXCEPT ![r] = told]
    /\ Goto(r, "done")

Init ==
    /\ clock = 0
    /\ pc = [r \in Requests |-> "idle"]
    /\ kind = [r \in Requests |-> "read"]
    /\ deadline = [r \in Requests |-> 0]
    /\ token = [r \in Requests |-> NoToken]
    /\ answer = [r \in Requests |-> "none"]
    /\ cachedToken = NoToken
    /\ cachedExpiry = 0
    /\ granted = [r \in Requests |-> NoGrant]
    /\ revoked = {}
    /\ table \in States
    /\ response = [r \in Requests |-> "none"]
    /\ dead = [r \in Requests |-> {}]

-----------------------------------------------------------------------------
(* The token source.                                                       *)

Arrive(r) ==
    /\ pc[r] = "idle"
    /\ clock + RequestTimeout <= LastSecond
    /\ \E k \in {"read", "probe"} : kind' = [kind EXCEPT ![r] = k]
    /\ deadline' = [deadline EXCEPT ![r] = clock + RequestTimeout]
    /\ dead' = [dead EXCEPT ![r] = revoked]
    /\ Goto(r, "token")
    /\ UNCHANGED <<clock, token, answer, cacheVars, hydraVars, table, response>>

\* Token has returned t: a probe wanted no more.
UseToken(r, t) ==
    /\ token' = [token EXCEPT ![r] = t]
    /\ IF kind[r] = "probe" THEN Finish(r, "ready")
       ELSE Goto(r, "introspect") /\ UNCHANGED answer

CacheServes == cachedToken # NoToken /\ clock <= cachedExpiry

\* cachedAccessToken finds a token that has not expired.
TakeCached(r) ==
    /\ pc[r] = "token"
    /\ CacheServes
    /\ UseToken(r, cachedToken)
    /\ UNCHANGED <<clock, kind, deadline, cacheVars, hydraVars, table, response, dead>>

\* It does not: what is cached is dropped, and a fetch starts.
MissCache(r) ==
    /\ pc[r] = "token"
    /\ ~CacheServes
    /\ cachedToken' = NoToken
    /\ cachedExpiry' = 0
    /\ Goto(r, "grant")
    /\ UNCHANGED <<clock, kind, deadline, token, answer, hydraVars, table, response, dead>>

\* Hydra grants a token; its response is on the way.
Grant(r) ==
    /\ pc[r] = "grant"
    /\ \E offer \in Offers : granted' = [granted EXCEPT ![r] = GrantOf(offer, clock)]
    /\ Goto(r, "store")
    /\ UNCHANGED <<clock, kind, deadline, token, answer, cacheVars, revoked, table, response, dead>>

\* A cache that trusts expires_in to the last second.
UntilExpiry(life) == clock + life
\* A cache that takes the margin off whatever the lifetime.
AlwaysEarly(life) == clock + life - Margin

\* The life is counted from now, when the response is in, not from the grant.
CachedUntil(life) == clock + (IF life <= Margin THEN life ELSE life - Margin)

StoreToken(r) ==
    /\ pc[r] = "store"
    /\ cachedToken' = r
    /\ cachedExpiry' = CachedUntil(granted[r].life)
    /\ UseToken(r, r)
    /\ UNCHANGED <<clock, kind, deadline, hydraVars, table, response, dead>>

-----------------------------------------------------------------------------
(* The trust registry.                                                     *)

Respond(r, code) ==
    /\ response' = [response EXCEPT ![r] = code]
    /\ Goto(r, "receive")

IsActive(t) == t \notin revoked /\ clock < granted[t].at + granted[t].life

\* An authorizer that does not look whether the token is active.
AnyToken(t) == IF granted[t].grantee # Expected THEN "403" ELSE "ok"

Authorize(t) ==
    IF ~IsActive(t) THEN "401"
    ELSE IF granted[t].grantee # Expected THEN "403"
    ELSE "ok"

\* Hydra introspects the token the registry was sent, or cannot be reached.
Introspect(r) ==
    /\ pc[r] = "introspect"
    /\ \/ /\ Authorize(token[r]) = "ok"
          /\ Goto(r, "load")
          /\ UNCHANGED response
       \/ /\ Authorize(token[r]) # "ok"
          /\ Respond(r, Authorize(token[r]))
       \/ Respond(r, "503")
    /\ UNCHANGED <<clock, kind, deadline, token, answer, cacheVars, hydraVars, table, dead>>

\* A registry that answers "no such issuer" when its database fails.
AbsentOnFailure == NoRecord

LoadFailure == "500"

\* GetIssuerRecord; NoRecord as a response is the status 404.
Load(r) ==
    /\ pc[r] = "load"
    /\ \E code \in {table, LoadFailure} : Respond(r, code)
    /\ UNCHANGED <<clock, kind, deadline, token, answer, cacheVars, hydraVars, table, dead>>

-----------------------------------------------------------------------------
(* The trust client.                                                       *)

Told(code) ==
    CASE code \in {"401", "403"} -> "unauthorized"
      [] code \in {"500", "503"} -> "unavailable"
      [] OTHER -> code

\* The response is in; that of a record may not decode.
Receive(r) ==
    /\ pc[r] = "receive"
    /\ \E told \in {Told(response[r])} \cup
                   (IF response[r] \in States \ {NoRecord} THEN {"undecoded"} ELSE {}) :
          Finish(r, told)
    /\ UNCHANGED <<clock, kind, deadline, token, cacheVars, hydraVars, table, response, dead>>

\* An HTTP exchange of r fails: refused, broken off, or its deadline passed.
Exchanging(r) == pc[r] \in Exchanges \ {"token"}
GiveUp(r) ==
    /\ Exchanging(r)
    /\ Finish(r, "unavailable")
    /\ UNCHANGED <<clock, kind, deadline, token, cacheVars, hydraVars, table, response, dead>>

-----------------------------------------------------------------------------
(* The world.                                                              *)

\* Hydra deactivates a token it granted.
Revoke(t) ==
    /\ granted[t] # NoGrant
    /\ t \notin revoked
    /\ revoked' = revoked \cup {t}
    /\ UNCHANGED <<clock, verifierVars, cacheVars, granted, table, response, dead>>

\* The registry's table is rewritten.
ChangeTrust ==
    /\ table' \in States \ {table}
    /\ UNCHANGED <<clock, verifierVars, cacheVars, hydraVars, response, dead>>

\* Time passes, never beyond the deadline of a request in flight.
Tick ==
    /\ clock < LastSecond
    /\ \A r \in Requests : InFlight(r) => clock < deadline[r]
    /\ clock' = clock + 1
    /\ UNCHANGED <<verifierVars, cacheVars, hydraVars, table, response, dead>>

Step(r) ==
    \/ Arrive(r) \/ TakeCached(r) \/ MissCache(r) \/ Grant(r) \/ StoreToken(r)
    \/ Introspect(r) \/ Load(r) \/ Receive(r) \/ GiveUp(r) \/ Revoke(r)

Next ==
    \/ \E r \in Requests : Step(r)
    \/ ChangeTrust
    \/ Tick

Spec == Init /\ [][Next]_vars

-----------------------------------------------------------------------------
(* Properties.                                                             *)

\* Every variable holds what the code can put there.
TypeOK ==
    /\ clock \in 0..LastSecond
    /\ pc \in [Requests -> {"idle", "done"} \cup Exchanges]
    /\ kind \in [Requests -> {"read", "probe"}]
    /\ deadline \in [Requests -> 0..LastSecond]
    /\ token \in [Requests -> Requests \cup {NoToken}]
    /\ answer \in [Requests -> Answers]
    /\ cachedToken \in Requests \cup {NoToken}
    /\ cachedExpiry \in Nat
    /\ granted \in [Requests -> Grants \cup {NoGrant}]
    /\ revoked \subseteq Requests
    /\ table \in States
    /\ response \in [Requests -> Responses]
    /\ dead \in [Requests -> SUBSET Requests]

LongLived(t) == granted[t].life > Margin

\* A read is never refused because the token it was handed has grown too old
\* since: a token that outlives the margin is dropped from the cache early
\* enough for the request that takes it last, however late its grant came in
\* and however many fetches overlapped.  Only a revoked token, one for
\* another client or scope, or a short-lived one is refused.
NeverRefusedForAge ==
    \A r \in Requests :
        answer[r] = "unauthorized" =>
            \/ token[r] \in revoked
            \/ granted[token[r]].grantee # Expected
            \/ ~LongLived(token[r])

\* What the registry holds is told only on a token that was good when the
\* read began, though the verifier may hold on to one that is not: revoked
\* tokens stay in its cache, and short-lived ones are used to the end.
OnlyEntitledReads ==
    \A r \in Requests :
        answer[r] \in States \cup {"undecoded"} =>
            LET grant == granted[token[r]]
            IN  /\ token[r] \notin dead[r]
                /\ grant.grantee = Expected
                /\ deadline[r] < grant.at + grant.life + RequestTimeout

Stage(r) == IF pc[r] = "idle" THEN "idle" ELSE IF InFlight(r) THEN "open" ELSE "closed"
StateIn(message) == IF message \in States THEN message ELSE NoToken

READ == INSTANCE TrustRead WITH
    Unknown <- NoToken,
    stage <- [r \in Requests |-> Stage(r)],
    seen <- [r \in Requests |-> StateIn(response[r])],
    told <- [r \in Requests |-> StateIn(answer[r])]

\* An issuer is said to be in a state, or absent, only if the registry's table
\* said so while the read was under way: no failure of Hydra, of the registry
\* or of its database, and no cached answer, passes for a state.
ReadsAreTrue == READ!Spec
=============================================================================
