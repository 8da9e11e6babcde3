------------------------- MODULE TrustRuntimeProofs -------------------------
(* Proofs about TrustRuntime, for any requests, grants, tables and timeout. *)
EXTENDS TrustRuntime, TLAPS

-----------------------------------------------------------------------------
(* The inductive invariant.                                                 *)

HasGrant(t) ==
    /\ t \in Requests
    /\ granted[t] \in Grants
    /\ pc[t] \notin {"idle", "token", "grant"}

\* Time stops at the deadline of a request in flight.
OnTime(r) ==
    InFlight(r) => clock <= deadline[r] /\ deadline[r] <= clock + RequestTimeout

\* A grant on its way to r was made after r arrived.
Fetching(r) ==
    pc[r] = "store" => /\ HasGrant(r)
                       /\ deadline[r] <= granted[r].at + RequestTimeout

\* The late start of the cached life costs no more than one request's time.
CacheIsEarly ==
    cachedToken # NoToken =>
        /\ HasGrant(cachedToken)
        /\ LongLived(cachedToken) =>
              cachedExpiry + Margin
                  <= granted[cachedToken].at + granted[cachedToken].life + RequestTimeout

Presenting(r) == pc[r] \in {"introspect", "load", "receive"}

\* What a request presents outlives the request.
Carrying(r) ==
    /\ token[r] # NoToken => HasGrant(token[r])
    /\ Presenting(r) =>
          /\ token[r] # NoToken
          /\ LongLived(token[r]) =>
                deadline[r] < granted[token[r]].at + granted[token[r]].life

\* Responses and answers come in their turn.
InTurn(r) ==
    /\ response[r] # "none" => pc[r] \in {"receive", "done"}
    /\ pc[r] = "receive" => response[r] # "none"
    /\ answer[r] # "none" => pc[r] = "done"

Refused(r) ==
    \/ pc[r] = "receive" /\ response[r] \in {"401", "403"}
    \/ answer[r] = "unauthorized"
RefusedRightly(r) ==
    Refused(r) => /\ token[r] # NoToken
                  /\ \/ token[r] \in revoked
                     \/ granted[token[r]].grantee # Expected
                     \/ ~LongLived(token[r])

Served(r) ==
    \/ pc[r] = "load"
    \/ pc[r] = "receive" /\ response[r] \in States
    \/ answer[r] \in States \cup {"undecoded"}
ServedRightly(r) ==
    Served(r) => /\ token[r] # NoToken
                 /\ token[r] \notin dead[r]
                 /\ granted[token[r]].grantee = Expected
                 /\ deadline[r] < granted[token[r]].at + granted[token[r]].life + RequestTimeout

RequestInv(r) ==
    /\ OnTime(r)
    /\ Fetching(r)
    /\ Carrying(r)
    /\ InTurn(r)
    /\ RefusedRightly(r)
    /\ ServedRightly(r)
    /\ dead[r] \subseteq revoked

IInv == TypeOK /\ CacheIsEarly /\ \A r \in Requests : RequestInv(r)

USE DEF Exchanges

-----------------------------------------------------------------------------
(* What the operators return.                                               *)

LEMMA GrantType ==
    ASSUME NEW grant \in Grants
    PROVE  grant.at \in Nat /\ grant.life \in Nat
BY OffersAssumption, ClockAssumption DEF Grants, GrantOf

LEMMA AuthorizeCases ==
    ASSUME NEW t
    PROVE  /\ Authorize(t) \in {"ok", "401", "403"}
           /\ Authorize(t) = "401" => ~IsActive(t)
           /\ Authorize(t) = "403" => granted[t].grantee # Expected
           /\ Authorize(t) = "ok" => IsActive(t) /\ granted[t].grantee = Expected
BY DEF Authorize

\* A state is told only when it was the response, a refusal likewise.
LEMMA ToldCases ==
    ASSUME NEW code \in Responses \ {"none"}
    PROVE  /\ Told(code) \in Answers \ {"none", "ready", "undecoded"}
           /\ Told(code) \in States => code \in States /\ Told(code) = code
           /\ code \in States => Told(code) = code
           /\ Told(code) = "unauthorized" => code \in {"401", "403"}
BY NamesAssumption DEF Told, Responses, Refusals, Answers, Failed

LEMMA InitIInv == Init => IInv
<1> SUFFICES ASSUME Init PROVE IInv
  OBVIOUS
<1>1. TypeOK
  BY NamesAssumption, ClockAssumption DEF Init, TypeOK, Answers, Responses
<1>2. CacheIsEarly
  BY DEF Init, CacheIsEarly
<1>3. ASSUME NEW r \in Requests PROVE RequestInv(r)
  BY <1>3, NamesAssumption
     DEF Init, RequestInv, OnTime, InFlight, Fetching, Carrying, Presenting, InTurn,
         RefusedRightly, Refused, ServedRightly, Served
<1> QED
  BY <1>1, <1>2, <1>3 DEF IInv

-----------------------------------------------------------------------------
(* A grant, once made, stays as it is and its request never fetches again:  *)
(* what is known of a token held by somebody stays known.                   *)

LEMMA GrantsStay ==
    ASSUME IInv, [Next]_vars, NEW t, HasGrant(t)
    PROVE  HasGrant(t)' /\ granted'[t] = granted[t]
<1> USE DEF HasGrant
<1>1. CASE UNCHANGED vars
  BY <1>1 DEF vars, verifierVars, hydraVars
<1>2. CASE ChangeTrust \/ Tick
  BY <1>2 DEF ChangeTrust, Tick, verifierVars, hydraVars
<1>3. ASSUME NEW r \in Requests, Step(r)
      PROVE  HasGrant(t)' /\ granted'[t] = granted[t]
  <2>1. CASE Grant(r)
    BY <2>1 DEF Grant, Goto, IInv, TypeOK
  <2>2. CASE Arrive(r) \/ MissCache(r)
    BY <2>2 DEF Arrive, MissCache, Goto, IInv, TypeOK, hydraVars
  <2>3. CASE TakeCached(r) \/ StoreToken(r)
    BY <2>3 DEF TakeCached, StoreToken, UseToken, Finish, Goto, IInv, TypeOK, hydraVars
  <2>4. CASE Introspect(r) \/ Load(r)
    BY <2>4 DEF Introspect, Load, Respond, Goto, IInv, TypeOK, hydraVars
  <2>5. CASE Receive(r) \/ GiveUp(r)
    BY <2>5 DEF Receive, GiveUp, Finish, Goto, IInv, TypeOK, hydraVars
  <2>6. CASE Revoke(r)
    BY <2>6 DEF Revoke, verifierVars
  <2> QED
    BY <1>3, <2>1, <2>2, <2>3, <2>4, <2>5, <2>6 DEF Step
<1> QED
  BY <1>1, <1>2, <1>3 DEF Next

LEMMA CacheKeeps ==
    ASSUME IInv, [Next]_vars, UNCHANGED cacheVars
    PROVE  CacheIsEarly'
<1>1. CASE cachedToken = NoToken
  BY <1>1 DEF CacheIsEarly, cacheVars
<1>2. CASE cachedToken # NoToken
  <2>1. HasGrant(cachedToken)' /\ granted'[cachedToken] = granted[cachedToken]
    BY <1>2, GrantsStay DEF IInv, CacheIsEarly, cacheVars
  <2> QED
    BY <1>2, <2>1 DEF IInv, CacheIsEarly, cacheVars, LongLived
<1> QED
  BY <1>1, <1>2

\* A request that a step does not concern keeps its part of the invariant.
LEMMA OthersKeep ==
    ASSUME IInv, [Next]_vars, NEW q \in Requests,
           pc'[q] = pc[q], deadline'[q] = deadline[q], token'[q] = token[q],
           answer'[q] = answer[q], response'[q] = response[q], dead'[q] = dead[q],
           clock' = clock, revoked \subseteq revoked'
    PROVE  RequestInv(q)'
<1>1. RequestInv(q)
  BY DEF IInv
<1>2. OnTime(q)' /\ InTurn(q)' /\ dead'[q] \subseteq revoked'
  BY <1>1 DEF RequestInv, OnTime, InFlight, InTurn
<1>3. Fetching(q)'
  <2>1. CASE pc[q] = "store"
    <3>1. HasGrant(q)' /\ granted'[q] = granted[q]
      BY <1>1, <2>1, GrantsStay DEF RequestInv, Fetching
    <3> QED
      BY <1>1, <2>1, <3>1 DEF RequestInv, Fetching
  <2> QED
    BY <2>1 DEF Fetching
<1>4. Carrying(q)' /\ RefusedRightly(q)' /\ ServedRightly(q)'
  <2>1. CASE token[q] = NoToken
    BY <1>1, <2>1
       DEF RequestInv, Carrying, Presenting, RefusedRightly, Refused, ServedRightly, Served
  <2>2. CASE token[q] # NoToken
    <3>1. HasGrant(token[q])' /\ granted'[token[q]] = granted[token[q]]
      BY <1>1, <2>2, GrantsStay DEF RequestInv, Carrying
    <3>2. Carrying(q)'
      BY <1>1, <2>2, <3>1 DEF RequestInv, Carrying, Presenting, LongLived
    <3>3. RefusedRightly(q)'
      BY <1>1, <2>2, <3>1 DEF RequestInv, RefusedRightly, Refused, LongLived
    <3>4. ServedRightly(q)'
      BY <1>1, <2>2, <3>1 DEF RequestInv, ServedRightly, Served
    <3> QED
      BY <3>2, <3>3, <3>4
  <2> QED
    BY <2>1, <2>2
<1> QED
  BY <1>1, <1>2, <1>3, <1>4 DEF RequestInv

-----------------------------------------------------------------------------
(* One lemma per action.                                                    *)

LEMMA ArriveIInv ==
    ASSUME IInv, NEW r \in Requests, Arrive(r)
    PROVE  IInv'
<1>0. [Next]_vars
  BY DEF Next, Step
<1>1. TypeOK'
  <2>1. clock + RequestTimeout \in 0..LastSecond
    BY TimeoutAssumption, ClockAssumption DEF Arrive, IInv, TypeOK
  <2> QED
    BY <2>1 DEF Arrive, Goto, IInv, TypeOK, cacheVars, hydraVars
<1>2. CacheIsEarly'
  BY <1>0, CacheKeeps DEF Arrive
<1>3. ASSUME NEW q \in Requests PROVE RequestInv(q)'
  <2>1. CASE q # r
    BY <1>0, <2>1, OthersKeep DEF Arrive, Goto, IInv, TypeOK, hydraVars
  <2>2. CASE q = r
    <3>1. pc'[r] = "token" /\ token'[r] = token[r] /\ answer'[r] = "none"
          /\ response'[r] = "none" /\ deadline'[r] = clock + RequestTimeout
          /\ dead'[r] = revoked /\ revoked' = revoked /\ clock' = clock /\ clock \in Nat
      BY DEF Arrive, Goto, IInv, RequestInv, InTurn, TypeOK, hydraVars
    <3>2. token[r] # NoToken => HasGrant(token[r])'
      BY <1>0, GrantsStay DEF IInv, RequestInv, Carrying, Arrive
    <3> QED
      BY <2>2, <3>1, <3>2, NamesAssumption, TimeoutAssumption
         DEF RequestInv, OnTime, InFlight, Fetching, Carrying, Presenting, InTurn,
             RefusedRightly, Refused, ServedRightly, Served
  <2> QED
    BY <2>1, <2>2
<1> QED
  BY <1>1, <1>2, <1>3 DEF IInv

\* What Token returned, to a read that will present it in time.
LEMMA UseTokenKeeps ==
    ASSUME IInv, [Next]_vars, NEW r \in Requests, NEW t, UseToken(r, t),
           pc[r] \in {"token", "store"}, HasGrant(t)',
           LongLived(t)' => deadline[r] < granted'[t].at + granted'[t].life,
           UNCHANGED <<clock, kind, deadline, response, revoked, dead>>
    PROVE  /\ RequestInv(r)'
           /\ pc' \in [Requests -> {"idle", "done"} \cup Exchanges]
           /\ token' \in [Requests -> Requests \cup {NoToken}]
           /\ answer' \in [Requests -> Answers]
           /\ \A q \in Requests : q # r => /\ pc'[q] = pc[q]
                                           /\ token'[q] = token[q]
                                           /\ answer'[q] = answer[q]
<1>1. /\ pc' \in [Requests -> {"idle", "done"} \cup Exchanges]
      /\ token' \in [Requests -> Requests \cup {NoToken}]
      /\ answer' \in [Requests -> Answers]
      /\ \A q \in Requests : q # r => pc'[q] = pc[q] /\ token'[q] = token[q] /\ answer'[q] = answer[q]
  BY DEF UseToken, Finish, Goto, IInv, TypeOK, Answers, HasGrant
<1>2. token'[r] = t /\ t # NoToken
  BY NamesAssumption DEF UseToken, IInv, TypeOK, HasGrant
<1>3. \/ pc'[r] = "done" /\ answer'[r] = "ready"
      \/ pc'[r] = "introspect" /\ answer'[r] = "none"
  BY DEF UseToken, Finish, Goto, IInv, TypeOK, RequestInv, InTurn
<1>4. response'[r] = "none" /\ OnTime(r) /\ dead[r] \subseteq revoked
  BY DEF IInv, RequestInv, InTurn
<1>5. RequestInv(r)'
  BY <1>2, <1>3, <1>4, NamesAssumption
     DEF RequestInv, OnTime, InFlight, Fetching, Carrying, Presenting, InTurn,
         RefusedRightly, Refused, ServedRightly, Served
<1> QED
  BY <1>1, <1>5

LEMMA TakeCachedIInv ==
    ASSUME IInv, NEW r \in Requests, TakeCached(r)
    PROVE  IInv'
<1>0. [Next]_vars
  BY DEF Next, Step
<1>2. CacheIsEarly'
  BY <1>0, CacheKeeps DEF TakeCached
<1>a. /\ HasGrant(cachedToken)
      /\ granted[cachedToken].at \in Nat /\ granted[cachedToken].life \in Nat
      /\ LongLived(cachedToken) =>
            cachedExpiry + Margin
                <= granted[cachedToken].at + granted[cachedToken].life + RequestTimeout
  BY GrantType DEF TakeCached, CacheServes, IInv, CacheIsEarly, HasGrant
<1>b. clock <= cachedExpiry /\ deadline[r] <= clock + RequestTimeout
      /\ clock \in Nat /\ cachedExpiry \in Nat /\ deadline[r] \in Nat
  BY DEF TakeCached, CacheServes, IInv, TypeOK, RequestInv, OnTime, InFlight
<1>c. LongLived(cachedToken) =>
          deadline[r] < granted[cachedToken].at + granted[cachedToken].life
  BY <1>a, <1>b, TimeoutAssumption
<1>d. HasGrant(cachedToken)' /\ granted' = granted
  BY <1>0, <1>a, GrantsStay DEF TakeCached, cacheVars, hydraVars
<1>e. LongLived(cachedToken)' =>
          deadline[r] < granted'[cachedToken].at + granted'[cachedToken].life
  BY <1>c, <1>d DEF TakeCached, cacheVars, LongLived
<1>f. cachedToken' = cachedToken
  BY DEF TakeCached, cacheVars
<1>3. /\ RequestInv(r)'
      /\ pc' \in [Requests -> {"idle", "done"} \cup Exchanges]
      /\ token' \in [Requests -> Requests \cup {NoToken}]
      /\ answer' \in [Requests -> Answers]
      /\ \A q \in Requests : q # r => /\ pc'[q] = pc[q]
                                      /\ token'[q] = token[q]
                                      /\ answer'[q] = answer[q]
  BY <1>0, <1>d, <1>e, <1>f, UseTokenKeeps DEF TakeCached, hydraVars
<1>1. TypeOK'
  BY <1>3 DEF TakeCached, IInv, TypeOK, cacheVars, hydraVars
<1>4. ASSUME NEW q \in Requests, q # r PROVE RequestInv(q)'
  BY <1>0, <1>3, <1>4, OthersKeep DEF TakeCached, Goto, IInv, TypeOK, hydraVars
<1> QED
  BY <1>1, <1>2, <1>3, <1>4 DEF IInv

LEMMA MissCacheIInv ==
    ASSUME IInv, NEW r \in Requests, MissCache(r)
    PROVE  IInv'
<1>0. [Next]_vars
  BY DEF Next, Step
<1>1. TypeOK'
  BY DEF MissCache, Goto, IInv, TypeOK, hydraVars
<1>2. CacheIsEarly'
  BY DEF MissCache, CacheIsEarly
<1>3. RequestInv(r)'
  <2>1. RequestInv(r) /\ pc[r] = "token" /\ pc'[r] = "grant"
    BY DEF MissCache, Goto, IInv, TypeOK
  <2>2. ASSUME token[r] # NoToken PROVE HasGrant(token[r])'
    BY <1>0, <2>1, <2>2, GrantsStay DEF RequestInv, Carrying, MissCache
  <2> QED
    BY <2>1, <2>2, NamesAssumption
       DEF MissCache, hydraVars, RequestInv, OnTime, InFlight, Fetching, Carrying, Presenting, InTurn,
             RefusedRightly, Refused, ServedRightly, Served
<1>4. ASSUME NEW q \in Requests, q # r PROVE RequestInv(q)'
  BY <1>0, <1>4, OthersKeep DEF MissCache, Goto, IInv, TypeOK, hydraVars
<1> QED
  BY <1>1, <1>2, <1>3, <1>4 DEF IInv

LEMMA GrantIInv ==
    ASSUME IInv, NEW r \in Requests, Grant(r)
    PROVE  IInv'
<1>0. [Next]_vars
  BY DEF Next, Step
<1>1. TypeOK'
  BY DEF Grant, Goto, IInv, TypeOK, cacheVars, Grants
<1>2. CacheIsEarly'
  BY <1>0, CacheKeeps DEF Grant
<1>3. RequestInv(r)'
  <2>1. RequestInv(r) /\ pc[r] = "grant" /\ pc'[r] = "store"
    BY DEF Grant, Goto, IInv, TypeOK
  <2>2. granted'[r] \in Grants /\ granted'[r].at = clock
    BY DEF Grant, GrantOf, Grants, IInv, TypeOK
  <2>3. deadline[r] <= clock + RequestTimeout
    BY <2>1 DEF RequestInv, OnTime, InFlight
  <2>4. ASSUME token[r] # NoToken PROVE HasGrant(token[r])'
    BY <1>0, <2>1, <2>4, GrantsStay DEF RequestInv, Carrying, Grant
  <2> QED
    BY <2>1, <2>2, <2>3, <2>4, NamesAssumption
       DEF Grant, HasGrant, RequestInv, OnTime, InFlight, Fetching, Carrying, Presenting, InTurn,
             RefusedRightly, Refused, ServedRightly, Served
<1>4. ASSUME NEW q \in Requests, q # r PROVE RequestInv(q)'
  BY <1>0, <1>4, OthersKeep DEF Grant, Goto, IInv, TypeOK, hydraVars
<1> QED
  BY <1>1, <1>2, <1>3, <1>4 DEF IInv

LEMMA StoreTokenIInv ==
    ASSUME IInv, NEW r \in Requests, StoreToken(r)
    PROVE  IInv'
<1>0. [Next]_vars
  BY DEF Next, Step
<1>a. /\ HasGrant(r) /\ deadline[r] <= granted[r].at + RequestTimeout
      /\ clock <= deadline[r]
  BY DEF StoreToken, IInv, RequestInv, Fetching, OnTime, InFlight
<1>b. /\ granted[r].at \in Nat /\ granted[r].life \in Nat
      /\ clock \in Nat /\ deadline[r] \in Nat
  BY <1>a, GrantType DEF HasGrant, IInv, TypeOK
<1>c. cachedExpiry' \in Nat
  BY <1>b, TimeoutAssumption DEF StoreToken, CachedUntil
<1>d. LongLived(r) => /\ cachedExpiry' + Margin <= granted[r].at + granted[r].life + RequestTimeout
                      /\ deadline[r] < granted[r].at + granted[r].life
  BY <1>a, <1>b, TimeoutAssumption DEF StoreToken, CachedUntil, LongLived
<1>e. HasGrant(r)' /\ granted' = granted
  BY <1>0, <1>a, GrantsStay DEF StoreToken, hydraVars
<1>2. CacheIsEarly'
  BY <1>d, <1>e DEF CacheIsEarly, StoreToken, LongLived
<1>3. /\ RequestInv(r)'
      /\ pc' \in [Requests -> {"idle", "done"} \cup Exchanges]
      /\ token' \in [Requests -> Requests \cup {NoToken}]
      /\ answer' \in [Requests -> Answers]
      /\ \A q \in Requests : q # r => /\ pc'[q] = pc[q]
                                      /\ token'[q] = token[q]
                                      /\ answer'[q] = answer[q]
  <2>1. LongLived(r)' => deadline[r] < granted'[r].at + granted'[r].life
    BY <1>d, <1>e DEF LongLived
  <2> QED
    BY <1>0, <1>e, <2>1, UseTokenKeeps DEF StoreToken, hydraVars
<1>1. TypeOK'
  BY <1>3, <1>c DEF StoreToken, IInv, TypeOK, hydraVars
<1>4. ASSUME NEW q \in Requests, q # r PROVE RequestInv(q)'
  BY <1>0, <1>3, <1>4, OthersKeep DEF StoreToken, Goto, IInv, TypeOK, hydraVars
<1> QED
  BY <1>1, <1>2, <1>3, <1>4 DEF IInv

LEMMA IntrospectIInv ==
    ASSUME IInv, NEW r \in Requests, Introspect(r)
    PROVE  IInv'
<1>0. [Next]_vars
  BY DEF Next, Step
<1>1. TypeOK'
  <2>1. "503" \in Responses /\ "401" \in Responses /\ "403" \in Responses
    BY DEF Responses, Refusals
  <2> QED
    BY <2>1, AuthorizeCases DEF Introspect, Respond, Goto, IInv, TypeOK, cacheVars, hydraVars
<1>2. CacheIsEarly'
  BY <1>0, CacheKeeps DEF Introspect
<1>3. RequestInv(r)'
  <2>1. /\ RequestInv(r) /\ pc[r] = "introspect" /\ pc' = [pc EXCEPT ![r] = pc'[r]]
        /\ answer'[r] = "none" /\ response[r] = "none"
    BY DEF Introspect, Respond, Goto, IInv, TypeOK, RequestInv, InTurn
  <2>2. /\ token[r] # NoToken
        /\ HasGrant(token[r])' /\ granted' = granted
        /\ LongLived(token[r])' => deadline[r] < granted[token[r]].at + granted[token[r]].life
    BY <1>0, <2>1, GrantsStay DEF RequestInv, Carrying, Presenting, Introspect, hydraVars, LongLived
  <2>3. /\ granted[token[r]].at \in Nat /\ granted[token[r]].life \in Nat
        /\ clock \in Nat /\ deadline[r] \in Nat
        /\ deadline[r] <= clock + RequestTimeout
    BY <2>1, GrantType
       DEF HasGrant, IInv, TypeOK, RequestInv, Carrying, Presenting, OnTime, InFlight
  <2>4. CASE Authorize(token[r]) = "ok" /\ Goto(r, "load") /\ UNCHANGED response
    <3>1. /\ token[r] \notin dead[r]
          /\ granted[token[r]].grantee = Expected
          /\ deadline[r] < granted[token[r]].at + granted[token[r]].life + RequestTimeout
      BY <2>1, <2>3, <2>4, AuthorizeCases, TimeoutAssumption DEF IsActive, RequestInv
    <3>2. pc'[r] = "load"
      BY <2>4 DEF Goto, IInv, TypeOK
    <3> QED
      BY <2>1, <2>2, <2>4, <3>1, <3>2, NamesAssumption
         DEF Introspect, hydraVars, LongLived, RequestInv, OnTime, InFlight, Fetching, Carrying, Presenting, InTurn,
             RefusedRightly, Refused, ServedRightly, Served
  <2>5. CASE Authorize(token[r]) # "ok" /\ Respond(r, Authorize(token[r]))
    <3>1. \/ token[r] \in revoked
          \/ granted[token[r]].grantee # Expected
          \/ ~LongLived(token[r])
      <4>1. CASE Authorize(token[r]) = "401"
        BY <2>1, <2>2, <2>3, <4>1, AuthorizeCases
           DEF IsActive, RequestInv, OnTime, InFlight, Carrying, Presenting
      <4> QED
        BY <2>5, <4>1, AuthorizeCases
    <3>2. pc'[r] = "receive" /\ response'[r] \in {"401", "403"}
      BY <2>5, AuthorizeCases DEF Respond, Goto, IInv, TypeOK
    <3>3. response'[r] \notin States \cup {"none"}
      BY <3>2, NamesAssumption DEF Refusals
    <3> QED
      BY <2>1, <2>2, <3>1, <3>2, <3>3, NamesAssumption
         DEF Introspect, hydraVars, LongLived, RequestInv, OnTime, InFlight, Fetching, Carrying, Presenting, InTurn,
             RefusedRightly, Refused, ServedRightly, Served
  <2>6. CASE Respond(r, "503")
    <3>1. pc'[r] = "receive" /\ response'[r] = "503"
      BY <2>6 DEF Respond, Goto, IInv, TypeOK
    <3>2. response'[r] \notin States
      BY <3>1, NamesAssumption DEF Refusals
    <3> QED
      BY <2>1, <2>2, <3>1, <3>2, NamesAssumption
         DEF Introspect, hydraVars, LongLived, RequestInv, OnTime, InFlight, Fetching, Carrying, Presenting, InTurn,
             RefusedRightly, Refused, ServedRightly, Served
  <2> QED
    BY <2>4, <2>5, <2>6 DEF Introspect
<1>4. ASSUME NEW q \in Requests, q # r PROVE RequestInv(q)'
  BY <1>0, <1>4, OthersKeep DEF Introspect, Respond, Goto, IInv, TypeOK, hydraVars
<1> QED
  BY <1>1, <1>2, <1>3, <1>4 DEF IInv

LEMMA LoadIInv ==
    ASSUME IInv, NEW r \in Requests, Load(r)
    PROVE  IInv'
<1>0. [Next]_vars
  BY DEF Next, Step
<1>1. TypeOK'
  <2>1. table \in Responses /\ "500" \in Responses
    BY DEF Responses, Refusals, IInv, TypeOK
  <2> QED
    BY <2>1 DEF Load, LoadFailure, Respond, Goto, IInv, TypeOK, cacheVars, hydraVars
<1>2. CacheIsEarly'
  BY <1>0, CacheKeeps DEF Load
<1>3. RequestInv(r)'
  <2>1. /\ RequestInv(r) /\ pc[r] = "load" /\ pc'[r] = "receive"
        /\ answer'[r] = "none" /\ response'[r] \in {table, "500"}
    BY DEF Load, LoadFailure, Respond, Goto, IInv, TypeOK, RequestInv, InTurn
  <2>2. /\ token[r] # NoToken
        /\ HasGrant(token[r])' /\ granted' = granted
        /\ LongLived(token[r])' => deadline[r] < granted[token[r]].at + granted[token[r]].life
    BY <1>0, <2>1, GrantsStay DEF RequestInv, Carrying, Presenting, Load, hydraVars, LongLived
  <2>3. response'[r] \notin {"none", "401", "403"}
    BY <2>1, NamesAssumption DEF Refusals, IInv, TypeOK
  <2> QED
    BY <2>1, <2>2, <2>3, NamesAssumption
       DEF Load, hydraVars, LongLived, RequestInv, OnTime, InFlight, Fetching, Carrying, Presenting, InTurn,
             RefusedRightly, Refused, ServedRightly, Served
<1>4. ASSUME NEW q \in Requests, q # r PROVE RequestInv(q)'
  BY <1>0, <1>4, OthersKeep DEF Load, Respond, Goto, IInv, TypeOK, hydraVars
<1> QED
  BY <1>1, <1>2, <1>3, <1>4 DEF IInv

LEMMA ReceiveIInv ==
    ASSUME IInv, NEW r \in Requests, Receive(r)
    PROVE  IInv'
<1>0. [Next]_vars
  BY DEF Next, Step
<1>1. TypeOK'
  <2>1. response[r] \in Responses \ {"none"}
    BY DEF Receive, IInv, TypeOK, RequestInv, InTurn
  <2>2. Told(response[r]) \in Answers /\ "undecoded" \in Answers
    BY <2>1, ToldCases DEF Answers, Failed
  <2> QED
    BY <2>2 DEF Receive, Finish, Goto, IInv, TypeOK, cacheVars, hydraVars
<1>2. CacheIsEarly'
  BY <1>0, CacheKeeps DEF Receive
<1>3. RequestInv(r)'
  <2>1. /\ RequestInv(r) /\ pc[r] = "receive" /\ pc'[r] = "done"
        /\ response[r] \in Responses \ {"none"}
    BY DEF Receive, Finish, Goto, IInv, TypeOK, RequestInv, InTurn
  <2>2. /\ token[r] # NoToken
        /\ HasGrant(token[r])' /\ granted' = granted
        /\ LongLived(token[r])' => deadline[r] < granted[token[r]].at + granted[token[r]].life
    BY <1>0, <2>1, GrantsStay DEF RequestInv, Carrying, Presenting, Receive, hydraVars, LongLived
  <2>3. /\ answer'[r] = "unauthorized" => response[r] \in {"401", "403"}
        /\ answer'[r] \in States \cup {"undecoded"} => response[r] \in States
    BY <2>1, ToldCases, NamesAssumption DEF Receive, Finish, IInv, TypeOK, Failed
  <2> QED
    BY <2>1, <2>2, <2>3, NamesAssumption
       DEF Receive, hydraVars, LongLived, RequestInv, OnTime, InFlight, Fetching, Carrying, Presenting, InTurn,
             RefusedRightly, Refused, ServedRightly, Served
<1>4. ASSUME NEW q \in Requests, q # r PROVE RequestInv(q)'
  BY <1>0, <1>4, OthersKeep DEF Receive, Finish, Goto, IInv, TypeOK, hydraVars
<1> QED
  BY <1>1, <1>2, <1>3, <1>4 DEF IInv

LEMMA GiveUpIInv ==
    ASSUME IInv, NEW r \in Requests, GiveUp(r)
    PROVE  IInv'
<1>0. [Next]_vars
  BY DEF Next, Step
<1>1. TypeOK'
  BY DEF GiveUp, Finish, Goto, IInv, TypeOK, Answers, Failed, cacheVars, hydraVars
<1>2. CacheIsEarly'
  BY <1>0, CacheKeeps DEF GiveUp
<1>3. RequestInv(r)'
  <2>1. /\ RequestInv(r) /\ pc'[r] = "done" /\ answer'[r] = "unavailable"
        /\ "unavailable" \notin States
    BY NamesAssumption DEF GiveUp, Finish, Goto, IInv, TypeOK, Failed
  <2>2. ASSUME token[r] # NoToken PROVE HasGrant(token[r])'
    BY <1>0, <2>1, <2>2, GrantsStay DEF RequestInv, Carrying, GiveUp
  <2> QED
    BY <2>1, <2>2, NamesAssumption
       DEF GiveUp, hydraVars, RequestInv, OnTime, InFlight, Fetching, Carrying, Presenting, InTurn,
             RefusedRightly, Refused, ServedRightly, Served
<1>4. ASSUME NEW q \in Requests, q # r PROVE RequestInv(q)'
  BY <1>0, <1>4, OthersKeep DEF GiveUp, Finish, Goto, IInv, TypeOK, hydraVars
<1> QED
  BY <1>1, <1>2, <1>3, <1>4 DEF IInv

LEMMA WorldIInv ==
    ASSUME IInv, \/ \E t \in Requests : Revoke(t)
                 \/ ChangeTrust
                 \/ UNCHANGED vars
    PROVE  IInv'
<1>0. [Next]_vars
  BY DEF Next, Step
<1>1. TypeOK'
  BY DEF Revoke, ChangeTrust, vars, IInv, TypeOK, verifierVars, cacheVars, hydraVars
<1>2. CacheIsEarly'
  BY <1>0, CacheKeeps DEF Revoke, ChangeTrust, vars
<1>3. ASSUME NEW q \in Requests PROVE RequestInv(q)'
  BY <1>0, OthersKeep DEF Revoke, ChangeTrust, vars, verifierVars, hydraVars
<1> QED
  BY <1>1, <1>2, <1>3 DEF IInv

\* Only time moves, and it waits for the requests in flight.
LEMMA TickIInv ==
    ASSUME IInv, Tick
    PROVE  IInv'
<1>1. TypeOK'
  BY ClockAssumption DEF Tick, IInv, TypeOK, verifierVars, cacheVars, hydraVars
<1>2. CacheIsEarly'
  BY DEF Tick, IInv, CacheIsEarly, HasGrant, LongLived, verifierVars, cacheVars, hydraVars
<1>3. ASSUME NEW q \in Requests PROVE RequestInv(q)'
  <2>1. RequestInv(q) /\ clock \in Nat /\ deadline[q] \in Nat
    BY DEF IInv, TypeOK
  <2>2. OnTime(q)'
    BY <2>1, TimeoutAssumption DEF RequestInv, OnTime, InFlight, Tick, verifierVars
  <2>3. Fetching(q)' /\ Carrying(q)' /\ InTurn(q)'
    BY <2>1 DEF RequestInv, Fetching, Carrying, Presenting, InTurn, HasGrant, LongLived,
                Tick, verifierVars, hydraVars
  <2>4. RefusedRightly(q)' /\ ServedRightly(q)' /\ (dead[q] \subseteq revoked)'
    BY <2>1 DEF RequestInv, RefusedRightly, Refused, ServedRightly, Served, LongLived,
                Tick, verifierVars, hydraVars
  <2> QED
    BY <2>2, <2>3, <2>4 DEF RequestInv
<1> QED
  BY <1>1, <1>2, <1>3 DEF IInv

-----------------------------------------------------------------------------
(* The theorems.                                                            *)

LEMMA Inductive == Spec => []IInv
<1>1. IInv /\ [Next]_vars => IInv'
  <2> SUFFICES ASSUME IInv, [Next]_vars PROVE IInv'
    OBVIOUS
  <2>1. ASSUME NEW r \in Requests, Step(r) PROVE IInv'
    BY <2>1, ArriveIInv, TakeCachedIInv, MissCacheIInv, GrantIInv, StoreTokenIInv,
       IntrospectIInv, LoadIInv, ReceiveIInv, GiveUpIInv, WorldIInv DEF Step
  <2> QED
    BY <2>1, WorldIInv, TickIInv DEF Next
<1> QED
  BY <1>1, InitIInv, PTL DEF Spec

\* Every variable of the trust read keeps its type, whatever Hydra grants and
\* the registry holds.
THEOREM RuntimeTypeCorrect == Spec => []TypeOK
<1>1. IInv => TypeOK
  BY DEF IInv
<1> QED
  BY <1>1, Inductive, PTL

\* Whatever is granted, revoked and delayed, a read is refused only on a token
\* that is revoked, somebody else's, or short-lived.
THEOREM AgeNeverRefuses == Spec => []NeverRefusedForAge
<1>1. IInv => NeverRefusedForAge
  BY DEF IInv, RequestInv, RefusedRightly, Refused, NeverRefusedForAge
<1> QED
  BY <1>1, Inductive, PTL

\* Whatever the cache holds, the registry's table is told only on a token that
\* was good when the read began.
THEOREM ReadsAreEntitled == Spec => []OnlyEntitledReads
<1>1. IInv => OnlyEntitledReads
  BY DEF IInv, RequestInv, ServedRightly, Served, OnlyEntitledReads
<1> QED
  BY <1>1, Inductive, PTL

-----------------------------------------------------------------------------
(* The read of the trust client implements TrustRead.                       *)

\* Steps of r that neither open, nor look for, nor close its read.
LEMMA QuietSteps ==
    ASSUME IInv, NEW r \in Requests, pc[r] \in Exchanges, pc'[r] \in Exchanges,
           pc' = [pc EXCEPT ![r] = pc'[r]],
           response' = [response EXCEPT ![r] = response'[r]],
           StateIn(response'[r]) = StateIn(response[r]),
           UNCHANGED <<answer, table>>
    PROVE  UNCHANGED READ!readVars
<1>1. \A q \in Requests : Stage(q)' = Stage(q) /\ StateIn(response[q])' = StateIn(response[q])
  BY DEF Stage, InFlight, IInv, TypeOK, StateIn
<1> QED
  BY <1>1 DEF READ!readVars

\* The step in which r is done.
LEMMA ClosingSteps ==
    ASSUME IInv, NEW r \in Requests, pc[r] \in Exchanges, NEW told, Finish(r, told),
           UNCHANGED <<response, table>>, StateIn(told) \in {NoToken, StateIn(response[r])}
    PROVE  READ!Close(r)
<1>1. Stage(r) = "open" /\ Stage(r)' = "closed"
  BY DEF Finish, Goto, Stage, InFlight, IInv, TypeOK
<1>2. \A q \in Requests : q # r => Stage(q)' = Stage(q)
  BY DEF Finish, Goto, Stage, InFlight, IInv, TypeOK
<1>3. [q \in Requests |-> Stage(q)]' = [[q \in Requests |-> Stage(q)] EXCEPT ![r] = "closed"]
  BY <1>1, <1>2
<1>4. \A q \in Requests : StateIn(answer[q])' = IF q = r THEN StateIn(told) ELSE StateIn(answer[q])
  BY DEF Finish, IInv, TypeOK, StateIn
<1>5. [q \in Requests |-> StateIn(answer[q])]' =
          [[q \in Requests |-> StateIn(answer[q])] EXCEPT ![r] = StateIn(told)]
  BY <1>4
<1>6. UNCHANGED [q \in Requests |-> StateIn(response[q])]
  BY DEF StateIn
<1> QED
  BY <1>1, <1>3, <1>5, <1>6 DEF READ!Close

LEMMA StepRefines ==
    ASSUME IInv, NEW r \in Requests, Step(r)
    PROVE  [READ!Next]_READ!readVars
<1>0. StateIn("none") = NoToken /\ StateIn("ready") = NoToken /\ StateIn("undecoded") = NoToken
      /\ StateIn("unavailable") = NoToken /\ StateIn("unauthorized") = NoToken
      /\ \A code \in Refusals : StateIn(code) = NoToken
  BY NamesAssumption DEF StateIn, Failed
<1>1. CASE Arrive(r)
  <2>1. Stage(r) = "idle" /\ [q \in Requests |-> Stage(q)]' = [[q \in Requests |-> Stage(q)] EXCEPT ![r] = "open"]
    BY <1>1 DEF Arrive, Goto, Stage, InFlight, IInv, TypeOK
  <2> QED
    BY <1>1, <2>1 DEF Arrive, StateIn, READ!Next, READ!Open
<1>2. CASE MissCache(r) \/ Grant(r)
  BY <1>2, QuietSteps DEF MissCache, Grant, Goto, IInv, TypeOK
<1>3. ASSUME NEW t, pc[r] \in {"token", "store"}, UseToken(r, t), UNCHANGED <<response, table>>
      PROVE  [READ!Next]_READ!readVars
  <2>1. CASE kind[r] = "probe"
    BY <1>0, <1>3, <2>1, ClosingSteps DEF UseToken, READ!Next
  <2>2. CASE kind[r] # "probe"
    BY <1>3, <2>2, QuietSteps DEF UseToken, Goto, IInv, TypeOK
  <2> QED
    BY <2>1, <2>2
<1>4. CASE TakeCached(r) \/ StoreToken(r)
  BY <1>3, <1>4 DEF TakeCached, StoreToken
<1>5. CASE Introspect(r)
  <2>1. CASE Goto(r, "load") /\ UNCHANGED response
    BY <1>5, <2>1, QuietSteps DEF Introspect, Goto, IInv, TypeOK
  <2>2. ASSUME NEW code \in {"401", "403", "503"}, Respond(r, code)
        PROVE  UNCHANGED READ!readVars
    <3>1. response[r] = "none" /\ response'[r] = code /\ code \in Refusals
      BY <1>5, <2>2 DEF Introspect, Respond, IInv, TypeOK, RequestInv, InTurn, Refusals
    <3> QED
      BY <1>0, <1>5, <2>2, <3>1, QuietSteps DEF Introspect, Respond, Goto, IInv, TypeOK
  <2> QED
    BY <1>5, <2>1, <2>2, AuthorizeCases DEF Introspect
<1>6. CASE Load(r)
  <2>1. /\ response[r] = "none" /\ pc[r] = "load" /\ pc' = [pc EXCEPT ![r] = "receive"]
        /\ UNCHANGED <<answer, table>> /\ table \in States
    BY <1>6 DEF Load, Respond, Goto, IInv, TypeOK, RequestInv, InTurn
  <2>2. CASE Respond(r, LoadFailure)
    <3>1. response'[r] = "500" /\ "500" \in Refusals
      BY <2>2 DEF Respond, LoadFailure, IInv, TypeOK, Refusals
    <3> QED
      BY <1>0, <2>1, <2>2, <3>1, QuietSteps DEF Respond, IInv, TypeOK
  <2>3. CASE Respond(r, table)
    <3>1. Stage(r) = "open" /\ UNCHANGED [q \in Requests |-> Stage(q)]
      BY <2>1 DEF Stage, InFlight, IInv, TypeOK
    <3>2. \A q \in Requests : StateIn(response[q])' =
              IF q = r THEN table ELSE StateIn(response[q])
      BY <2>1, <2>3 DEF Respond, StateIn, IInv, TypeOK
    <3>3. [q \in Requests |-> StateIn(response[q])]' =
              [[q \in Requests |-> StateIn(response[q])] EXCEPT ![r] = table]
      BY <3>2
    <3>4. READ!Look(r)
      BY <1>0, <2>1, <3>1, <3>3 DEF READ!Look, StateIn
    <3> QED
      BY <3>4 DEF READ!Next
  <2> QED
    BY <1>6, <2>2, <2>3 DEF Load
<1>7. CASE Receive(r)
  <2>1. PICK told \in {Told(response[r]), "undecoded"} : Finish(r, told)
    BY <1>7 DEF Receive
  <2>2. response[r] \in Responses \ {"none"}
    BY <1>7 DEF Receive, IInv, TypeOK, RequestInv, InTurn
  <2>3. StateIn(told) \in {NoToken, StateIn(response[r])}
    BY <1>0, <2>1, <2>2, ToldCases DEF StateIn
  <2>4. READ!Close(r)
    BY <1>7, <2>1, <2>3, ClosingSteps DEF Receive
  <2> QED
    BY <2>4 DEF READ!Next
<1>8. CASE GiveUp(r)
  BY <1>0, <1>8, ClosingSteps DEF GiveUp, Exchanging, READ!Next
<1>9. CASE Revoke(r)
  BY <1>9 DEF Revoke, verifierVars, Stage, InFlight, StateIn, READ!readVars
<1> QED
  BY <1>1, <1>2, <1>4, <1>5, <1>6, <1>7, <1>8, <1>9 DEF Step

\* The trust client, its token cache, Hydra and the registry together answer
\* with what the registry's table held while the read was under way, or with
\* an error.
THEOREM TrustRuntimeImplementsTrustRead == Spec => ReadsAreTrue
<1>1. Init => READ!Init
  BY NamesAssumption DEF Init, READ!Init, Stage, InFlight, StateIn
<1>2. IInv /\ [Next]_vars => [READ!Next]_READ!readVars
  <2> SUFFICES ASSUME IInv, [Next]_vars PROVE [READ!Next]_READ!readVars
    OBVIOUS
  <2>1. CASE ChangeTrust
    BY <2>1 DEF ChangeTrust, verifierVars, Stage, InFlight, StateIn, READ!Next, READ!Change
  <2>2. CASE Tick \/ UNCHANGED vars
    BY <2>2 DEF Tick, vars, verifierVars, Stage, InFlight, StateIn, READ!readVars
  <2> QED
    BY <2>1, <2>2, StepRefines DEF Next
<1> QED
  BY <1>1, <1>2, Inductive, PTL DEF Spec, ReadsAreTrue, READ!Spec
=============================================================================
