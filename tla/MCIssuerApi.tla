---------------------------- MODULE MCIssuerApi ----------------------------
(* Small instances of IssuerApi: who calls, with what, and what may fail.  *)
EXTENDS IssuerApi, TLC

CONSTANTS r1, r2, r3,         \* requests
          alice, bob, mallory,\* callers: two of one issuer, one of another
          acme, zeta,         \* issuers
          body1, body2, body3,\* issuance bodies
          kyc, other,         \* credential templates
          k1, k2              \* idempotency keys

MCOrgOf == (alice :> acme) @@ (bob :> acme) @@ (mallory :> zeta)
MCTemplateOf == (body1 :> kyc) @@ (body2 :> kyc) @@ (body3 :> other)
MCAllScopes == {"issue", "status", "read"}

MCCall(op, caller, key, requestId) ==
    [op |-> op, caller |-> caller, key |-> key, requestId |-> requestId,
     auth |-> "ok", scopes |-> MCAllScopes, wellFormed |-> TRUE,
     body |-> body1, target |-> 0, status |-> "none", by |-> 0]

MCIssue(caller, key, requestId, body) ==
    [MCCall("issue", caller, key, requestId) EXCEPT !.body = body]
MCStatus(caller, key, requestId, target, status, by) ==
    [MCCall("status", caller, key, requestId) EXCEPT
        !.target = target, !.status = status, !.by = by]
MCRead(caller, requestId, target) ==
    [MCCall("read", caller, NoKey, requestId) EXCEPT !.target = target]

MCTable == (acme :> {kyc})
MCTwoTables == {MCTable, MCTable @@ (zeta :> {})}
MCOneTable == {MCTable}

MCNoFailures == [fault |-> 0, expiry |-> 0, crash |-> 0]
MCOneFault == [fault |-> 1, expiry |-> 0, crash |-> 0]
MCAllFailures == [fault |-> 1, expiry |-> 1, crash |-> 1]

MCNone == <<>>
MCOne == <<[issuer |-> acme, body |-> body1]>>

\* One key with two bodies, the key of another caller, an absent key.
MCIssueCalls ==
    {MCIssue(alice, k1, "a", body1), MCIssue(alice, k1, "b", body2),
     MCIssue(bob, k1, "c", body2)}

\* Everything the front door or the issuer record refuses.
MCRefusedCalls ==
    {[MCIssue(alice, k1, "u", body1) EXCEPT !.auth = "unavailable"],
     [MCIssue(alice, k1, "v", body1) EXCEPT !.auth = "unauthenticated"],
     [MCIssue(alice, k1, "w", body1) EXCEPT !.scopes = {"read"}],
     [MCIssue(alice, k1, "x", body1) EXCEPT !.wellFormed = FALSE],
     MCIssue(alice, NoKey, "y", body3), MCIssue(mallory, NoKey, "z", body1),
     MCStatus(alice, NoKey, "s", 1, "active", 0)}

\* Status changes of credential 1 by its issuer and by another, and reads.
MCStatusCalls ==
    {MCStatus(alice, k1, "a", 1, "revoked", 0),
     MCStatus(bob, NoKey, "b", 1, "superseded", 2),
     MCStatus(mallory, k1, "c", 1, "revoked", 0),
     MCStatus(alice, NoKey, "e", 1, "active", 0),
     MCRead(bob, "d", 1), MCRead(mallory, "d", 1)}

MCEveryCall == MCRefusedCalls \cup MCStatusCalls \cup {MCIssue(alice, k1, "g", body1)}

\* Every request has arrived before any of them ends.
OverlapSpec ==
    Init /\ [][Next /\ ((\E r \in Requests : pc[r] = "idle") =>
                            \A q \in Requests : ~Answered(q)')]_vars

MCSymmetry == Permutations(Requests)
=============================================================================
