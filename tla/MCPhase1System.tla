--------------------------- MODULE MCPhase1System ---------------------------
(* A small instance of Phase1System: one issuer, one verifier partner, a    *)
(* credential that is issued, submitted twice, read and revoked.            *)
EXTENDS Phase1System, TLC

CONSTANTS i1,                 \* the request to the issuer service
          v1, v2,             \* requests to the verifier service
          alice, carol,       \* the callers
          acme, exch,         \* the issuer, the partner
          body1,              \* an issuance body
          kyc, kycPolicy, k1

MCOrgOf == (alice :> acme) @@ (carol :> exch)
MCTemplateOf == body1 :> kyc
MCExpiresOf == body1 :> 5
MCTrust(state) == acme :> [state |-> state, templates |-> {kyc}]
MCTrustTables == {MCTrust("active"), MCTrust("suspended")}

MCArtifact(id) == [text |-> Artifact(id, acme, body1), padded |-> FALSE]
MCCall(op, caller, key, requestId) ==
    [op |-> op, caller |-> caller, key |-> key, requestId |-> requestId,
     auth |-> "ok", scopes |-> {"issue", "status", "create", "read"}, wellFormed |-> TRUE,
     body |-> body1, target |-> 1, status |-> "none", by |-> 0,
     policy |-> kycPolicy, claim |-> NoClaim, artifact |-> MCArtifact(1)]
MCPreissued == <<[issuer |-> acme, body |-> body1]>>

\* Reads at both services under one X-Request-ID, and a key used at both.
MCIssuerCalls ==
    {MCCall("issue", alice, k1, "a"), MCCall("read", alice, NoKey, "x"),
     [MCCall("status", alice, NoKey, "b") EXCEPT !.status = "revoked"]}
MCVerifierCalls ==
    {MCCall("create", carol, k1, "c"), MCCall("create", carol, k1, "d"),
     [MCCall("create", carol, NoKey, "e") EXCEPT !.artifact = MCArtifact(2)],
     MCCall("read", carol, NoKey, "x")}

MCFailures == [fault |-> 1, expiry |-> 0, crash |-> 0]

MCSymmetry == Permutations(VerifierRequests)
=============================================================================
