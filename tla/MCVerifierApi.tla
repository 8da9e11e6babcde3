--------------------------- MODULE MCVerifierApi ---------------------------
(* Small instances of VerifierApi: what is submitted, and what may fail.    *)
EXTENDS VerifierApi, TLC

CONSTANTS r1, r2,             \* requests
          alice, mallory,     \* callers of two verifier organizations
          exch, rival,        \* the organizations
          did,                \* the issuer
          text1, text2, text3, junk,  \* artifact texts; junk does not decode
          kycPolicy, kyc, other,      \* the known policy, two templates
          k1                  \* an idempotency key

MCOrgOf == (alice :> exch) @@ (mallory :> rival)

MCEnvelope(id, template, expires) ==
    [id |-> id, issuer |-> did, template |-> template, expires |-> expires]

\* text3 claims to be credential 1, with a longer life.
MCEnvelopes == (text1 :> MCEnvelope(1, kyc, 0)) @@ (text2 :> MCEnvelope(2, other, 5))
               @@ (text3 :> MCEnvelope(1, kyc, 5))
MCIssuable == 1 :> text1
MCOneIssued == {1}

MCTrust(state) == did :> state
MCTrustTables == {MCTrust("active"), <<>>}
MCTrusted == {MCTrust("active")}

MCScopes == {"create", "read"}
MCCall(op, caller, key, requestId) ==
    [op |-> op, caller |-> caller, key |-> key, requestId |-> requestId,
     auth |-> "ok", scopes |-> MCScopes, wellFormed |-> TRUE, policy |-> kycPolicy,
     claim |-> NoClaim, artifact |-> Genuine(junk), target |-> 0]
MCCreate(caller, key, requestId, text) ==
    [MCCall("create", caller, key, requestId) EXCEPT !.artifact = Genuine(text)]
MCRead(caller, requestId) == [MCCall("read", caller, NoKey, requestId) EXCEPT !.target = 1]

\* A keyed submission, its retry with padding under another X-Request-ID, and
\* the key reused for an artifact that resolves to nothing or does not decode.
MCPadded == [MCCreate(alice, k1, "c", text1) EXCEPT !.artifact.padded = TRUE]
MCUnknown == MCCreate(alice, k1, "d", text2)
MCKeyedCalls ==
    {MCCreate(alice, k1, "a", text1), MCPadded, MCUnknown, MCCreate(alice, k1, "g", junk)}

\* The same, read back by its owner and by a stranger, or refused.
MCRetriedCalls ==
    MCKeyedCalls \cup {MCRead(alice, "i"), MCRead(mallory, "j"),
                       [MCRead(alice, "k") EXCEPT !.auth = "unavailable"],
                       [MCRead(alice, "l") EXCEPT !.scopes = {}]}

\* One artifact, as it was issued, submitted and retried under one key.
MCGenuineCalls == {MCCreate(alice, k1, "a", text1), MCCreate(alice, k1, "b", text1)}

\* Verdicts: genuine, padded, forged, mismatched, other policy.
MCVerdictCalls ==
    {MCCreate(alice, k1, "a", text1), MCPadded,
     MCCreate(alice, NoKey, "e", text3),
     [MCCreate(alice, NoKey, "h", text1) EXCEPT !.claim = 2],
     [MCCreate(alice, NoKey, "o", text1) EXCEPT !.policy = other]}

MCNoFailures == [fault |-> 0, expiry |-> 0, crash |-> 0]
MCOneFault == [fault |-> 1, expiry |-> 0, crash |-> 0]
MCTwoFaults == [fault |-> 2, expiry |-> 0, crash |-> 0]
MCAllFailures == [fault |-> 1, expiry |-> 1, crash |-> 1]

MCSymmetry == Permutations(Requests)
=============================================================================
