--------------------------- MODULE MCTrustRuntime ---------------------------
(* A small instance of TrustRuntime, its seconds scaled down.               *)
EXTENDS TrustRuntime, TLC

CONSTANTS r1, r2,          \* requests
          verifier, other  \* what introspection tells: the client, or another

\* A token that outlives the margin, one that does not, and one that the
\* registry is not to accept.
MCOffer(life, grantee) == [life |-> life, grantee |-> grantee]
MCOffers == {MCOffer(4, verifier), MCOffer(2, verifier), MCOffer(4, other)}

MCSymmetry == Permutations(Requests)
=============================================================================
