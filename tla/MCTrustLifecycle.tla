-------------------------- MODULE MCTrustLifecycle --------------------------
(* A small instance of TrustLifecycle: one migration, two bootstraps whose  *)
(* documents overlap, one service.                                          *)
EXTENDS TrustLifecycle, TLC

CONSTANTS m1,                  \* the migration
          b1, b2,              \* the bootstraps
          s1,                  \* the service
          issuerTable, digestIndex, auditTable,
          did, peer            \* two issuers

\* Three of the eight objects, in the order of the migration and of the check:
\* the two tables a bootstrap needs, and the index between them in the one and
\* last in the other.
MCMigrationOrder == <<issuerTable, digestIndex, auditTable>>
MCCheckOrder == <<issuerTable, auditTable, digestIndex>>

MCEntry(issuer, content) == [issuer |-> issuer, content |-> content, valid |-> TRUE]
MCInvalid(issuer) == [issuer |-> issuer, content |-> "blank", valid |-> FALSE]

\* The second document suspends what the first trusts, and does not end well.
MCDocument ==
    (b1 :> <<MCEntry(did, "active"), MCEntry(peer, "active")>>)
    @@ (b2 :> <<MCEntry(did, "suspended"), MCInvalid(peer)>>)
=============================================================================
