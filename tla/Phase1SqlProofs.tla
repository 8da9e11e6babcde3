-------------------------- MODULE Phase1SqlProofs --------------------------
(* What the statements of the shared store return and leave, and what a     *)
(* statement spends: the lemmas that the proofs about both services cite.   *)
EXTENDS Phase1Sql, RequestContext, TLAPS

-----------------------------------------------------------------------------
(* Rows                                                                     *)

LEMMA InsertRowDomain ==
    ASSUME NEW table, NEW id, NEW row
    PROVE  DOMAIN InsertRow(table, id, row) = DOMAIN table \cup {id}
BY DEF InsertRow

LEMMA InsertRowType ==
    ASSUME NEW Row, NEW table, table \in [DOMAIN table -> Row], NEW id, NEW row \in Row
    PROVE  InsertRow(table, id, row) \in [DOMAIN table \cup {id} -> Row]
BY DEF InsertRow

-----------------------------------------------------------------------------
(* What the three statements on a slot do to the rows of every slot.        *)

LEMMA ReserveTakesFreeSlot ==
    ASSUME NEW table, NEW slot, NEW fp, slot \notin DOMAIN table
    PROVE  /\ slot \in DOMAIN ReserveIdempotencyRecord(table, slot, fp)
           /\ ReserveIdempotencyRecord(table, slot, fp)[slot] = ReservedRow(fp)
BY DEF ReserveIdempotencyRecord, InsertRow

LEMMA ReserveKeepsRows ==
    ASSUME NEW table, NEW slot, NEW fp
    PROVE  \A s \in DOMAIN table :
                /\ s \in DOMAIN ReserveIdempotencyRecord(table, slot, fp)
                /\ ReserveIdempotencyRecord(table, slot, fp)[s] = table[s]
BY DEF ReserveIdempotencyRecord, InsertRow

LEMMA CompleteKeepsRows ==
    ASSUME NEW table, NEW slot, NEW rep
    PROVE  \A s \in DOMAIN table :
                /\ s \in DOMAIN CompleteIdempotencyRecord(table, slot, rep)
                /\ CompleteIdempotencyRecord(table, slot, rep)[s].fingerprint = table[s].fingerprint
                /\ s # slot => CompleteIdempotencyRecord(table, slot, rep)[s] = table[s]
BY DEF CompleteIdempotencyRecord

LEMMA CompleteStoresReply ==
    ASSUME NEW table, NEW slot \in DOMAIN table, NEW rep
    PROVE  /\ CompleteIdempotencyRecord(table, slot, rep)[slot].state = "completed"
           /\ CompleteIdempotencyRecord(table, slot, rep)[slot].reply = rep
BY DEF CompleteIdempotencyRecord

LEMMA ReleaseKeepsRows ==
    ASSUME NEW table, NEW slot
    PROVE  \A s \in DOMAIN table :
                s # slot \/ table[s].state # "reserved" =>
                    /\ s \in DOMAIN ReleaseIdempotencyRecord(table, slot)
                    /\ ReleaseIdempotencyRecord(table, slot)[s] = table[s]
BY DEF ReleaseIdempotencyRecord, DeleteRow

-----------------------------------------------------------------------------
(* Contexts                                                                 *)

LEMMA StatementType ==
    ASSUME ContextTypeOK, NEW r \in Requests, NEW out, Statement(r, out)
    PROVE  ContextTypeOK'
<1>1. ASSUME NEW failure \in Failures, Spend(failure)
      PROVE  budget' \in [Failures -> Nat]
  <2>1. budget[failure] - 1 \in Nat
    BY <1>1 DEF Spend, ContextTypeOK
  <2> QED
    BY <1>1, <2>1 DEF Spend, ContextTypeOK
<1>2. budget' \in [Failures -> Nat]
  BY <1>1 DEF Statement, ExpireContext, contextVars, ContextTypeOK, Failures
<1>3. expired' \in [Requests -> BOOLEAN]
  BY DEF Statement, ExpireContext, contextVars, ContextTypeOK
<1> QED
  BY <1>2, <1>3 DEF ContextTypeOK

LEMMA QueryType ==
    ASSUME ContextTypeOK, NEW r \in Requests, NEW out, Query(r, out)
    PROVE  ContextTypeOK'
BY StatementType DEF Query

-----------------------------------------------------------------------------
(* Failures                                                                 *)

\* Nothing has failed.
Calm == budget = Budget

\* No statement has failed.
NoFault == budget["fault"] = Budget["fault"]

\* Failures are spent, never regained.
Spent == \A failure \in Failures : budget[failure] <= Budget[failure]

LEMMA SpendShrinks ==
    ASSUME ContextTypeOK, NEW failure \in Failures, Spend(failure)
    PROVE  \A kind \in Failures : budget'[kind] <= budget[kind]
BY DEF Spend, ContextTypeOK

LEMMA StatementShrinks ==
    ASSUME ContextTypeOK, NEW r \in Requests, NEW out, Statement(r, out)
    PROVE  \A kind \in Failures : budget'[kind] <= budget[kind]
<1>1. UNCHANGED budget => \A kind \in Failures : budget'[kind] <= budget[kind]
  BY DEF ContextTypeOK
<1> QED
  BY <1>1, SpendShrinks DEF Statement, ExpireContext, contextVars, Failures

LEMMA ShrinkingStaysCalm ==
    ASSUME ContextTypeOK, ContextTypeOK', Spent, Calm',
           \A kind \in Failures : budget'[kind] <= budget[kind]
    PROVE  Calm
<1>1. \A kind \in Failures : budget[kind] = Budget[kind]
  BY BudgetAssumption DEF Spent, Calm, ContextTypeOK
<1> QED
  BY <1>1, BudgetAssumption DEF Calm, ContextTypeOK

\* Without a fault only an expired context cuts a statement short, and none
\* reaches the database under one.
LEMMA StatementWithoutFault ==
    ASSUME ContextTypeOK, Spent, NEW r \in Requests, NEW out \in Outcomes,
           Statement(r, out), NoFault'
    PROVE  /\ ~Acked(out) => expired'[r]
           /\ expired[r] => ~Reaches(out)
           /\ \A q \in Requests : expired[q] => expired'[q]
<1>1. ~Spend("fault")
  BY DEF Spend, Spent, NoFault, ContextTypeOK, Failures
<1> QED
  BY <1>1 DEF Statement, ExpireContext, contextVars, ContextTypeOK, Outcomes, Acked, Reaches

LEMMA NothingSpent ==
    ASSUME ContextTypeOK, Spent, NEW failure \in Failures, Spend(failure)
    PROVE  ~Calm'
BY BudgetAssumption DEF Spend, Spent, Calm, ContextTypeOK

LEMMA CalmStatement ==
    ASSUME ContextTypeOK, Spent, NEW r \in Requests, ~expired[r],
           NEW out \in Outcomes, Statement(r, out), Calm'
    PROVE  Acked(out) /\ Reaches(out) /\ UNCHANGED expired
BY NothingSpent DEF Statement, ExpireContext, contextVars, Outcomes, Acked, Reaches, Failures
=============================================================================
