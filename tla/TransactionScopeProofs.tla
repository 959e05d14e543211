------------------------ MODULE TransactionScopeProofs ------------------------
(***************************************************************************)
(* The safety properties of TransactionScope for every set of writes, and   *)
(* that it implements AtomicScope, provided the application passes only      *)
(* control statements that raw SQL denies.                                   *)
(***************************************************************************)
EXTENDS TransactionScope, TLAPS

(* Which control states go with which state of the handle.                  *)
ControlInv ==
  /\ active <=> pc \in InScope
  /\ pc \in InScope => state = "active"
  /\ pc \in {"begin", "recover", "cleanup_begin"} => state = "idle"
  /\ pc = "outside" => state # "active"
  /\ pc # "outside" => told = "nothing"

(* What the connection holds, in and between scopes.                        *)
ConnectionInv ==
  /\ connTx # "open" => pending = {}
  /\ pending \subseteq written
  /\ state = "closed" => connTx = "idle"
  /\ state = "idle" /\ pc \in {"outside", "begin"} => connTx = "idle"
  /\ pc = "stmt" => connTx = "open" /\ pending = written
  /\ pc = "body" /\ ~failed => connTx = "open" /\ pending = written
  /\ pc = "commit" => connTx = "open" /\ pending = written
  /\ pc \in {"cleanup_commit", "cleanup_rollback"} => connTx = "idle"

(* The guard of SQLite's read scopes, through entry, body and cleanup.      *)
QueryOnlyInv ==
  /\ state = "idle" /\ pc \in {"outside", "begin"} => queryOnly = "OFF" /\ saved = "None"
  /\ pc \in {"recover", "cleanup_begin"} =>
       saved # "ON" /\ (queryOnly = "ON" => saved = "OFF")
  /\ pc \in InScope =>
       IF Protects THEN queryOnly = "ON" /\ saved = "OFF"
       ELSE queryOnly = "OFF" /\ saved = "None"

(* What a scope has made durable so far.                                    *)
WritesInv ==
  /\ pc \in {"begin", "recover", "cleanup_begin"} => written = {}
  /\ pc \in InBody \cup {"commit", "rollback", "cleanup_rollback"} => written \cap durable = {}
  /\ pc = "cleanup_commit" => written \subseteq durable
  /\ pc \in InScope /\ ~write => written = {}

FailureInv ==
  /\ raised => failed
  /\ PoisonedNeverCommits

IInv ==
  /\ TypeOK
  /\ ControlInv
  /\ ConnectionInv
  /\ QueryOnlyInv
  /\ WritesInv
  /\ FailureInv
  /\ ReportTruthful

-----------------------------------------------------------------------------
(* A new handle satisfies the invariant.                                    *)
LEMMA InitInv == Init => IInv
BY DEF Init, IInv, TypeOK, ControlInv, ConnectionInv, QueryOnlyInv, WritesInv,
       FailureInv, PoisonedNeverCommits, ReportTruthful, PCs, InScope, InBody

(* Every step preserves the invariant, when raw SQL denies the control      *)
(* statements the application passes.                                       *)
LEMMA StepInv ==
  ASSUME ControlVerbs \subseteq DeniedVerbs, IInv, [Next]_vars
  PROVE  IInv'
<1> USE DEF IInv, TypeOK, ControlInv, ConnectionInv, QueryOnlyInv, WritesInv, FailureInv,
            PoisonedNeverCommits, ReportTruthful,
            PCs, InScope, InBody, handle, scope, conn, Protects
<1>1. ASSUME NEW w \in BOOLEAN, StartScope(w)
      PROVE  IInv'
  BY <1>1 DEF StartScope, Available
<1>2. ASSUME NEW reached \in 0..3, NEW raises \in BOOLEAN, Begin(reached, raises)
      PROVE  IInv'
  <2>1. CASE raises
    BY <1>2, <2>1 DEF Begin
  <2>2. CASE ~raises
    <3>1. reached = 3
      BY <1>2, <2>2 DEF Begin
    <3>2. TypeOK'
      BY <1>2, <2>2, <3>1 DEF Begin
    <3>3. ControlInv'
      BY <1>2, <2>2, <3>1 DEF Begin
    <3>4. ConnectionInv'
      BY <1>2, <2>2, <3>1 DEF Begin
    <3>5. QueryOnlyInv'
      BY <1>2, <2>2, <3>1 DEF Begin
    <3>6. WritesInv'
      BY <1>2, <2>2, <3>1 DEF Begin
    <3>7. FailureInv'
      BY <1>2, <2>2, <3>1 DEF Begin
    <3>8. ReportTruthful'
      BY <1>2, <2>2, <3>1 DEF Begin
    <3> QED
      BY <3>2, <3>3, <3>4, <3>5, <3>6, <3>7, <3>8
  <2> QED
    BY <2>1, <2>2
<1>3. ASSUME NEW ended \in BOOLEAN, NEW raises \in BOOLEAN, RecoverRollback(ended, raises)
      PROVE  IInv'
  BY <1>3 DEF RecoverRollback, Quarantine
<1>4. ASSUME NEW reached \in 0..2, NEW raises \in BOOLEAN, Cleanup(reached, raises)
      PROVE  IInv'
  <2> USE DEF Cleanup, FinishTransaction, Restored, Quarantine, Settled, Unsettled, InCleanup
  <2>1. TypeOK'
    BY <1>4
  <2>2. ControlInv'
    BY <1>4
  <2>3. ConnectionInv'
    BY <1>4
  <2>4. QueryOnlyInv'
    BY <1>4
  <2>5. WritesInv'
    BY <1>4
  <2>6. FailureInv'
    BY <1>4
  <2>7. ReportTruthful'
    BY <1>4
  <2> QED
    BY <2>1, <2>2, <2>3, <2>4, <2>5, <2>6, <2>7
<1>5. ASSUME NEW writes \in BOOLEAN, StartOperation(writes)
      PROVE  IInv'
  BY <1>5 DEF StartOperation, Raise
<1>6. ASSUME NEW w \in Writes, NEW raises \in BOOLEAN, Statement(w, raises)
      PROVE  IInv'
  BY <1>6 DEF Statement, Writable, Raise
<1>7. ASSUME NEW ends \in BOOLEAN, StatementFails(ends)
      PROVE  IInv'
  BY <1>7 DEF StatementFails, Raise
<1>8. ASSUME NEW verb \in ControlVerbs, ControlStatement(verb)
      PROVE  IInv'
  BY <1>8 DEF ControlStatement, Raise
<1>9. ASSUME OperationReturns PROVE IInv'
  BY <1>9 DEF OperationReturns
<1>10. ASSUME MisuseInBody PROVE IInv'
  BY <1>10 DEF MisuseInBody, Raise
<1>11. ASSUME ForeignThreadUse PROVE IInv'
  BY <1>11 DEF ForeignThreadUse
<1>12. ASSUME ApplicationRaises PROVE IInv'
  BY <1>12 DEF ApplicationRaises
<1>13. ASSUME LeaveBody PROVE IInv'
  BY <1>13 DEF LeaveBody, Decision
<1>14. ASSUME NEW landed \in BOOLEAN, NEW raises \in BOOLEAN, Commit(landed, raises)
       PROVE  IInv'
  BY <1>14 DEF Commit, Quarantine
<1>15. ASSUME NEW ended \in BOOLEAN, NEW raises \in BOOLEAN, Rollback(ended, raises)
       PROVE  IInv'
  BY <1>15 DEF Rollback, Quarantine
<1>16. ASSUME Close PROVE IInv'
  BY <1>16 DEF Close
<1>17. ASSUME Crash PROVE IInv'
  BY <1>17 DEF Crash
<1>18. ASSUME NEW ro \in BOOLEAN, Open(ro)
       PROVE  IInv'
  BY <1>18 DEF Open
<1>19. CASE UNCHANGED vars
  BY <1>19 DEF vars
<1> QED
  BY <1>1, <1>2, <1>3, <1>4, <1>5, <1>6, <1>7, <1>8, <1>9, <1>10,
     <1>11, <1>12, <1>13, <1>14, <1>15, <1>16, <1>17, <1>18, <1>19 DEF Next

-----------------------------------------------------------------------------
(* The inductive invariant holds of every behaviour.                        *)
THEOREM Invariance ==
  ASSUME ControlVerbs \subseteq DeniedVerbs
  PROVE  Spec => []IInv
<1>1. IInv /\ [Next]_vars => IInv'
  BY StepInv
<1> QED
  BY InitInv, <1>1, PTL DEF Spec

(* Type correctness of the handle, the connection and the history.          *)
THEOREM TypeCorrect ==
  ASSUME ControlVerbs \subseteq DeniedVerbs
  PROVE  Spec => []TypeOK
<1>1. IInv => TypeOK
  BY DEF IInv
<1> QED
  BY Invariance, <1>1, PTL

(* After any scope, failed and recovered ones included, an idle handle has   *)
(* no transaction, no pending write and query_only off.                     *)
THEOREM IdleHandleIsClean ==
  ASSUME ControlVerbs \subseteq DeniedVerbs
  PROVE  Spec => []IdleHandleClean
<1>1. IInv => IdleHandleClean
  BY DEF IInv, TypeOK, ControlInv, ConnectionInv, QueryOnlyInv, IdleHandleClean, InScope, InBody
<1> QED
  BY Invariance, <1>1, PTL

(* What the caller of a scope is told about its writes is true.             *)
THEOREM ReportsAreTrue ==
  ASSUME ControlVerbs \subseteq DeniedVerbs
  PROVE  Spec => []ReportTruthful
<1>1. IInv => ReportTruthful
  BY DEF IInv
<1> QED
  BY Invariance, <1>1, PTL

(* A scope in which an operation raised never commits.                      *)
THEOREM PoisonedScopesRollBack ==
  ASSUME ControlVerbs \subseteq DeniedVerbs
  PROVE  Spec => []PoisonedNeverCommits
<1>1. IInv => PoisonedNeverCommits
  BY DEF IInv, FailureInv
<1> QED
  BY Invariance, <1>1, PTL

-----------------------------------------------------------------------------
(* Stored data changes only by the commit of a write scope, all of it.      *)
THEOREM OnlyCommitChangesData ==
  ASSUME ControlVerbs \subseteq DeniedVerbs
  PROVE  Spec => OnlyCommitIsDurable
<1>1. ASSUME IInv, [Next]_vars, durable' # durable
      PROVE  pc = "commit" /\ write /\ durable' = durable \cup written
  <2> USE <1>1 DEF IInv, TypeOK, ControlInv, ConnectionInv, WritesInv, PCs, InScope, InBody, handle, scope, conn
  <2>1. ASSUME NEW landed \in BOOLEAN, NEW raises \in BOOLEAN, Commit(landed, raises)
        PROVE  pc = "commit" /\ write /\ durable' = durable \cup written
    BY <2>1 DEF Commit
  <2>2. ASSUME NEW w \in Writes, NEW raises \in BOOLEAN, Statement(w, raises) PROVE FALSE
    BY <2>2 DEF Statement
  <2>3. ASSUME NEW verb \in ControlVerbs, ControlStatement(verb) PROVE FALSE
    BY <2>3 DEF ControlStatement
  <2> QED
    BY <2>1, <2>2, <2>3 DEF Next, vars, StartScope, Begin, RecoverRollback, Cleanup,
       StartOperation, StatementFails, OperationReturns, MisuseInBody, ForeignThreadUse,
       ApplicationRaises, LeaveBody, Rollback, Close, Crash, Open
<1>2. IInv /\ [Next]_vars =>
        [durable' # durable => pc = "commit" /\ write /\ durable' = durable \cup written]_vars
  BY <1>1
<1> QED
  BY Invariance, <1>2, PTL DEF Spec, OnlyCommitIsDurable

(* Under a running body the transaction ends only with an error or a crash. *)
THEOREM BodyKeepsItsTransaction ==
  ASSUME ControlVerbs \subseteq DeniedVerbs
  PROVE  Spec => BodyKeepsTransaction
<1>1. ASSUME IInv, [Next]_vars, connTx = "open", pc \in InBody, connTx' # "open"
      PROVE  raised' \/ state' = "closed"
  <2> USE <1>1 DEF IInv, TypeOK, ControlInv, PCs, InScope, InBody, handle, scope, conn
  <2>1. ASSUME NEW ends \in BOOLEAN, StatementFails(ends) PROVE raised'
    BY <2>1 DEF StatementFails, Raise
  <2>2. ASSUME NEW verb \in ControlVerbs, ControlStatement(verb) PROVE FALSE
    BY <2>2 DEF ControlStatement
  <2>3. ASSUME Crash PROVE state' = "closed"
    BY <2>3 DEF Crash
  <2>4. ASSUME NEW ro \in BOOLEAN, Open(ro) PROVE FALSE
    BY <2>4 DEF Open
  <2> QED
    BY <2>1, <2>2, <2>3, <2>4 DEF Next, vars, StartScope, Begin, RecoverRollback, Cleanup,
       InCleanup, StartOperation, Statement, OperationReturns, MisuseInBody, ForeignThreadUse,
       ApplicationRaises, LeaveBody, Commit, Rollback, Close
<1>2. IInv /\ [Next]_vars =>
        [connTx = "open" /\ pc \in InBody /\ connTx' # "open" => raised' \/ state' = "closed"]_vars
  BY <1>1
<1> QED
  BY Invariance, <1>2, PTL DEF Spec, BodyKeepsTransaction

-----------------------------------------------------------------------------
(* Each step of the handle is a step of AtomicScope or leaves it unchanged. *)
LEMMA StepRefines ==
  ASSUME ControlVerbs \subseteq DeniedVerbs, IInv, [Next]_vars
  PROVE  Promise!Next \/ UNCHANGED Promise!vars
<1> USE DEF IInv, TypeOK, ControlInv, ConnectionInv, WritesInv, PCs, InScope, InBody,
            handle, scope, conn, Promise!Next, Promise!vars
<1>1. ASSUME NEW w \in BOOLEAN, StartScope(w) PROVE Promise!Enter
  BY <1>1 DEF StartScope, Available, Promise!Enter
<1>2. ASSUME NEW reached \in 0..3, NEW raises \in BOOLEAN, Begin(reached, raises)
      PROVE  UNCHANGED Promise!vars
  BY <1>2 DEF Begin
<1>3. ASSUME NEW ended \in BOOLEAN, NEW raises \in BOOLEAN, RecoverRollback(ended, raises)
      PROVE  Promise!Report("unknown") \/ UNCHANGED Promise!vars
  BY <1>3 DEF RecoverRollback, Quarantine, Promise!Report, Promise!Truthful
<1>4. ASSUME NEW reached \in 0..2, NEW raises \in BOOLEAN, Cleanup(reached, raises)
      PROVE  \E report \in Promise!Reports : Promise!Report(report)
  <2> USE DEF Cleanup, Quarantine, Settled, Unsettled, InCleanup,
              Promise!Reports, Promise!Report, Promise!Truthful
  <2>1. CASE pc = "cleanup_begin"
    BY <1>4, <2>1
  <2>2. CASE pc = "cleanup_commit"
    BY <1>4, <2>2
  <2>3. CASE pc = "cleanup_rollback"
    BY <1>4, <2>3
  <2> QED
    BY <1>4, <2>1, <2>2, <2>3
<1>5. ASSUME NEW writes \in BOOLEAN, StartOperation(writes) PROVE UNCHANGED Promise!vars
  BY <1>5 DEF StartOperation, Raise
<1>6. ASSUME NEW w \in Writes, NEW raises \in BOOLEAN, Statement(w, raises)
      PROVE  Promise!Write(w)
  BY <1>6 DEF Statement, Raise, Promise!Write
<1>7. ASSUME NEW ends \in BOOLEAN, StatementFails(ends) PROVE UNCHANGED Promise!vars
  BY <1>7 DEF StatementFails, Raise
<1>8. ASSUME NEW verb \in ControlVerbs, ControlStatement(verb) PROVE UNCHANGED Promise!vars
  BY <1>8 DEF ControlStatement, Raise
<1>9. ASSUME OperationReturns \/ MisuseInBody \/ ForeignThreadUse \/ ApplicationRaises \/ LeaveBody
      PROVE  UNCHANGED Promise!vars
  BY <1>9 DEF OperationReturns, MisuseInBody, Raise, ForeignThreadUse, ApplicationRaises,
       LeaveBody, Decision
<1>10. ASSUME NEW landed \in BOOLEAN, NEW raises \in BOOLEAN, Commit(landed, raises)
       PROVE  Promise!CommitPoint \/ Promise!LostAcknowledgement \/ Promise!Report("unknown")
  <2> USE DEF Commit, Quarantine
  <2>1. CASE ~raises
    BY <1>10, <2>1 DEF Promise!CommitPoint
  <2>2. CASE raises /\ landed
    BY <1>10, <2>2 DEF Promise!LostAcknowledgement
  <2>3. CASE raises /\ ~landed
    BY <1>10, <2>3 DEF Promise!Report, Promise!Truthful
  <2> QED
    BY <2>1, <2>2, <2>3
<1>11. ASSUME NEW ended \in BOOLEAN, NEW raises \in BOOLEAN, Rollback(ended, raises)
       PROVE  Promise!Report("unknown") \/ UNCHANGED Promise!vars
  <2>1. CASE raises
    BY <1>11, <2>1 DEF Rollback, Quarantine, Promise!Report, Promise!Truthful
  <2>2. CASE ~raises
    BY <1>11, <2>2 DEF Rollback
  <2> QED
    BY <2>1, <2>2
<1>12. ASSUME Close \/ Crash PROVE Promise!Retire
  BY <1>12 DEF Close, Crash, Promise!Retire
<1>13. ASSUME NEW ro \in BOOLEAN, Open(ro) PROVE Promise!Replace
  BY <1>13 DEF Open, Promise!Replace
<1>14. CASE UNCHANGED vars
  BY <1>14 DEF vars
<1>15. Promise!Reports = {"ok", "committed", "raised", "rolled_back", "unknown"}
  BY DEF Promise!Reports
<1> QED
  BY <1>1, <1>2, <1>3, <1>4, <1>5, <1>6, <1>7, <1>8, <1>9, <1>10, <1>11, <1>12,
     <1>13, <1>14, <1>15 DEF Next

(* The handle implements the promise of AtomicScope.                        *)
THEOREM KeepsPromise ==
  ASSUME ControlVerbs \subseteq DeniedVerbs
  PROVE  Spec => PromiseKept
<1>1. Init => Promise!Init
  BY DEF Init, Promise!Init
<1>2. IInv /\ [Next]_vars => [Promise!Next]_(Promise!vars)
  BY StepRefines
<1> QED
  BY Invariance, <1>1, <1>2, PTL DEF Spec, PromiseKept, Promise!Spec
=============================================================================
