----------------------- MODULE SessionLifecycleProofs -----------------------
(***************************************************************************)
(* Machine-checked proofs about SessionLifecycle: type correctness, the    *)
(* safety invariants the runs check, and that every behaviour keeps        *)
(* SessionContract, for any sets of sessions and requests and any faults.  *)
(***************************************************************************)
EXTENDS SessionLifecycle, TLAPS

-----------------------------------------------------------------------------
(***************************************************************************)
(* The inductive invariant.  The safety properties are not inductive as    *)
(* they stand: they speak about answers, and an answer is true because of  *)
(* what held at each earlier step of the request.                          *)
(***************************************************************************)

\* Create: there is no row before the INSERT and one ever after it.
CreateOrder ==
    \A s \in Sessions :
        /\ create[s] \in {"new", "options", "insert", "rollback"}
              => row[s] = "none"
        /\ create[s] \in {"lock", "fetch", "ok"} => row[s] # "none"

\* No request is in flight while the daemon is down.
DownIsIdle ==
    ~up => /\ \A s \in Sessions : create[s] \notin CreateBusy
           /\ \A d \in Deletes : delete[d] \notin DeleteBusy

\* From Acquire on, an open session is locked; the history variable can only
\* take over once the request is no longer in flight.
LockKept ==
    \A s \in Sessions :
        /\ create[s] = "fetch" /\ row[s] = "open" => s \in locks
        /\ create[s] = "ok" /\ row[s] = "open" => s \in locks \cup preboot

\* Only a session with a row is locked or was there at a reboot, and a
\* request in flight has not lived through one.
LockedHasRow ==
    /\ \A s \in locks \cup preboot : row[s] # "none"
    /\ \A s \in Sessions : create[s] \in CreateBusy => s \notin preboot

\* What a DELETE in flight, or answered, knows about its target.
DeleteKnows ==
    \A d \in Deletes :
        /\ delete[d] = "mark" => target[d] \in Sessions /\ row[target[d]] # "none"
        /\ HasClosed(d) => target[d] \in Sessions /\ row[target[d]] = "closed"
        /\ delete[d] \in {"release", "204"} => target[d] \notin tmux
        /\ delete[d] = "404" /\ target[d] \in Sessions
              => row[target[d]] = "closed"

IInv ==
    /\ TypeOK
    /\ CreateOrder
    /\ DownIsIdle
    /\ LockKept
    /\ LockedHasRow
    /\ DeleteKnows
    /\ OneDeleteWins

\* Phases and what they abbreviate; unfolded in every leaf below.
USE DEF CreateBusy, CreatePhases, DeleteBusy, DeletePhases


\* The invariant holds when the daemon first starts on an empty machine.
LEMMA InitIInv == Init => IInv
BY SessionsAssumption
DEF Init, IInv, TypeOK, CreateOrder, DownIsIdle, LockKept, LockedHasRow,
    DeleteKnows, OneDeleteWins, HasClosed

\* Every step of a request, of the daemon or of its environment preserves it.
LEMMA NextIInv == IInv /\ [Next]_vars => IInv'
<1> SUFFICES ASSUME IInv, [Next]_vars PROVE IInv'
  OBVIOUS
<1> USE SessionsAssumption
<1> USE DEF IInv, TypeOK, CreateOrder, DownIsIdle, LockKept, LockedHasRow,
        DeleteKnows, OneDeleteWins, HasClosed
<1>1. ASSUME NEW s \in Sessions, CreateSpawn(s) PROVE IInv'
  BY <1>1 DEF CreateSpawn, GoCreate, NewSession
<1>2. ASSUME NEW s \in Sessions, CreateOptions(s) PROVE IInv'
  BY <1>2 DEF CreateOptions, GoCreate
<1>3. ASSUME NEW s \in Sessions, CreateInsert(s) PROVE IInv'
  BY <1>3 DEF CreateInsert, GoCreate, CreateSession
<1>4. ASSUME NEW s \in Sessions, CreateRollback(s) PROVE IInv'
  BY <1>4 DEF CreateRollback, GoCreate, KillSession
<1>5. ASSUME NEW s \in Sessions, CreateLock(s) PROVE IInv'
  BY <1>5 DEF CreateLock, GoCreate, Acquire
<1>6. ASSUME NEW s \in Sessions, CreateFetch(s) PROVE IInv'
  BY <1>6 DEF CreateFetch, GoCreate
<1>7. ASSUME NEW s \in Sessions, ShellExit(s) PROVE IInv'
  BY <1>7 DEF ShellExit
<1>8. ASSUME NEW d \in Deletes, NEW s \in Sessions \cup {NoSession},
         DeleteBegin(d, s)
      PROVE IInv'
  BY <1>8 DEF DeleteBegin, GoDelete, GetSession
<1>9. ASSUME NEW d \in Deletes, DeleteMark(d) PROVE IInv'
  BY <1>9 DEF DeleteMark, GoDelete, CloseSession, MayCloseSession
<1>10. ASSUME NEW d \in Deletes, DeleteKill(d) PROVE IInv'
  BY <1>10 DEF DeleteKill, GoDelete, KillSession
<1>11. ASSUME NEW d \in Deletes, DeleteRelease(d) PROVE IInv'
  BY <1>11 DEF DeleteRelease, GoDelete, Release
<1>12. CASE DaemonCrash
  BY <1>12 DEF DaemonCrash, LoseRequests
<1>13. CASE DaemonStart
  BY <1>13 DEF DaemonStart
<1>14. CASE MachineReboot
  BY <1>14 DEF MachineReboot, LoseRequests
<1>15. CASE UNCHANGED vars
  BY <1>15 DEF vars
<1>16. QED
  BY <1>1, <1>2, <1>3, <1>4, <1>5, <1>6, <1>7, <1>8, <1>9, <1>10, <1>11, <1>12, <1>13, <1>14, <1>15 DEF Next, CreateStep, DeleteStep

\* The invariant holds throughout every behaviour.
THEOREM Invariance == Spec => []IInv
<1>1. Init => IInv
  BY InitIInv
<1>2. IInv /\ [Next]_vars => IInv'
  BY NextIInv
<1>3. QED
  BY <1>1, <1>2, PTL DEF Spec

-----------------------------------------------------------------------------
(***************************************************************************)
(* The safety properties of SessionLifecycle.                              *)
(***************************************************************************)

\* Rows, tmux sessions, locks and requests have the shapes that terminal.go,
\* db.go and locks.go give them.
THEOREM TypeCorrect == Spec => []TypeOK
<1>1. IInv => TypeOK
  BY DEF IInv
<1>2. QED
  BY <1>1, Invariance, PTL

\* A session whose POST was answered 201 stays locked for as long as it is
\* open, whatever fails or crashes, up to a reboot.
THEOREM AcknowledgedStaysLocked == Spec => []AcknowledgedOpenIsLocked
<1>1. IInv => AcknowledgedOpenIsLocked
  BY DEF IInv, LockKept, AcknowledgedOpenIsLocked
<1>2. QED
  BY <1>1, Invariance, PTL

\* At most one DELETE of a session gets past the UPDATE of its status.
THEOREM DeleteIsExclusive == Spec => []OneDeleteWins
<1>1. IInv => OneDeleteWins
  BY DEF IInv
<1>2. QED
  BY <1>1, Invariance, PTL

\* A 204 and a 404 of DELETE /sessions/{id} stay true for ever.
THEOREM DeleteAnswersTruly == Spec => []AnswersAreTrue
<1>1. IInv => AnswersAreTrue
  BY DEF IInv, TypeOK, DeleteKnows, HasClosed, AnswersAreTrue
<1>2. QED
  BY <1>1, Invariance, PTL

-----------------------------------------------------------------------------
(***************************************************************************)
(* The refinement.                                                         *)
(***************************************************************************)

\* The initial state of the daemon is one of the contract.
LEMMA ContractInit == Init => Contract!ContractInit
BY DEF Init, Contract!ContractInit

\* Every step maps to a step of the contract or leaves its variables alone.
LEMMA ContractStep ==
    IInv /\ [Next]_vars => [Contract!ContractNext]_(Contract!contractVars)
<1> DEFINE Promised == {s \in Sessions : create[s] = "ok"} \ preboot
<1> SUFFICES ASSUME IInv, [Next]_vars
             PROVE  [Contract!ContractNext]_(Contract!contractVars)
  OBVIOUS
<1> USE DEF IInv, TypeOK
<1> USE DEF Contract!ContractNext, Contract!contractVars
<1>1. ASSUME NEW s \in Sessions,
             CreateSpawn(s) \/ CreateOptions(s) \/ CreateRollback(s) \/ ShellExit(s)
      PROVE  UNCHANGED Contract!contractVars
  <2>1. UNCHANGED <<row, locks>>
    BY <1>1 DEF CreateSpawn, CreateOptions, CreateRollback, ShellExit
  <2>2. Promised' = Promised
    BY <1>1 DEF CreateSpawn, CreateOptions, CreateRollback, ShellExit, GoCreate
  <2>3. QED
    BY <2>1, <2>2
<1>2. ASSUME NEW s \in Sessions, CreateInsert(s)
      PROVE  Contract!Open(s) \/ UNCHANGED Contract!contractVars
  <2>1. Promised' = Promised
    BY <1>2 DEF CreateInsert, GoCreate
  <2>2. QED
    BY <1>2, <2>1
    DEF CreateInsert, CreateSession, GoCreate, CreateOrder, Contract!Open
<1>3. ASSUME NEW s \in Sessions, CreateLock(s)
      PROVE  Contract!Lock(s) \/ UNCHANGED Contract!contractVars
  <2>1. Promised' = Promised
    BY <1>3 DEF CreateLock, GoCreate
  <2>2. QED
    BY <1>3, <2>1 DEF CreateLock, Acquire, GoCreate, CreateOrder, Contract!Lock
<1>4. ASSUME NEW s \in Sessions, CreateFetch(s)
      PROVE  Contract!Acknowledge(s) \/ UNCHANGED Contract!contractVars
  <2>1. CASE GoCreate(s, "fetch", "ok")
    <3>1. Promised' = Promised \cup {s}
      BY <1>4, <2>1 DEF CreateFetch, GoCreate, LockedHasRow
    <3>2. QED
      BY <1>4, <2>1, <3>1
      DEF CreateFetch, GoCreate, CreateOrder, LockKept, Contract!Acknowledge
  <2>2. CASE GoCreate(s, "fetch", "error")
    <3>1. Promised' = Promised
      BY <1>4, <2>2 DEF CreateFetch, GoCreate
    <3>2. QED
      BY <1>4, <3>1 DEF CreateFetch
  <2>3. QED
    BY <1>4, <2>1, <2>2 DEF CreateFetch
<1>5. ASSUME NEW d \in Deletes, NEW s \in Sessions \cup {NoSession},
             DeleteBegin(d, s)
      PROVE  UNCHANGED Contract!contractVars
  BY <1>5 DEF DeleteBegin, GoDelete
<1>6. ASSUME NEW d \in Deletes, DeleteMark(d)
      PROVE  [\E s \in Sessions : Contract!Close(s)]_(Contract!contractVars)
  BY <1>6
  DEF DeleteMark, GoDelete, MayCloseSession, CloseSession, DeleteKnows,
      Contract!Close
<1>7. ASSUME NEW d \in Deletes, DeleteKill(d)
      PROVE  UNCHANGED Contract!contractVars
  BY <1>7 DEF DeleteKill, GoDelete
<1>8. ASSUME NEW d \in Deletes, DeleteRelease(d)
      PROVE  [\E s \in Sessions : Contract!Unlock(s)]_(Contract!contractVars)
  BY <1>8
  DEF DeleteRelease, GoDelete, Release, DeleteKnows, HasClosed, Contract!Unlock
<1>9. ASSUME DaemonCrash \/ DaemonStart
      PROVE  UNCHANGED Contract!contractVars
  <2>1. Promised' = Promised
    BY <1>9 DEF DaemonCrash, DaemonStart, LoseRequests
  <2>2. QED
    BY <1>9, <2>1 DEF DaemonCrash, DaemonStart
<1>10. CASE MachineReboot
  <2>1. Promised' = {}
    BY <1>10 DEF MachineReboot, LoseRequests, CreateOrder
  <2>2. QED
    BY <1>10, <2>1 DEF MachineReboot, Contract!Reboot
<1>11. CASE UNCHANGED vars
  BY <1>11 DEF vars
<1>12. QED
  BY <1>1, <1>2, <1>3, <1>4, <1>5, <1>6, <1>7, <1>8, <1>9, <1>10, <1>11
  DEF Next, CreateStep, DeleteStep

\* SessionLifecycle implements SessionContract: what clients and the idle
\* updater may rely on holds of the daemon with every fault enabled.
THEOREM Refinement == Spec => ImplementsContract
<1>1. Init => Contract!ContractInit
  BY ContractInit
<1>2. IInv /\ [Next]_vars => [Contract!ContractNext]_(Contract!contractVars)
  BY ContractStep
<1>3. QED
  BY <1>1, <1>2, Invariance, PTL
  DEF Spec, ImplementsContract, Contract!ContractSpec

=============================================================================
