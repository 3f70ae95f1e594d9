-------------------------- MODULE IdleUpdateProofs --------------------------
(***************************************************************************)
(* Machine-checked proofs about IdleUpdate, for any number of agent runs   *)
(* and sessions, any stale limit, all signals and all faults.              *)
(***************************************************************************)
EXTENDS IdleUpdate, TLAPS

\* An undisturbed run whose lock is not stale holds it; a run that has not
\* begun or is over holds none.
RunsAreLocked ==
    \A a \in Agents :
        /\ Undisturbed(a) /\ age[a] <= StaleAge => a \in dir
        /\ wrapper[a] \in {"new", "done"} => a \notin dir

\* An acknowledged terminal exists, and holds its lock while it is open.
PromisedIsLocked ==
    \A s \in promised : status[s] # "none" /\ (status[s] = "open" => s \in dir)

IInv == TypeOK /\ RunsAreLocked /\ PromisedIsLocked

USE AgentsAssumption, StaleAgeAssumption, KernelAssumption
  DEF Files, WrapperAlive, Kernels

\* Nothing runs and nothing is locked at first.
LEMMA InitIInv == Init => IInv
<1> SUFFICES ASSUME Init PROVE IInv
  OBVIOUS
<1>1. 0 \in 0 .. StaleAge + 1 /\ 1 \in 1 .. MaxKernel
  OBVIOUS
<1>2. TypeOK
  BY <1>1 DEF Init, TypeOK
<1>3. RunsAreLocked /\ PromisedIsLocked
  BY DEF Init, RunsAreLocked, PromisedIsLocked, Undisturbed
<1>4. QED
  BY <1>2, <1>3 DEF IInv

\* A step of a wrapper, of its command or a signal preserves the invariant.
LEMMA AgentStepIInv ==
    ASSUME IInv, NEW a \in Agents,
           WriteLock(a) \/ WrapperStep(a) \/ Signalled(a) \/ Killed(a)
             \/ ChildEnds(a)
    PROVE  IInv'
<1> USE DEF IInv, TypeOK, RunsAreLocked, PromisedIsLocked, Undisturbed,
        GoWrapper, agentVars, lockVars, updateVars, kernelVars, sessionVars
<1>1. CASE WriteLock(a)
  BY <1>1 DEF WriteLock, Touch
<1>2. CASE SpawnChild(a) \/ SetTraps(a) \/ WaitReturns(a)
  BY <1>2 DEF SpawnChild, SetTraps, WaitReturns
<1>3. CASE Cleanup(a)
  BY <1>3 DEF Cleanup, Remove
<1>4. CASE Signalled(a) \/ Killed(a)
  BY <1>4 DEF Signalled, Killed
<1>5. CASE ChildEnds(a)
  BY <1>5 DEF ChildEnds
<1>6. QED
  BY <1>1, <1>2, <1>3, <1>4, <1>5 DEF WrapperStep

\* A step of idle-update-check.sh preserves the invariant: the sweep only
\* takes agent locks, and only stale ones.
LEMMA UpdaterStepIInv == ASSUME IInv, UpdaterStep PROVE IInv'
<1> USE DEF IInv, TypeOK, RunsAreLocked, PromisedIsLocked, Undisturbed,
        GoUpdater, agentVars, lockVars, updateVars, kernelVars, sessionVars
<1>1. CASE TimerFires \/ LookForLocks
  BY <1>1 DEF TimerFires, LookForLocks
<1>2. CASE SweepStale
  BY <1>2 DEF SweepStale, Stale
<1>3. CASE UpdatePackages
  <2>1. installed' \in Kernels
    BY <1>3 DEF UpdatePackages
  <2>2. QED
    BY <1>3, <2>1 DEF UpdatePackages
<1>4. CASE PacmanFails \/ UpdateTools
  BY <1>4 DEF PacmanFails, UpdateTools
<1>5. CASE RaiseFlag
  <2>1. flag' \in BOOLEAN
    BY <1>5 DEF RaiseFlag, Detected
  <2>2. QED
    BY <1>5, <2>1 DEF RaiseFlag
<1>6. QED
  BY <1>1, <1>2, <1>3, <1>4, <1>5, UpdaterStep DEF UpdaterStep

\* A step of the terminal daemon preserves the invariant.
LEMMA SessionStepIInv ==
    ASSUME IInv, NEW s \in Sessions, SessionStep(s) PROVE IInv'
<1> USE DEF IInv, TypeOK, RunsAreLocked, PromisedIsLocked, Undisturbed,
        agentVars, lockVars, updateVars, kernelVars, sessionVars
<1>1. CASE SessionOpens(s)
  BY <1>1 DEF SessionOpens
<1>2. CASE SessionLocks(s)
  BY <1>2 DEF SessionLocks, Touch
<1>3. CASE SessionAcknowledged(s)
  BY <1>3 DEF SessionAcknowledged
<1>4. CASE SessionCloses(s)
  BY <1>4 DEF SessionCloses
<1>5. CASE SessionUnlocks(s)
  BY <1>5 DEF SessionUnlocks, Remove
<1>6. QED
  BY <1>1, <1>2, <1>3, <1>4, <1>5, SessionStep(s) DEF SessionStep

\* Every step preserves the invariant.
LEMMA NextIInv == IInv /\ [Next]_vars => IInv'
<1> SUFFICES ASSUME IInv, [Next]_vars PROVE IInv'
  OBVIOUS
<1>1. CASE Tick
  BY <1>1 DEF Tick, IInv, TypeOK, RunsAreLocked, PromisedIsLocked, Undisturbed,
        agentVars, lockVars, updateVars, kernelVars, sessionVars
<1>2. CASE MachineReboot
  BY <1>2 DEF MachineReboot, IInv, TypeOK, RunsAreLocked, PromisedIsLocked,
        Undisturbed
<1>3. CASE UNCHANGED vars
  BY <1>3 DEF vars, IInv, TypeOK, RunsAreLocked, PromisedIsLocked,
        Undisturbed, agentVars, lockVars, updateVars, kernelVars, sessionVars
<1>4. QED
  BY <1>1, <1>2, <1>3, AgentStepIInv, UpdaterStepIInv, SessionStepIInv DEF Next

\* The invariant holds throughout every behaviour.
THEOREM Invariance == Spec => []IInv
BY InitIInv, NextIInv, PTL DEF Spec

-----------------------------------------------------------------------------

\* Processes, lock files and the updater have the states the scripts allow.
THEOREM TypeCorrect == Spec => []TypeOK
<1>1. IInv => TypeOK
  BY DEF IInv
<1>2. QED
  BY <1>1, Invariance, PTL

\* The EXIT trap of agent-run leaves no lock behind.
THEOREM TrapReleases == Spec => []FinishedRunIsUnlocked
<1>1. IInv => FinishedRunIsUnlocked
  BY DEF IInv, RunsAreLocked, FinishedRunIsUnlocked
<1>2. QED
  BY <1>1, Invariance, PTL

\* idle-update-check.sh decides to update only when no acknowledged terminal
\* is open and no undisturbed agent run is younger than the stale limit.
THEOREM UpdateGate == Spec => UpdateStartsWhenIdle
<1> DEFINE Gate ==
      updater = "look" /\ updater' = "update"
        => /\ \A s \in promised : status[s] # "open"
           /\ \A a \in Agents : Undisturbed(a) => age[a] > StaleAge
<1>1. IInv /\ [Next]_vars => [Gate]_vars
  <2> SUFFICES ASSUME IInv, Next, updater = "look", updater' = "update"
               PROVE  /\ \A s \in promised : status[s] # "open"
                      /\ \A a \in Agents : Undisturbed(a) => age[a] > StaleAge
    OBVIOUS
  <2>1. LookForLocks
    <3>1. ASSUME NEW a \in Agents,
                 WriteLock(a) \/ WrapperStep(a) \/ Signalled(a) \/ Killed(a)
                   \/ ChildEnds(a)
          PROVE  FALSE
      BY <3>1 DEF WriteLock, WrapperStep, SpawnChild, SetTraps, WaitReturns,
            Cleanup, Signalled, Killed, ChildEnds, GoWrapper,
            updateVars, kernelVars
    <3>2. ASSUME NEW s \in Sessions, SessionStep(s) PROVE FALSE
      BY <3>2 DEF SessionStep, SessionOpens, SessionLocks,
            SessionAcknowledged, SessionCloses, SessionUnlocks,
            updateVars, kernelVars
    <3>3. ~Tick /\ ~MachineReboot
      BY DEF Tick, MachineReboot, updateVars, kernelVars
    <3>4. ~TimerFires /\ ~SweepStale /\ ~UpdatePackages
            /\ ~PacmanFails /\ ~UpdateTools /\ ~RaiseFlag
      BY DEF TimerFires, SweepStale, UpdatePackages, PacmanFails, UpdateTools,
             RaiseFlag, GoUpdater
    <3>5. QED
      BY <3>1, <3>2, <3>3, <3>4 DEF Next, UpdaterStep
  <2>2. dir = {}
    BY <2>1 DEF LookForLocks, GoUpdater
  <2>3. \A s \in promised : status[s] # "open"
    BY <2>2 DEF IInv, PromisedIsLocked
  <2>4. ASSUME NEW a \in Agents, Undisturbed(a) PROVE age[a] > StaleAge
    BY <2>2, <2>4 DEF IInv, RunsAreLocked, TypeOK
  <2>5. QED
    BY <2>3, <2>4
<1>2. QED
  BY <1>1, Invariance, PTL DEF Spec, UpdateStartsWhenIdle

-----------------------------------------------------------------------------
(***************************************************************************)
(* Agents and the updater share the directory of the terminal locks and    *)
(* still keep their contract.                                              *)
(***************************************************************************)

\* Every step is a step of the contract or leaves terminal locks alone.
LEMMA ContractStep ==
    IInv /\ [Next]_vars => [Contract!ContractNext]_(Contract!contractVars)
<1> SUFFICES ASSUME IInv, [Next]_vars
             PROVE  [Contract!ContractNext]_(Contract!contractVars)
  OBVIOUS
<1> USE DEF IInv, TypeOK, Contract!ContractNext, Contract!contractVars,
        agentVars, lockVars, updateVars, kernelVars, sessionVars
<1>1. ASSUME NEW a \in Agents,
             WriteLock(a) \/ WrapperStep(a) \/ Signalled(a) \/ Killed(a)
               \/ ChildEnds(a)
      PROVE  UNCHANGED Contract!contractVars
  BY <1>1 DEF WriteLock, WrapperStep, SpawnChild, SetTraps, WaitReturns,
        Cleanup, Signalled, Killed, ChildEnds, GoWrapper, Touch, Remove
<1>2. CASE UpdaterStep
  BY <1>2 DEF UpdaterStep, TimerFires, SweepStale, Stale, LookForLocks,
        UpdatePackages, PacmanFails, UpdateTools, RaiseFlag, GoUpdater
<1>3. ASSUME NEW s \in Sessions, SessionStep(s)
      PROVE  Contract!Open(s) \/ Contract!Lock(s) \/ Contract!Acknowledge(s)
               \/ Contract!Close(s) \/ Contract!Unlock(s)
  <2>1. CASE SessionOpens(s)
    BY <2>1 DEF SessionOpens, Contract!Open
  <2>2. CASE SessionLocks(s)
    BY <2>2 DEF SessionLocks, Touch, Contract!Lock
  <2>3. CASE SessionAcknowledged(s)
    BY <2>3 DEF SessionAcknowledged, Contract!Acknowledge
  <2>4. CASE SessionCloses(s)
    BY <2>4 DEF SessionCloses, Contract!Close
  <2>5. CASE SessionUnlocks(s)
    BY <2>5 DEF SessionUnlocks, Remove, Contract!Unlock
  <2>6. QED
    BY <1>3, <2>1, <2>2, <2>3, <2>4, <2>5 DEF SessionStep
<1>4. CASE Tick
  BY <1>4 DEF Tick
<1>5. CASE MachineReboot
  BY <1>5 DEF MachineReboot, Contract!Reboot
<1>6. CASE UNCHANGED vars
  BY <1>6 DEF vars
<1>7. QED
  BY <1>1, <1>2, <1>3, <1>4, <1>5, <1>6 DEF Next

\* The stale sweep and the agents never break the contract of a terminal lock.
THEOREM Refinement == Spec => TerminalLocksKeepContract
<1>1. Init => Contract!ContractInit
  BY DEF Init, Contract!ContractInit
<1>2. QED
  BY <1>1, ContractStep, Invariance, PTL
  DEF Spec, TerminalLocksKeepContract, Contract!ContractSpec

=============================================================================
