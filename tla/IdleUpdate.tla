----------------------------- MODULE IdleUpdate -----------------------------
(***************************************************************************)
(* The autonomous idle update system: agent-run, which keeps a lock file   *)
(* while a coding agent runs, idle-update-check.sh, which a systemd timer  *)
(* starts and which updates the system when the lock directory is empty,   *)
(* and the terminal daemon, seen through SessionContract.                  *)
(*                                                                         *)
(* One directory, /run/claudecode-locks, holds agent-<pid> and             *)
(* terminal-<id> files; nothing else connects the three programs.  Every   *)
(* command of the scripts that touches the directory, the processes or the *)
(* flag is one step.  Time is abstracted to the age of a lock file in      *)
(* ticks; StaleAge ticks stand for the 360 minutes of STALE_MINUTES, and   *)
(* an age stops counting one tick above it, the first that -mmin +360      *)
(* matches.                                                                *)
(*                                                                         *)
(* The kernels are numbered in the order of their versions.  What the      *)
(* script compares are strings, a package version and the part of uname -r *)
(* before -arch; Contains says of which installed version which running    *)
(* one is a substring: of itself, and 6.9.10.arch1-1 has 6.9.1 in it too.  *)
(***************************************************************************)
EXTENDS Naturals

CONSTANTS
    Agents,      \* invocations of agent-run (their pids)
    Sessions,    \* terminal sessions of the daemon
    StaleAge,    \* age above which an agent lock is stale
    Signals,     \* what the wrapper may be sent: "TERM" stands for INT too
    Faults,      \* "pacman": the package manager fails; "reboot"
    MaxKernel,   \* bound on the kernel versions: the newest there is
    Contains,    \* <<installed, running>>: the first string has the second
    KernelPackages \* the packages the kernel may come from: linux, linux-lts

ASSUME AgentsAssumption == Agents \cap Sessions = {}
ASSUME StaleAgeAssumption == StaleAge \in Nat
ASSUME SignalsAssumption == Signals \subseteq {"TERM", "KILL"}
ASSUME FaultsAssumption == Faults \subseteq {"pacman", "reboot"}
ASSUME KernelAssumption == MaxKernel \in Nat \ {0}

VARIABLES
    wrapper,        \* Agents -> where agent-run is
    child,          \* Agents -> the wrapped command
    dir,            \* the lock files that exist
    age,            \* file -> ticks since its modification time
    updater,        \* where idle-update-check.sh is
    package,        \* the package of the kernel
    running,        \* the kernel that runs
    installed,      \* the kernel that is installed
    flag,           \* reboot-pending exists
    status,         \* Sessions -> status of the session (SessionContract)
    promised        \* the sessions acknowledged since boot (SessionContract)

agentVars == <<wrapper, child>>
lockVars == <<dir, age>>
kernelVars == <<package, running, installed>>
updateVars == <<updater, kernelVars, flag>>
sessionVars == <<status, promised>>
vars == <<agentVars, lockVars, updateVars, sessionVars>>

Files == Agents \cup Sessions
Kernels == 1 .. MaxKernel
WrapperAlive == {"locked", "spawned", "waiting", "leaving"}

TypeOK ==
    /\ wrapper \in [Agents -> {"new", "done", "killed"} \cup WrapperAlive]
    /\ child \in [Agents -> {"none", "running", "ended"}]
    /\ dir \in SUBSET Files
    /\ age \in [Files -> 0 .. StaleAge + 1]
    /\ updater \in {"off", "sweep", "look", "update", "tools", "flag"}
    /\ package \in KernelPackages
    /\ running \in Kernels
    /\ installed \in Kernels
    /\ flag \in BOOLEAN
    /\ status \in [Sessions -> {"none", "open", "closed"}]
    /\ promised \in SUBSET Sessions

Init ==
    /\ wrapper = [a \in Agents |-> "new"]
    /\ child = [a \in Agents |-> "none"]
    /\ dir = {}
    /\ age = [f \in Files |-> 0]
    /\ updater = "off"
    /\ package \in KernelPackages
    /\ running = 1
    /\ installed = 1
    /\ flag = FALSE
    /\ status = [s \in Sessions |-> "none"]
    /\ promised = {}

\* Creating a file, or truncating one that exists, makes it new.
Touch(f) ==
    /\ dir' = dir \cup {f}
    /\ age' = [age EXCEPT ![f] = 0]

Remove(f) ==
    /\ dir' = dir \ {f}
    /\ UNCHANGED age

-----------------------------------------------------------------------------
(***************************************************************************)
(* agent-run.                                                              *)
(***************************************************************************)

GoWrapper(a, from, to) ==
    /\ wrapper[a] \in from
    /\ wrapper' = [wrapper EXCEPT ![a] = to]
    /\ UNCHANGED <<updateVars, sessionVars>>

\* The EXIT trap is set before the lock file is written.
WriteLock(a) ==
    /\ GoWrapper(a, {"new"}, "locked")
    /\ Touch(a)
    /\ UNCHANGED child

\* "$@" &
SpawnChild(a) ==
    /\ GoWrapper(a, {"locked"}, "spawned")
    /\ child' = [child EXCEPT ![a] = "running"]
    /\ UNCHANGED lockVars

\* The INT and TERM traps are set and the wrapper waits.
SetTraps(a) ==
    /\ GoWrapper(a, {"spawned"}, "waiting")
    /\ UNCHANGED <<child, lockVars>>

\* Mutant: exec instead of a child and wait, which discards the EXIT trap.
WaitReturnsUntrapped(a) ==
    /\ GoWrapper(a, {"waiting"}, "done")
    /\ child[a] = "ended"
    /\ UNCHANGED <<child, lockVars>>

\* wait returns the status of the child.
WaitReturns(a) ==
    /\ GoWrapper(a, {"waiting"}, "leaving")
    /\ child[a] = "ended"
    /\ UNCHANGED <<child, lockVars>>

\* INT or TERM.  Before the traps are set bash runs the EXIT trap and dies;
\* afterwards it forwards the signal, and wait, interrupted by it, returns at
\* once.  Either way the wrapper leaves without waiting for the child, which
\* may ignore the signal or take its time.
Signalled(a) ==
    /\ "TERM" \in Signals
    /\ GoWrapper(a, {"locked", "spawned", "waiting"}, "leaving")
    /\ UNCHANGED <<child, lockVars>>

\* The EXIT trap.
Cleanup(a) ==
    /\ GoWrapper(a, {"leaving"}, "done")
    /\ Remove(a)
    /\ UNCHANGED child

\* SIGKILL: no trap runs.
Killed(a) ==
    /\ "KILL" \in Signals
    /\ GoWrapper(a, WrapperAlive, "killed")
    /\ UNCHANGED <<child, lockVars>>

ChildEnds(a) ==
    /\ child[a] = "running"
    /\ child' = [child EXCEPT ![a] = "ended"]
    /\ UNCHANGED <<wrapper, lockVars, updateVars, sessionVars>>

WrapperStep(a) ==
    SpawnChild(a) \/ SetTraps(a) \/ WaitReturns(a) \/ Cleanup(a)

-----------------------------------------------------------------------------
(***************************************************************************)
(* idle-update-check.sh.                                                   *)
(***************************************************************************)

GoUpdater(from, to) ==
    /\ updater = from
    /\ updater' = to
    /\ UNCHANGED <<agentVars, sessionVars>>

\* idle-updater.timer starts the oneshot service.
TimerFires ==
    /\ GoUpdater("off", "sweep")
    /\ UNCHANGED <<lockVars, kernelVars, flag>>

\* Mutant: the filter widened to '*'.
StaleAnyName(f) == age[f] > StaleAge

\* Mutant: the limit itself already counts as stale.
StaleAtLimit(f) == f \in Agents /\ age[f] >= StaleAge

\* What find -name 'agent-*' -mmin +360 matches.
Stale(f) == f \in Agents /\ age[f] > StaleAge

\* Mutant: find without -delete.
SweepNothing ==
    /\ GoUpdater("sweep", "look")
    /\ UNCHANGED <<lockVars, kernelVars, flag>>

SweepStale ==
    /\ GoUpdater("sweep", "look")
    /\ dir' = {f \in dir : ~Stale(f)}
    /\ UNCHANGED <<age, kernelVars, flag>>

\* ls -A: any file at all skips the update.
LookForLocks ==
    /\ \/ dir # {} /\ GoUpdater("look", "off")
       \/ dir = {} /\ GoUpdater("look", "update")
    /\ UNCHANGED <<lockVars, kernelVars, flag>>

\* pacman -Syu, which may bring a newer kernel.
UpdatePackages ==
    /\ GoUpdater("update", "tools")
    /\ installed' \in installed .. MaxKernel
    /\ UNCHANGED <<lockVars, package, running, flag>>

\* A failing pacman ends the script (set -e).
PacmanFails ==
    /\ "pacman" \in Faults
    /\ GoUpdater("update", "off")
    /\ UNCHANGED <<lockVars, kernelVars, flag>>

\* Mutant: paru without "|| true" ends the script when it fails.
UpdateToolsAborts ==
    /\ GoUpdater("tools", "flag") \/ GoUpdater("tools", "off")
    /\ UNCHANGED <<lockVars, kernelVars, flag>>

\* paru and npm, whose failures are ignored.
UpdateTools ==
    /\ GoUpdater("tools", "flag")
    /\ UNCHANGED <<lockVars, kernelVars, flag>>

\* What the script takes for a kernel update: pacman -Q linux knows a package
\* of that name, and its version does not contain the running one.
Detected == package = "linux" /\ <<installed, running>> \notin Contains

\* Mutant: the flag written into the lock directory.
RaiseFlagInLockDir ==
    /\ GoUpdater("flag", "off")
    /\ flag' = (flag \/ Detected)
    /\ dir' = IF Detected THEN dir \cup {"reboot-pending"} ELSE dir
    /\ UNCHANGED <<age, kernelVars>>

\* The kernel check; the flag lies outside the lock directory and nothing
\* removes it.  Without a package linux the script goes on to its end.
RaiseFlag ==
    /\ GoUpdater("flag", "off")
    /\ flag' = (flag \/ Detected)
    /\ UNCHANGED <<lockVars, kernelVars>>

UpdaterStep ==
    \/ TimerFires
    \/ SweepStale
    \/ LookForLocks
    \/ UpdatePackages
    \/ PacmanFails
    \/ UpdateTools
    \/ RaiseFlag

-----------------------------------------------------------------------------
(***************************************************************************)
(* The terminal daemon, as SessionContract describes it.                   *)
(***************************************************************************)

SessionOpens(s) ==
    /\ status[s] = "none"
    /\ status' = [status EXCEPT ![s] = "open"]
    /\ UNCHANGED <<agentVars, lockVars, updateVars, promised>>

SessionLocks(s) ==
    /\ status[s] # "none"
    /\ s \notin dir
    /\ Touch(s)
    /\ UNCHANGED <<agentVars, updateVars, sessionVars>>

SessionAcknowledged(s) ==
    /\ status[s] # "none"
    /\ status[s] = "open" => s \in dir
    /\ promised' = promised \cup {s}
    /\ UNCHANGED <<agentVars, lockVars, updateVars, status>>

SessionCloses(s) ==
    /\ status[s] = "open"
    /\ status' = [status EXCEPT ![s] = "closed"]
    /\ UNCHANGED <<agentVars, lockVars, updateVars, promised>>

SessionUnlocks(s) ==
    /\ status[s] = "closed"
    /\ Remove(s)
    /\ UNCHANGED <<agentVars, updateVars, sessionVars>>

SessionStep(s) ==
    \/ SessionOpens(s)
    \/ SessionLocks(s)
    \/ SessionAcknowledged(s)
    \/ SessionCloses(s)
    \/ SessionUnlocks(s)

-----------------------------------------------------------------------------

Tick ==
    /\ \E f \in dir : age[f] <= StaleAge
    /\ age' = [f \in Files |-> IF f \in dir /\ age[f] <= StaleAge
                               THEN age[f] + 1 ELSE age[f]]
    /\ UNCHANGED <<agentVars, dir, updateVars, sessionVars>>

\* Everything but the flag and the packages is gone; the installed kernel runs.
MachineReboot ==
    /\ "reboot" \in Faults
    /\ wrapper' = [a \in Agents |-> IF wrapper[a] \in WrapperAlive
                                    THEN "killed" ELSE wrapper[a]]
    /\ child' = [a \in Agents |-> IF child[a] = "running"
                                  THEN "ended" ELSE child[a]]
    /\ dir' = {}
    /\ updater' = "off"
    /\ running' = installed
    /\ promised' = {}
    /\ UNCHANGED <<age, package, installed, flag, status>>

Next ==
    \/ \E a \in Agents :
          \/ WriteLock(a)
          \/ WrapperStep(a)
          \/ Signalled(a)
          \/ Killed(a)
          \/ ChildEnds(a)
    \/ UpdaterStep
    \/ \E s \in Sessions : SessionStep(s)
    \/ Tick
    \/ MachineReboot

Spec == Init /\ [][Next]_vars

\* Time passes, the timer fires again and again (OnUnitActiveSec), the script
\* runs to its end, and a wrapper that is not killed takes its next command.
\* Nothing makes an agent start or end, a signal arrive or a session change.
Fairness ==
    /\ WF_vars(Tick)
    /\ WF_vars(UpdaterStep)
    /\ \A a \in Agents : WF_vars(WrapperStep(a))

FairSpec == Spec /\ Fairness

-----------------------------------------------------------------------------
(***************************************************************************)
(* Properties.                                                             *)
(***************************************************************************)

\* The command of an agent-run that nobody signalled.
Undisturbed(a) == wrapper[a] \in {"locked", "spawned", "waiting"}

\* When the script decides that the machine is idle, it is: no acknowledged
\* terminal is open and no undisturbed agent run is younger than the stale
\* limit (idle-update-check.sh: updates only while nothing is running).
UpdateStartsWhenIdle ==
    [][updater = "look" /\ updater' = "update"
         => /\ \A s \in promised : status[s] # "open"
            /\ \A a \in Agents : Undisturbed(a) => age[a] > StaleAge]_vars

\* A wrapper that was not killed leaves no lock behind, wherever a signal
\* caught it (agent-run: removes it again on exit, including on error,
\* Ctrl-C and SIGTERM).
FinishedRunIsUnlocked == \A a \in Agents : wrapper[a] = "done" => a \notin dir

\* The terminal locks keep the contract of the session manager although the
\* updater deletes files from the directory they share with the agents.
Contract == INSTANCE SessionContract WITH held <- dir \cap Sessions

TerminalLocksKeepContract == Contract!ContractSpec

\* No terminal lock and no wrapper.
Quiet ==
    /\ dir \cap Sessions = {}
    /\ \A a \in Agents : wrapper[a] \notin WrapperAlive

\* From some point on pacman works and the machine keeps running.
FaultsEnd == <>[][~PacmanFails /\ ~MachineReboot]_vars

\* A machine that becomes idle and stays idle is updated, whatever locks were
\* left behind by agents.
IdleMachineIsUpdated == FaultsEnd /\ <>[]Quiet => []<>(updater = "update")

\* A kernel update that the comparison of the script can see, of the package
\* linux to a version without the running one in it, is flagged once the
\* machine is idle long enough, whatever becomes of paru and npm after pacman
\* (idle-update-check.sh runs under set -e).  Others are not flagged: 6.9.10
\* after 6.9.1, and every update of linux-lts.
DetectableUpdateIsFlagged == FaultsEnd /\ <>[](Quiet /\ Detected) => <>flag

\* An update never runs while the command of an agent-run runs (wiki,
\* Idle-Update-System: update lands mid-agent-run: can't happen).
NoUpdateDuringRun ==
    updater \in {"update", "tools"} => \A a \in Agents : child[a] # "running"

=============================================================================
