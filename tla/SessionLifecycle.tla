--------------------------- MODULE SessionLifecycle ---------------------------
(***************************************************************************)
(* The life of a terminal session in claudecode-remoted: a row in SQLite,  *)
(* a tmux session and a terminal lock file, kept in step by                *)
(* terminal.Manager (daemon/internal/terminal/manager.go).                 *)
(*                                                                         *)
(* POST /sessions runs Manager.Create, DELETE /sessions/{id} runs          *)
(* Manager.Close, each in a goroutine of its own and with no mutex: every  *)
(* call on the database, on tmux and on the lock directory is one step, so *)
(* two handlers interleave between any two of them.  The daemon can die    *)
(* between two steps; systemd restarts it with KillMode=process, so tmux   *)
(* and the lock files survive, and nothing reconciles them at start-up.  A *)
(* reboot ends tmux and empties /run, the lock directory included.         *)
(*                                                                         *)
(* A session identifier is 8 random bytes drawn by Create; collisions are  *)
(* not modelled, so each identifier belongs to one Create.  A DELETE names *)
(* a session its sender has seen, that is one with a row, or an            *)
(* identifier the daemon never issued (NoSession).                         *)
(***************************************************************************)

CONSTANTS
    Sessions,    \* identifiers Create may draw
    Deletes,     \* DELETE requests, each sent at most once
    NoSession,   \* an identifier that was never issued
    Faults       \* what may go wrong in the environment, see FaultKinds

FaultKinds ==
    { "spawn",         \* tmux new-session fails
      "window_size",   \* tmux set-option fails although the session runs
      "insert",        \* the INSERT fails
      "acquire",       \* the lock file cannot be created
      "read",          \* a SELECT fails
      "update",        \* the UPDATE of the status fails
      "kill",          \* tmux kill-session fails although the session runs
      "release",       \* the lock file cannot be removed
      "crash",         \* the daemon dies
      "reboot" }       \* the machine restarts

ASSUME SessionsAssumption == NoSession \notin Sessions
ASSUME FaultsAssumption == Faults \subseteq FaultKinds

VARIABLES
    row,       \* Sessions -> status column, "none" where there is no row
    tmux,      \* the sessions whose tmux session ccr-<id> is alive
    locks,     \* the sessions whose lock file terminal-<id> exists
    create,    \* Sessions -> where the Create that drew the identifier is
    delete,    \* Deletes -> where the DELETE is, or how it was answered
    target,    \* Deletes -> the session the DELETE names
    up,        \* the daemon is running
    preboot    \* history: the sessions that had a row at some reboot

vars == <<row, tmux, locks, create, delete, target, up, preboot>>

\* Where a Create is; "ok" is the 201, "error" the 500, "lost" a crash.
CreateBusy == {"options", "insert", "rollback", "lock", "fetch"}
CreatePhases == {"new", "ok", "error", "lost"} \cup CreateBusy

\* Where a DELETE is; "release_err" is a Close that remembers a failed kill,
\* "unreleased" the 500 that reports the lock.
DeleteBusy == {"mark", "kill", "release", "release_err"}
DeletePhases ==
    {"unsent", "204", "404", "500", "unreleased", "lost"} \cup DeleteBusy

TypeOK ==
    /\ row \in [Sessions -> {"none", "open", "closed"}]
    /\ tmux \in SUBSET Sessions
    /\ locks \in SUBSET Sessions
    /\ create \in [Sessions -> CreatePhases]
    /\ delete \in [Deletes -> DeletePhases]
    /\ target \in [Deletes -> Sessions \cup {NoSession}]
    /\ up \in BOOLEAN
    /\ preboot \in SUBSET Sessions

Init ==
    /\ row = [s \in Sessions |-> "none"]
    /\ tmux = {}
    /\ locks = {}
    /\ create = [s \in Sessions |-> "new"]
    /\ delete = [d \in Deletes |-> "unsent"]
    /\ target = [d \in Deletes |-> NoSession]
    /\ up = TRUE
    /\ preboot = {}

-----------------------------------------------------------------------------
(***************************************************************************)
(* The calls the two handlers make on the database, on tmux and on the     *)
(* lock directory.                                                         *)
(***************************************************************************)

\* INSERT INTO sessions ... status 'open'.
CreateSession(s) == row' = [row EXCEPT ![s] = "open"]

\* SELECT ... WHERE id = ?: a row of any status is found.
GetSession(s) == s \in Sessions /\ row[s] # "none"

\* Mutant: the UPDATE without its test of the status.
MayCloseAnyStatus(s) == row[s] # "none"

\* The condition of UPDATE ... WHERE id = ? AND status = 'open'.
MayCloseSession(s) == row[s] = "open"

\* UPDATE sessions SET status = 'closed'.
CloseSession(s) == row' = [row EXCEPT ![s] = "closed"]

\* tmux new-session -d.
NewSession(s) == tmux' = tmux \cup {s}

\* tmux kill-session.
KillSession(s) == tmux' = tmux \ {s}

\* Mutant: a lock file whose name does not carry the session.
AcquireUnnamed(s) == locks' = locks \cup {NoSession}

\* O_CREATE without O_EXCL: taking a lock that exists is not an error.
Acquire(s) == locks' = locks \cup {s}

\* os.Remove, an absent file not being an error.
Release(s) == locks' = locks \ {s}

-----------------------------------------------------------------------------
(***************************************************************************)
(* Manager.Create, called by POST /sessions.                               *)
(***************************************************************************)

GoCreate(s, from, to) ==
    /\ up
    /\ create[s] = from
    /\ create' = [create EXCEPT ![s] = to]
    /\ UNCHANGED <<delete, target, up, preboot>>

\* NewID, then the new-session of Tmux.NewSession.
CreateSpawn(s) ==
    \/ /\ GoCreate(s, "new", "options")
       /\ NewSession(s)
       /\ UNCHANGED <<row, locks>>
    \/ /\ "spawn" \in Faults
       /\ GoCreate(s, "new", "error")
       /\ UNCHANGED <<row, tmux, locks>>

\* The set-option of Tmux.NewSession.  It fails when the shell has already
\* exited, and may fail with the session alive; neither is rolled back.
CreateOptions(s) ==
    \/ /\ s \in tmux
       /\ GoCreate(s, "options", "insert")
       /\ UNCHANGED <<row, tmux, locks>>
    \/ /\ s \notin tmux \/ "window_size" \in Faults
       /\ GoCreate(s, "options", "error")
       /\ UNCHANGED <<row, tmux, locks>>

CreateInsert(s) ==
    \/ /\ GoCreate(s, "insert", "lock")
       /\ CreateSession(s)
       /\ UNCHANGED <<tmux, locks>>
    \/ /\ "insert" \in Faults
       /\ GoCreate(s, "insert", "rollback")
       /\ UNCHANGED <<row, tmux, locks>>

\* The best-effort kill after a failed INSERT.
CreateRollback(s) ==
    /\ GoCreate(s, "rollback", "error")
    /\ KillSession(s) \/ ("kill" \in Faults /\ UNCHANGED tmux)
    /\ UNCHANGED <<row, locks>>

\* Mutant: the error of Acquire is ignored.
CreateLockIgnoringError(s) ==
    /\ GoCreate(s, "lock", "fetch")
    /\ Acquire(s) \/ ("acquire" \in Faults /\ UNCHANGED locks)
    /\ UNCHANGED <<row, tmux>>

\* A failed Acquire returns the error and leaves the row and tmux behind.
CreateLock(s) ==
    \/ /\ GoCreate(s, "lock", "fetch")
       /\ Acquire(s)
       /\ UNCHANGED <<row, tmux>>
    \/ /\ "acquire" \in Faults
       /\ GoCreate(s, "lock", "error")
       /\ UNCHANGED <<row, tmux, locks>>

\* The final GetSession and the answer.
CreateFetch(s) ==
    /\ \/ GoCreate(s, "fetch", "ok")
       \/ "read" \in Faults /\ GoCreate(s, "fetch", "error")
    /\ UNCHANGED <<row, tmux, locks>>

CreateStep(s) ==
    \/ CreateOptions(s)
    \/ CreateInsert(s)
    \/ CreateRollback(s)
    \/ CreateLock(s)
    \/ CreateFetch(s)

-----------------------------------------------------------------------------
(***************************************************************************)
(* Manager.Close, called by DELETE /sessions/{id}.                         *)
(***************************************************************************)

GoDelete(d, from, to) ==
    /\ up
    /\ delete[d] = from
    /\ delete' = [delete EXCEPT ![d] = to]
    /\ UNCHANGED <<create, up, preboot>>

\* The request arrives and Close looks the row up: 404 without one.
DeleteBegin(d, s) ==
    /\ \/ GetSession(s) /\ GoDelete(d, "unsent", "mark")
       \/ s = NoSession /\ GoDelete(d, "unsent", "404")
       \/ GetSession(s) /\ "read" \in Faults /\ GoDelete(d, "unsent", "500")
    /\ target' = [target EXCEPT ![d] = s]
    /\ UNCHANGED <<row, tmux, locks>>

\* CloseSession: no row changed is sql.ErrNoRows, hence the 404 of a session
\* that somebody else closed first.
DeleteMark(d) ==
    /\ \/ /\ GoDelete(d, "mark", "kill")
          /\ MayCloseSession(target[d])
          /\ CloseSession(target[d])
       \/ /\ GoDelete(d, "mark", "404")
          /\ ~MayCloseSession(target[d])
          /\ UNCHANGED row
       \/ /\ "update" \in Faults
          /\ GoDelete(d, "mark", "500")
          /\ UNCHANGED row
    /\ UNCHANGED <<tmux, locks, target>>

\* Mutant: the error of kill-session is not remembered.
DeleteKillIgnoringError(d) ==
    /\ GoDelete(d, "kill", "release")
    /\ KillSession(target[d]) \/ ("kill" \in Faults /\ UNCHANGED tmux)
    /\ UNCHANGED <<row, locks, target>>

\* kill-session fails on a session that has already ended.
DeleteKill(d) ==
    /\ \/ /\ target[d] \in tmux
          /\ GoDelete(d, "kill", "release")
          /\ KillSession(target[d])
       \/ /\ target[d] \notin tmux \/ "kill" \in Faults
          /\ GoDelete(d, "kill", "release_err")
          /\ UNCHANGED tmux
    /\ UNCHANGED <<row, locks, target>>

\* Mutant: a failed kill returns before the lock is released.
DeleteReleaseAfterKill(d) ==
    /\ \/ GoDelete(d, "release", "204") /\ Release(target[d])
       \/ GoDelete(d, "release_err", "500") /\ UNCHANGED locks
    /\ UNCHANGED <<row, tmux, target>>

\* The lock goes whether or not the kill worked; a failed kill or a failed
\* removal is a 500, with the error of the removal before that of the kill.
DeleteRelease(d) ==
    /\ \/ /\ \/ GoDelete(d, "release", "204")
             \/ GoDelete(d, "release_err", "500")
          /\ Release(target[d])
       \/ /\ "release" \in Faults
          /\ \/ GoDelete(d, "release", "unreleased")
             \/ GoDelete(d, "release_err", "unreleased")
          /\ UNCHANGED locks
    /\ UNCHANGED <<row, tmux, target>>

DeleteStep(d) == DeleteMark(d) \/ DeleteKill(d) \/ DeleteRelease(d)

-----------------------------------------------------------------------------
(***************************************************************************)
(* What happens around the daemon.                                         *)
(***************************************************************************)

\* The user leaves the shell, or ends the tmux session by hand.
ShellExit(s) ==
    /\ s \in tmux
    /\ tmux' = tmux \ {s}
    /\ UNCHANGED <<row, locks, create, delete, target, up, preboot>>

\* Every request in flight dies with the process.
LoseRequests ==
    /\ create' = [s \in Sessions |->
                    IF create[s] \in CreateBusy THEN "lost" ELSE create[s]]
    /\ delete' = [d \in Deletes |->
                    IF delete[d] \in DeleteBusy THEN "lost" ELSE delete[d]]
    /\ up' = FALSE

DaemonCrash ==
    /\ "crash" \in Faults
    /\ up
    /\ LoseRequests
    /\ UNCHANGED <<row, tmux, locks, target, preboot>>

\* Mutant: a start-up that takes the locks it finds for left-overs.
DaemonStartCleaning ==
    /\ ~up
    /\ up' = TRUE
    /\ locks' = {}
    /\ UNCHANGED <<row, tmux, create, delete, target, preboot>>

\* main and NewManager open the database and the lock directory and change
\* neither.
DaemonStart ==
    /\ ~up
    /\ up' = TRUE
    /\ UNCHANGED <<row, tmux, locks, create, delete, target, preboot>>

MachineReboot ==
    /\ "reboot" \in Faults
    /\ LoseRequests
    /\ tmux' = {}
    /\ locks' = {}
    /\ preboot' = preboot \cup {s \in Sessions : row[s] # "none"}
    /\ UNCHANGED <<row, target>>

Next ==
    \/ \E s \in Sessions : CreateSpawn(s) \/ CreateStep(s) \/ ShellExit(s)
    \/ \E d \in Deletes :
          \/ \E s \in Sessions \cup {NoSession} : DeleteBegin(d, s)
          \/ DeleteStep(d)
    \/ DaemonCrash
    \/ DaemonStart
    \/ MachineReboot

Spec == Init /\ [][Next]_vars

\* Go runs every goroutine: a request that has begun takes its next step.
\* systemd restarts the daemon (Restart=always).  Nothing makes a client
\* send a request, a shell exit or a fault happen.
Fairness ==
    /\ \A s \in Sessions : WF_vars(CreateStep(s))
    /\ \A d \in Deletes : WF_vars(DeleteStep(d))
    /\ WF_vars(DaemonStart)

FairSpec == Spec /\ Fairness

-----------------------------------------------------------------------------
(***************************************************************************)
(* Properties.                                                             *)
(***************************************************************************)

\* Once POST /sessions has answered 201, the session is visible to the idle
\* updater for as long as it is open: through crashes and restarts of the
\* daemon and through failing calls, up to a reboot (locks.go, package
\* comment: a terminal lock is removed only by an explicit close).
AcknowledgedOpenIsLocked ==
    \A s \in Sessions :
        create[s] = "ok" /\ row[s] = "open" => s \in locks \cup preboot

\* A DELETE that closed the row of its session.
HasClosed(d) == delete[d] \in {"kill", "release", "release_err", "204"}

\* Of two DELETEs for one session at most one gets past CloseSession, however
\* they interleave: the status test of the UPDATE is what decides.
OneDeleteWins ==
    \A d, e \in Deletes :
        HasClosed(d) /\ HasClosed(e) /\ target[d] = target[e] => d = e

\* The answer to a DELETE is true when it is given and stays true: after a
\* 204 the session is closed and its tmux session is gone, after a 404 the
\* session is not open.
AnswersAreTrue ==
    \A d \in Deletes :
        /\ delete[d] = "204" => /\ row[target[d]] = "closed"
                                /\ target[d] \notin tmux
        /\ delete[d] = "404" => ~(target[d] \in Sessions
                                    /\ row[target[d]] = "open")

\* Once a session has been acknowledged and is then closed, its lock is
\* eventually gone, even when killing tmux failed (manager.go, Close: a lock
\* left behind would block system updates forever), unless the DELETE was cut
\* off by a crash or told its client that the lock could not be removed.
ClosedIsEventuallyUnlocked ==
    \A s \in Sessions :
        [](create[s] = "ok" /\ row[s] = "open"
              => [](row[s] = "closed" =>
                      <>(\/ s \notin locks
                         \/ \E d \in Deletes :
                               /\ target[d] = s
                               /\ delete[d] \in {"lost", "unreleased"})))

\* The lock of a closed session is not left behind once no request for the
\* session is under way (manager.go, Close: it would block updates forever).
ClosedSessionIsUnlocked ==
    \A s \in Sessions :
        /\ row[s] = "closed"
        /\ create[s] \notin CreateBusy
        /\ \A d \in Deletes : target[d] = s => delete[d] \notin DeleteBusy
        => s \notin locks

\* The implementation keeps the contract.
Contract == INSTANCE SessionContract WITH
    status <- row,
    held <- locks,
    promised <- {s \in Sessions : create[s] = "ok"} \ preboot

ImplementsContract == Contract!ContractSpec

=============================================================================
