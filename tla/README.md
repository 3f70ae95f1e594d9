# A verification of ClaudeCode Remote

This directory holds TLA+ models of ClaudeCode Remote, the TLC runs that check
them on small instances and machine-checked TLAPS proofs about them. ClaudeCode
Remote lets the owner of a server work in terminals on it from a phone: a Go
daemon (`daemon/`) keeps tmux sessions and serves files, a Flutter app (`app/`)
talks to it, and shell scripts (`server-provisioning/`) install the machine and
keep it updated.

What makes it hard is not any single function. A session is three things that
must agree - a database row, a tmux session and a lock file - changed by
handlers that hold no common lock and by a daemon that may die between any two
of them. The lock file is read by a shell script on a timer which then updates
the system under whatever started in the meantime. The app keeps a connection
and an upload going over a network that drops both.

## Inventory

| Part | State it keeps | Operations | Interacts with | What makes it correct |
|---|---|---|---|---|
| session manager (`terminal/manager.go`, `http.go`) | none of its own | Create, Close, Rename, List | database, tmux, locks; REST clients | an acknowledged session is locked while open; one DELETE wins; answers are true; no lock outlives its session |
| terminal stream (`terminal/http.go`) | a PTY, a reader goroutine and a main loop per connection | upgrade, attach, pump, detach | tmux, tickets, the app | a client that is gone leaves no tmux client attached |
| tmux (`terminal/tmux.go`) | tmux server | new-session, set-option, kill-session, attach | everything above | - |
| database (`db/db.go`) | sessions and devices in SQLite | one statement per call | managers | status goes none, open, closed |
| terminal locks (`locks/locks.go`) | files in a tmpfs | Acquire, Release | manager, idle updater | removed by an explicit close only |
| agent wrapper (`agent-run`) | one lock file, one child | lock, run, unlock | idle updater | unlocked after every end but SIGKILL |
| idle updater (`idle-update-check.sh`, timer) | `reboot-pending` | sweep, look, update, flag | lock directory | updates only when idle; never blocked for ever; what its kernel test can see is flagged |
| resumable uploads (`files/upload.go`, `http.go`) | `<id>.part`, `<id>.json`, a mutex | Create, WriteChunk, Offset, Finish, Discard | upload client | the target is the file; success means stored |
| upload client (`app/lib/api/upload.dart`) | offset, attempt | create, patch, resync | uploads | comes to an end if it is answered; does not give up on finished work |
| session socket (`app/lib/api/session_socket.dart`) | channel, timer, back-off | connect, reconnect, dispose | stream, tickets | drops it is told of are repaired; an ended session stays ended; nothing is left open |
| device authentication (`identity/device.go`, `middleware.go`, `store.go`) | one challenge per device | IssueChallenge, Verify | database, every route | a challenge is used once; an outstanding one works; a revoked device begins nothing |
| step-up and tickets (`identity/stepup.go`, `main.go`) | grants, tickets | Grant/Consume, issue/consume | routes, handshake | used once; a ticket opens streams and nothing else |
| pairing (`identity/owner.go`, `pairing.go`) | attempts in memory | start, three factors, complete | limiter, database | a row needs the full chain; one row per attempt |
| rate limiter (`identity/ratelimit.go`) | counters per address and account | Allow, RecordFailure, RecordSuccess | pairing | counts add up; lockouts double up to a maximum |
| file store (`files/store.go`, `http.go`) | the roots, resolved at start-up | Resolve, List, Open, Delete | uploads; every process that changes the same files | a resolved path is in a root and has no link but one that dangles; plain paths are served; a DELETE takes the file it was asked for; a listing misses nothing that stayed |
| factor verifiers (`password.go`, `totp.go`, `webauthn.go`, `setup_owner.go`) | credentials from the environment file, the last TOTP code | set-up, Verify | pairing, under `Owner.mu` | what is accepted was proved; an honest owner gets in; nobody waits for ever |
| app screens, `client.dart`, share service | widget state | - | REST | - |
| `agentctl`, backup scripts, provisioning, cloudgate | files | - | - | a repeated run changes nothing |

Behaviours that tests hardly reach: two handlers between any two of whose steps
the other runs (no transaction spans row, tmux and lock); a daemon that dies
between two steps and reconciles nothing when systemd restarts it; check and use
of the lock directory by different programs; retries of a PATCH whose first
handler still runs; a `dispose` during an `await`; a mutex that is unlocked by a
plain statement; files that change between two system calls; expiry, threshold
and doubling at their boundaries. `PROJECT.json` lists these hazards at their lines.

## Modules

| Module | Models | Checked by | Proofs |
|---|---|---|---|
| `SessionContract` | what the session manager promises to clients and to the updater (abstract) | as a property of the two below | |
| `SessionLifecycle` | Create and Close step by step, crashes, reboots | `session`, `closed_locked` | `SessionLifecycleProofs` |
| `IdleUpdate` | agent-run, idle-update-check.sh and, at the level of the contract, the terminals | `idle_update`, `update_during_run` | `IdleUpdateProofs` |
| `Upload` | one upload, client and server | `upload`, `upload_abandoned` | `UploadProofs` |
| `Stream` | SessionSocket and handleStream for one session | `stream`, `dispose_leak` | `StreamProofs` |
| `DeviceAuth` | routes and their checks, challenges, middleware, tickets, step-up, revocation | `device_auth` | `DeviceAuthProofs` |
| `Pairing` | the pairing handlers, attempts, limiter | `pairing` | `PairingProofs` |
| `OwnerFactors` | owner set-up, the three verifiers, `Owner.mu` | `owner_factors` | `OwnerFactorsProofs` |
| `FileStore` | Resolve, List, Open and Delete over a file system that others change | `file_store` | `FileStoreProofs` |

An `MC*` module and the `.cfg` files instantiate each of them. Operators whose
comment begins with "Mutant:" are faulty versions of the definition that follows
them; nothing uses them. `PROJECT.json` names, for each property, a mutant that
violates it.

### SessionLifecycle and SessionContract

`row`, `tmux` and `locks` are the status column, the tmux sessions that run and
the lock files that exist. `create[s]` and `delete[d]` say where the goroutine
of a request is. Every call on the database, on tmux or on the lock directory is
an action: `CreateSpawn`, `CreateOptions` (set-option), `CreateInsert`,
`CreateRollback`, `CreateLock`, `CreateFetch`; `DeleteBegin` (GetSession),
`DeleteMark` (CloseSession), `DeleteKill`, `DeleteRelease`. Each can fail when
its fault is in `Faults`. `DaemonCrash` loses the requests and leaves rows, tmux
(KillMode=process) and lock files; `DaemonStart` changes none of them, as `main`
does; `MachineReboot` ends tmux and empties `/run`. `preboot` is a history
variable: after a reboot rows still say open although nothing runs, which the
code does not repair and no document promises.

`SessionContract` has the status, the held locks and what was acknowledged. The
refinement mapping takes `row`, `locks` and the sessions answered 201 since the
last reboot.

### IdleUpdate

`wrapper[a]` and `child[a]` are an agent-run and its command, `dir` and `age`
the lock directory, `updater` the position in the script. The minutes of
`-mmin +360` are ticks: an age above `StaleAge` is stale, and ages stop counting
there. The daemon appears through the actions of the contract, so that what is
shown holds for every manager that keeps it; `TerminalLocksKeepContract` shows in
turn that the sweep does not break the contract in the shared directory.

Kernel versions are numbered in the order of their release. `package` is the
package the kernel comes from, `installed` its version, `running` the one that was
booted. `Detected` is the test of the script (lines 73, 86 and 87): the package is
named `linux` and the installed version does not contain the running one as a
substring. `Contains` is that relation; in the run it holds of 6.9.10 and 6.9.1.

### Upload

Byte `i` of the file is the number `i`, and `0` a damaged byte; a hash stands for
the content it is taken of. A handler is `queued`, seeks to the offset (`pos`
is its place in the partial file, and a byte written there replaces the one it
finds), copies byte by byte under the mutex, returns, enters `Finish` under the mutex again, verifies, renames or
copies to another filesystem, and removes the two files. The client sends a
chunk, gives up on it, asks HEAD for the offset and tries again, `maxAttempts`
times in all. The mutex is `mu`; HEAD does not take it. A connection breaks with
an exception (`PatchFails`, `RequestLost`) or without one (`Silence`): no await
of `upload.dart` has a timeout, and the app stays in a phase of `Mute` until the
operating system gives the connection up, if it does.

### Stream

The client suspends at the awaits of `_open` (`ticket`, `handshake`), listens, or
waits for its timer; `Dispose` may come at any of these. A handler has a main
loop and a reader for each connection; `attached` are the tmux clients. Terminal
bytes and resizing are left out. A connection number is reused once both ends
are done with it, so that drops may recur without bound. A connection also dies
without a sign (`GoSilent`, link `dead`), and so does the request for a ticket
(`TicketUnanswered`): the app has no ping and no timeout, and is told only if the
operating system tells it (`Surface`, `TicketFailsLate`). `ticketPath` is where the
app asks for tickets. The daemon issues them at `/auth/ws-ticket` only
(`TicketsThere`); everything else is answered 404.

### DeviceAuth

A challenge or ticket is named after the request it was issued to; a signature
is named after the challenge it was made for, so that a request signs one it was
given or none. Every critical section and every database look-up is an action:
`Verify` takes the challenge under the mutex, looks the device up (`LookupDevice`)
and checks the signature with the key it has read (`CheckSignature`), and a
revocation may come between any two. `DeviceRow` is what a look-up may report; an
error of the database and a key that does not decode are reported as unknown.
`late` is a history variable: the calls begun after the revocation of their
device was stored.
`RevokeDevice` is reached through `ConsumeGrant` only, as the routes are wired.
In the daemon as it stands nothing calls `StepUpGate.Grant`, so that no
revocation gets through; the model has the action all the same, as the tests do.

A path is the sequence of its elements. `TicketChecked` is the suffix test of
`wrapSessionAuth`, `DeviceChecked` the routes behind the device middleware, and
`SessionHandler` what `splitSessionPath` and the handlers behind it make of the
same path: the path is read twice, by two parsers, and `strayed` remembers a
request that a ticket let through to anything but a stream.

### Pairing

A factor request asks the limiter, enters the attempt under `Owner.mu`, and
records the result with the limiter: three critical sections, three actions.
Time is the age of an attempt and what is left of a lockout. `Working` are the
factors with a verifier that can accept; in the present wiring the passkey
verifier never does, so that no pairing completes. The run takes all of them to
work. The time that passes between the sweep and the second expiry test in one
critical section is taken to be none.

### OwnerFactors

`env` is the operator's file, `conf` what the running daemon was started with:
`SetupOwner` and `PasteHash` change the first, a restart the second. A request
waits for `Owner.mu`, is judged inside and answered; `HandlerStep` is each of
these. A hash is the record of what `decodeArgon2id` reads, with the width its
parallelism has in the call (`p % 2^8`); argon2 panics for zero, net/http
recovers, and the handler ends inside the critical section (`aborted`). A code is
`CodeAt` of a secret and a period; phones may be a period early or late. The
requests in `Padded` send it with white space, which the library trims before it
compares and `lastAccepted` does not. `filed`,
`read` and `arrived` are history variables. Attempts, the limiter and the chain
are the module `Pairing`; here an unknown attempt is one more way out of the
critical section.

### FileStore

`fs` gives what is at each location: nothing, a file, a directory or a link.
`Resolve` is `Clean`, the links of the longest prefix that exists, and the
comparison with the roots. `Clean` and `Walk`, the loop of `EvalSymlinks`, are
recursive functions, so that they can be reasoned about; `Walk` follows at most
`MaxLinks` links. The comparison adds a separator to the root, so that a store
with the root `/` refuses everything below it; `PlainPathsAreServed` speaks of the
other roots, which are the ones the daemon is given. Each further system call of a handler is an action:
`ReadDir`, one `Info` per entry, `Listed`; `StatTarget`, `HashTarget`,
`OpenTarget`; `RemoveTarget`. `Make` and `Unlink` are what the processes of the
sessions do between them; `disturbed` remembers that one of them touched the path
of a DELETE under way, or that the path held a dangling link when it was resolved.
`OnlyDanglingLinksRemain` says exactly which links Resolve leaves in a path: those
that lead nowhere, wherever they point. The targets of links are absolute and
without `..`.

## Runs

All passing runs together take about eight minutes, the longest (`owner_factors`) two.

| Run | Instance | Shows |
|---|---|---|
| `session` | 2 creates, 2 DELETEs, all ten faults | `AcknowledgedOpenIsLocked`, `OneDeleteWins`, `AnswersAreTrue`, `ImplementsContract`, `ClosedIsEventuallyUnlocked` |
| `closed_locked` | no fault | violated: a DELETE between the INSERT and Acquire of a Create leaves the lock of a closed session |
| `idle_update` | 1 agent, 1 session, limit of 2 ticks, signals, failing pacman, reboots, 3 kernel versions of 2 packages | `FinishedRunIsUnlocked`, `UpdateStartsWhenIdle`, `TerminalLocksKeepContract`, `IdleMachineIsUpdated`, `DetectableUpdateIsFlagged` |
| `update_during_run` | no fault | violated: an agent starts after `ls` and runs during the update |
| `upload` | 3 bytes, chunks of 2, 4 attempts, 2 handlers, all nine faults | `PartIsPrefix`, `TargetIsSource`, `OkMeansStored`, `ClientEnds` |
| `upload_abandoned` | lost answers | violated: the app gives up although every byte has arrived |
| `stream` | 2 connections, both paths for tickets, all six faults | `NoForgottenConnection`, `EndedIsFinal`, `DeadIsNotShownConnected`, `GoneClientDetaches`, `ReconnectsInTheEnd` |
| `dispose_leak` | no fault | violated: dispose during the handshake leaves the connection open |
| `device_auth` | 2 devices, 4 requests, 11 paths, lifetimes of 1 tick in 2 ticks, restarts, rows that cannot be read | `CredentialsAreSingleUse`, `EveryRevocationHadAGrant`, `PendingIsBoundedByDevices`, `TicketsOpenStreamsOnly`, `OutstandingChallengeIsGood`, `RevokedCallsFail` |
| `pairing` | 1 attempt, 3 factors, 2 addresses, 2 requests at a time, threshold 2, lockouts 1, 2, 3 | `PairedByFullChain`, `AttemptPairsOnce`, `ConfirmedIsPaired`, `FailuresAddUp`, `LockoutDoublesUpToMaximum`, `AttemptLivesForItsTTL` |
| `owner_factors` | 2 requests, one that pads its code, 2 passwords, 2 pasted hashes, 2 secrets, 2 periods, restarts | `AcceptedMeansProved`, `HonestEvidenceIsAccepted`, `EveryRequestIsAnswered` |
| `file_store` | 2 names, 6 locations, 2 link targets, 2 roots, 6 paths, restarts | `OnlyDanglingLinksRemain`, `PlainPathsAreServed`, `ListIsComplete`, `DeleteTakesTheFile` |

`TypeOK` is checked where it says more than the types: in `session` (a lock
belongs to a session) and in `idle_update` (nothing but locks gets into the lock
directory, which would block every update). The others keep theirs for proofs.

Why the bounds are enough. Sessions interact only through the requests that name
them: two sessions and two DELETEs contain two racing DELETEs of one session
while another is created, and a DELETE for each. One agent and one session are all that can
race the one updater, since agents do not look at each other; the proofs cover
any number. Three bytes in chunks of two give a full chunk, a short last chunk
and an offset inside a chunk; two handlers are an abandoned PATCH and its retry;
four attempts let the counter run out after progress. Two connections are the
old and the new one of a reconnect; delays 2, 4 and 7 are below, at and cut off
by the maximum. Three kernel versions are 6.9.1, a later one that does not contain it
and a later one that does. Four requests are a challenge and its call for two devices, or
two calls with one challenge. Two requests at a time race; lockouts of 1, 2 and 3
with a maximum of 3 contain the first, a doubled and two cut off ones. The eleven
paths have each shape that `splitSessionPath` and the suffix test tell apart (a
trailing slash, a session by the name of stream, a deeper path) and each route
behind a check. Two secrets are the old and the new set-up; the two pasted hashes
are one that does not decode and one that makes argon2 panic; two periods let
the clock move once while a request waits, and one code repeats. The trees over
six locations have a root that is missing, a directory, a file or a link, links
out of the roots, into them, to nothing, chains and cycles, and directories two deep.
`MaxLocks`, `MaxClock` and `MaxGrants` only end the exploration: lockouts in a
row, ticks, grants per device. Deadlock is checked in `session`, `idle_update` and
`file_store`; the other systems come to an end when their requests are used up,
the upload is over or the view is left.

## Fairness

- A goroutine that has begun takes its next step (`CreateStep`, `DeleteStep`,
  `HandlerStep`): Go's scheduler, and every call returns or fails. In
  `OwnerFactors` this includes that a free mutex is given to one that waits.
- `DaemonStart`: `Restart=always` in `claudecode-remoted.service`.
- `UpdaterStep`: the timer is started again by `OnUnitActiveSec`, and the script
  runs to its end. `Tick`: time passes.
- `WrapperStep`: bash executes its next command. That the wrapped agent ends is
  not assumed.
- `ClientStep`: the event loop of the app and its timers run, and what is answered
  or fails with an exception completes its await. It does not end a wait for what
  was lost without a sign: the app has neither a timeout nor a ping. `Silence`,
  `GoSilent` and `TicketUnanswered` may happen at any time, and that the operating
  system reports them later is not assumed.
- `Vanish` (Upload) and `PumpEnds` (Stream): the daemon notices a client that has
  gone, by the TCP keep-alive that net/http switches on.

No client is assumed to send a request, no user to act and no fault to occur or
to stop, except where a property says "from some point on" (`FaultsEnd`,
`DisturbancesEnd`). Three properties state in their left side what the code
leaves to the operating system: `ClientEnds`, that the app does not wait in `Mute`
for ever; `DeadIsNotShownConnected` and `ReconnectsInTheEnd`, that it is told of
connections that die (`AppIsTold`). The last one also needs tickets where the app
asks for them (`TicketsThere`). Without these each of them is violated by a
connection that dies in silence.

## Proofs

All theorems hold for every value of the constants that satisfies the named
assumptions: identifiers distinct from the null values, numbers natural, faults
of the known kinds. Beyond that, `DeviceAuth` assumes that a null value is no
stored challenge and that a path has an element (`PathsAssumption`: net/http
hands on no empty path); `OwnerFactors` that secrets are numbered as they are
drawn and that no hash is the null value; `FileStore` that locations are closed
under the parent, links and roots are paths, and there is a root (`NewStore`
refuses to start without). TLC checked each inductive invariant on the instance
of its run before it was proved.

**SessionLifecycleProofs.** The invariant `IInv` strengthens the properties with
what a request knows at each step: no row before the INSERT and one after
(`CreateOrder`), no request in flight while the daemon is down (`DownIsIdle`), a
locked row from Acquire on (`LockKept`), a row for every lock (`LockedHasRow`),
and a closed target behind `DeleteMark` (`DeleteKnows`). It is needed because the
properties speak about answers, and an answer is true for what held earlier.
Theorems: `TypeCorrect`, `AcknowledgedStaysLocked`, `DeleteIsExclusive`,
`DeleteAnswersTruly`, and `Refinement`: every step is a step of the contract or
leaves it alone.

**IdleUpdateProofs.** An undisturbed run whose lock is not stale holds it
(`RunsAreLocked`), an acknowledged open terminal holds its lock
(`PromisedIsLocked`). Theorems: `TypeCorrect`, `TrapReleases`, `UpdateGate` (the
action property of the gate) and `Refinement`.

**PairingProofs.** An attempt that is being completed or has its row is never in
the map again and has one inserter (`ConsumedIsGone`, `OneInserter`); recorded
factors are proved ones (`RecordedIsProved`). The counters are a second, separate
invariant whose step is the distribution of the threshold over one more lockout.
Theorems: `OnlyFullChainsPair`, `CompletionIsSingleUse`, `ConfirmationsHold`,
`ProgressIsKept`, `CountersAddUp`, `LockoutsDouble` and `TypeCorrect`. For the last two the loop of
`backoff` (`Doubled`, a recursive function) has to be shown to compute its closed
form: a function with that form (`Loop`) satisfies the equation of `Doubled`, so
that the equation has a solution and `Doubled` is one; and there is only one, since
there is no least number where two differ. The provers do not know what `2^n` is;
the library's theorem about the number of subsets of a finite set does, and
half of the subsets of `1 .. n + 1` contain `n + 1` (`PowerDoubles`).

**UploadProofs.** The properties speak about files, the invariant says who may
write them and when: the handler in a critical section holds the mutex
(`MutexHeld`), nobody knows an upload before its state file is there
(`CreateIsAlone`), the partial file ends where the handler that copies is
(`BodyFits`), so that what is written after the seek is appended (`WriteAtEnd`);
behind the comparison of hashes it is the whole file
(`FinishKnows`), and a finished upload has no state and so no way into a critical
section that writes the target (`FinishedIsOver`). Theorems: `TypeCorrect`,
`PartialFileIsPrefix`, `TargetIsWhole`, `SuccessIsStored`.

**StreamProofs.** A connection is dialed while `_open` waits for it
(`DialedIsAwaited`), a channel was open and is closed unless the app listens
(`ChannelWasOpen`), a tmux client has a handler (`AttachedIsHandled`), and an
ended socket is stopped (`EndedIsStopped`); without the second, a number that is
used again could belong to a channel the app still has. Theorems:
`ConnectionsAreKnown`, `ClientsAreHandled`, `EndIsFinal`, `TypeCorrect` (the
delay stays between `Initial` and `MaxDelay`).

**DeviceAuthProofs.** What a request has got cannot be got again: a challenge or
a ticket that was taken is in no map (`PendingIsStored`, `TakenIsUnique`,
`TicketIsUnused`), a request that has not begun has nothing (`NewIsBlank`). For
`OutstandingChallengeIsGood` the invariant follows the challenge from the map
through Verify (`FreshIsPending`) and says why any refusal was right
(`RefusedIsExcused`); for `RevokedCallsFail` it says that the look-up of a late
call comes after the revocation, so that no late call is behind it
(`LateIsRefused`). `TicketPaths` is the lemma that the suffix test and
`splitSessionPath` agree, for all paths. Theorems: `TypeCorrect`, `SingleUse`,
`TicketsAreNarrow`, `RevocationsAreGranted`, `MemoryIsBounded`,
`OutstandingIsLetIn`, `RevocationStopsNewCalls`.

**OwnerFactorsProofs.** A hash that decodes, in the file or in the daemon, is of a
password that was put there (`HashesAreFiled`), and the daemon's secret is not
newer than the file's (`SecretsGrow`): with both, what was proved to the daemon
was proved to the owner. Theorems: `AcceptanceIsProved`, and `HonestIsAccepted`
from the lemma `HonestIsOk` about the window of periods and the width of the
parallelism. `AnswersUnlock` says that only a panic leaves `Owner.mu` locked, which
is the safety half of `EveryRequestIsAnswered`.

**FileStoreProofs.** `Inv` is small: types, a root, every entry in a directory
(`Tree`), what a listing has found (`Listing`) and what an undisturbed DELETE knows
of its path (`Deleting`: no link lies on it, it is in a root, and behind Stat a file
is at its end). The work is in `Clean` and
`Walk`. A recursive definition means nothing until a function with its equation is
known to exist; `RecursionExists` constructs it, as the least relation closed
under the equation, which is a function because the way down decreases in one of
two measures (for `Walk` the links left, then the names left). Induction is
always the same: the set of the counterexamples has no least element
(`WalkInduction`, `SeqInduction`). On it rest what a walk does to a path without
links (`ThroughDirectory`, `ThroughFile`, `NothingBelowNothing`), that a walk
over a path without links ends where the path says (`LinkFreeWalk`), that one more
link allowed changes no walk that arrives (`MoreLinks`), that `Clean` leaves no
`..`, and what `resolveExisting` ends with (`ResolveEnds`, `CanonicalFacts`).
Theorems: `TypeCorrect`, `LinksAreFollowedOrDangle`, `NothingIsOutOfReach`,
`ListingsAreComplete`, `DeletesTakeTheFile`.

Every invariant and every action property that a passing run checks is proved.
Only model-checked: all liveness (`ClosedIsEventuallyUnlocked`,
`IdleMachineIsUpdated`, `DetectableUpdateIsFlagged`, `ClientEnds`,
`DeadIsNotShownConnected`, `GoneClientDetaches`, `ReconnectsInTheEnd`,
`EveryRequestIsAnswered`), which the prover does not cover, and the refuted
properties. `TypeOK` of `OwnerFactors` is not proved as a whole; `FactorTypes` has
the part of it that the argument needs.

## What the runs found

The findings of `PROJECT.json` quote the code and the text it disagrees with:

1. A DELETE that overtakes the last step of Create leaves the lock of a closed
   session, and no later request removes it (`closed_locked`).
2. The gate of the updater is a check without a hold: an agent started after
   `ls` runs during the update (`update_during_run`).
3. When the answer to the last chunk is lost, the app asks for the offset, is
   told the full length, sends nothing more and reports an unfinished upload;
   nobody calls Finish (`upload_abandoned`).
4. `dispose` during the ticket request or the handshake leaves the new connection
   open (`dispose_leak`).

Where the code and a text of the repository differ, and the models follow the
code. A property that passes says what is left; its comment and the list of
hazards name the rest:

- `idle-update-check.sh:73-87` flags an update only of a package named `linux`
  whose version does not contain the running one; `server-provisioning/README.md:224`
  and the wiki (`Idle-Update-System.md:156`) speak of every kernel update. An
  update of linux-lts or linux-zen, or from 6.9.1 to 6.9.10, is not flagged.
- The app asks for its ticket at `/sessions/{id}/ticket` (`client.dart:92`, called
  from `terminal_view.dart:48`), which `http.go:114-116` answers 404; tickets are
  issued at `/auth/ws-ticket` (`main.go:296`). With this path the terminal of the
  app never connects: `NoTicket` recurs. `ReconnectsInTheEnd` speaks of a provider
  that asks at the right place.
- `docs/ARCHITECTURE.md:311` promises a visible banner instead of a silent failure.
  `session_socket.dart:164` sets no ping and no timeout: while the operating system
  says nothing, a connection that died in silence is shown as connected. For the
  same reason an upload may wait for ever (`upload.dart:156`, `177` and `198`).
- `Security-Model.md:98-100` has a revocation cut the access of the device
  immediately. Calls behind the look-up of Verify, tickets already issued and open
  streams go on; `RevokedCallsFail` speaks of what begins afterwards.
- `device.go:125-126` says that a challenge is stored only for a device that is not
  revoked. A revocation between the look-up and the critical section of
  IssueChallenge leaves one stored; it does not verify.
- `device.go:120` gives a device one outstanding challenge, and asking for one needs
  no proof: whatever asks or calls in the name of the device replaces or uses up
  the one outstanding, and the device has to ask again.
- `store.go:65-67` says that a link inside a root pointing outside cannot be
  followed. This holds of links that lead somewhere. A link that dangles is left in
  the resolved path as it is (`store.go:103-120`), so that creating the target
  (`O_CREATE` in `copyFile`, `upload.go:232`) goes where the link points.
- `store.go:195-197` refuses directories. The refusal is the Stat before: `os.Remove`
  takes an empty directory, or a link, that was put in its place after it. The hash
  and the body of a download come from two opens.
- `totp.go:76-78` accepts a code that has "not already been accepted".
  `TOTPVerifier` remembers the last accepted code only, loses it at a restart, and
  compares it with its white space (`totp.go:92`), which the library ignores.
- A request that succeeds clears the counters of its address and account
  (`RecordSuccess`), also a lockout that began after its own Allow.

Observations met while modelling that have no run of their own:

- Acquire failing after the INSERT, or a crash between them, leaves an open
  session without a lock; its creator got no 201. A crash between CloseSession and
  Release leaves the lock of a closed session.
- A failing `set-option` makes Create return an error with the tmux session
  running (the roll-back is in the branch of the INSERT only).
- A crash or a write error while Finish copies to another filesystem leaves a
  truncated target under its final name. `TargetIsSource` excepts this by `torn`.
- An agent that runs longer than six hours loses its lock to the sweep. A signal
  interrupts `wait`, so that the wrapper removes the lock of a command that still
  runs. `UpdateStartsWhenIdle` excepts both.
- `reboot-pending` is never removed.
- An upload of an empty file sends no PATCH and so never finishes.
- `exit` is sent when the user detaches with the key binding of tmux too, and the
  app then shows the living session as ended.
- A 410 in the handshake, for a session closed while the app was away, is the same
  exception as a broken connection (`session_socket.dart:181`) and is retried for
  ever.
- A password hash whose parallelism is a multiple of 256, or whose time is 0,
  decodes, and argon2 panics on it while `Owner.mu` is held; the comment at
  `password.go:113` says that a malformed hash must never panic. The set-up does
  not write such a hash. `EveryRequestIsAnswered` excepts this by `aborted`.
- A root that does not exist at start-up and is created later as a link is not
  served until the next start; the root `/` serves only itself.
- In handleStream, the `break` after a failed PTY write leaves the `switch`, not
  the loop.

## Not modelled

- App screens, `client.dart`, the share service, `agentctl`, backups,
  provisioning, cloudgate and the web test client: see the components of
  `PROJECT.json` for the reasons.
- Of the daemon's wiring: the body limit, response headers, the checks of the bind
  address, `--insecure-no-auth`, the migration of the schema.
- Session names, listings, activity times, terminal bytes, window sizes and HTTP
  details, which no operation of another component depends on.
- The ceremony of a bound passkey and `LimitedVerifier`, which nothing calls.
- Several uploads at a time: they share a mutex and nothing else, so that a stalled
  body delays the others; the server states no timeout that would bound this.
- Links with relative targets or with `..` in them.

## Plan

Done, in this order: session lifecycle and its contract; idle updates composed
with the contract; uploads; the stream; device authentication with the routes;
pairing; the verifiers and the owner set-up; the file store.

Proved since: the safety of every module.

Next, proofs:

1. Abstract specifications and refinements for the components that have only
   properties so far: an upload as one write of the whole file, a credential as a
   token that is spent once, the limiter as a function of the failures since the
   last success.
2. The safety lemmas behind the liveness properties: which step is enabled in
   each state a request, a handler or the app can be in (in place of `ENABLED`,
   the guards themselves).
3. `TypeOK` of `OwnerFactors`.

Later, models: several uploads under one mutex and an abstract specification of
an upload; a session that is closed while it is watched (SessionLifecycle with
Stream); `agentctl` (a foreign file or hook is never replaced, a second run
changes nothing); the app's session list.
