------------------------------- MODULE Pairing ------------------------------
(***************************************************************************)
(* Pairing a device: the /owner/pair handlers of identity.Owner, the       *)
(* attempts they advance (identity.Attempt) and the lockout that guards    *)
(* them (identity.RateLimiter), for the one account there is.              *)
(*                                                                         *)
(* The attempts are behind Owner.mu, the counters behind the mutex of the  *)
(* limiter, and the row of the device is written outside of both.  A       *)
(* handler enters these one after the other and handlers interleave.  Time *)
(* is the age of an attempt and what is left of a lockout, in ticks, so    *)
(* that it may pass without bound.                                         *)
(*                                                                         *)
(* Whether evidence is valid is up to the verifiers; a factor without a    *)
(* working verifier never accepts any (notImplemented in pairing.go).      *)
(***************************************************************************)
EXTENDS Naturals, FiniteSets

CONSTANTS
    Attempts,           \* pairing ids, each drawn at most once
    Factors,            \* RequiredFactors
    Working,            \* the factors whose verifier can accept
    IPs,
    Account,
    Slots,              \* requests that may be handled at a time
    None,
    PairingTTL,
    FailureThreshold,
    BaseLockout,
    MaxLockout,
    MaxLocks,           \* bound on the lockouts explored
    Faults              \* "insert": the INSERT fails; "restart"

ASSUME NamesAssumption ==
    /\ None \notin Attempts \cup Nat
    /\ Account \notin IPs
    /\ Working \subseteq Factors
    /\ IsFiniteSet(Factors)
ASSUME NumbersAssumption ==
    /\ {PairingTTL, MaxLocks} \subseteq Nat
    /\ {FailureThreshold, BaseLockout, MaxLockout} \subseteq Nat \ {0}
    /\ BaseLockout <= MaxLockout
ASSUME FaultsAssumption == Faults \subseteq {"insert", "restart"}

VARIABLES
    age,          \* Attempts -> ticks since its start; None when not in the map
    started,      \* the attempts that were started
    satisfied,    \* Attempts -> the factors it has recorded
    phase,        \* Slots -> where its handler is
    attempt,      \* Slots -> the pairing id of the request
    ip,           \* Slots -> where it comes from
    failures,     \* keys -> lockState.failures
    lockCount,    \* keys -> lockState.lockCount
    left,         \* keys -> what is left of lockedUntil
    devices,      \* Attempts -> device rows written for it
    proved,       \* history: Attempts -> factors verified in time
    recorded,     \* history: keys -> failures since the last success
    confirmed     \* history: the attempts whose completion was answered 200

attemptVars == <<age, started, satisfied>>
requestVars == <<phase, attempt, ip>>
limiterVars == <<failures, lockCount, left>>
historyVars == <<proved, recorded, confirmed>>
vars == <<attemptVars, requestVars, limiterVars, devices, historyVars>>

Keys == IPs \cup {Account}
Phases == {"idle", "evidence", "success", "failure", "insert"}

TypeOK ==
    /\ age \in [Attempts -> (0 .. PairingTTL + 1) \cup {None}]
    /\ started \in SUBSET Attempts
    /\ satisfied \in [Attempts -> SUBSET Factors]
    /\ phase \in [Slots -> Phases]
    /\ attempt \in [Slots -> Attempts \cup {None}]
    /\ ip \in [Slots -> IPs \cup {None}]
    /\ failures \in [Keys -> 0 .. FailureThreshold - 1]
    /\ lockCount \in [Keys -> Nat]
    /\ left \in [Keys -> 0 .. MaxLockout]
    /\ devices \in [Attempts -> Nat]
    /\ proved \in [Attempts -> SUBSET Factors]
    /\ recorded \in [Keys -> Nat]
    /\ confirmed \in SUBSET Attempts

Init ==
    /\ age = [a \in Attempts |-> None]
    /\ started = {}
    /\ satisfied = [a \in Attempts |-> {}]
    /\ phase = [h \in Slots |-> "idle"]
    /\ attempt = [h \in Slots |-> None]
    /\ ip = [h \in Slots |-> None]
    /\ failures = [k \in Keys |-> 0]
    /\ lockCount = [k \in Keys |-> 0]
    /\ left = [k \in Keys |-> 0]
    /\ devices = [a \in Attempts |-> 0]
    /\ proved = [a \in Attempts |-> {}]
    /\ recorded = [k \in Keys |-> 0]
    /\ confirmed = {}

-----------------------------------------------------------------------------
(***************************************************************************)
(* RateLimiter.                                                            *)
(***************************************************************************)

\* Allow: neither the address nor the account is locked.
Allow(i) == left[i] = 0 /\ left[Account] = 0

\* The loop of backoff: the value of d after n - 1 rounds.
Doubled[n \in Nat] ==
    IF n <= 1 THEN BaseLockout
    ELSE IF Doubled[n - 1] >= MaxLockout THEN MaxLockout
    ELSE 2 * Doubled[n - 1]

\* Mutant: the loop of backoff starts at 0.
BackoffTooFar(n) ==
    IF Doubled[n + 1] > MaxLockout THEN MaxLockout ELSE Doubled[n + 1]

\* backoff, with the cut after the loop.
Backoff(n) == IF Doubled[n] > MaxLockout THEN MaxLockout ELSE Doubled[n]

\* The failure that is now recorded for k starts a lockout.
Trips(k) == failures[k] + 1 >= FailureThreshold

\* Mutant: while the address is locked, only the account is charged.
RecordFailureUnlocked(i) ==
    LET hit == IF left[i] > 0 THEN {Account} ELSE {i, Account} IN
    /\ failures' = [k \in Keys |->
          IF k \notin hit THEN failures[k]
          ELSE IF Trips(k) THEN 0 ELSE failures[k] + 1]
    /\ lockCount' = [k \in Keys |->
          IF k \in hit /\ Trips(k) THEN lockCount[k] + 1 ELSE lockCount[k]]
    /\ left' = [k \in Keys |->
          IF k \in hit /\ Trips(k) THEN Backoff(lockCount[k] + 1) ELSE left[k]]
    /\ recorded' = [k \in Keys |->
          IF k \in {i, Account} THEN recorded[k] + 1 ELSE recorded[k]]

\* recordFailure for the address and for the account.
RecordFailure(i) ==
    LET hit == {i, Account} IN
    /\ failures' = [k \in Keys |->
          IF k \notin hit THEN failures[k]
          ELSE IF Trips(k) THEN 0 ELSE failures[k] + 1]
    /\ lockCount' = [k \in Keys |->
          IF k \in hit /\ Trips(k) THEN lockCount[k] + 1 ELSE lockCount[k]]
    /\ left' = [k \in Keys |->
          IF k \in hit /\ Trips(k) THEN Backoff(lockCount[k] + 1) ELSE left[k]]
    /\ recorded' = [k \in Keys |->
          IF k \in hit THEN recorded[k] + 1 ELSE recorded[k]]

\* RecordSuccess forgets both.
RecordSuccess(i) ==
    LET Cleared(f) == [k \in Keys |-> IF k \in {i, Account} THEN 0 ELSE f[k]] IN
    /\ failures' = Cleared(failures)
    /\ lockCount' = Cleared(lockCount)
    /\ left' = Cleared(left)
    /\ recorded' = Cleared(recorded)

-----------------------------------------------------------------------------
(***************************************************************************)
(* Attempts.  sweepLocked runs first wherever they are looked at.          *)
(***************************************************************************)

Expired(a) == age[a] # None /\ age[a] > PairingTTL

\* Mutant: the sweep drops whatever is not new.
SweptEarly == [a \in Attempts |-> IF age[a] = 0 THEN 0 ELSE None]

\* The map after sweepLocked.
Swept == [a \in Attempts |-> IF Expired(a) THEN None ELSE age[a]]

\* Mutant: one of several factors is enough.
OutstandingAny(a) == IF satisfied[a] = {} THEN Factors ELSE {}

\* The factors that are missing still.
Outstanding(a) == Factors \ satisfied[a]

\* NewAttempt: a factor without a verifier cannot be satisfied.
Verifiable(f) == f \in Working

\* Attempt.Satisfy with evidence that verifies.
Satisfy(a, f) == satisfied' = [satisfied EXCEPT ![a] = @ \cup {f}]

\* Attempt.Complete for an attempt that is in the map after the sweep.
MayComplete(a) == Swept[a] # None /\ Outstanding(a) = {}

Go(h, from, to) ==
    /\ phase[h] = from
    /\ phase' = [phase EXCEPT ![h] = to]

\* /owner/pair/start.
Start(a) ==
    /\ a \notin started
    /\ started' = started \cup {a}
    /\ age' = [Swept EXCEPT ![a] = 0]
    /\ UNCHANGED <<satisfied, requestVars, limiterVars, devices, historyVars>>

\* /owner/pair/password, totp or passkey: the limiter is asked first; when it
\* refuses, the answer is 429 and nothing changes.  A wrong e-mail address is
\* a failure without a look at the attempt.
BeginFactor(h, a, i) ==
    /\ a \in started
    /\ Allow(i)
    /\ Go(h, "idle", "evidence") \/ Go(h, "idle", "failure")
    /\ attempt' = [attempt EXCEPT ![h] = a]
    /\ ip' = [ip EXCEPT ![h] = i]
    /\ UNCHANGED <<attemptVars, limiterVars, devices, historyVars>>

\* satisfyFactor under Owner.mu: 404 without an attempt, else the verifier
\* decides.  No time passes between the sweep and the test in Satisfy, so
\* that its answers for an expired or a used-up attempt do not occur.
SatisfyFactor(h, f) ==
    LET a == attempt[h] IN
    /\ \/ /\ Go(h, "evidence", "idle")
          /\ Swept[a] = None
          /\ UNCHANGED <<satisfied, proved>>
       \/ /\ Go(h, "evidence", "success")
          /\ Swept[a] # None /\ Verifiable(f)
          /\ Satisfy(a, f)
          /\ proved' = IF Expired(a) THEN proved
                       ELSE [proved EXCEPT ![a] = @ \cup {f}]
       \/ /\ Go(h, "evidence", "failure")
          /\ Swept[a] # None
          /\ UNCHANGED <<satisfied, proved>>
    /\ age' = Swept
    /\ UNCHANGED <<started, attempt, ip, limiterVars, devices, recorded, confirmed>>

\* The result is recorded and answered, outside Owner.mu.
RecordResult(h) ==
    /\ \/ Go(h, "success", "idle") /\ RecordSuccess(ip[h])
       \/ Go(h, "failure", "idle") /\ RecordFailure(ip[h])
    /\ UNCHANGED <<attemptVars, attempt, ip, devices, proved, confirmed>>

\* Mutant: the attempt stays in the map until the row is written.
CompleteKeeping(h, a) ==
    /\ a \in started
    /\ IF MayComplete(a)
       THEN Go(h, "idle", "insert") ELSE Go(h, "idle", "idle")
    /\ age' = Swept
    /\ attempt' = [attempt EXCEPT ![h] = a]
    /\ UNCHANGED <<started, satisfied, ip, limiterVars, devices, historyVars>>

\* handlePairComplete under Owner.mu: Complete, and the attempt leaves the map
\* at once.
Complete(h, a) ==
    /\ a \in started
    /\ \/ /\ MayComplete(a)
          /\ Go(h, "idle", "insert")
          /\ age' = [Swept EXCEPT ![a] = None]
       \/ /\ ~MayComplete(a)
          /\ Go(h, "idle", "idle")
          /\ age' = Swept
    /\ attempt' = [attempt EXCEPT ![h] = a]
    /\ UNCHANGED <<started, satisfied, ip, limiterVars, devices, historyVars>>

\* Mutant: the error of the INSERT is not looked at.
InsertIgnoringError(h) ==
    LET a == attempt[h] IN
    /\ Go(h, "insert", "idle")
    /\ \/ devices' = [devices EXCEPT ![a] = @ + 1]
       \/ "insert" \in Faults /\ UNCHANGED devices
    /\ confirmed' = confirmed \cup {a}
    /\ UNCHANGED <<attemptVars, attempt, ip, limiterVars, proved, recorded>>

\* PairDevice; when it fails the attempt is gone all the same.
InsertDevice(h) ==
    LET a == attempt[h] IN
    /\ Go(h, "insert", "idle")
    /\ \/ /\ devices' = [devices EXCEPT ![a] = @ + 1]
          /\ confirmed' = confirmed \cup {a}
       \/ "insert" \in Faults /\ UNCHANGED <<devices, confirmed>>
    /\ UNCHANGED <<attemptVars, attempt, ip, limiterVars, proved, recorded>>

-----------------------------------------------------------------------------

Tick ==
    /\ age' = [a \in Attempts |->
          IF age[a] = None \/ Expired(a) THEN age[a] ELSE age[a] + 1]
    /\ left' = [k \in Keys |-> IF left[k] > 0 THEN left[k] - 1 ELSE 0]
    /\ UNCHANGED <<started, satisfied, requestVars, failures, lockCount,
                   devices, historyVars>>

\* Attempts and counters live in memory only.
DaemonRestart ==
    /\ "restart" \in Faults
    /\ age' = [a \in Attempts |-> None]
    /\ phase' = [h \in Slots |-> "idle"]
    /\ failures' = [k \in Keys |-> 0]
    /\ lockCount' = [k \in Keys |-> 0]
    /\ left' = [k \in Keys |-> 0]
    /\ recorded' = [k \in Keys |-> 0]
    /\ UNCHANGED <<started, satisfied, attempt, ip, devices, proved, confirmed>>

Next ==
    \/ \E a \in Attempts : Start(a)
    \/ \E h \in Slots :
          \/ \E a \in Attempts :
                \/ \E i \in IPs : /\ lockCount[Account] < MaxLocks
                                  /\ lockCount[i] < MaxLocks
                                  /\ BeginFactor(h, a, i)
                \/ Complete(h, a)
          \/ \E f \in Factors : SatisfyFactor(h, f)
          \/ RecordResult(h)
          \/ InsertDevice(h)
    \/ Tick
    \/ DaemonRestart

Spec == Init /\ [][Next]_vars

-----------------------------------------------------------------------------
(***************************************************************************)
(* Properties.                                                             *)
(***************************************************************************)

\* A device gets a row only by an attempt whose every factor was verified
\* within the lifetime of the attempt, whatever requests for it overlapped
\* (pairing.go, Complete).
PairedByFullChain ==
    \A a \in Attempts : devices[a] > 0 => proved[a] = Factors

\* Two completions of one attempt that race write one row (owner.go: an
\* attempt is consumed and can never succeed again).
AttemptPairsOnce == \A a \in Attempts : devices[a] <= 1

\* A completion that was answered 200 has its row, restarts or not.
ConfirmedIsPaired == \A a \in confirmed : devices[a] > 0

\* The limiter loses and invents nothing while requests overlap: what was
\* recorded since the last success is what the counters say, so that a
\* lockout comes with every FailureThreshold-th failure.
FailuresAddUp ==
    \A k \in Keys :
        recorded[k] = FailureThreshold * lockCount[k] + failures[k]

\* The n-th lockout in a row lasts base * 2^(n-1), at most the maximum.
LockoutDoublesUpToMaximum ==
    [][\A k \in Keys : lockCount'[k] > lockCount[k] =>
          LET d == BaseLockout * 2^(lockCount'[k] - 1)
          IN  left'[k] = IF d < MaxLockout THEN d ELSE MaxLockout]_vars

\* Progress is not lost before its time: while the daemon runs, the factors of
\* an attempt are there until it is older than PairingTTL or completed.
AttemptLivesForItsTTL ==
    [][\A a \in Attempts :
         age[a] # None /\ age[a] <= PairingTTL /\ age'[a] = None
            => \/ \E h \in Slots : phase'[h] = "insert" /\ attempt'[h] = a
               \/ DaemonRestart]_vars

=============================================================================
