---------------------------- MODULE PairingProofs ---------------------------
(***************************************************************************)
(* Machine-checked proofs about Pairing, for any number of attempts,       *)
(* factors, addresses and overlapping requests, any thresholds and faults. *)
(*                                                                         *)
(* The attempts and the counters of the limiter have an invariant each.    *)
(* How long a lockout lasts comes last: the loop of backoff is a recursive *)
(* function, and the powers of two it is compared with are the numbers of  *)
(* subsets that the library's theorems count.                              *)
(***************************************************************************)
EXTENDS Pairing, FiniteSetTheorems, TLAPS

-----------------------------------------------------------------------------
(***************************************************************************)
(* The life of an attempt.                                                 *)
(***************************************************************************)

\* The types the argument about attempts needs.
AttemptTypes ==
    /\ started \in SUBSET Attempts
    /\ satisfied \in [Attempts -> SUBSET Factors]
    /\ phase \in [Slots -> Phases]
    /\ attempt \in [Slots -> Attempts \cup {None}]
    /\ devices \in [Attempts -> Nat]
    /\ proved \in [Attempts -> SUBSET Factors]
    /\ confirmed \in SUBSET Attempts

\* An attempt in the map was started, and one that is being completed or has
\* its row is never in the map again.
ConsumedIsGone ==
    /\ \A a \in Attempts : age[a] # None => a \in started
    /\ \A a \in Attempts : devices[a] > 0 => age[a] = None /\ a \in started
    /\ \A h \in Slots : phase[h] # "idle" => attempt[h] \in started
    /\ \A h \in Slots : phase[h] = "insert" =>
          /\ age[attempt[h]] = None
          /\ devices[attempt[h]] = 0

\* No two requests are about to write the row of one attempt.
OneInserter ==
    \A g, h \in Slots :
        phase[g] = "insert" /\ phase[h] = "insert" /\ attempt[g] = attempt[h]
            => g = h

\* A recorded factor was verified in time, and a row is written only with
\* all of them recorded.
RecordedIsProved ==
    /\ \A a \in Attempts : satisfied[a] \subseteq proved[a]
    /\ \A h \in Slots : phase[h] = "insert" => proved[attempt[h]] = Factors

AttemptInv ==
    /\ AttemptTypes
    /\ ConsumedIsGone
    /\ OneInserter
    /\ RecordedIsProved
    /\ PairedByFullChain
    /\ AttemptPairsOnce
    /\ ConfirmedIsPaired

USE NamesAssumption DEF Phases

\* There is no attempt at first.
LEMMA InitAttemptInv == Init => AttemptInv
BY DEF Init, AttemptInv, AttemptTypes, ConsumedIsGone, OneInserter,
    RecordedIsProved, PairedByFullChain, AttemptPairsOnce, ConfirmedIsPaired

\* The sweep takes attempts from the map and puts none into it, and an
\* attempt it leaves there has not expired.
LEMMA SweptFacts ==
    /\ Swept = [a \in Attempts |-> Swept[a]]
    /\ \A a \in Attempts : Swept[a] # None => age[a] # None /\ ~Expired(a)
    /\ \A a \in Attempts : age[a] = None => Swept[a] = None
BY DEF Swept, Expired

\* With nothing outstanding, everything was recorded and so verified.
LEMMA NothingOutstanding ==
    ASSUME NEW all, NEW rec, NEW ver,
           rec \subseteq all, ver \subseteq all, rec \subseteq ver,
           all \ rec = {}
    PROVE  rec = all /\ ver = all
OBVIOUS

\* Every step of a request, of the clock or of the daemon preserves it.
LEMMA NextAttemptInv == AttemptInv /\ [Next]_vars => AttemptInv'
<1> SUFFICES ASSUME AttemptInv, [Next]_vars PROVE AttemptInv'
  OBVIOUS
<1> USE DEF AttemptInv, AttemptTypes, ConsumedIsGone, OneInserter,
        RecordedIsProved, PairedByFullChain, AttemptPairsOnce,
        ConfirmedIsPaired, attemptVars, requestVars, limiterVars, historyVars
<1>1. ASSUME NEW a \in Attempts, Start(a) PROVE AttemptInv'
  BY <1>1, SweptFacts DEF Start
<1>2. ASSUME NEW h \in Slots, NEW a \in Attempts, NEW i \in IPs,
             BeginFactor(h, a, i)
      PROVE AttemptInv'
  BY <1>2 DEF BeginFactor, Go
<1>3. ASSUME NEW h \in Slots, NEW f \in Factors, SatisfyFactor(h, f)
      PROVE AttemptInv'
  BY <1>3, SweptFacts DEF SatisfyFactor, Go, Satisfy
<1>4. ASSUME NEW h \in Slots, RecordResult(h) PROVE AttemptInv'
  BY <1>4 DEF RecordResult, Go, RecordSuccess, RecordFailure
<1>5. ASSUME NEW h \in Slots, NEW a \in Attempts, Complete(h, a)
      PROVE AttemptInv'
  <2>1. UNCHANGED <<started, satisfied, devices, proved, confirmed>>
    BY <1>5 DEF Complete
  <2>2. attempt' = [attempt EXCEPT ![h] = a] /\ phase[h] = "idle" /\ a \in started
    BY <1>5 DEF Complete, Go
  <2>3. CASE ~MayComplete(a)
    <3>1. phase' = phase /\ age' = Swept
      BY <1>5, <2>2, <2>3 DEF Complete, Go
    <3>2. QED
      BY <2>1, <2>2, <3>1, SweptFacts
  <2>4. CASE MayComplete(a)
    <3>1. /\ phase' = [phase EXCEPT ![h] = "insert"]
          /\ age' = [Swept EXCEPT ![a] = None]
      BY <1>5, <2>4 DEF Complete, Go
    <3>2. age[a] # None /\ devices[a] = 0
      BY <2>4, SweptFacts DEF MayComplete
    <3>3. satisfied[a] = Factors /\ proved[a] = Factors
      <4>1. Factors \ satisfied[a] = {}
        BY <2>4 DEF MayComplete, Outstanding
      <4>2. /\ satisfied[a] \subseteq Factors /\ proved[a] \subseteq Factors
            /\ satisfied[a] \subseteq proved[a]
        OBVIOUS
      <4>3. QED
        BY <4>1, <4>2, NothingOutstanding
    <3>4. \A g \in Slots : phase[g] = "insert" => attempt[g] # a
      BY <3>2
    <3>5. /\ age'[a] = None
          /\ \A b \in Attempts : age[b] = None => age'[b] = None
      BY <3>1, SweptFacts
    <3>6. \A g \in Slots : g # h =>
             phase'[g] = phase[g] /\ attempt'[g] = attempt[g]
      BY <2>2, <3>1
    <3>7. phase'[h] = "insert" /\ attempt'[h] = a
      BY <2>2, <3>1
    <3>8. AttemptTypes'
      BY <2>1, <2>2, <3>1
    <3>9. ConsumedIsGone'
      <4>1. \A b \in Attempts : age'[b] # None => b \in started'
        BY <2>1, <3>1, SweptFacts
      <4>2. QED
        BY <2>1, <2>2, <3>2, <3>5, <3>6, <3>7, <4>1
    <3>10. OneInserter'
      BY <3>4, <3>6, <3>7
    <3>11. RecordedIsProved'
      BY <2>1, <3>3, <3>6, <3>7
    <3>12. QED
      BY <2>1, <3>8, <3>9, <3>10, <3>11
  <2>5. QED
    BY <2>3, <2>4
<1>6. ASSUME NEW h \in Slots, InsertDevice(h) PROVE AttemptInv'
  <2>1. /\ attempt[h] \in Attempts
        /\ devices[attempt[h]] = 0 /\ age[attempt[h]] = None
        /\ proved[attempt[h]] = Factors
    BY <1>6 DEF InsertDevice, Go
  <2>2. /\ phase' = [phase EXCEPT ![h] = "idle"]
        /\ UNCHANGED <<age, started, satisfied, attempt, proved>>
    BY <1>6 DEF InsertDevice, Go
  <2>3. CASE UNCHANGED <<devices, confirmed>>
    BY <2>2, <2>3
  <2>4. CASE /\ devices' = [devices EXCEPT ![attempt[h]] = @ + 1]
             /\ confirmed' = confirmed \cup {attempt[h]}
    <3>1. /\ devices' \in [Attempts -> Nat]
          /\ devices'[attempt[h]] = 1
          /\ \A a \in Attempts : a # attempt[h] => devices'[a] = devices[a]
      BY <2>1, <2>4
    <3>2. AttemptTypes' /\ OneInserter' /\ RecordedIsProved'
      BY <2>1, <2>2, <2>4, <3>1
    <3>3. ConsumedIsGone'
      BY <1>6, <2>1, <2>2, <3>1 DEF InsertDevice, Go
    <3>4. PairedByFullChain' /\ AttemptPairsOnce' /\ ConfirmedIsPaired'
      BY <2>1, <2>2, <2>4, <3>1
    <3>5. QED
      BY <3>2, <3>3, <3>4
  <2>5. QED
    BY <1>6, <2>3, <2>4 DEF InsertDevice
<1>7. CASE Tick
  BY <1>7 DEF Tick
<1>8. CASE DaemonRestart
  BY <1>8 DEF DaemonRestart
<1>9. CASE UNCHANGED vars
  BY <1>9 DEF vars
<1>10. QED
  BY <1>1, <1>2, <1>3, <1>4, <1>5, <1>6, <1>7, <1>8, <1>9 DEF Next

\* The invariant holds throughout.
LEMMA AttemptsAreSound == Spec => []AttemptInv
BY InitAttemptInv, NextAttemptInv, PTL DEF Spec

\* A device gets a row only by an attempt whose every factor was verified
\* within its lifetime (Attempt.Complete), whatever requests overlap.
THEOREM OnlyFullChainsPair == Spec => []PairedByFullChain
<1>1. AttemptInv => PairedByFullChain
  BY DEF AttemptInv
<1>2. QED
  BY <1>1, AttemptsAreSound, PTL

\* One attempt writes at most one row: handlePairComplete takes it out of the
\* map before it leaves the mutex.
THEOREM CompletionIsSingleUse == Spec => []AttemptPairsOnce
<1>1. AttemptInv => AttemptPairsOnce
  BY DEF AttemptInv
<1>2. QED
  BY <1>1, AttemptsAreSound, PTL

\* A completion that was answered 200 has its row for ever.
THEOREM ConfirmationsHold == Spec => []ConfirmedIsPaired
<1>1. AttemptInv => ConfirmedIsPaired
  BY DEF AttemptInv
<1>2. QED
  BY <1>1, AttemptsAreSound, PTL

\* The age of an attempt is a number.
AgeType == age \in [Attempts -> Nat \cup {None}]

\* Every step keeps it one.
LEMMA AgeIsTyped == Spec => []AgeType
<1>1. Init => AgeType
  BY DEF Init, AgeType
<1>2. AgeType /\ [Next]_vars => AgeType'
  <2> SUFFICES ASSUME AgeType, [Next]_vars PROVE AgeType'
    OBVIOUS
  <2>1. Swept \in [Attempts -> Nat \cup {None}]
    BY DEF Swept, AgeType
  <2>2. ASSUME NEW a \in Attempts, Start(a) PROVE AgeType'
    BY <2>1, <2>2 DEF Start, AgeType
  <2>3. ASSUME NEW h \in Slots, NEW f \in Factors, SatisfyFactor(h, f)
        PROVE AgeType'
    BY <2>1, <2>3 DEF SatisfyFactor, AgeType
  <2>4. ASSUME NEW h \in Slots, NEW a \in Attempts, Complete(h, a)
        PROVE AgeType'
    BY <2>1, <2>4 DEF Complete, AgeType
  <2>5. CASE Tick
    BY <2>5 DEF Tick, AgeType
  <2>6. CASE DaemonRestart
    BY <2>6 DEF DaemonRestart, AgeType
  <2>7. CASE UNCHANGED age
    BY <2>7 DEF AgeType
  <2>8. QED
    BY <2>2, <2>3, <2>4, <2>5, <2>6, <2>7
    DEF Next, vars, attemptVars, BeginFactor, RecordResult, InsertDevice
<1>3. QED
  BY <1>1, <1>2, PTL DEF Spec

\* While the daemon runs, an attempt leaves the map only by completion or when
\* it is older than PairingTTL.
THEOREM ProgressIsKept == Spec => AttemptLivesForItsTTL
<1>1. ASSUME AttemptInv, AgeType, [Next]_vars, NEW a \in Attempts,
             age[a] # None, age[a] <= PairingTTL, age'[a] = None,
             ~DaemonRestart
      PROVE  \E h \in Slots : phase'[h] = "insert" /\ attempt'[h] = a
  <2> USE DEF AttemptInv, AttemptTypes, AgeType
  <2>1. age[a] \in Nat /\ PairingTTL \in Nat
    BY <1>1, NumbersAssumption
  <2>2. Swept[a] = age[a]
    BY <1>1, <2>1 DEF Swept, Expired
  <2>3. age' # age
    BY <1>1
  <2>4. PICK h \in Slots, b \in Attempts : Complete(h, b)
    <3>1. ASSUME NEW b \in Attempts, Start(b) PROVE FALSE
      BY <1>1, <2>2, <3>1 DEF Start, Swept
    <3>2. ASSUME NEW h \in Slots, NEW f \in Factors, SatisfyFactor(h, f)
          PROVE FALSE
      BY <1>1, <2>2, <3>2 DEF SatisfyFactor
    <3>3. ASSUME Tick PROVE FALSE
      BY <1>1, <2>1, <3>3 DEF Tick
    <3>4. ASSUME NEW h \in Slots,
                 \/ \E b \in Attempts, i \in IPs : BeginFactor(h, b, i)
                 \/ RecordResult(h)
                 \/ InsertDevice(h)
          PROVE FALSE
      BY <2>3, <3>4
      DEF BeginFactor, RecordResult, InsertDevice, attemptVars
    <3>5. QED
      BY <1>1, <2>3, <3>1, <3>2, <3>3, <3>4 DEF Next, vars, attemptVars
  <2>5. MayComplete(b) /\ a = b
    <3>1. Swept = [c \in Attempts |-> Swept[c]]
      BY SweptFacts
    <3>2. CASE ~MayComplete(b)
      BY <1>1, <2>2, <2>4, <3>2 DEF Complete, MayComplete
    <3>3. CASE MayComplete(b) /\ a # b
      <4>1. age' = [Swept EXCEPT ![b] = None]
        BY <2>4, <3>3 DEF Complete
      <4>2. age'[a] = Swept[a]
        BY <3>1, <3>3, <4>1
      <4>3. QED
        BY <1>1, <2>2, <4>2
    <3>4. QED
      BY <3>2, <3>3
  <2>6. phase'[h] = "insert" /\ attempt'[h] = b
    <3>1. /\ phase' = [phase EXCEPT ![h] = "insert"]
          /\ attempt' = [attempt EXCEPT ![h] = b]
      BY <2>4, <2>5 DEF Complete, Go
    <3>2. phase \in [Slots -> Phases] /\ attempt \in [Slots -> Attempts \cup {None}]
      BY <1>1
    <3>3. QED
      BY <3>1, <3>2
  <2>7. QED
    BY <2>5, <2>6
<1>2. AttemptInv /\ AgeType /\ [Next]_vars
        => [\A a \in Attempts :
              age[a] # None /\ age[a] <= PairingTTL /\ age'[a] = None
                => \/ \E h \in Slots : phase'[h] = "insert" /\ attempt'[h] = a
                   \/ DaemonRestart]_vars
  BY <1>1
<1>3. QED
  BY <1>2, AttemptsAreSound, AgeIsTyped, PTL DEF Spec, AttemptLivesForItsTTL

-----------------------------------------------------------------------------
(***************************************************************************)
(* The counters of the limiter.                                            *)
(***************************************************************************)

\* The counters are numbers, and a count of failures is below the threshold.
CounterTypes ==
    /\ failures \in [Keys -> 0 .. FailureThreshold - 1]
    /\ lockCount \in [Keys -> Nat]
    /\ recorded \in [Keys -> Nat]

CounterInv == CounterTypes /\ FailuresAddUp

\* One more lockout stands for FailureThreshold more failures.
LEMMA OneMoreLockout ==
    ASSUME NEW t \in Nat, NEW n \in Nat
    PROVE  t * (n + 1) = t * n + t /\ t * n \in Nat /\ t * 0 = 0
OBVIOUS

\* The counters are 0 at first.
LEMMA InitCounterInv == Init => CounterInv
<1> SUFFICES ASSUME Init PROVE CounterInv
  OBVIOUS
<1>1. FailureThreshold \in Nat /\ 0 \in 0 .. FailureThreshold - 1
  BY NumbersAssumption
<1>2. CounterTypes
  BY <1>1 DEF Init, CounterTypes
<1>3. FailuresAddUp
  BY <1>1, OneMoreLockout DEF Init, FailuresAddUp
<1>4. QED
  BY <1>2, <1>3 DEF CounterInv

\* recordFailure keeps the sum, with and without a lockout.
LEMMA FailureKeepsSum ==
    ASSUME CounterInv, NEW i \in IPs, RecordFailure(i)
    PROVE  CounterInv'
<1> USE DEF CounterInv, CounterTypes, FailuresAddUp
<1>1. FailureThreshold \in Nat \ {0}
  BY NumbersAssumption
<1>2. ASSUME NEW k \in Keys
      PROVE  /\ failures'[k] \in 0 .. FailureThreshold - 1
             /\ lockCount'[k] \in Nat
             /\ recorded'[k] \in Nat
             /\ recorded'[k] = FailureThreshold * lockCount'[k] + failures'[k]
  <2>1. /\ failures[k] \in 0 .. FailureThreshold - 1
        /\ lockCount[k] \in Nat /\ recorded[k] \in Nat
        /\ recorded[k] = FailureThreshold * lockCount[k] + failures[k]
    BY <1>2
  <2>2. CASE k \notin {i, Account}
    BY <2>1, <2>2 DEF RecordFailure
  <2>3. CASE k \in {i, Account} /\ Trips(k)
    <3>1. /\ failures'[k] = 0 /\ lockCount'[k] = lockCount[k] + 1
          /\ recorded'[k] = recorded[k] + 1
      BY <1>2, <2>3 DEF RecordFailure
    <3>2. failures[k] + 1 = FailureThreshold
      BY <1>1, <2>1, <2>3 DEF Trips
    <3>3. FailureThreshold * (lockCount[k] + 1)
            = FailureThreshold * lockCount[k] + FailureThreshold
      BY <1>1, <2>1, OneMoreLockout
    <3>4. recorded'[k] = FailureThreshold * lockCount'[k]
      BY <1>1, <2>1, <3>1, <3>2, <3>3
    <3>5. QED
      BY <1>1, <2>1, <3>1, <3>4
  <2>4. CASE k \in {i, Account} /\ ~Trips(k)
    <3>1. /\ failures'[k] = failures[k] + 1 /\ lockCount'[k] = lockCount[k]
          /\ recorded'[k] = recorded[k] + 1
      BY <1>2, <2>4 DEF RecordFailure
    <3>2. failures[k] + 1 < FailureThreshold
      BY <1>1, <2>1, <2>4 DEF Trips
    <3>3. QED
      BY <1>1, <2>1, <3>1, <3>2, OneMoreLockout
  <2>5. QED
    BY <2>2, <2>3, <2>4
<1>3. QED
  BY <1>2 DEF RecordFailure

\* RecordSuccess sets a key to 0 or leaves it alone.
LEMMA SuccessKeepsSum ==
    ASSUME CounterInv, NEW i \in IPs, RecordSuccess(i)
    PROVE  CounterInv'
<1> USE DEF CounterInv, CounterTypes, FailuresAddUp
<1>1. FailureThreshold \in Nat /\ 0 \in 0 .. FailureThreshold - 1
      /\ FailureThreshold * 0 = 0
  BY NumbersAssumption, OneMoreLockout
<1>2. QED
  BY <1>1 DEF RecordSuccess

\* Only RecordResult and a restart touch the counters, and a restart clears
\* them all.  The address of a request under way is one of IPs.
RequestHasAddress == 
    /\ phase \in [Slots -> Phases]
    /\ ip \in [Slots -> IPs \cup {None}]
    /\ \A h \in Slots : phase[h] \in {"evidence", "success", "failure"}
                            => ip[h] \in IPs

LimiterInv == CounterInv /\ RequestHasAddress

\* No request is under way at first.
LEMMA InitLimiterInv == Init => LimiterInv
BY InitCounterInv DEF Init, LimiterInv, RequestHasAddress

\* Every step preserves the sums and the addresses.
LEMMA NextLimiterInv == LimiterInv /\ [Next]_vars => LimiterInv'
<1> SUFFICES ASSUME LimiterInv, [Next]_vars PROVE LimiterInv'
  OBVIOUS
<1> USE DEF LimiterInv, RequestHasAddress, attemptVars, requestVars,
        limiterVars, historyVars
<1>1. ASSUME UNCHANGED <<failures, lockCount, recorded>> PROVE CounterInv'
  BY <1>1 DEF CounterInv, CounterTypes, FailuresAddUp
<1>2. ASSUME NEW a \in Attempts, Start(a) PROVE LimiterInv'
  BY <1>1, <1>2 DEF Start
<1>3. ASSUME NEW h \in Slots, NEW a \in Attempts, NEW i \in IPs,
             BeginFactor(h, a, i)
      PROVE LimiterInv'
  BY <1>1, <1>3 DEF BeginFactor, Go
<1>4. ASSUME NEW h \in Slots, NEW f \in Factors, SatisfyFactor(h, f)
      PROVE LimiterInv'
  BY <1>1, <1>4 DEF SatisfyFactor, Go
<1>5. ASSUME NEW h \in Slots, RecordResult(h) PROVE LimiterInv'
  <2>1. ip[h] \in IPs /\ (RecordSuccess(ip[h]) \/ RecordFailure(ip[h]))
    BY <1>5 DEF RecordResult, Go
  <2>2. CounterInv'
    BY <2>1, SuccessKeepsSum, FailureKeepsSum
  <2>3. RequestHasAddress'
    BY <1>5 DEF RecordResult, Go
  <2>4. QED
    BY <2>2, <2>3
<1>6. ASSUME NEW h \in Slots, NEW a \in Attempts, Complete(h, a)
      PROVE LimiterInv'
  BY <1>1, <1>6 DEF Complete, Go
<1>7. ASSUME NEW h \in Slots, InsertDevice(h) PROVE LimiterInv'
  BY <1>1, <1>7 DEF InsertDevice, Go
<1>8. CASE Tick
  BY <1>1, <1>8 DEF Tick
<1>9. CASE DaemonRestart
  <2>1. FailureThreshold \in Nat /\ 0 \in 0 .. FailureThreshold - 1
        /\ FailureThreshold * 0 = 0
    BY NumbersAssumption, OneMoreLockout
  <2>2. CounterInv'
    BY <1>9, <2>1
    DEF DaemonRestart, CounterInv, CounterTypes, FailuresAddUp
  <2>3. QED
    BY <1>9, <2>2 DEF DaemonRestart
<1>10. CASE UNCHANGED vars
  BY <1>1, <1>10 DEF vars
<1>11. QED
  BY <1>2, <1>3, <1>4, <1>5, <1>6, <1>7, <1>8, <1>9, <1>10 DEF Next

\* The counters add up: what was recorded since the last success is
\* FailureThreshold times the lockouts plus the failures since the last one.
THEOREM CountersAddUp == Spec => []FailuresAddUp
<1>1. LimiterInv => FailuresAddUp
  BY DEF LimiterInv, CounterInv
<1>2. QED
  BY <1>1, InitLimiterInv, NextLimiterInv, PTL DEF Spec

-----------------------------------------------------------------------------
(***************************************************************************)
(* Lockouts.                                                               *)
(***************************************************************************)

\* The powers of two, as a function.
Power == [n \in Nat |-> 2^n]

\* A set of n elements has 2^n subsets; the library counts them.
LEMMA PowerCounts ==
    ASSUME NEW n \in Nat
    PROVE  /\ IsFiniteSet(SUBSET (1 .. n))
           /\ Cardinality(SUBSET (1 .. n)) = Power[n]
           /\ Power[n] \in Nat
<1>1. IsFiniteSet(1 .. n) /\ Cardinality(1 .. n) = n
  BY FS_Interval
<1>2. /\ IsFiniteSet(SUBSET (1 .. n))
      /\ Cardinality(SUBSET (1 .. n)) = 2^Cardinality(1 .. n)
  BY <1>1, FS_SUBSET
<1>3. Cardinality(SUBSET (1 .. n)) = Power[n]
  BY <1>1, <1>2, Zenon DEF Power
<1>4. QED
  BY <1>2, <1>3, FS_CardinalityType

\* 2^n begins with 1 and doubles: half of the subsets of 1 .. n + 1 have the
\* element n + 1.
LEMMA PowerDoubles ==
    /\ Power[0] = 1
    /\ \A n \in Nat : Power[n + 1] = 2 * Power[n]
<1>1. Power[0] = 1
  <2>1. SUBSET (1 .. 0) = {{}}
    OBVIOUS
  <2>2. Cardinality({{}}) = 1
    BY FS_Singleton
  <2>3. QED
    BY <2>1, <2>2, PowerCounts
<1>2. ASSUME NEW n \in Nat PROVE Power[n + 1] = 2 * Power[n]
  <2>0. /\ n + 1 \in Nat
        /\ IsFiniteSet(SUBSET (1 .. n)) /\ Cardinality(SUBSET (1 .. n)) = Power[n]
        /\ Power[n] \in Nat /\ Power[n + 1] \in Nat
        /\ Cardinality(SUBSET (1 .. n + 1)) = Power[n + 1]
    <3>1. n + 1 \in Nat
      OBVIOUS
    <3> HIDE DEF Power
    <3>2. QED
      BY <3>1, PowerCounts
  <2> DEFINE S == SUBSET (1 .. n)
             f == [s \in S |-> s \cup {n + 1}]
             T == {s \in SUBSET (1 .. n + 1) : n + 1 \in s}
  <2>1. /\ IsFiniteSet(S) /\ Cardinality(S) = Power[n] /\ Power[n] \in Nat
        /\ Cardinality(SUBSET (1 .. n + 1)) = Power[n + 1]
    BY <2>0
  <2>2. f \in Bijection(S, T)
    <3>1. \A s \in S : s \cup {n + 1} \in T /\ n + 1 \notin s
      OBVIOUS
    <3>2. \A s, t \in S : s \cup {n + 1} = t \cup {n + 1} => s = t
      BY <3>1
    <3>3. \A t \in T : t \ {n + 1} \in S /\ (t \ {n + 1}) \cup {n + 1} = t
      OBVIOUS
    <3>4. f \in [S -> T]
      BY <3>1
    <3>5. \A t \in T : \E s \in S : f[s] = t
      BY <3>3
    <3>6. \A s, t \in S : f[s] = f[t] => s = t
      BY <3>2
    <3> HIDE DEF S, T, f
    <3>7. QED
      BY <3>4, <3>5, <3>6 DEF Bijection, Injection, Surjection, IsInjective
  <2>3. IsFiniteSet(T) /\ Cardinality(T) = Cardinality(S)
    BY <2>1, <2>2, FS_Bijection DEF ExistsBijection
  <2>4. SUBSET (1 .. n + 1) = S \cup T
    OBVIOUS
  <2>5. S \cap T = {}
    OBVIOUS
  <2> HIDE DEF S, T, f
  <2>6. Cardinality(S \cup T)
          = Cardinality(S) + Cardinality(T) - Cardinality(S \cap T)
    BY <2>1, <2>3, FS_Union
  <2>7. Cardinality(S \cap T) = 0
    BY <2>5, FS_EmptySet
  <2>8. Power[n + 1] = Cardinality(S \cup T)
    BY <2>1, <2>4, Zenon
  <2>9. Cardinality(S) = Power[n] /\ Cardinality(T) = Power[n] /\ Power[n] \in Nat
    BY <2>1, <2>3, Zenon
  <2>10. QED
    BY <2>6, <2>7, <2>8, <2>9
<1>3. QED
  BY <1>1, <1>2

\* The length of the lockouts without the maximum.
Length == [n \in Nat |-> BaseLockout * Power[n]]

\* It begins with BaseLockout and doubles.
LEMMA LengthDoubles ==
    /\ Length \in [Nat -> Nat]
    /\ Length[0] = BaseLockout
    /\ \A n \in Nat : Length[n + 1] = 2 * Length[n]
<1>1. BaseLockout \in Nat
  BY NumbersAssumption
<1>2. ASSUME NEW b \in Nat, NEW p \in Nat
      PROVE  b * p \in Nat /\ b * 1 = b /\ b * (2 * p) = 2 * (b * p)
  OBVIOUS
<1>3. \A n \in Nat : Power[n] \in Nat
  BY PowerCounts
<1> HIDE DEF Power
<1>4. Length \in [Nat -> Nat]
  BY <1>1, <1>2, <1>3 DEF Length
<1>5. Length[0] = BaseLockout
  BY <1>1, <1>2, PowerDoubles DEF Length
<1>6. ASSUME NEW n \in Nat PROVE Length[n + 1] = 2 * Length[n]
  <2>1. Length[n] = BaseLockout * Power[n] /\ Power[n] \in Nat
    BY <1>3 DEF Length
  <2>2. Length[n + 1] = BaseLockout * Power[n + 1]
    BY DEF Length
  <2>3. Power[n + 1] = 2 * Power[n]
    BY PowerDoubles
  <2>4. BaseLockout * (2 * Power[n]) = 2 * (BaseLockout * Power[n])
    BY <1>1, <1>2, <2>1
  <2>5. QED
    BY <2>1, <2>2, <2>3, <2>4
<1>7. QED
  BY <1>4, <1>5, <1>6

\* A non-empty set of numbers has a least element.
LEMMA Least ==
    ASSUME NEW T, T \subseteq Nat, T # {}
    PROVE  \E n \in T : \A m \in T : n <= m
<1> DEFINE R == {ss \in Nat \X Nat : ss[1] < ss[2]}
<1>1. OpToRel(<, Nat) = R
  BY Zenon DEF OpToRel
<1>2. IsWellFoundedOn(R, Nat)
  BY <1>1, NatLessThanWellFounded, Zenon
<1>3. \A x, y \in Nat : y < x => <<y, x>> \in R
  BY DEF R
<1> HIDE DEF R
<1>4. PICK n \in T : \A y \in T : ~(<<y, n>> \in R)
  BY <1>2, WFMin, Zenon
<1>5. \A y \in T : ~(y < n)
  BY <1>3, <1>4
<1>6. \A y \in T : n <= y
  BY <1>5
<1>7. QED
  BY <1>6

\* The equation of the loop of backoff.
LoopEquation(g) ==
    g = [n \in Nat |->
           IF n <= 1 THEN BaseLockout
           ELSE IF g[n - 1] >= MaxLockout THEN MaxLockout
           ELSE 2 * g[n - 1]]

\* What the loop has after n - 1 rounds: the length of the n-th lockout,
\* until the round before has reached the maximum.
Loop == [n \in Nat |->
           IF n <= 1 THEN BaseLockout
           ELSE IF Length[n - 2] >= MaxLockout THEN MaxLockout
           ELSE Length[n - 1]]

\* It has the equation.
LEMMA LoopSolves == LoopEquation(Loop)
<1>1. BaseLockout \in Nat \ {0} /\ MaxLockout \in Nat
  BY NumbersAssumption
<1> HIDE DEF Length
<1>2. ASSUME NEW n \in Nat
      PROVE  Loop[n] = IF n <= 1 THEN BaseLockout
                       ELSE IF Loop[n - 1] >= MaxLockout THEN MaxLockout
                       ELSE 2 * Loop[n - 1]
  <2>1. CASE n <= 1
    BY <2>1 DEF Loop
  <2>2. CASE n = 2
    <3>1. Length[1] = 2 * BaseLockout /\ Length[0] = BaseLockout
      <4>1. 0 \in Nat /\ 0 + 1 = 1
        OBVIOUS
      <4>2. QED
        BY <4>1, LengthDoubles
    <3>2. Loop[1] = BaseLockout
      BY DEF Loop
    <3>3. Loop[2] = IF BaseLockout >= MaxLockout THEN MaxLockout
                    ELSE 2 * BaseLockout
      BY <3>1 DEF Loop
    <3>4. QED
      BY <2>2, <3>2, <3>3
  <2>3. CASE n > 2
    <3>1. /\ n - 1 \in Nat /\ n - 2 \in Nat /\ n - 3 \in Nat
          /\ (n - 3) + 1 = n - 2 /\ (n - 2) + 1 = n - 1
      BY <2>3
    <3>2. /\ Length[n - 3] \in Nat /\ Length[n - 2] = 2 * Length[n - 3]
          /\ Length[n - 1] = 2 * Length[n - 2]
      <4>1. /\ Length[n - 3] \in Nat
            /\ Length[(n - 3) + 1] = 2 * Length[n - 3]
            /\ Length[(n - 2) + 1] = 2 * Length[n - 2]
        BY <3>1, LengthDoubles
      <4>2. QED
        BY <3>1, <4>1
    <3>3. Loop[n] = IF Length[n - 2] >= MaxLockout THEN MaxLockout
                    ELSE Length[n - 1]
      BY <2>3 DEF Loop
    <3>4. Loop[n - 1] = IF Length[n - 3] >= MaxLockout THEN MaxLockout
                        ELSE Length[n - 2]
      <4>1. ~(n - 1 <= 1) /\ (n - 1) - 2 = n - 3 /\ (n - 1) - 1 = n - 2
        BY <2>3
      <4>2. QED
        BY <3>1, <4>1 DEF Loop
    <3>5. QED
      BY <1>1, <2>3, <3>2, <3>3, <3>4
  <2>4. QED
    BY <2>1, <2>2, <2>3
<1>3. Loop = [n \in Nat |-> Loop[n]]
  BY DEF Loop
<1> HIDE DEF Loop
<1>4. QED
  BY <1>2, <1>3 DEF LoopEquation

\* So Doubled, which is a solution when there is one, has the equation too.
LEMMA DoubledSolves == LoopEquation(Doubled)
<1>1. \E g : LoopEquation(g)
  BY LoopSolves
<1>2. Doubled = CHOOSE g : LoopEquation(g)
  BY Zenon DEF Doubled, LoopEquation
<1>3. QED
  BY <1>1, <1>2, Zenon

\* And there is only one: the least number where two of them differ would be
\* the successor of one where they differ.
LEMMA DoubledIsLoop == \A n \in Nat : Doubled[n] = Loop[n]
<1> DEFINE Bad == {n \in Nat : Doubled[n] # Loop[n]}
<1>1. ASSUME NEW g, LoopEquation(g), NEW n \in Nat
      PROVE  g[n] = IF n <= 1 THEN BaseLockout
                    ELSE IF g[n - 1] >= MaxLockout THEN MaxLockout
                    ELSE 2 * g[n - 1]
  BY <1>1, Zenon DEF LoopEquation
<1> SUFFICES ASSUME Bad # {} PROVE FALSE
  OBVIOUS
<1>2. PICK n \in Bad : \A m \in Bad : n <= m
  <2>1. Bad \subseteq Nat
    OBVIOUS
  <2> HIDE DEF Bad
  <2>2. QED
    BY <2>1, Least
<1>3. n \in Nat /\ Doubled[n] # Loop[n]
  OBVIOUS
<1> HIDE DEF Doubled, Loop
<1>4. /\ Doubled[n] = IF n <= 1 THEN BaseLockout
                      ELSE IF Doubled[n - 1] >= MaxLockout THEN MaxLockout
                      ELSE 2 * Doubled[n - 1]
      /\ Loop[n] = IF n <= 1 THEN BaseLockout
                   ELSE IF Loop[n - 1] >= MaxLockout THEN MaxLockout
                   ELSE 2 * Loop[n - 1]
  BY <1>1, <1>3, LoopSolves, DoubledSolves, Zenon
<1>5. n > 1
  BY <1>3, <1>4
<1>6. n - 1 \in Nat /\ ~(n <= n - 1)
  BY <1>5
<1>7. Doubled[n - 1] = Loop[n - 1]
  BY <1>2, <1>6
<1>8. QED
  BY <1>3, <1>4, <1>7

\* backoff computes the length of the n-th lockout, cut at the maximum.
LEMMA BackoffIsLength ==
    ASSUME NEW n \in Nat, n # 0
    PROVE  /\ Backoff(n) = IF Length[n - 1] < MaxLockout
                           THEN Length[n - 1] ELSE MaxLockout
           /\ Length[n - 1] \in Nat
<1> HIDE DEF Length, Doubled
<1>1. BaseLockout \in Nat /\ MaxLockout \in Nat /\ BaseLockout <= MaxLockout
  BY NumbersAssumption
<1>2. Doubled[n] = Loop[n]
  BY DoubledIsLoop
<1>3. CASE n = 1
  <2>1. Length[n - 1] = BaseLockout
    BY <1>3, LengthDoubles
  <2>2. Doubled[n] = BaseLockout
    BY <1>2, <1>3 DEF Loop
  <2>3. QED
    BY <1>1, <2>1, <2>2 DEF Backoff
<1>4. CASE n > 1
  <2>1. n - 1 \in Nat /\ n - 2 \in Nat /\ (n - 2) + 1 = n - 1
    BY <1>4
  <2>2. Length[n - 2] \in Nat /\ Length[(n - 2) + 1] = 2 * Length[n - 2]
    BY <2>1, LengthDoubles
  <2>3. Length[n - 1] = 2 * Length[n - 2]
    BY <2>1, <2>2
  <2>4. Doubled[n] = IF Length[n - 2] >= MaxLockout THEN MaxLockout
                     ELSE Length[n - 1]
    BY <1>2, <1>4 DEF Loop
  <2>5. QED
    BY <1>1, <2>2, <2>3, <2>4 DEF Backoff
<1>5. QED
  BY <1>3, <1>4

\* The same in the words of the property.
LEMMA BackoffDoubles ==
    ASSUME NEW n \in Nat, n # 0
    PROVE  LET d == BaseLockout * 2^(n - 1)
           IN  Backoff(n) = IF d < MaxLockout THEN d ELSE MaxLockout
<1>1. n - 1 \in Nat
  OBVIOUS
<1>2. Length[n - 1] = BaseLockout * 2^(n - 1)
  BY <1>1, Zenon DEF Length, Power
<1>3. Backoff(n) = IF Length[n - 1] < MaxLockout
                   THEN Length[n - 1] ELSE MaxLockout
  BY BackoffIsLength
<1> HIDE DEF Length, Backoff
<1>4. QED
  BY <1>2, <1>3, Zenon

\* A lockout is started by recordFailure alone, and with what backoff says.
LEMMA LockoutStarts ==
    ASSUME LimiterInv, [Next]_vars, NEW k \in Keys, lockCount'[k] > lockCount[k]
    PROVE  /\ lockCount[k] \in Nat
           /\ lockCount'[k] = lockCount[k] + 1
           /\ left'[k] = Backoff(lockCount'[k])
<1> USE DEF LimiterInv, CounterInv, CounterTypes, RequestHasAddress
<1>1. lockCount[k] \in Nat
  OBVIOUS
<1>2. lockCount' # lockCount
  BY <1>1
<1>3. ~DaemonRestart
  BY <1>1 DEF DaemonRestart
<1>4. PICK h \in Slots : RecordResult(h)
  BY <1>2, <1>3
  DEF Next, vars, limiterVars, Start, BeginFactor, SatisfyFactor, Complete,
      InsertDevice, Tick
<1>5. ip[h] \in IPs /\ (RecordSuccess(ip[h]) \/ RecordFailure(ip[h]))
  BY <1>4 DEF RecordResult, Go
<1>6. ~RecordSuccess(ip[h])
  BY <1>1 DEF RecordSuccess
<1>7. RecordFailure(ip[h])
  BY <1>5, <1>6
<1> HIDE DEF Backoff
<1>8. k \in {ip[h], Account} /\ Trips(k)
  BY <1>1, <1>7 DEF RecordFailure
<1>9. QED
  BY <1>1, <1>7, <1>8 DEF RecordFailure

\* The n-th lockout in a row lasts base * 2^(n-1), at most the maximum, for
\* every base, maximum and number of lockouts (RateLimiter.backoff).
THEOREM LockoutsDouble == Spec => LockoutDoublesUpToMaximum
<1>1. ASSUME LimiterInv, [Next]_vars, NEW k \in Keys,
             lockCount'[k] > lockCount[k]
      PROVE  LET d == BaseLockout * 2^(lockCount'[k] - 1)
             IN  left'[k] = IF d < MaxLockout THEN d ELSE MaxLockout
  <2>1. /\ lockCount'[k] \in Nat /\ lockCount'[k] # 0
        /\ left'[k] = Backoff(lockCount'[k])
    <3> HIDE DEF Backoff
    <3>1. QED
      BY <1>1, LockoutStarts
  <2>2. QED
    BY <2>1, BackoffDoubles, Zenon
<1>2. LimiterInv /\ [Next]_vars
        => [\A k \in Keys : lockCount'[k] > lockCount[k] =>
              LET d == BaseLockout * 2^(lockCount'[k] - 1)
              IN  left'[k] = IF d < MaxLockout THEN d ELSE MaxLockout]_vars
  BY <1>1, Zenon
<1>3. QED
  BY <1>2, InitLimiterInv, NextLimiterInv, PTL
  DEF Spec, LockoutDoublesUpToMaximum

\* What is left of a lockout, and the age of an attempt, are within bounds.
TimeTypes ==
    /\ age \in [Attempts -> (0 .. PairingTTL + 1) \cup {None}]
    /\ left \in [Keys -> 0 .. MaxLockout]

\* A lockout is not longer than the maximum.
LEMMA BackoffType ==
    ASSUME NEW n \in Nat, n # 0
    PROVE  Backoff(n) \in 0 .. MaxLockout
<1> HIDE DEF Length, Backoff
<1>1. MaxLockout \in Nat
  BY NumbersAssumption
<1>2. QED
  BY <1>1, BackoffIsLength

\* Every step keeps the times within bounds: only recordFailure starts a
\* lockout, and a clock stops at its bound.
LEMMA NextTimeTypes == LimiterInv /\ TimeTypes /\ [Next]_vars => TimeTypes'
<1> SUFFICES ASSUME LimiterInv, TimeTypes, [Next]_vars PROVE TimeTypes'
  OBVIOUS
<1> DEFINE Ages == (0 .. PairingTTL + 1) \cup {None}
<1>1. /\ PairingTTL \in Nat /\ MaxLockout \in Nat
      /\ 0 \in Ages /\ None \in Ages /\ None \notin Nat
  BY NumbersAssumption
<1>2. Swept \in [Attempts -> Ages]
  BY <1>1 DEF Swept, TimeTypes
<1> USE DEF TimeTypes, attemptVars, requestVars, limiterVars, historyVars
<1>3. ASSUME NEW a \in Attempts, Start(a) PROVE TimeTypes'
  BY <1>1, <1>2, <1>3 DEF Start
<1>4. ASSUME NEW h \in Slots, NEW f \in Factors, SatisfyFactor(h, f)
      PROVE TimeTypes'
  BY <1>2, <1>4 DEF SatisfyFactor
<1>5. ASSUME NEW h \in Slots, RecordResult(h) PROVE TimeTypes'
  <2>1. ip[h] \in IPs /\ (RecordSuccess(ip[h]) \/ RecordFailure(ip[h]))
    BY <1>5 DEF RecordResult, Go, LimiterInv, RequestHasAddress
  <2>2. age' = age /\ lockCount \in [Keys -> Nat]
    BY <1>5 DEF RecordResult, LimiterInv, CounterInv, CounterTypes
  <2>3. CASE RecordSuccess(ip[h])
    BY <1>1, <2>2, <2>3 DEF RecordSuccess
  <2>4. CASE RecordFailure(ip[h])
    <3>1. \A k \in Keys : Backoff(lockCount[k] + 1) \in 0 .. MaxLockout
      <4> HIDE DEF Backoff
      <4>1. \A k \in Keys : lockCount[k] + 1 \in Nat /\ lockCount[k] + 1 # 0
        BY <2>2
      <4>2. QED
        BY <4>1, BackoffType
    <3> HIDE DEF Backoff
    <3>2. left' \in [Keys -> 0 .. MaxLockout]
      BY <2>4, <3>1 DEF RecordFailure
    <3>3. QED
      BY <2>2, <3>2
  <2>5. QED
    BY <2>1, <2>3, <2>4
<1>6. ASSUME NEW h \in Slots, NEW a \in Attempts, Complete(h, a)
      PROVE TimeTypes'
  BY <1>1, <1>2, <1>6 DEF Complete
<1>7. CASE Tick
  <2>1. ASSUME NEW a \in Attempts PROVE age'[a] \in Ages
    BY <1>1, <1>7, <2>1 DEF Tick, Expired
  <2>2. ASSUME NEW k \in Keys PROVE left'[k] \in 0 .. MaxLockout
    BY <1>1, <1>7, <2>2 DEF Tick
  <2>3. QED
    BY <1>7, <2>1, <2>2 DEF Tick
<1>8. CASE DaemonRestart
  BY <1>1, <1>8 DEF DaemonRestart
<1>9. CASE UNCHANGED <<age, left>>
  BY <1>9
<1>10. QED
  BY <1>3, <1>4, <1>5, <1>6, <1>7, <1>8, <1>9
  DEF Next, vars, BeginFactor, InsertDevice

\* Attempts, requests, counters and clocks keep their types; no lockout is
\* longer than MaxLockout.
THEOREM TypeCorrect == Spec => []TypeOK
<1>1. Init => TimeTypes
  BY NumbersAssumption DEF Init, TimeTypes
<1>2. Spec => []LimiterInv
  BY InitLimiterInv, NextLimiterInv, PTL DEF Spec
<1>3. Spec => []TimeTypes
  BY <1>1, <1>2, NextTimeTypes, PTL DEF Spec
<1>4. AttemptInv /\ LimiterInv /\ TimeTypes => TypeOK
  BY DEF AttemptInv, AttemptTypes, LimiterInv, CounterInv, CounterTypes,
         RequestHasAddress, TimeTypes, TypeOK
<1>5. QED
  BY <1>2, <1>3, <1>4, AttemptsAreSound, PTL

=============================================================================
