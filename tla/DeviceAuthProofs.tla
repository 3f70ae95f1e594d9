-------------------------- MODULE DeviceAuthProofs --------------------------
(***************************************************************************)
(* Machine-checked proofs about DeviceAuth, for any number of devices,     *)
(* requests and paths and any lifetimes of challenges, tickets and grants. *)
(***************************************************************************)
EXTENDS DeviceAuth, SequenceTheorems, TLAPS

\* Once a call is past RequireDevice.
Past == {"ok", "ticket", "stepup", "revoke", "denied"}

\* What a request that has not begun, or has only asked for a challenge, has
\* left behind: nothing.
NewIsBlank ==
    \A r \in Requests :
        /\ phase[r] = "new" => signed[r] = None /\ taken[r] = None
        /\ phase[r] \in {"new", "store"} => fate[r] = "none"
        /\ phase[r] \in {"new", "lookup", "verify", "ticket"} =>
              tickets[r] = None /\ streams[r] = 0

\* A request that is under way has a device, and one that is about to store
\* its challenge, a paired one.
DeviceIsSet ==
    \A r \in Requests :
        /\ phase[r] # "new" => device[r] \in Devices
        /\ phase[r] = "store" => device[r] \in paired

\* A challenge in the map was answered to the device it is filed under.
PendingIsStored ==
    \A d \in Devices : pending[d] # None =>
        /\ phase[pending[d].nonce] = "challenge"
        /\ device[pending[d].nonce] = d
        /\ fate[pending[d].nonce] = "stored"

\* A challenge is taken once, and a request that is past RequireDevice took
\* the one it is signed for.
TakenIsUnique ==
    /\ \A r \in Requests : taken[r] # None => fate[taken[r]] = "taken"
    /\ \A q, r \in Requests : taken[q] # None /\ taken[q] = taken[r] => q = r
    /\ \A r \in Requests : phase[r] \in {"lookup", "verify"} => taken[r] # None
    /\ \A r \in Requests : phase[r] \in Past =>
          taken[r] # None /\ signed[r] = taken[r]

\* A ticket that is still there has opened nothing.
TicketIsUnused ==
    \A r \in Requests :
        /\ streams[r] <= 1
        /\ tickets[r] # None => streams[r] = 0

\* A challenge that is stored and in time is the one in the map.
FreshIsPending ==
    \A n \in Requests :
        phase[n] = "challenge" /\ fate[n] = "stored" /\ clock <= born[n] + ChallengeTTL
            => pending[device[n]] = [nonce |-> n, expires |-> born[n] + ChallengeTTL]

\* A call is refused, or about to be, for one of the reasons of Excused.
RefusedIsExcused ==
    /\ \A r \in Requests :
          phase[r] \in {"lookup", "verify"} /\ signed[r] # taken[r] => r \in excuse
    /\ OutstandingChallengeIsGood

\* A call of a revoked device does not get beyond the look-up, and leaves
\* nothing behind.
LateIsRefused ==
    \A r \in late :
        /\ device[r] \in revoked
        /\ phase[r] \in {"lookup", "401", "lost"}
        /\ tickets[r] = None
        /\ streams[r] = 0

Inv ==
    /\ TypeOK
    /\ NewIsBlank
    /\ DeviceIsSet
    /\ PendingIsStored
    /\ TakenIsUnique
    /\ TicketIsUnused
    /\ FreshIsPending
    /\ RefusedIsExcused
    /\ LateIsRefused
    /\ PendingIsBoundedByDevices
    /\ EveryRevocationHadAGrant
    /\ TicketsOpenStreamsOnly

USE NoneAssumption, TimesAssumption DEF Past, Phases, Answered, Times

\* Nothing has been issued at first.
LEMMA InitInv == Init => Inv
BY DEF Init, Inv, TypeOK, Challenges, NewIsBlank, DeviceIsSet, PendingIsStored,
    TakenIsUnique, TicketIsUnused, FreshIsPending, RefusedIsExcused,
    OutstandingChallengeIsGood, LateIsRefused, PendingIsBoundedByDevices,
    EveryRevocationHadAGrant, TicketsOpenStreamsOnly

\* The two readings of a path agree: what ends in "/stream" refers to a stream
\* or to nothing (wrapSessionAuth, splitSessionPath).
LEMMA TicketPaths ==
    ASSUME NEW path \in Paths, TicketChecked(path)
    PROVE  SessionHandler(path) \in Allowed
<1> DEFINE tail == SubSeq(path, 3, Len(path))
<1>1. /\ path \in Seq(STRING) /\ Len(path) \in Nat /\ Len(path) > 1
      /\ path[Len(path)] = "stream"
  BY PathsAssumption DEF TicketChecked
<1>2. /\ Len(tail) = IF 3 <= Len(path) THEN Len(path) - 2 ELSE 0
      /\ \A i \in 1 .. Len(path) - 2 : tail[i] = path[i + 2]
  <2>1. \A i \in 3 .. Len(path) : path[i] \in STRING
    BY <1>1
  <2>2. QED
    BY <1>1, <2>1, SubSeqProperties
<1> HIDE DEF tail
<1>3. ASSUME tail = <<>> PROVE path[2] = "stream"
  BY <1>1, <1>2, <1>3
<1>4. tail # <<"">>
  <2>1. SUFFICES ASSUME tail = <<"">> PROVE FALSE
    OBVIOUS
  <2>2. Len(tail) = 1 /\ tail[1] = ""
    BY <2>1
  <2>3. Len(path) = 3
    <3>1. 3 <= Len(path) => Len(tail) = Len(path) - 2
      BY <1>2
    <3>2. ~(3 <= Len(path)) => Len(tail) = 0
      BY <1>2
    <3>3. Len(path) \in Nat /\ Len(tail) = 1
      BY <1>1, <2>2
    <3>4. QED
      BY <3>1, <3>2, <3>3
  <2>4. tail[1] = path[3]
    BY <1>2, <2>3
  <2>5. QED
    BY <1>1, <2>2, <2>3, <2>4
<1>5. QED
  BY <1>3, <1>4 DEF SessionHandler, Allowed, tail

\* A verified request goes on to its handler, to a ticket or to the step-up.
LEMMA AfterIsPast == \A path : After(path) \in {"ok", "ticket", "stepup"}
BY DEF After

\* A row that is reported usable is not revoked.
LEMMA UsableIsNotRevoked == \A d : "usable" \in DeviceRow(d) => d \notin revoked
BY DEF DeviceRow

\* Every step of a request, of the clock or of the daemon preserves it.
LEMMA NextInv == Inv /\ [Next]_vars => Inv'
<1> SUFFICES ASSUME Inv, [Next]_vars PROVE Inv'
  OBVIOUS
<1> USE DEF Inv, TypeOK, Challenges, NewIsBlank, DeviceIsSet, PendingIsStored,
        TakenIsUnique, TicketIsUnused, FreshIsPending, RefusedIsExcused,
        OutstandingChallengeIsGood, LateIsRefused, PendingIsBoundedByDevices,
        EveryRevocationHadAGrant, TicketsOpenStreamsOnly, storeVars,
        memoryVars, requestVars, historyVars
<1>1. ASSUME NEW r \in Requests, NEW d \in Devices, LookupForChallenge(r, d)
      PROVE Inv'
  BY <1>1 DEF LookupForChallenge, Go, DeviceRow, Known
<1>2. ASSUME NEW r \in Requests, NEW d \in Devices,
             NEW n \in Requests \cup {None}, TakeChallenge(r, d, n)
      PROVE Inv'
  <2>1. ASSUME n # None, fate[n] = "stored", clock <= born[n] + ChallengeTTL
        PROVE  pending[d] = [nonce |-> n, expires |-> born[n] + ChallengeTTL]
    <3>1. n \in Requests /\ phase[n] = "challenge" /\ device[n] = d
      BY <1>2, <2>1 DEF TakeChallenge, Signable
    <3>2. FreshIsPending
      OBVIOUS
    <3>3. QED
      BY ONLY <2>1, <3>1, <3>2 DEF FreshIsPending
  <2>2. pending[d] = None \/ pending[d].nonce # n \/ Expired(pending[d])
          => r \in excuse'
    <3>1. born[n] + ChallengeTTL \in Nat \/ n = None
      OBVIOUS
    <3>2. n # None => [nonce |-> n, expires |-> born[n] + ChallengeTTL] # None
      BY <3>1
    <3>3. QED
      BY <1>2, <2>1, <3>1, <3>2 DEF TakeChallenge, Excused, Expired
  <2>3. /\ phase[r] = "new" /\ taken[r] = None
        /\ device' = [device EXCEPT ![r] = d]
        /\ signed' = [signed EXCEPT ![r] = n]
        /\ pending' = [pending EXCEPT ![d] = None]
        /\ excuse \subseteq excuse' /\ excuse' \in SUBSET Requests
        /\ late' = IF d \in revoked THEN late \cup {r} ELSE late
        /\ UNCHANGED <<clock, storeVars, tickets, grants, born, streams,
                       strayed, granted, used>>
    BY <1>2 DEF TakeChallenge, Go
  <2>4. CASE pending[d] = None
    <3>1. phase' = [phase EXCEPT ![r] = "401"] /\ UNCHANGED <<taken, fate>>
      BY <1>2, <2>4 DEF TakeChallenge, Go
    <3>2. QED
      BY <2>2, <2>3, <2>4, <3>1
  <2>5. CASE pending[d] # None
    <3> DEFINE m == pending[d].nonce
    <3>1. /\ phase' = [phase EXCEPT ![r] = IF Expired(pending[d]) THEN "401"
                                           ELSE "lookup"]
          /\ taken' = [taken EXCEPT ![r] = m]
          /\ fate' = [fate EXCEPT ![m] = "taken"]
      BY <1>2, <2>5 DEF TakeChallenge, Go
    <3>2. /\ m \in Requests /\ m # r
          /\ phase[m] = "challenge" /\ device[m] = d /\ fate[m] = "stored"
      BY <2>3, <2>5
    <3>3. \A q \in Requests : taken[q] # m
      BY <3>2
    <3>4. \A e \in Devices : e # d /\ pending[e] # None => pending[e].nonce # m
      BY <3>2
    <3> HIDE DEF m
    <3>5. TypeOK' /\ NewIsBlank' /\ DeviceIsSet' /\ TicketIsUnused'
      BY <2>3, <3>1, <3>2
    <3>6. PendingIsStored'
      BY <2>3, <3>1, <3>2, <3>4
    <3>7. TakenIsUnique'
      BY <2>3, <3>1, <3>2, <3>3
    <3>8. FreshIsPending'
      BY <2>3, <3>1, <3>2 DEF m
    <3>9. RefusedIsExcused'
      BY <2>2, <2>3, <3>1, <3>2 DEF m
    <3>10. LateIsRefused'
      BY <2>3, <3>1, <3>2
    <3>11. QED
      BY <2>3, <3>5, <3>6, <3>7, <3>8, <3>9, <3>10
  <2>6. QED
    BY <2>4, <2>5
<1>3. ASSUME NEW r \in Requests, NEW d \in Devices, RevokeDevice(r, d)
      PROVE Inv'
  BY <1>3 DEF RevokeDevice, Go, MarkRevoked, Known
<1>4. ASSUME NEW r \in Requests, StoreChallenge(r) PROVE Inv'
  <2> DEFINE d == device[r]
  <2>1. /\ phase[r] = "store" /\ phase' = [phase EXCEPT ![r] = "challenge"]
        /\ d \in Devices /\ d \in paired /\ fate[r] = "none"
    BY <1>4 DEF StoreChallenge, Go
  <2>2. /\ pending' = [e \in Devices |->
              IF e = d THEN [nonce |-> r, expires |-> clock + ChallengeTTL]
              ELSE IF Swept(e) THEN None ELSE pending[e]]
        /\ fate' = [q \in Requests |->
              IF q = r THEN "stored"
              ELSE IF pending[d] # None /\ q = pending[d].nonce THEN "replaced"
              ELSE fate[q]]
        /\ born' = [born EXCEPT ![r] = clock]
        /\ UNCHANGED <<clock, storeVars, tickets, grants, device, signed, taken,
                       excuse, late, streams, strayed, granted, used>>
    BY <1>4 DEF StoreChallenge
  <2>3. TypeOK'
    BY <2>1, <2>2
  <2>4. /\ NewIsBlank' /\ DeviceIsSet' /\ TicketIsUnused' /\ RefusedIsExcused'
        /\ LateIsRefused'
    BY <2>1, <2>2
  <2>5. PendingIsStored'
    BY <2>1, <2>2
  <2>6. TakenIsUnique'
    BY <2>1, <2>2
  <2>7. FreshIsPending'
    BY <2>1, <2>2 DEF Swept, Expired
  <2>8. PendingIsBoundedByDevices' /\ EveryRevocationHadAGrant'
    BY <2>1, <2>2
  <2>9. QED
    BY <2>2, <2>3, <2>4, <2>5, <2>6, <2>7, <2>8
<1>5. ASSUME NEW r \in Requests, NEW path \in Paths, CheckSignature(r, path)
      PROVE Inv'
  BY <1>5, AfterIsPast DEF CheckSignature, Go
<1>6. ASSUME NEW r \in Requests, NEW path \in Paths, ConsumeTicket(r, path)
      PROVE Inv'
  <2>1. strayed' = strayed
    BY <1>6, TicketPaths DEF ConsumeTicket
  <2>2. QED
    BY <1>6, <2>1 DEF ConsumeTicket
<1>7. ASSUME NEW r \in Requests, IssueTicket(r) PROVE Inv'
  BY <1>7 DEF IssueTicket, Go, TicketSwept
<1>8. ASSUME NEW r \in Requests, ConsumeGrant(r) PROVE Inv'
  <2>1. /\ phase[r] = "stepup" /\ device[r] \in Devices
        /\ \/ /\ phase' = [phase EXCEPT ![r] = "revoke"]
              /\ grants[device[r]] # None
              /\ used' = [used EXCEPT ![device[r]] = @ + 1]
           \/ /\ phase' = [phase EXCEPT ![r] = "denied"]
              /\ UNCHANGED used
        /\ grants' = [grants EXCEPT ![device[r]] = None]
        /\ UNCHANGED <<clock, storeVars, pending, tickets, device, signed,
                       taken, fate, born, excuse, late, streams, strayed,
                       granted>>
    BY <1>8 DEF ConsumeGrant, Go, GrantIsGood
  <2>2. TypeOK'
    BY <2>1
  <2>3. NewIsBlank' /\ DeviceIsSet' /\ TicketIsUnused'
    BY <2>1
  <2>4. PendingIsStored' /\ TakenIsUnique' /\ FreshIsPending'
    BY <2>1
  <2>5. RefusedIsExcused' /\ LateIsRefused'
    BY <2>1
  <2>6. EveryRevocationHadAGrant'
    BY <2>1
  <2>7. QED
    BY <2>1, <2>2, <2>3, <2>4, <2>5, <2>6
<1>9. ASSUME NEW d \in Devices, Grant(d) PROVE Inv'
  BY <1>9 DEF Grant
<1>10. ASSUME NEW d \in Devices, PairDevice(d) PROVE Inv'
  BY <1>10 DEF PairDevice
<1>11. CASE Tick
  BY <1>11 DEF Tick
<1>12. CASE DaemonRestart
  BY <1>12 DEF DaemonRestart
<1>13. ASSUME NEW r \in Requests, LookupDevice(r) PROVE Inv'
  <2>1. PICK row \in DeviceRow(device[r]) :
           \/ /\ row = "usable"
              /\ Go(r, "lookup", "verify")
              /\ UNCHANGED excuse
           \/ /\ row # "usable"
              /\ Go(r, "lookup", "401")
              /\ excuse' = excuse \cup {r}
    BY <1>13 DEF LookupDevice
  <2>2. /\ phase[r] = "lookup"
        /\ \/ /\ device[r] \notin revoked
              /\ phase' = [phase EXCEPT ![r] = "verify"]
              /\ UNCHANGED excuse
           \/ /\ phase' = [phase EXCEPT ![r] = "401"]
              /\ excuse' = excuse \cup {r}
    BY <2>1, UsableIsNotRevoked DEF Go
  <2>3. UNCHANGED <<clock, storeVars, memoryVars, device, signed, taken, fate,
                    born, late, streams, strayed, granted, used>>
    BY <1>13 DEF LookupDevice
  <2>4. TypeOK' /\ NewIsBlank' /\ DeviceIsSet' /\ TicketIsUnused'
    BY <2>2, <2>3
  <2>5. PendingIsStored' /\ TakenIsUnique' /\ FreshIsPending'
    BY <2>2, <2>3
  <2>6. RefusedIsExcused' /\ LateIsRefused'
    BY <2>2, <2>3
  <2>7. QED
    BY <2>3, <2>4, <2>5, <2>6
<1>14. CASE UNCHANGED vars
  BY <1>14 DEF vars
<1>15. QED
  BY <1>1, <1>2, <1>3, <1>4, <1>5, <1>6, <1>7, <1>8, <1>9, <1>10, <1>11,
     <1>12, <1>13, <1>14 DEF Next

\* The invariant holds throughout.
LEMMA InvHolds == Spec => []Inv
BY InitInv, NextInv, PTL DEF Spec

-----------------------------------------------------------------------------
(***************************************************************************)
(* What follows from it.                                                   *)
(***************************************************************************)

\* Every variable keeps its type: expiries stay in range, and a device whose
\* row says revoked has a row.
THEOREM TypeCorrect == Spec => []TypeOK
<1>1. Inv => TypeOK
  BY DEF Inv
<1>2. QED
  BY <1>1, InvHolds, PTL

\* However requests interleave, no challenge authenticates two calls and no
\* ticket opens two streams (Verify, wsTicketStore.consume).
THEOREM SingleUse == Spec => []CredentialsAreSingleUse
<1>1. Inv => CredentialsAreSingleUse
  BY DEF Inv, TakenIsUnique, TicketIsUnused, CredentialsAreSingleUse, Accepted
<1>2. QED
  BY <1>1, InvHolds, PTL

\* Whatever paths are asked for, a ticket gives access to streams and to
\* nothing else (wrapSessionAuth, splitSessionPath).
THEOREM TicketsAreNarrow == Spec => []TicketsOpenStreamsOnly
<1>1. Inv => TicketsOpenStreamsOnly
  BY DEF Inv
<1>2. QED
  BY <1>1, InvHolds, PTL

\* No two revocations share a grant (StepUpGate.Consume).
THEOREM RevocationsAreGranted == Spec => []EveryRevocationHadAGrant
<1>1. Inv => EveryRevocationHadAGrant
  BY DEF Inv
<1>2. QED
  BY <1>1, InvHolds, PTL

\* The challenges in memory are those of paired devices (IssueChallenge).
THEOREM MemoryIsBounded == Spec => []PendingIsBoundedByDevices
<1>1. Inv => PendingIsBoundedByDevices
  BY DEF Inv
<1>2. QED
  BY <1>1, InvHolds, PTL

\* A call is refused for a reason only: bad signature, a challenge that was
\* not outstanding any more, restart, a row that is revoked or unreadable.
\* What is done in the name of other devices is none (Verify, sweepLocked).
THEOREM OutstandingIsLetIn == Spec => []OutstandingChallengeIsGood
<1>1. Inv => OutstandingChallengeIsGood
  BY DEF Inv, RefusedIsExcused
<1>2. QED
  BY <1>1, InvHolds, PTL

\* A call that begins after the device's revocation is stored is not let in,
\* gets no ticket and opens no stream, whatever challenge it is signed for.
THEOREM RevocationStopsNewCalls == Spec => []RevokedCallsFail
<1>1. Inv => RevokedCallsFail
  BY DEF Inv, LateIsRefused, RevokedCallsFail, Accepted
<1>2. QED
  BY <1>1, InvHolds, PTL

=============================================================================
