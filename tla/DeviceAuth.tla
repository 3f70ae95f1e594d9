----------------------------- MODULE DeviceAuth -----------------------------
(***************************************************************************)
(* How a paired device is authenticated: the challenge-response of         *)
(* DeviceAuthenticator, which every request to the sessions and the files  *)
(* goes through, the tickets that stand for it on a WebSocket, and the     *)
(* step-up grant that revoking a device takes.                             *)
(*                                                                         *)
(* Challenges, tickets and grants live in memory, each behind a mutex of   *)
(* its own; the devices live in SQLite and are looked up outside of them.  *)
(* A handler is therefore several steps, and handlers interleave.  A       *)
(* challenge or ticket is named after the request it was issued to, which  *)
(* makes it unique as 32 and 24 random bytes do; a signature is named      *)
(* after the challenge it was made for.  Revoking is the only action that  *)
(* asks for a grant.  Which of the checks a request meets is decided by    *)
(* its path, which newRouter, wrapSessionAuth and the mux of the sessions  *)
(* each read in a way of their own.                                        *)
(***************************************************************************)
EXTENDS Naturals, Sequences

CONSTANTS
    Devices,         \* device ids, known or not
    Requests,        \* requests, each sent at most once
    Paths,           \* request paths, as sequences of their elements
    None,
    ChallengeTTL,    \* lifetimes in ticks
    TicketTTL,
    StepUpTTL,
    MaxClock,        \* ticks that are explored
    MaxGrants,       \* grants per device that are explored
    Faults           \* "lookup": a row cannot be read, or its key not decoded

ASSUME NoneAssumption ==
    None \notin Requests \cup [nonce : Requests, expires : Nat]
ASSUME PathsAssumption == Paths \subseteq Seq(STRING) \ {<<>>}
ASSUME TimesAssumption ==
    /\ {ChallengeTTL, TicketTTL, StepUpTTL} \subseteq Nat
    /\ MaxClock \in Nat
    /\ MaxGrants \in Nat
ASSUME FaultsAssumption == Faults \subseteq {"lookup"}

VARIABLES
    clock,
    paired,      \* devices with a row
    revoked,     \* devices whose row says revoked
    pending,     \* Devices -> its one outstanding challenge, or None
    tickets,     \* Requests -> expiry of the ticket, or None
    grants,      \* Devices -> expiry of its step-up grant, or None
    phase,       \* Requests -> where its handler is, or how it was answered
    device,      \* Requests -> X-Device-Id
    signed,      \* Requests -> the challenge its signature is for
    taken,       \* Requests -> the challenge Verify took from the map
    fate,        \* history: Requests -> what became of its challenge
    born,        \* history: Requests -> when it was stored
    excuse,      \* history: the calls that need not be accepted
    late,        \* history: the calls made after the device was revoked
    streams,     \* history: Requests -> times its ticket let a request pass
    strayed,     \* history: what else than a stream a ticket gave access to
    granted,     \* history: Devices -> grants issued
    used         \* history: Devices -> grants that let a revocation through

storeVars == <<paired, revoked>>
memoryVars == <<pending, tickets, grants>>
requestVars == <<phase, device, signed, taken>>
historyVars == <<fate, born, excuse, late, streams, strayed, granted, used>>
vars == <<clock, storeVars, memoryVars, requestVars, historyVars>>

Times == 0 .. MaxClock + ChallengeTTL + TicketTTL + StepUpTTL
Challenges == [nonce : Requests, expires : Times]
Answered == {"challenge", "ok", "401", "denied", "lost"}
Phases ==
    {"new", "store", "lookup", "verify", "ticket", "stepup", "revoke"} \cup Answered

TypeOK ==
    /\ clock \in 0 .. MaxClock
    /\ paired \in SUBSET Devices
    /\ revoked \in SUBSET paired
    /\ pending \in [Devices -> Challenges \cup {None}]
    /\ tickets \in [Requests -> Times \cup {None}]
    /\ grants \in [Devices -> Times \cup {None}]
    /\ phase \in [Requests -> Phases]
    /\ device \in [Requests -> Devices \cup {None}]
    /\ signed \in [Requests -> Requests \cup {None}]
    /\ taken \in [Requests -> Requests \cup {None}]
    /\ fate \in [Requests -> {"none", "stored", "replaced", "taken"}]
    /\ born \in [Requests -> 0 .. MaxClock]
    /\ excuse \in SUBSET Requests
    /\ late \in SUBSET Requests
    /\ streams \in [Requests -> 0 .. 2]
    /\ strayed \subseteq {"session"}
    /\ granted \in [Devices -> 0 .. MaxGrants]
    /\ used \in [Devices -> Nat]

Init ==
    /\ clock = 0
    /\ paired = {}
    /\ revoked = {}
    /\ pending = [d \in Devices |-> None]
    /\ tickets = [r \in Requests |-> None]
    /\ grants = [d \in Devices |-> None]
    /\ phase = [r \in Requests |-> "new"]
    /\ device = [r \in Requests |-> None]
    /\ signed = [r \in Requests |-> None]
    /\ taken = [r \in Requests |-> None]
    /\ fate = [r \in Requests |-> "none"]
    /\ born = [r \in Requests |-> 0]
    /\ excuse = {}
    /\ late = {}
    /\ streams = [r \in Requests |-> 0]
    /\ strayed = {}
    /\ granted = [d \in Devices |-> 0]
    /\ used = [d \in Devices |-> 0]

Go(r, from, to) ==
    /\ phase[r] = from
    /\ phase' = [phase EXCEPT ![r] = to]

\* GetDevice: the row, revoked or not.
Known(d) == d \in paired

\* Store.Device: what it may report of a device.  An error of the database and
\* a key that cannot be decoded are reported like a device nobody knows.
DeviceRow(d) ==
    {CASE ~Known(d) -> "unknown"
       [] Known(d) /\ d \in revoked -> "revoked"
       [] OTHER -> "usable"}
      \cup {row \in {"unknown"} : "lookup" \in Faults}

-----------------------------------------------------------------------------
(***************************************************************************)
(* Routes.  A path that ends in "/" has the last element "".               *)
(***************************************************************************)

\* Mutant: everything below a session is taken for its stream.
TicketCheckedBelow(path) == path[1] = "sessions" /\ Len(path) > 2

\* wrapSessionAuth: strings.HasSuffix(path, "/stream") below /sessions/.
TicketChecked(path) ==
    path[1] = "sessions" /\ Len(path) > 1 /\ path[Len(path)] = "stream"

\* The patterns that newRouter puts behind RequireDevice.
DeviceChecked(path) ==
    \/ path[1] = "sessions" /\ ~TicketChecked(path)
    \/ path \in {<<"files">>, <<"files", "download">>, <<"files", "upload">>}
    \/ Len(path) > 2 /\ SubSeq(path, 1, 2) = <<"files", "upload">>
    \/ path \in {<<"owner", "devices">>, <<"owner", "devices", "revoke">>,
                 <<"auth", "ws-ticket">>}

\* Where a request is once its device was verified.
After(path) ==
    CASE path = <<"owner", "devices", "revoke">> -> "stepup"
      [] path = <<"auth", "ws-ticket">> -> "ticket"
      [] OTHER -> "ok"

\* splitSessionPath and handleSession: what a path below /sessions/ refers to.
\* "/sessions/x/" is the session x, and no session has the id "stream".
SessionHandler(path) ==
    LET tail == SubSeq(path, 3, Len(path)) IN
    CASE path[2] = "" -> "404"
      [] path[2] # "" /\ tail = <<"stream">> -> "stream"
      [] path[2] \notin {"", "stream"} /\ tail \in {<<>>, <<"">>} -> "session"
      [] OTHER -> "404"

-----------------------------------------------------------------------------
(***************************************************************************)
(* POST /auth/challenge: DeviceAuthenticator.IssueChallenge.               *)
(***************************************************************************)

\* Mutant: a challenge is kept for every id that is asked for.
LookupForEverybody(r, d) ==
    /\ Go(r, "new", "store")
    /\ device' = [device EXCEPT ![r] = d]
    /\ UNCHANGED <<clock, storeVars, memoryVars, signed, taken, historyVars>>

\* The nonce, and the look-up outside the mutex: a nonce for an unknown or
\* revoked device is answered but not stored.  Anybody may ask for one.
LookupForChallenge(r, d) ==
    /\ \E row \in DeviceRow(d) :
          Go(r, "new", IF row = "usable" THEN "store" ELSE "challenge")
    /\ device' = [device EXCEPT ![r] = d]
    /\ UNCHANGED <<clock, storeVars, memoryVars, signed, taken, historyVars>>

\* time.After is strict: a challenge is good at the moment it expires.
Expired(challenge) == clock > challenge.expires

\* Mutant: the sweep takes the last moment away.
SweepAtExpiry(d) == pending[d] # None /\ clock >= pending[d].expires

\* What sweepLocked deletes.
Swept(d) == pending[d] # None /\ Expired(pending[d])

\* The sweep, and the challenge replaces the one the device had.
StoreChallenge(r) ==
    LET d == device[r] IN
    /\ Go(r, "store", "challenge")
    /\ pending' = [e \in Devices |->
          IF e = d THEN [nonce |-> r, expires |-> clock + ChallengeTTL]
          ELSE IF Swept(e) THEN None ELSE pending[e]]
    /\ fate' = [q \in Requests |->
          IF q = r THEN "stored"
          ELSE IF pending[d] # None /\ q = pending[d].nonce THEN "replaced"
          ELSE fate[q]]
    /\ born' = [born EXCEPT ![r] = clock]
    /\ UNCHANGED <<clock, storeVars, tickets, grants, device, signed, taken,
                   excuse, late, streams, strayed, granted, used>>

-----------------------------------------------------------------------------
(***************************************************************************)
(* RequireDevice and DeviceAuthenticator.Verify.                           *)
(***************************************************************************)

\* Which challenge a call in the name of d may be signed for: one d was
\* answered, or none at all (anybody's signature, which does not verify).
Signable(d) ==
    {None} \cup {q \in Requests : phase[q] = "challenge" /\ device[q] = d}

\* The call need not be accepted: bad signature; challenge replaced by a later
\* one for the device, taken by another call in its name, never stored, lost in
\* a restart or expired; device revoked.
Excused(d, n) ==
    \/ n = None
    \/ n # None /\ (fate[n] # "stored" \/ clock > born[n] + ChallengeTTL)
    \/ d \in revoked

\* Mutant: the challenge stays in the map until the signature was checked.
TakeChallengeKeeping(r, d, n) ==
    /\ n \in Signable(d)
    /\ device' = [device EXCEPT ![r] = d]
    /\ signed' = [signed EXCEPT ![r] = n]
    /\ \/ /\ pending[d] = None
          /\ Go(r, "new", "401")
          /\ UNCHANGED taken
       \/ /\ pending[d] # None
          /\ Go(r, "new", IF Expired(pending[d]) THEN "401" ELSE "lookup")
          /\ taken' = [taken EXCEPT ![r] = pending[d].nonce]
    /\ excuse' = IF Excused(d, n) THEN excuse \cup {r} ELSE excuse
    /\ late' = IF d \in revoked THEN late \cup {r} ELSE late
    /\ UNCHANGED <<clock, storeVars, memoryVars, fate, born, streams, strayed,
                   granted, used>>

\* Under the mutex the challenge is taken out of the map, whatever comes of
\* it; no challenge and an expired one are refused.
TakeChallenge(r, d, n) ==
    /\ n \in Signable(d)
    /\ device' = [device EXCEPT ![r] = d]
    /\ signed' = [signed EXCEPT ![r] = n]
    /\ \/ /\ pending[d] = None
          /\ Go(r, "new", "401")
          /\ UNCHANGED <<taken, fate>>
       \/ /\ pending[d] # None
          /\ Go(r, "new", IF Expired(pending[d]) THEN "401" ELSE "lookup")
          /\ taken' = [taken EXCEPT ![r] = pending[d].nonce]
          /\ fate' = [fate EXCEPT ![pending[d].nonce] = "taken"]
    /\ pending' = [pending EXCEPT ![d] = None]
    /\ excuse' = IF Excused(d, n) THEN excuse \cup {r} ELSE excuse
    /\ late' = IF d \in revoked THEN late \cup {r} ELSE late
    /\ UNCHANGED <<clock, storeVars, tickets, grants, born, streams, strayed,
                   granted, used>>

\* Mutant: a revoked device is only told apart in its response time.
LookupDeviceRevoked(r) ==
    /\ \E row \in DeviceRow(device[r]) :
          \/ /\ row # "unknown"
             /\ Go(r, "lookup", "verify")
             /\ UNCHANGED excuse
          \/ /\ row = "unknown"
             /\ Go(r, "lookup", "401")
             /\ excuse' = excuse \cup {r}
    /\ UNCHANGED <<clock, storeVars, memoryVars, device, signed, taken, fate,
                   born, late, streams, strayed, granted, used>>

\* The look-up, outside the mutex.
LookupDevice(r) ==
    /\ \E row \in DeviceRow(device[r]) :
          \/ /\ row = "usable"
             /\ Go(r, "lookup", "verify")
             /\ UNCHANGED excuse
          \/ /\ row # "usable"
             /\ Go(r, "lookup", "401")
             /\ excuse' = excuse \cup {r}
    /\ UNCHANGED <<clock, storeVars, memoryVars, device, signed, taken, fate,
                   born, late, streams, strayed, granted, used>>

\* The signature is checked with the key that was looked up, whatever has
\* become of the row.  The request goes on to its handler or, if it is a
\* revocation, to RequireStepUp.
CheckSignature(r, path) ==
    /\ DeviceChecked(path)
    /\ Go(r, "verify", IF signed[r] = taken[r] THEN After(path) ELSE "401")
    /\ UNCHANGED <<clock, storeVars, memoryVars, device, signed, taken,
                   historyVars>>

-----------------------------------------------------------------------------
(***************************************************************************)
(* The tickets of the WebSocket handshake.                                 *)
(***************************************************************************)

\* What wsTicketStore.sweepLocked deletes.
TicketSwept(q) == tickets[q] # None /\ clock > tickets[q]

\* The handshake with ticket q goes through (Before is strict).
TicketIsGood(q) == clock < tickets[q]

\* wsTicketStore.issue, with its sweep.
IssueTicket(r) ==
    /\ Go(r, "ticket", "ok")
    /\ tickets' = [q \in Requests |->
          IF q = r THEN clock + TicketTTL
          ELSE IF TicketSwept(q) THEN None
          ELSE tickets[q]]
    /\ UNCHANGED <<clock, storeVars, pending, grants, device, signed, taken,
                   historyVars>>

\* What a ticket may give access to.
Allowed == {"stream", "404"}

\* A request with a ticket that exists: it is deleted, and the request goes
\* on to the sessions when it has not expired.  With any other nothing
\* happens.
ConsumeTicket(q, path) ==
    /\ TicketChecked(path)
    /\ tickets[q] # None
    /\ tickets' = [tickets EXCEPT ![q] = None]
    /\ IF TicketIsGood(q)
       THEN /\ streams' = [streams EXCEPT ![q] = @ + 1]
            /\ strayed' = strayed \cup ({SessionHandler(path)} \ Allowed)
       ELSE UNCHANGED <<streams, strayed>>
    /\ UNCHANGED <<clock, storeVars, pending, grants, requestVars, fate,
                   born, excuse, late, granted, used>>

-----------------------------------------------------------------------------
(***************************************************************************)
(* Step-up and revocation.                                                 *)
(***************************************************************************)

\* StepUpGate.Grant, after a ceremony that is not part of the daemon yet.
Grant(d) ==
    /\ granted[d] < MaxGrants
    /\ grants' = [grants EXCEPT ![d] = clock + StepUpTTL]
    /\ granted' = [granted EXCEPT ![d] = @ + 1]
    /\ UNCHANGED <<clock, storeVars, pending, tickets, requestVars, fate,
                   born, excuse, late, streams, strayed, used>>

\* A grant that is there and not expired (time.After is strict).
GrantIsGood(d) == grants[d] # None /\ clock <= grants[d]

\* Mutant: a grant that has not expired stays.
ConsumeGrantKeeping(r) ==
    LET d == device[r] IN
    /\ \/ /\ Go(r, "stepup", "revoke")
          /\ GrantIsGood(d)
          /\ used' = [used EXCEPT ![d] = @ + 1]
       \/ /\ Go(r, "stepup", "denied")
          /\ ~GrantIsGood(d)
          /\ UNCHANGED used
    /\ UNCHANGED <<clock, storeVars, memoryVars, device, signed, taken, fate,
                   born, excuse, late, streams, strayed, granted>>

\* RequireStepUp and StepUpGate.Consume: the grant goes, expired or not.
ConsumeGrant(r) ==
    LET d == device[r] IN
    /\ \/ /\ Go(r, "stepup", "revoke")
          /\ GrantIsGood(d)
          /\ used' = [used EXCEPT ![d] = @ + 1]
       \/ /\ Go(r, "stepup", "denied")
          /\ ~GrantIsGood(d)
          /\ UNCHANGED used
    /\ grants' = [grants EXCEPT ![d] = None]
    /\ UNCHANGED <<clock, storeVars, pending, tickets, device, signed, taken,
                   fate, born, excuse, late, streams, strayed, granted>>

\* The UPDATE of DB.RevokeDevice, which finds a row or does not.
MarkRevoked(d) == revoked' = IF Known(d) THEN revoked \cup {d} ELSE revoked

\* handleDevicesRevoke; an unknown device is a 404.
RevokeDevice(r, d) ==
    /\ Go(r, "revoke", "ok")
    /\ MarkRevoked(d)
    /\ UNCHANGED <<clock, paired, memoryVars, device, signed, taken,
                   historyVars>>

-----------------------------------------------------------------------------

\* The INSERT at the end of a pairing; the id is new.
PairDevice(d) ==
    /\ d \notin paired
    /\ paired' = paired \cup {d}
    /\ UNCHANGED <<clock, revoked, memoryVars, requestVars, historyVars>>

Tick ==
    /\ clock < MaxClock
    /\ clock' = clock + 1
    /\ UNCHANGED <<storeVars, memoryVars, requestVars, historyVars>>

\* What is in memory is lost, and every request that is under way; nothing
\* issued before is good afterwards.
DaemonRestart ==
    /\ pending' = [d \in Devices |-> None]
    /\ tickets' = [r \in Requests |-> None]
    /\ grants' = [d \in Devices |-> None]
    /\ phase' = [r \in Requests |->
          IF phase[r] \in {"new"} \cup Answered THEN phase[r] ELSE "lost"]
    /\ fate' = [r \in Requests |->
          IF fate[r] = "stored" THEN "replaced" ELSE fate[r]]
    /\ UNCHANGED <<clock, storeVars, device, signed, taken, born, excuse,
                   late, streams, strayed, granted, used>>

Next ==
    \/ \E r \in Requests, d \in Devices :
          \/ LookupForChallenge(r, d)
          \/ \E n \in Requests \cup {None} : TakeChallenge(r, d, n)
          \/ RevokeDevice(r, d)
    \/ \E r \in Requests :
          \/ StoreChallenge(r)
          \/ LookupDevice(r)
          \/ \E path \in Paths : CheckSignature(r, path) \/ ConsumeTicket(r, path)
          \/ IssueTicket(r)
          \/ ConsumeGrant(r)
    \/ \E d \in Devices : Grant(d) \/ PairDevice(d)
    \/ Tick
    \/ DaemonRestart

Spec == Init /\ [][Next]_vars

-----------------------------------------------------------------------------
(***************************************************************************)
(* Properties.                                                             *)
(***************************************************************************)

\* The calls that got past RequireDevice.
Accepted(r) ==
    signed[r] # None /\ phase[r] \in {"ok", "ticket", "stepup", "revoke", "denied"}

\* However requests interleave, a challenge authenticates one call only, and
\* a ticket opens one stream only (Verify: a challenge can never be verified
\* twice; consume: a ticket is destroyed on its first use).
CredentialsAreSingleUse ==
    /\ \A q, r \in Requests :
          Accepted(q) /\ Accepted(r) /\ signed[q] = signed[r] => q = r
    /\ \A r \in Requests : streams[r] <= 1

\* A ticket opens a stream and nothing else: whatever the suffix test of
\* wrapSessionAuth lets pass, splitSessionPath takes for a stream or for
\* nothing (main.go, wrapSessionAuth: that one path alone accepts a ticket).
TicketsOpenStreamsOnly == strayed = {}

\* Every revocation that was let through used up a grant of its own, issued to
\* the device that asked for it (stepup.go: narrow and single-use).
EveryRevocationHadAGrant ==
    \A d \in Devices :
        used[d] + (IF grants[d] = None THEN 0 ELSE 1) <= granted[d]

\* What a device begins after its revocation is stored comes to nothing: a
\* call made from then on is not let in, gets no ticket and opens no stream,
\* also with a challenge that was stored after the revocation because its
\* look-up came before (Verify looks the row up again).  Calls, tickets and
\* streams from before go on.
RevokedCallsFail ==
    \A r \in late : ~Accepted(r) /\ tickets[r] = None /\ streams[r] = 0

\* Only devices that were paired take up memory: requests for invented ids
\* leave nothing behind (IssueChallenge: bounded by the number of paired
\* devices).
PendingIsBoundedByDevices ==
    \A d \in Devices : pending[d] # None => d \in paired

\* A challenge that is outstanding is good for its whole lifetime: a call
\* signed for it is let in unless something in the name of the device came in
\* between, a later challenge or another call (anybody may ask for the first
\* and attempt the second), the daemon restarted, the row could not be read or
\* says revoked.  What names other devices, and the sweep they cause, never
\* spoils it (IssueChallenge, sweepLocked, Verify).
OutstandingChallengeIsGood ==
    \A r \in Requests :
        phase[r] = "401" => r \in excuse

=============================================================================
