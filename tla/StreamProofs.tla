---------------------------- MODULE StreamProofs ----------------------------
(***************************************************************************)
(* Machine-checked proofs about Stream, for any number of connections, any *)
(* delays and any faults.                                                  *)
(***************************************************************************)
EXTENDS Stream, FiniteSetTheorems, TLAPS

ConnTypes ==
    /\ dialed \in Conns \cup {NoConn}
    /\ channel \in Conns \cup {NoConn}
    /\ link \in [Conns -> {"none", "dialing", "open", "refused", "closed", "dead"}]
    /\ main \in [Conns -> {"none", "attach", "pump", "drain"}]
    /\ attached \in SUBSET Conns

\* A connection is being dialed while _open waits for its handshake, and only
\* then.
DialedIsAwaited ==
    /\ client = "handshake" => dialed \in Conns
    /\ client # "handshake" => dialed = NoConn

\* The channel was opened once, and its number is not used again before the
\* app has let go of it.  An app that is neither disposed nor listening has a
\* channel that is closed.
ChannelWasOpen ==
    \A c \in Conns :
        /\ c \in {dialed, channel} => link[c] # "none"
        /\ c = channel => link[c] \in {"open", "closed", "dead"}
        /\ c = channel /\ ~disposed /\ client # "listening" => link[c] = "closed"

\* A tmux client belongs to a handler that is still to detach it, and a
\* handler to a connection that was upgraded.
AttachedIsHandled ==
    /\ \A c \in attached : main[c] \in {"pump", "drain"}
    /\ \A c \in Conns : main[c] # "none" => link[c] \in {"open", "closed", "dead"}

\* A socket that shows the end of its session is stopped, or will be at the
\* end of the connection.
EndedIsStopped == shown = "ended" => closedByUser /\ client \in {"listening", "stopped"}

Inv ==
    /\ ConnTypes
    /\ DialedIsAwaited
    /\ ChannelWasOpen
    /\ AttachedIsHandled
    /\ EndedIsStopped
    /\ NoForgottenConnection

USE ConnsAssumption DEF Gone

\* There is no connection at first.
LEMMA InitInv == Init => Inv
BY DEF Init, Inv, ConnTypes, DialedIsAwaited, ChannelWasOpen, AttachedIsHandled,
    EndedIsStopped, NoForgottenConnection

\* Every step of the app, of a handler or of the daemon preserves it.
LEMMA NextInv == Inv /\ [Next]_vars => Inv'
<1> SUFFICES ASSUME Inv, [Next]_vars PROVE Inv'
  OBVIOUS
<1> USE DEF Inv, ConnTypes, DialedIsAwaited, ChannelWasOpen, AttachedIsHandled,
        EndedIsStopped, NoForgottenConnection, clientVars, connVars, sessionVars
<1>1. CASE Connect
  BY <1>1 DEF Connect
<1>2. CASE Dispose
  BY <1>2 DEF Dispose
<1>3. CASE TimerFires
  BY <1>3 DEF TimerFires
<1>4. ASSUME NEW c \in Conns, Dial(c) PROVE Inv'
  BY <1>4 DEF Dial
<1>5. CASE NoTicket \/ TicketUnanswered \/ TicketFailsLate
  BY <1>5 DEF NoTicket, TicketUnanswered, TicketFailsLate, ScheduleReconnect
<1>6. CASE Ready
  BY <1>6 DEF Ready
<1>7. CASE NotReady
  BY <1>7 DEF NotReady, ScheduleReconnect
<1>8. CASE OnExit
  BY <1>8 DEF OnExit
<1>9. CASE OnDone
  BY <1>9 DEF OnDone, ScheduleReconnect
<1>10. ASSUME NEW c \in Conns, Upgrade(c) PROVE Inv'
  BY <1>10 DEF Upgrade
<1>11. ASSUME NEW c \in Conns, AttachClient(c) PROVE Inv'
  BY <1>11 DEF AttachClient
<1>12. ASSUME NEW c \in Conns, Recycle(c) PROVE Inv'
  BY <1>12 DEF Recycle
<1>13. ASSUME NEW c \in Conns, ReaderEnds(c) \/ PumpEnds(c) \/ Detach(c)
                              \/ ReaderCannotSend(c) \/ UserDetaches(c)
       PROVE Inv'
  BY <1>13 DEF ReaderEnds, PumpEnds, Detach, ReaderCannotSend, UserDetaches
<1>14. ASSUME NEW c \in Conns, Refuse(c) \/ Break(c) \/ GoSilent(c) \/ Surface(c)
       PROVE Inv'
  BY <1>14 DEF Refuse, Break, GoSilent, Surface
<1>15. CASE CloseRow \/ TmuxEnds \/ DaemonStart
  BY <1>15 DEF CloseRow, TmuxEnds, DaemonStart
<1>16. CASE DaemonCrash
  BY <1>16 DEF DaemonCrash
<1>17. CASE UNCHANGED vars
  BY <1>17 DEF vars
<1>18. QED
  BY <1>1, <1>2, <1>3, <1>4, <1>5, <1>6, <1>7, <1>8, <1>9, <1>10, <1>11,
     <1>12, <1>13, <1>14, <1>15, <1>16, <1>17 DEF Next, ClientStep, HandlerStep

\* The invariant holds throughout.
LEMMA InvHolds == Spec => []Inv
BY InitInv, NextInv, PTL DEF Spec

-----------------------------------------------------------------------------
(***************************************************************************)
(* What follows from it.                                                   *)
(***************************************************************************)

\* Before dispose the app knows every connection it has, across any number of
\* drops and reconnects (_open, _scheduleReconnect).
THEOREM ConnectionsAreKnown == Spec => []NoForgottenConnection
<1>1. Inv => NoForgottenConnection
  BY DEF Inv
<1>2. QED
  BY <1>1, InvHolds, PTL

\* No tmux client outlives the handler that has to detach it, whichever of the
\* connection, the session and the daemon ends first (handleStream).
THEOREM ClientsAreHandled == Spec => []AttachedIsHandled
<1>1. Inv => AttachedIsHandled
  BY DEF Inv
<1>2. QED
  BY <1>1, InvHolds, PTL

\* No step takes the socket of an ended session back to life (_onMessage).
THEOREM EndIsFinal == Spec => EndedIsFinal
<1>1. Inv /\ [Next]_vars => [shown = "ended" => shown' = "ended"]_vars
  <2> SUFFICES ASSUME Inv, Next, shown = "ended" PROVE shown' = "ended"
    OBVIOUS
  <2>1. closedByUser /\ client \in {"listening", "stopped"}
    BY DEF Inv, EndedIsStopped
  <2>2. CASE \E c \in Conns : Dial(c) \/ HandlerStep(c) \/ Refuse(c)
               \/ ReaderCannotSend(c) \/ UserDetaches(c) \/ Break(c)
               \/ GoSilent(c) \/ Surface(c)
    BY <2>2 DEF Dial, HandlerStep, Upgrade, AttachClient, ReaderEnds, PumpEnds,
       Detach, Recycle, Refuse, ReaderCannotSend, UserDetaches, Break, GoSilent,
       Surface, clientVars
  <2>3. CASE Connect \/ Dispose \/ TimerFires \/ NoTicket \/ TicketUnanswered
               \/ TicketFailsLate \/ Ready \/ NotReady
    BY <2>1, <2>3 DEF Connect, Dispose, TimerFires, NoTicket, TicketUnanswered,
       TicketFailsLate, Ready, NotReady
  <2>4. CASE OnExit \/ OnDone
    BY <2>1, <2>4 DEF OnExit, OnDone, ScheduleReconnect
  <2>5. CASE CloseRow \/ TmuxEnds \/ DaemonCrash \/ DaemonStart
    BY <2>5 DEF CloseRow, TmuxEnds, DaemonCrash, DaemonStart, clientVars
  <2>6. QED
    BY <2>2, <2>3, <2>4, <2>5 DEF Next, ClientStep
<1>2. QED
  BY <1>1, InvHolds, PTL DEF Spec, EndedIsFinal

-----------------------------------------------------------------------------
(***************************************************************************)
(* Types, and the delay between two attempts to connect.                   *)
(***************************************************************************)

\* The powers of two, as a function.
Power == [n \in Nat |-> 2^n]

\* They are positive: 2^n is the number of subsets of a set of n elements.
LEMMA PowerIsPositive == \A n \in Nat : Power[n] \in Nat \ {0}
<1> SUFFICES ASSUME NEW n \in Nat PROVE Power[n] \in Nat \ {0}
  OBVIOUS
<1>1. IsFiniteSet(1 .. n) /\ Cardinality(1 .. n) = n
  BY FS_Interval
<1>2. /\ IsFiniteSet(SUBSET (1 .. n))
      /\ Cardinality(SUBSET (1 .. n)) = 2^Cardinality(1 .. n)
  BY <1>1, FS_SUBSET
<1>3. Cardinality(SUBSET (1 .. n)) = Power[n]
  BY <1>1, <1>2, Zenon DEF Power
<1>4. {} \in SUBSET (1 .. n)
  OBVIOUS
<1>5. Cardinality(SUBSET (1 .. n)) \in Nat /\ Cardinality(SUBSET (1 .. n)) # 0
  BY <1>2, <1>4, FS_CardinalityType, FS_EmptySet
<1>6. QED
  BY <1>3, <1>5, Zenon

\* Backoff.next stays between the initial delay and the maximum.
LEMMA DelayIsBounded ==
    ASSUME NEW n \in Nat
    PROVE  BackoffDelay(n) \in Initial .. MaxDelay
<1>1. BackoffDelay(n) = IF Initial * Power[n] >= MaxDelay
                        THEN MaxDelay ELSE Initial * Power[n]
  <2>1. Power[n] = 2^n
    BY Zenon DEF Power
  <2>2. QED
    BY <2>1, Zenon DEF BackoffDelay
<1> HIDE DEF Power
<1>2. Power[n] \in Nat \ {0}
  BY PowerIsPositive
<1>3. ASSUME NEW i \in Nat, NEW p \in Nat \ {0}
      PROVE  i * p \in Nat /\ i * p >= i
  OBVIOUS
<1>4. Initial * Power[n] \in Nat /\ Initial * Power[n] >= Initial
  BY <1>2, <1>3, DelaysAssumption
<1>5. QED
  BY <1>1, <1>4, DelaysAssumption

\* What the other types leave out.
ClientTypes ==
    /\ client \in {"idle", "ticket", "unanswered", "handshake", "listening",
                  "timer", "stopped"}
    /\ closedByUser \in BOOLEAN
    /\ disposed \in BOOLEAN
    /\ shown \in LinkStates
    /\ attempt \in 0 .. MaxShift
    /\ delay \in Initial .. MaxDelay
    /\ exiting \in [Conns -> BOOLEAN]
    /\ reader \in [Conns -> {"none", "reading", "done"}]
    /\ status \in {"open", "closed"}
    /\ tmux \in BOOLEAN
    /\ ticketPath \in TicketPaths
    /\ up \in BOOLEAN

\* The app, the handlers and the daemon keep their types, and the delay before
\* a reconnect is between Backoff.initial and Backoff.max after any number of
\* failures in a row.
THEOREM TypeCorrect == Spec => []TypeOK
<1>1. Init => ClientTypes
  <2>1. 0 \in 0 .. MaxShift /\ Initial \in Initial .. MaxDelay
    BY DelaysAssumption
  <2>2. QED
    BY <2>1 DEF Init, ClientTypes, LinkStates
<1>2. Inv /\ ClientTypes /\ [Next]_vars => ClientTypes'
  <2> SUFFICES ASSUME Inv, ClientTypes, [Next]_vars PROVE ClientTypes'
    OBVIOUS
  <2> USE DEF ClientTypes, LinkStates, clientVars, connVars, sessionVars
  <2>1. MaxShift \in Nat /\ attempt \in Nat
    BY DelaysAssumption
  <2>2. ASSUME ScheduleReconnect
        PROVE  /\ client' \in {"timer", "stopped"}
               /\ shown' \in LinkStates
               /\ attempt' \in 0 .. MaxShift
               /\ delay' \in Initial .. MaxDelay
    <3>1. BackoffDelay(attempt) \in Initial .. MaxDelay
      BY <2>1, DelayIsBounded
    <3> HIDE DEF BackoffDelay
    <3>2. QED
      BY <2>1, <2>2, <3>1 DEF ScheduleReconnect
  <2>3. CASE NoTicket \/ TicketFailsLate
    BY <2>2, <2>3 DEF NoTicket, TicketFailsLate
  <2>4. CASE NotReady
    BY <2>2, <2>4 DEF NotReady
  <2>5. CASE OnDone
    BY <2>2, <2>5 DEF OnDone
  <2>6. CASE Ready
    BY <2>1, <2>6 DEF Ready
  <2>7. CASE Connect \/ Dispose \/ TimerFires \/ TicketUnanswered
    BY <2>7 DEF Connect, Dispose, TimerFires, TicketUnanswered
  <2>8. CASE OnExit
    BY <2>8 DEF OnExit
  <2>9. ASSUME NEW c \in Conns, Dial(c) \/ Upgrade(c) \/ AttachClient(c)
                                \/ PumpEnds(c) \/ Detach(c) \/ Refuse(c)
                                \/ UserDetaches(c) \/ Break(c) \/ Surface(c)
        PROVE  ClientTypes'
    BY <2>9 DEF Dial, Upgrade, AttachClient, PumpEnds, Detach, Refuse,
       UserDetaches, Break, Surface
  <2>10. ASSUME NEW c \in Conns, ReaderEnds(c) \/ ReaderCannotSend(c) \/ Recycle(c)
                                 \/ GoSilent(c)
         PROVE  ClientTypes'
    <3>1. CASE ReaderEnds(c)
      BY <2>1, <3>1 DEF ReaderEnds
    <3>2. CASE ReaderCannotSend(c)
      BY <2>1, <3>2 DEF ReaderCannotSend
    <3>3. CASE Recycle(c)
      BY <2>1, <3>3 DEF Recycle
    <3>4. CASE GoSilent(c)
      BY <2>1, <3>4 DEF GoSilent
    <3>5. QED
      BY <2>10, <3>1, <3>2, <3>3, <3>4
  <2>11. CASE CloseRow \/ TmuxEnds \/ DaemonStart \/ DaemonCrash
    <3>1. CASE CloseRow
      BY <2>1, <3>1 DEF CloseRow
    <3>2. CASE TmuxEnds
      BY <2>1, <3>2 DEF TmuxEnds
    <3>3. CASE DaemonStart
      BY <2>1, <3>3 DEF DaemonStart
    <3>4. CASE DaemonCrash
      BY <2>1, <3>4 DEF DaemonCrash
    <3>5. QED
      BY <2>11, <3>1, <3>2, <3>3, <3>4
  <2>12. CASE UNCHANGED vars
    BY <2>12 DEF vars
  <2>13. QED
    BY <2>3, <2>4, <2>5, <2>6, <2>7, <2>8, <2>9, <2>10, <2>11, <2>12
    DEF Next, ClientStep, HandlerStep
<1>3. Spec => []ClientTypes
  BY <1>1, <1>2, InvHolds, PTL DEF Spec
<1>4. Inv /\ ClientTypes => TypeOK
  BY DEF Inv, ConnTypes, ClientTypes, TypeOK
<1>5. QED
  BY <1>3, <1>4, InvHolds, PTL

=============================================================================
