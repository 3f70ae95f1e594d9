------------------------------- MODULE Stream -------------------------------
(***************************************************************************)
(* The terminal stream of one session: SessionSocket of the app, which     *)
(* keeps a WebSocket open across drops, and Manager.handleStream of the    *)
(* daemon, which pumps bytes between that socket and a tmux client in a    *)
(* pseudo terminal.                                                        *)
(*                                                                         *)
(* A handler is two goroutines: the reader copies the PTY to the client,   *)
(* the main loop copies the client to the PTY and, once the connection     *)
(* fails, waits for the reader or one second before it detaches.  The app  *)
(* suspends at every await, and dispose may run at each of these points.   *)
(* Terminal output itself is not modelled; of the messages only the one    *)
(* that changes state, exit, is.  A connection number is used again once   *)
(* both ends are done with it.                                             *)
(*                                                                         *)
(* A connection may also die without a sign.  The daemon notices by TCP    *)
(* keep-alive, which net/http switches on; the app sets neither a ping     *)
(* interval nor a timeout and may wait, or show it as connected, for ever. *)
(*                                                                         *)
(* ticketPath is where the ticketProvider asks.  The daemon issues tickets *)
(* at /auth/ws-ticket and answers 404 at the path that client.dart uses.   *)
(***************************************************************************)
EXTENDS Naturals

CONSTANTS
    Conns,      \* connections that may exist at a time
    NoConn,
    Initial,    \* Backoff.initial
    MaxDelay,   \* Backoff.max
    MaxShift,   \* where Backoff stops counting (30 in the source)
    TicketPaths, \* where a ticketProvider may ask
    Faults

FaultKinds ==
    { "ticket",   \* the ticket cannot be had, or has expired
      "break",    \* a connection breaks, and both ends are told
      "silence",  \* a connection dies and the app is not told
      "attach",   \* the tmux client cannot be started
      "detach",   \* the tmux client is detached, the session lives on
      "crash" }   \* the daemon dies

ASSUME ConnsAssumption == NoConn \notin Conns
ASSUME DelaysAssumption ==
    /\ Initial \in Nat \ {0}
    /\ MaxDelay \in Nat
    /\ Initial <= MaxDelay
    /\ MaxShift \in Nat
ASSUME FaultsAssumption == Faults \subseteq FaultKinds

VARIABLES
    client,         \* where SessionSocket is
    dialed,         \* the connection _open waits for
    channel,        \* _channel
    closedByUser,   \* _closedByUser
    disposed,       \* dispose has been called
    shown,          \* the last LinkState
    attempt,        \* Backoff._attempt
    delay,          \* the delay of the running timer
    link,           \* Conns -> the connection
    exiting,        \* Conns -> an exit message is on its way
    main,           \* Conns -> the main loop of handleStream
    reader,         \* Conns -> its reader goroutine
    attached,       \* the connections whose tmux client runs
    status,         \* status column of the session
    tmux,           \* the tmux session is alive
    ticketPath,     \* where the app asks for tickets; fixed when it is built
    up              \* the daemon is running

clientVars == <<client, dialed, channel, closedByUser, disposed, shown,
                attempt, delay>>
connVars == <<link, exiting, main, reader, attached>>
sessionVars == <<status, tmux, ticketPath>>
vars == <<clientVars, connVars, sessionVars, up>>

\* The connection has ended, whether or not the app knows.
Gone == {"closed", "dead"}
LinkStates == {"connecting", "connected", "reconnecting", "disconnected", "ended"}

TypeOK ==
    /\ client \in {"idle", "ticket", "unanswered", "handshake", "listening",
                  "timer", "stopped"}
    /\ dialed \in Conns \cup {NoConn}
    /\ channel \in Conns \cup {NoConn}
    /\ closedByUser \in BOOLEAN
    /\ disposed \in BOOLEAN
    /\ shown \in LinkStates
    /\ attempt \in 0 .. MaxShift
    /\ delay \in Initial .. MaxDelay
    /\ link \in [Conns -> {"none", "dialing", "open", "refused", "closed", "dead"}]
    /\ exiting \in [Conns -> BOOLEAN]
    /\ main \in [Conns -> {"none", "attach", "pump", "drain"}]
    /\ reader \in [Conns -> {"none", "reading", "done"}]
    /\ attached \in SUBSET Conns
    /\ status \in {"open", "closed"}
    /\ tmux \in BOOLEAN
    /\ ticketPath \in TicketPaths
    /\ up \in BOOLEAN

Init ==
    /\ client = "idle"
    /\ dialed = NoConn
    /\ channel = NoConn
    /\ closedByUser = FALSE
    /\ disposed = FALSE
    /\ shown = "connecting"
    /\ attempt = 0
    /\ delay = Initial
    /\ link = [c \in Conns |-> "none"]
    /\ exiting = [c \in Conns |-> FALSE]
    /\ main = [c \in Conns |-> "none"]
    /\ reader = [c \in Conns |-> "none"]
    /\ attached = {}
    /\ status = "open"
    /\ tmux = TRUE
    /\ ticketPath \in TicketPaths
    /\ up = TRUE

-----------------------------------------------------------------------------
(***************************************************************************)
(* SessionSocket.                                                          *)
(***************************************************************************)

\* Backoff.next: the delay after n failures in a row.
BackoffDelay(n) ==
    IF Initial * 2^n >= MaxDelay THEN MaxDelay ELSE Initial * 2^n

\* _scheduleReconnect: a stopped socket stays stopped, any other starts the
\* timer.
ScheduleReconnect ==
    \/ /\ closedByUser
       /\ client' = "stopped"
       /\ UNCHANGED <<shown, attempt, delay>>
    \/ /\ ~closedByUser
       /\ client' = "timer"
       /\ shown' = "disconnected"
       /\ delay' = BackoffDelay(attempt)
       /\ attempt' = IF attempt < MaxShift THEN attempt + 1 ELSE attempt

\* connect, called once by the terminal view.
Connect ==
    /\ client = "idle"
    /\ ~disposed
    /\ client' = "ticket"
    /\ shown' = "connecting"
    /\ UNCHANGED <<dialed, channel, closedByUser, disposed, attempt, delay,
                   connVars, sessionVars, up>>

\* The timer calls _open, which looks at _closedByUser before its first await
\* and not again.
TimerFires ==
    /\ client = "timer"
    /\ \/ closedByUser /\ client' = "stopped" /\ UNCHANGED shown
       \/ ~closedByUser /\ client' = "ticket" /\ shown' = "reconnecting"
    /\ UNCHANGED <<dialed, channel, closedByUser, disposed, attempt, delay,
                   connVars, sessionVars, up>>

\* The daemon has a handler that issues tickets at that path.
TicketsThere == ticketPath = "/auth/ws-ticket"

\* The ticket has come and the handshake goes out.
Dial(c) ==
    /\ client = "ticket"
    /\ up /\ TicketsThere
    /\ link[c] = "none"
    /\ client' = "handshake"
    /\ dialed' = c
    /\ link' = [link EXCEPT ![c] = "dialing"]
    /\ UNCHANGED <<channel, closedByUser, disposed, shown, attempt, delay,
                   exiting, main, reader, attached, sessionVars, up>>

\* Mutant: an exception of the ticket provider is not caught.
NoTicketUncaught ==
    /\ client = "ticket"
    /\ ~up \/ ~TicketsThere \/ "ticket" \in Faults
    /\ client' = "stopped"
    /\ UNCHANGED <<dialed, channel, closedByUser, disposed, shown, attempt,
                   delay, connVars, sessionVars, up>>

\* ticketProvider throws: no daemon, a 404 or another refusal.
NoTicket ==
    /\ client = "ticket"
    /\ ~up \/ ~TicketsThere \/ "ticket" \in Faults
    /\ ScheduleReconnect
    /\ UNCHANGED <<dialed, channel, closedByUser, disposed, connVars,
                   sessionVars, up>>

\* The answer with the ticket is lost without an error, and the await has no
\* timeout.
TicketUnanswered ==
    /\ "silence" \in Faults
    /\ client = "ticket"
    /\ client' = "unanswered"
    /\ UNCHANGED <<dialed, channel, closedByUser, disposed, shown, attempt,
                   delay, connVars, sessionVars, up>>

\* The operating system may give it up later.
TicketFailsLate ==
    /\ client = "unanswered"
    /\ ScheduleReconnect
    /\ UNCHANGED <<dialed, channel, closedByUser, disposed, connVars,
                   sessionVars, up>>

\* channel.ready completes.  After dispose the state stream is closed: the
\* exception is caught, and the channel is left as it is.
Ready ==
    /\ client = "handshake"
    /\ link[dialed] = "open"
    /\ channel' = dialed
    /\ dialed' = NoConn
    /\ attempt' = 0
    /\ \/ /\ ~disposed
          /\ client' = "listening"
          /\ shown' = "connected"
       \/ disposed /\ client' = "stopped" /\ UNCHANGED shown
    /\ UNCHANGED <<closedByUser, disposed, delay, connVars, sessionVars, up>>

\* Mutant: a handshake that takes long is given up and left alone.
NotReadyByTimeout ==
    /\ client = "handshake"
    /\ link[dialed] # "open"
    /\ dialed' = NoConn
    /\ ScheduleReconnect
    /\ UNCHANGED <<channel, closedByUser, disposed, connVars, sessionVars, up>>

\* channel.ready fails: the handshake was answered with a status other than
\* 101, or the connection broke.
NotReady ==
    /\ client = "handshake"
    /\ link[dialed] \in {"refused", "closed"}
    /\ dialed' = NoConn
    /\ ScheduleReconnect
    /\ UNCHANGED <<channel, closedByUser, disposed, connVars, sessionVars, up>>

\* Mutant: exit is shown but the socket may reconnect.
OnExitReconnecting ==
    /\ client = "listening"
    /\ link[channel] = "open"
    /\ exiting[channel]
    /\ shown' = "ended"
    /\ link' = [link EXCEPT ![channel] = "closed"]
    /\ exiting' = [exiting EXCEPT ![channel] = FALSE]
    /\ UNCHANGED <<client, dialed, channel, closedByUser, disposed, attempt,
                   delay, main, reader, attached, sessionVars, up>>

\* _onMessage on exit: no reconnect, and the channel is closed.
OnExit ==
    /\ client = "listening"
    /\ link[channel] = "open"
    /\ exiting[channel]
    /\ ~disposed
    /\ closedByUser' = TRUE
    /\ shown' = "ended"
    /\ link' = [link EXCEPT ![channel] = "closed"]
    /\ exiting' = [exiting EXCEPT ![channel] = FALSE]
    /\ UNCHANGED <<client, dialed, channel, disposed, attempt, delay, main,
                   reader, attached, sessionVars, up>>

\* onDone or onError, whichever comes first.
OnDone ==
    /\ client = "listening"
    /\ link[channel] = "closed"
    /\ ScheduleReconnect
    /\ UNCHANGED <<dialed, channel, closedByUser, disposed, connVars,
                   sessionVars, up>>

\* dispose closes the channel it knows of, and the streams.
Dispose ==
    /\ client # "idle"
    /\ ~disposed
    /\ disposed' = TRUE
    /\ closedByUser' = TRUE
    /\ link' = [c \in Conns |-> IF c = channel /\ link[c] \in {"open", "dead"}
                                THEN "closed" ELSE link[c]]
    /\ UNCHANGED <<client, dialed, channel, shown, attempt, delay, exiting,
                   main, reader, attached, sessionVars, up>>

ClientStep ==
    \/ TimerFires
    \/ \E c \in Conns : Dial(c)
    \/ NoTicket
    \/ Ready
    \/ NotReady
    \/ OnExit
    \/ OnDone

-----------------------------------------------------------------------------
(***************************************************************************)
(* Manager.handleStream.                                                   *)
(***************************************************************************)

\* The status is read once; an open session is upgraded.
Upgrade(c) ==
    /\ up
    /\ link[c] = "dialing"
    /\ \/ /\ status = "open"
          /\ link' = [link EXCEPT ![c] = "open"]
          /\ main' = [main EXCEPT ![c] = "attach"]
       \/ /\ status = "closed"
          /\ link' = [link EXCEPT ![c] = "refused"]
          /\ UNCHANGED main
    /\ UNCHANGED <<clientVars, exiting, reader, attached, sessionVars, up>>

\* The ticket is not accepted any more, or the handshake is lost.
Refuse(c) ==
    /\ Faults \cap {"ticket", "break"} # {}
    /\ link[c] = "dialing"
    /\ link' = [link EXCEPT ![c] = "refused"]
    /\ UNCHANGED <<clientVars, exiting, main, reader, attached, sessionVars, up>>

\* Attach and capture-pane.  tmux attach-session on a session that is gone
\* starts and ends at once, so the PTY is at its end from the beginning.  The
\* handler returns when tmux cannot be started or the first screen not sent.
AttachClient(c) ==
    /\ main[c] = "attach"
    /\ \/ /\ main' = [main EXCEPT ![c] = "pump"]
          /\ reader' = [reader EXCEPT ![c] = "reading"]
          /\ attached' = IF tmux THEN attached \cup {c} ELSE attached
          /\ UNCHANGED link
       \/ /\ "attach" \in Faults \/ link[c] # "open"
          /\ main' = [main EXCEPT ![c] = "none"]
          /\ link' = [link EXCEPT ![c] = IF @ = "dead" THEN @ ELSE "closed"]
          /\ UNCHANGED <<reader, attached>>
    /\ UNCHANGED <<clientVars, exiting, sessionVars, up>>

\* Mutant: the reader returns without telling the app.
ReaderEndsSilently(c) ==
    /\ reader[c] = "reading"
    /\ c \notin attached
    /\ reader' = [reader EXCEPT ![c] = "done"]
    /\ UNCHANGED <<clientVars, link, exiting, main, attached, sessionVars, up>>

\* PTY.Read fails: the tmux client is gone.  The exit message reaches nobody
\* when the connection is gone too.
ReaderEnds(c) ==
    /\ reader[c] = "reading"
    /\ c \notin attached
    /\ reader' = [reader EXCEPT ![c] = "done"]
    /\ exiting' = [exiting EXCEPT ![c] = (link[c] = "open")]
    /\ UNCHANGED <<clientVars, link, main, attached, sessionVars, up>>

\* Output that cannot be sent ends the reader without an exit message.
ReaderCannotSend(c) ==
    /\ reader[c] = "reading"
    /\ c \in attached
    /\ link[c] \in Gone
    /\ reader' = [reader EXCEPT ![c] = "done"]
    /\ UNCHANGED <<clientVars, link, exiting, main, attached, sessionVars, up>>

\* ReadJSON fails once the connection is closed or broken; keep-alive tells
\* the daemon of one that is dead.
PumpEnds(c) ==
    /\ main[c] = "pump"
    /\ link[c] \in Gone
    /\ main' = [main EXCEPT ![c] = "drain"]
    /\ UNCHANGED <<clientVars, link, exiting, reader, attached, sessionVars, up>>

\* Mutant: the handler waits for the reader without a timeout.
DetachAfterReader(c) ==
    /\ main[c] = "drain"
    /\ reader[c] = "done"
    /\ main' = [main EXCEPT ![c] = "none"]
    /\ attached' = attached \ {c}
    /\ UNCHANGED <<clientVars, link, exiting, reader, sessionVars, up>>

\* The reader is done or one second has passed; the deferred calls detach the
\* tmux client and close the connection.
Detach(c) ==
    /\ main[c] = "drain"
    /\ main' = [main EXCEPT ![c] = "none"]
    /\ attached' = attached \ {c}
    /\ UNCHANGED <<clientVars, link, exiting, reader, sessionVars, up>>

\* Both ends have let go of the connection.
Recycle(c) ==
    /\ link[c] \in {"refused", "closed"}
    /\ main[c] = "none"
    /\ reader[c] # "reading"
    /\ dialed # c
    /\ ~(client = "listening" /\ channel = c)
    /\ link' = [link EXCEPT ![c] = "none"]
    /\ exiting' = [exiting EXCEPT ![c] = FALSE]
    /\ reader' = [reader EXCEPT ![c] = "none"]
    /\ channel' = IF channel = c THEN NoConn ELSE channel
    /\ UNCHANGED <<client, dialed, closedByUser, disposed, shown, attempt,
                   delay, main, attached, sessionVars, up>>

HandlerStep(c) ==
    \/ Upgrade(c)
    \/ AttachClient(c)
    \/ ReaderEnds(c)
    \/ PumpEnds(c)
    \/ Detach(c)
    \/ Recycle(c)

-----------------------------------------------------------------------------

\* DELETE /sessions/{id}: the row first, then tmux (module SessionLifecycle).
CloseRow ==
    /\ status = "open"
    /\ status' = "closed"
    /\ UNCHANGED <<clientVars, connVars, tmux, ticketPath, up>>

\* kill-session, or the last shell exits; every tmux client ends with it.
TmuxEnds ==
    /\ tmux
    /\ tmux' = FALSE
    /\ attached' = {}
    /\ UNCHANGED <<clientVars, link, exiting, main, reader, status, ticketPath, up>>

\* The user detaches this client with the key binding of tmux.
UserDetaches(c) ==
    /\ "detach" \in Faults
    /\ c \in attached
    /\ attached' = attached \ {c}
    /\ UNCHANGED <<clientVars, link, exiting, main, reader, sessionVars, up>>

Break(c) ==
    /\ "break" \in Faults
    /\ link[c] = "open"
    /\ link' = [link EXCEPT ![c] = "closed"]
    /\ UNCHANGED <<clientVars, exiting, main, reader, attached, sessionVars, up>>

\* The connection dies without a sign: what was on its way is lost, a
\* handshake stays without an answer.
GoSilent(c) ==
    /\ "silence" \in Faults
    /\ link[c] \in {"dialing", "open"}
    /\ link' = [link EXCEPT ![c] = "dead"]
    /\ exiting' = [exiting EXCEPT ![c] = FALSE]
    /\ UNCHANGED <<clientVars, main, reader, attached, sessionVars, up>>

\* The operating system may tell the app after all.
Surface(c) ==
    /\ link[c] = "dead"
    /\ link' = [link EXCEPT ![c] = "closed"]
    /\ UNCHANGED <<clientVars, exiting, main, reader, attached, sessionVars, up>>

\* The goroutines and the PTYs go with the process; tmux stays.
DaemonCrash ==
    /\ "crash" \in Faults
    /\ up
    /\ up' = FALSE
    /\ link' = [c \in Conns |-> IF link[c] \in {"dialing", "open"}
                                THEN "closed" ELSE link[c]]
    /\ exiting' = [c \in Conns |-> FALSE]
    /\ main' = [c \in Conns |-> "none"]
    /\ reader' = [c \in Conns |-> "none"]
    /\ attached' = {}
    /\ UNCHANGED <<clientVars, sessionVars>>

DaemonStart ==
    /\ ~up
    /\ up' = TRUE
    /\ UNCHANGED <<clientVars, connVars, sessionVars>>

Disturbance ==
    \/ NoTicket
    \/ TicketUnanswered
    \/ \E c \in Conns : Refuse(c) \/ Break(c) \/ GoSilent(c)
    \/ \E c \in Conns : AttachClient(c) /\ main'[c] = "none"
    \/ DaemonCrash

Next ==
    \/ Connect
    \/ Dispose
    \/ ClientStep
    \/ TicketUnanswered
    \/ TicketFailsLate
    \/ \E c \in Conns :
          \/ HandlerStep(c)
          \/ Refuse(c)
          \/ ReaderCannotSend(c)
          \/ UserDetaches(c)
          \/ Break(c)
          \/ GoSilent(c)
          \/ Surface(c)
    \/ CloseRow
    \/ TmuxEnds
    \/ DaemonCrash
    \/ DaemonStart

Spec == Init /\ [][Next]_vars

\* The event loop of the app, the goroutines of a handler and the timers run,
\* systemd restarts the daemon, and TCP keep-alive, which net/http switches
\* on, lets the daemon notice a client that has vanished.  Nothing makes the
\* app notice a connection that died without a sign (TicketFailsLate and
\* Surface are not fair), and whether a running program writes output, a user
\* acts or anything fails is left open.
Fairness ==
    /\ WF_vars(ClientStep)
    /\ \A c \in Conns : WF_vars(HandlerStep(c))
    /\ WF_vars(DaemonStart)

FairSpec == Spec /\ Fairness

-----------------------------------------------------------------------------
(***************************************************************************)
(* Properties.                                                             *)
(***************************************************************************)

\* Before dispose the app never holds a connection it does not know of: the
\* only open one is the channel it listens to or the one it is dialing
\* (session_socket.dart: one channel per SessionSocket).
NoForgottenConnection ==
    ~disposed => \A c \in Conns :
        link[c] \in {"dialing", "open"} => c \in {dialed, channel}

\* Once a session is shown as ended the socket never comes back to life,
\* whatever the connection does afterwards (_onMessage: do not reconnect).
EndedIsFinal == [][shown = "ended" => shown' = "ended"]_vars

\* The app waits for, or listens to, something that died without a sign.
Unaware ==
    \/ client = "unanswered"
    \/ client = "handshake" /\ link[dialed] = "dead"
    \/ client = "listening" /\ link[channel] = "dead"

\* Every silent death comes to the notice of the app sooner or later: what the
\* operating system may do and nothing in the app ensures.
AppIsTold == []<>~Unaware

\* Provided the app is told of connections that die, a session that has ended
\* is not shown as connected for ever, whichever of the exit message, the end
\* of the connection, its loss and a crash comes first (session_socket.dart,
\* LinkState: gone, not merely unreachable).
DeadIsNotShownConnected ==
    AppIsTold => ((~tmux /\ shown = "connected")
                    ~> (shown # "connected" \/ disposed))

\* A connection that is gone does not keep its tmux client: the handler
\* detaches in the end, with or without terminal output (handleStream: the
\* attachment is closed when the handler returns).
GoneClientDetaches ==
    \A c \in Conns :
        (link[c] \in Gone /\ c \in attached) ~> (c \notin attached)

\* From some point on nothing disturbs the connection.
DisturbancesEnd == <>[][~Disturbance]_vars

\* The terminal view is there to stay and its session is not closed.
Wanted == <>[](client # "idle" /\ ~disposed) /\ [](status = "open")

\* Provided the tickets are to be had and the app is told of connections that
\* die, a drop is repaired: a network and a daemon that work again end in a
\* connection that is alive, or in the message that the tmux client has left
\* (session_socket.dart, connect: keeps it open across drops).
ReconnectsInTheEnd ==
    TicketsThere /\ DisturbancesEnd /\ AppIsTold /\ Wanted
        => <>[]\/ shown = "ended"
               \/ shown = "connected" /\ \E c \in Conns :
                      c = channel /\ link[c] = "open"

\* After dispose no connection stays open (session_socket.dart, dispose:
\* closes the transport).
DisposeClosesTransport ==
    disposed /\ client = "stopped" => \A c \in Conns : link[c] # "open"

=============================================================================
