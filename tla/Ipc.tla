-------------------------------- MODULE Ipc --------------------------------
(***************************************************************************)
(* The local socket of the daemon (driver/ipc_server.rs), its two clients  *)
(* in the phone's bindings (fluxsync-mobile-ffi lib.rs: a call with a      *)
(* timeout, the subscriber that keeps the state the screen shows) and how  *)
(* the daemon stops: the main loop breaks, the accept loop waits for its   *)
(* clients, run waits for the accept loop, and stop() for run.             *)
(*                                                                         *)
(* A state is the number of its publication.  The log channel, which has   *)
(* the form of the state channel without a memory, is left out.            *)
(***************************************************************************)
EXTENDS Integers, Sequences, FiniteSets

CONSTANTS
    Permits,     \* clients served at a time
    MaxVersion,  \* bound on the states published
    MaxCalls,    \* bound on the calls made
    MaxHiccups   \* bound on the connections the subscriber loses

ASSUME IpcAssumption ==
    /\ Permits \in Nat \ {0} /\ MaxVersion \in Nat /\ MaxCalls \in Nat /\ MaxHiccups \in Nat

VARIABLES
    conns,      \* the connections made, in order: kind, whether the client's end is
                \* open, the request not yet read, the task that serves it, the state
                \* it marked as seen and writes, the line the client has not read
    cmds,       \* cmd_rx: the requests that wait for the main loop
    version,    \* state_watch_tx: the state published last
    shown,      \* last_state of the handle, 0 before the first
    subscriber, \* the connection of state_subscriber_loop, 0 before the first
    hiccups,
    stopping,   \* the cancellation token
    looping,    \* the main loop runs
    accepting,  \* the accept loop runs
    caller      \* the thread that owns the daemon: start, running, stop

ipcVars == <<conns, cmds, version, shown, subscriber, hiccups, stopping, looping,
             accepting, caller>>

IpcInit ==
    /\ conns = <<>> /\ cmds = <<>> /\ version = 1 /\ shown = 0 /\ subscriber = 0
    /\ hiccups = 0 /\ stopping = FALSE /\ looping = TRUE /\ accepting = TRUE
    /\ caller = "starting"

Serving == {k \in DOMAIN conns : conns[k].task \notin {"backlog", "ended"}}
Calls == {k \in DOMAIN conns : conns[k].kind = "cmd"}

\* run has returned: the main loop, the accept loop and its clients are done.
Exited == ~looping /\ ~accepting /\ Serving = {}

Connected(kind, request) ==
    Append(conns, [kind |-> kind, open |-> kind # "probe", request |-> request,
                   task |-> "backlog", seen |-> 0, unread |-> 0])

\* The task returns and drops its end.
Ended(k) ==
    [conns EXCEPT ![k].task = "ended", ![k].request = "none", ![k].seen = 0]

-----------------------------------------------------------------------------
\* The process that holds the daemon.

\* await_ready_or_stop: the socket answers; the probe's connection is dropped.
Ready ==
    /\ caller = "starting" /\ ~Exited
    /\ caller' = "running"
    /\ conns' = Connected("probe", "none")
    /\ UNCHANGED <<cmds, version, shown, subscriber, hiccups, stopping, looping, accepting>>

\* stop(), or a start that missed its deadline: cancel and join.
Stop ==
    /\ caller \in {"starting", "running"}
    /\ stopping' = TRUE /\ caller' = "joining"
    /\ UNCHANGED <<conns, cmds, version, shown, subscriber, hiccups, looping, accepting>>

JoinReturns ==
    /\ caller = "joining" /\ Exited
    /\ caller' = "back"
    /\ UNCHANGED <<conns, cmds, version, shown, subscriber, hiccups, stopping, looping,
                   accepting>>

\* main.rs: a signal.
Signal ==
    /\ ~stopping /\ stopping' = TRUE
    /\ UNCHANGED <<conns, cmds, version, shown, subscriber, hiccups, looping, accepting, caller>>

-----------------------------------------------------------------------------
\* The clients.

\* send_cmd, one_shot: both lines are written at once.
Call(op) ==
    /\ caller # "starting" /\ ~Exited /\ Cardinality(Calls) < MaxCalls
    /\ conns' = Connected("cmd", op)
    /\ UNCHANGED <<cmds, version, shown, subscriber, hiccups, stopping, looping, accepting,
                   caller>>

\* IPC_CMD_TIMEOUT: the caller gives up and drops its end.
CallTimesOut(k) ==
    /\ k \in Calls /\ conns[k].open
    /\ conns' = [conns EXCEPT ![k].open = FALSE]
    /\ UNCHANGED <<cmds, version, shown, subscriber, hiccups, stopping, looping, accepting,
                   caller>>

\* state_subscriber_loop connects, at first and after every error.
Subscribe ==
    /\ caller = "running" /\ ~stopping
    /\ subscriber # 0 => ~conns[subscriber].open
    /\ conns' = Connected("state", "none")
    /\ subscriber' = Len(conns) + 1
    /\ UNCHANGED <<cmds, version, shown, hiccups, stopping, looping, accepting, caller>>

\* state_subscribe_once reads a line.
Show ==
    /\ subscriber # 0 /\ conns[subscriber].open /\ conns[subscriber].unread # 0
    /\ shown' = conns[subscriber].unread
    /\ conns' = [conns EXCEPT ![subscriber].unread = 0]
    /\ UNCHANGED <<cmds, version, subscriber, hiccups, stopping, looping, accepting, caller>>

\* It loses the connection, or returns because the daemon stops.
Unsubscribe ==
    /\ subscriber # 0 /\ conns[subscriber].open
    /\ stopping \/ hiccups < MaxHiccups
    /\ hiccups' = IF stopping THEN hiccups ELSE hiccups + 1
    /\ conns' = [conns EXCEPT ![subscriber].open = FALSE, ![subscriber].unread = 0]
    /\ UNCHANGED <<cmds, version, shown, subscriber, stopping, looping, accepting, caller>>

-----------------------------------------------------------------------------
\* ipc_accept_loop and handle_ipc_client.

\* The oldest connection in the backlog, when a permit is free.
Accept(k) ==
    /\ accepting /\ ~stopping
    /\ Cardinality(Serving) < Permits
    /\ conns[k].task = "backlog" /\ \A j \in 1 .. (k - 1) : conns[j].task # "backlog"
    /\ conns' = [conns EXCEPT ![k].task = "opening"]
    /\ UNCHANGED <<cmds, version, shown, subscriber, hiccups, stopping, looping, accepting,
                   caller>>

AcceptLoopBreaks ==
    /\ accepting /\ stopping
    /\ accepting' = FALSE
    /\ UNCHANGED <<conns, cmds, version, shown, subscriber, hiccups, stopping, looping, caller>>

\* The opening line, for which a task waits even when the daemon stops.  The first
\* state is marked as seen when it is serialized.
ReadOpening(k) ==
    /\ conns[k].task = "opening"
    /\ conns' =
         CASE conns[k].kind = "probe" -> Ended(k)
           [] conns[k].kind = "cmd" -> [conns EXCEPT ![k].task = "reading"]
           [] conns[k].kind = "state" ->
                [conns EXCEPT ![k].task = "telling", ![k].seen = version]
    /\ UNCHANGED <<cmds, version, shown, subscriber, hiccups, stopping, looping, accepting,
                   caller>>

\* A request goes to the main loop, and its task waits for the reply and for nothing
\* else; one that is no request is refused on the spot.
ReadRequest(k) ==
    /\ conns[k].task = "reading" /\ conns[k].request # "none"
    /\ IF conns[k].request = "malformed"
       THEN /\ conns' = [conns EXCEPT ![k].request = "none", ![k].task = "replying"]
            /\ UNCHANGED cmds
       ELSE /\ conns' = [conns EXCEPT ![k].request = "none", ![k].task = "waiting"]
            /\ cmds' = Append(cmds, [conn |-> k, op |-> conns[k].request])
    /\ UNCHANGED <<version, shown, subscriber, hiccups, stopping, looping, accepting, caller>>

\* The answer is written, and the caller, who has what it came for, drops its end; or
\* the caller had dropped it and the write fails.
Reply(k) ==
    /\ conns[k].task = "replying"
    /\ conns' = IF conns[k].open
                THEN [conns EXCEPT ![k].task = "reading", ![k].open = FALSE]
                ELSE Ended(k)
    /\ UNCHANGED <<cmds, version, shown, subscriber, hiccups, stopping, looping, accepting,
                   caller>>

ReadEof(k) ==
    /\ conns[k].task = "reading" /\ conns[k].request = "none" /\ ~conns[k].open
    /\ conns' = Ended(k)
    /\ UNCHANGED <<cmds, version, shown, subscriber, hiccups, stopping, looping, accepting,
                   caller>>

\* changed() and borrow_and_update: the state that is serialized is the one marked.
Tell(k) ==
    /\ conns[k].task = "watching" /\ conns[k].seen # version
    /\ conns' = [conns EXCEPT ![k].task = "telling", ![k].seen = version]
    /\ UNCHANGED <<cmds, version, shown, subscriber, hiccups, stopping, looping, accepting,
                   caller>>

\* Variant: what is current when the write is over is marked as seen.
ToldMarksLate(k) ==
    /\ conns[k].task = "telling"
    /\ conns[k].open => conns[k].unread = 0
    /\ conns' = IF conns[k].open
                THEN [conns EXCEPT ![k].task = "watching", ![k].unread = conns[k].seen,
                                   ![k].seen = version]
                ELSE Ended(k)
    /\ UNCHANGED <<cmds, version, shown, subscriber, hiccups, stopping, looping, accepting,
                   caller>>

\* The line is written once the client has read the one before.  A task whose client
\* is gone finds out here, and holds its permit until then.
Told(k) ==
    /\ conns[k].task = "telling"
    /\ conns[k].open => conns[k].unread = 0
    /\ conns' = IF conns[k].open
                THEN [conns EXCEPT ![k].task = "watching", ![k].unread = conns[k].seen]
                ELSE Ended(k)
    /\ UNCHANGED <<cmds, version, shown, subscriber, hiccups, stopping, looping, accepting,
                   caller>>

\* A task in one of its selects sees the token.
Cancelled(k) ==
    /\ stopping /\ conns[k].task \in {"reading", "watching"}
    /\ conns' = Ended(k)
    /\ UNCHANGED <<cmds, version, shown, subscriber, hiccups, stopping, looping, accepting,
                   caller>>

-----------------------------------------------------------------------------
\* The main loop.  The token is the first thing its select looks at.

\* EmitState, when the state has changed.
Publish ==
    /\ looping /\ ~stopping /\ version < MaxVersion
    /\ version' = version + 1
    /\ UNCHANGED <<conns, cmds, shown, subscriber, hiccups, stopping, looping, accepting,
                   caller>>

\* handle_driver_cmd: a change, which may leave the state as it was, or a shutdown.
Run ==
    /\ looping /\ ~stopping /\ cmds # <<>>
    /\ cmds' = Tail(cmds)
    /\ IF Head(cmds).op = "shutdown"
       THEN stopping' = TRUE /\ UNCHANGED version
       ELSE /\ version' \in {version, version + 1} /\ version' <= MaxVersion
            /\ UNCHANGED stopping
    /\ conns' = [conns EXCEPT ![Head(cmds).conn].task = "replying"]
    /\ UNCHANGED <<shown, subscriber, hiccups, looping, accepting, caller>>

\* The requests that are left stay in their queue, with their reply senders, until
\* run returns.
LoopBreaks ==
    /\ looping /\ stopping
    /\ looping' = FALSE
    /\ UNCHANGED <<conns, cmds, version, shown, subscriber, hiccups, stopping, accepting,
                   caller>>

ServeClient(k) ==
    \/ Accept(k) \/ ReadOpening(k) \/ ReadRequest(k) \/ Reply(k) \/ ReadEof(k)
    \/ Tell(k) \/ Told(k) \/ Cancelled(k)

MainLoop == Run \/ LoopBreaks

IpcNext ==
    \/ Ready \/ Stop \/ JoinReturns \/ Signal
    \/ \E op \in {"change", "shutdown", "malformed"} : Call(op)
    \/ Subscribe \/ Show \/ Unsubscribe
    \/ AcceptLoopBreaks \/ Publish \/ MainLoop
    \/ \E k \in DOMAIN conns : CallTimesOut(k) \/ ServeClient(k)

MaxConns == 1 + MaxCalls + 1 + MaxHiccups

\* The runtime polls every task that can go on, timers expire and clients read.
\* Nothing forces a start, a call, a signal, a stop or a lost connection.
IpcFairness ==
    /\ WF_ipcVars(JoinReturns)
    /\ WF_ipcVars(Subscribe) /\ WF_ipcVars(Show)
    /\ WF_ipcVars(AcceptLoopBreaks) /\ WF_ipcVars(MainLoop)
    /\ \A k \in 1 .. MaxConns :
         /\ WF_ipcVars(k \in DOMAIN conns /\ ServeClient(k))
         /\ WF_ipcVars(k \in DOMAIN conns /\ CallTimesOut(k))

IpcSpec == IpcInit /\ [][IpcNext]_ipcVars /\ IpcFairness

-----------------------------------------------------------------------------
\* Every permit is held for a subscriber that is gone, by a task that only the next
\* publication will tell.
HeldByTheGone ==
    /\ Cardinality(Serving) = Permits
    /\ \A k \in Serving :
          conns[k].task = "watching" /\ ~conns[k].open /\ conns[k].seen = version

\* The screen catches up: whatever is published while a line is being written, and
\* although connections are lost and calls hold permits, the subscriber comes to have
\* the state published last, unless the daemon stops or subscribers that are gone hold
\* every permit, which lasts until something is published again (handle_ipc_client,
\* state_subscriber_loop).
StateReachesSubscriber ==
    []<>(caller = "starting" \/ stopping \/ shown = version \/ HeldByTheGone)

\* "Fire the shutdown notify and join the daemon thread.  Returns once the daemon has
\* exited" (stop in fluxsync-mobile-ffi lib.rs): a stop comes to an end.
StopReturns == caller = "joining" ~> caller = "back"
=============================================================================
