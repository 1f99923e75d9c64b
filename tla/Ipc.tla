-------------------------------- MODULE Ipc --------------------------------
(***************************************************************************)
(* The control socket of ipc.rs: one thread per connection, the command    *)
(* channel into the event loop, the two-second reply timeout, and the      *)
(* subscribers' bounded queues.  The desktop's state is a version number;  *)
(* the shared snapshot holds the version published last.                   *)
(***************************************************************************)
EXTENDS Naturals, FiniteSets, SequencesExt

CONSTANTS
    Clients,        \* connections that send one command
    Subs,           \* connections that subscribe
    MaxLive,        \* connections handled at a time (32)
    QueueCap,       \* snapshots queued for a subscriber (8)
    MaxVersion,     \* bound: versions of the desktop's state
    Nobody          \* no command is being run

IpcAssumption ==
    /\ Clients \cap Subs = {} /\ Nobody \notin Clients
    /\ MaxLive \in Nat /\ QueueCap \in Nat \ {0} /\ MaxVersion \in Nat \ {0}

VARIABLES
    conn,           \* state of each connection
    live,           \* the counter of connections being handled
    queue,          \* commands sent to the event loop, by connection
    running,        \* the command that has run, before its result is sent
    ran,            \* version in place once a connection's command had run, or 0
    reply,          \* the result in each connection's reply channel
    response,       \* version in the response, and whether it says ok
    version,        \* the shared snapshot
    subscribers,    \* connections in the list of subscribers
    inbox,          \* versions queued for each subscriber
    seen,           \* version last written to each subscriber
    hungUp          \* subscribers that closed their end

ipcVars == <<conn, live, queue, running, ran, reply, response, version,
             subscribers, inbox, seen, hungUp>>

Versions == 0 .. MaxVersion
Conns == Clients \cup Subs
Results == {"none", "ok", "error"}
NoCommand == [by |-> Nobody, result |-> "none"]
NoResponse == [ok |-> FALSE, version |-> 0]

IpcTypeOK ==
    /\ conn \in [Conns -> {"idle", "reading", "waiting", "subscribed", "closed", "refused"}]
    /\ live \in 0 .. MaxLive
    /\ queue \in Seq(Clients)
    /\ running \in [by : Clients \cup {Nobody}, result : Results]
    /\ ran \in [Clients -> Versions]
    /\ reply \in [Clients -> Results]
    /\ response \in [Clients -> [ok : BOOLEAN, version : Versions]]
    /\ version \in Versions
    /\ subscribers \subseteq Subs
    /\ inbox \in [Subs -> Seq(Versions)]
    /\ \A s \in Subs : Len(inbox[s]) <= QueueCap
    /\ seen \in [Subs -> Versions]
    /\ hungUp \subseteq Subs

IpcInit ==
    /\ conn = [c \in Conns |-> "idle"] /\ live = 0
    /\ queue = <<>> /\ running = NoCommand
    /\ ran = [c \in Clients |-> 0] /\ reply = [c \in Clients |-> "none"]
    /\ response = [c \in Clients |-> NoResponse]
    /\ version = 1
    /\ subscribers = {} /\ inbox = [s \in Subs |-> <<>>]
    /\ seen = [s \in Subs |-> 0] /\ hungUp = {}

commands == <<queue, running, ran, reply, response>>
subs == <<subscribers, inbox, seen, hungUp>>

\* A handler thread returns: its connection is dropped and counted out.
Return(c) == conn' = [conn EXCEPT ![c] = "closed"] /\ live' = live - 1

-----------------------------------------------------------------------------
(* Connection threads.                                                     *)

MutMayAccept == TRUE
MayAccept == live < MaxLive

\* The accept loop: above the limit the connection is dropped unanswered.
Accept(c) ==
    /\ conn[c] = "idle"
    /\ IF MayAccept
         THEN conn' = [conn EXCEPT ![c] = "reading"] /\ live' = live + 1
         ELSE conn' = [conn EXCEPT ![c] = "refused"] /\ UNCHANGED live
    /\ UNCHANGED <<commands, version, subs>>

\* A request that does not arrive in time, is too long or malformed.
MutBadRequest(c) ==
    /\ conn[c] = "reading"
    /\ conn' = [conn EXCEPT ![c] = "closed"]
    /\ UNCHANGED <<live, commands, version, subs>>
BadRequest(c) ==
    /\ conn[c] = "reading"
    /\ Return(c)
    /\ UNCHANGED <<commands, version, subs>>

SendCommand(c) ==
    /\ conn[c] = "reading"
    /\ conn' = [conn EXCEPT ![c] = "waiting"]
    /\ queue' = Append(queue, c)
    /\ UNCHANGED <<live, running, ran, reply, response, version, subs>>

\* recv_timeout returns the result, or gives up after two seconds; either way
\* the response carries the snapshot of that moment.
Answer(c) ==
    /\ conn[c] = "waiting" /\ reply[c] # "none"
    /\ response' = [response EXCEPT ![c] = [ok |-> reply[c] = "ok", version |-> version]]
    /\ Return(c)
    /\ UNCHANGED <<queue, running, ran, reply, version, subs>>

GiveUp(c) ==
    /\ conn[c] = "waiting" /\ reply[c] = "none"
    /\ response' = [response EXCEPT ![c] = [ok |-> FALSE, version |-> version]]
    /\ Return(c)
    /\ UNCHANGED <<queue, running, ran, reply, version, subs>>

\* subscribe: the sender is registered, then the current state is written.
Subscribe(s) ==
    /\ conn[s] = "reading"
    /\ conn' = [conn EXCEPT ![s] = "subscribed"]
    /\ subscribers' = subscribers \cup {s}
    /\ UNCHANGED <<live, commands, version, inbox, seen, hungUp>>

FirstState(s) ==
    /\ conn[s] = "subscribed" /\ seen[s] = 0
    /\ seen' = [seen EXCEPT ![s] = version]
    /\ UNCHANGED <<conn, live, commands, version, subscribers, inbox, hungUp>>

\* The heartbeat wakes the thread even when nothing is queued.
MutMayWake(s) == inbox[s] # <<>>
MayWake(s) == TRUE

\* The queue is drained and the current state written, not a queued one.
MutStateToSend(s) == IF inbox[s] = <<>> THEN seen[s] ELSE inbox[s][Len(inbox[s])]
StateToSend(s) == version

Wake(s) ==
    /\ conn[s] = "subscribed" /\ seen[s] # 0 /\ s \notin hungUp
    /\ MayWake(s)
    /\ seen' = [seen EXCEPT ![s] = StateToSend(s)]
    /\ inbox' = [inbox EXCEPT ![s] = <<>>]
    /\ UNCHANGED <<conn, live, commands, version, subscribers, hungUp>>

\* The write fails: the thread ends and its receiver is dropped.
WakeFails(s) ==
    /\ conn[s] = "subscribed" /\ seen[s] # 0 /\ s \in hungUp
    /\ MayWake(s)
    /\ inbox' = [inbox EXCEPT ![s] = <<>>]
    /\ Return(s)
    /\ UNCHANGED <<commands, version, subscribers, seen, hungUp>>

HangUp(s) ==
    /\ conn[s] = "subscribed" /\ s \notin hungUp
    /\ hungUp' = hungUp \cup {s}
    /\ UNCHANGED <<conn, live, commands, version, subscribers, inbox, seen>>

-----------------------------------------------------------------------------
(* The event loop.                                                         *)

\* publish_snapshot: the shared snapshot is replaced.  When only counters or
\* telemetry moved (~ui) no subscriber is told; otherwise subscribers that are
\* gone leave the list and a full queue is left as it is.
Publish(ui) ==
    /\ version' = version + 1
    /\ subscribers' = IF ui THEN {s \in subscribers : conn[s] = "subscribed"} ELSE subscribers
    /\ inbox' = [s \in Subs |->
          IF ui /\ s \in subscribers' /\ Len(inbox[s]) < QueueCap
            THEN Append(inbox[s], version + 1) ELSE inbox[s]]

\* Something else changes the desktop; maintain_desktop publishes it.
Change(ui) ==
    /\ running = NoCommand /\ version < MaxVersion
    /\ Publish(ui)
    /\ UNCHANGED <<conn, live, commands, seen, hungUp>>

\* A command from the channel succeeds and maintain_desktop publishes its
\* effect, before the result is sent.
MutRunUnpublished(ui) ==
    /\ running = NoCommand /\ queue # <<>> /\ version < MaxVersion
    /\ running' = [by |-> Head(queue), result |-> "ok"]
    /\ queue' = Tail(queue)
    /\ ran' = [ran EXCEPT ![Head(queue)] = version + 1]
    /\ UNCHANGED <<version, subscribers, inbox, conn, live, reply, response, seen, hungUp>>
Run(ui) ==
    /\ running = NoCommand /\ queue # <<>> /\ version < MaxVersion
    /\ running' = [by |-> Head(queue), result |-> "ok"]
    /\ queue' = Tail(queue)
    /\ Publish(ui)
    /\ ran' = [ran EXCEPT ![Head(queue)] = version + 1]
    /\ UNCHANGED <<conn, live, reply, response, seen, hungUp>>

\* A command that is refused changes nothing.
RunFails ==
    /\ running = NoCommand /\ queue # <<>>
    /\ running' = [by |-> Head(queue), result |-> "error"]
    /\ queue' = Tail(queue)
    /\ ran' = [ran EXCEPT ![Head(queue)] = version]
    /\ UNCHANGED <<conn, live, reply, response, version, subs>>

\* Then the result is sent; nobody may be waiting for it any more.
Reply ==
    /\ running # NoCommand
    /\ reply' = IF conn[running.by] = "waiting"
                  THEN [reply EXCEPT ![running.by] = running.result] ELSE reply
    /\ running' = NoCommand
    /\ UNCHANGED <<conn, live, queue, ran, response, version, subs>>

-----------------------------------------------------------------------------
IpcNext ==
    \/ \E c \in Conns : Accept(c) \/ BadRequest(c)
    \/ \E c \in Clients : SendCommand(c) \/ Answer(c) \/ GiveUp(c)
    \/ \E s \in Subs : Subscribe(s) \/ FirstState(s) \/ Wake(s) \/ WakeFails(s) \/ HangUp(s)
    \/ \E ui \in BOOLEAN : Change(ui) \/ Run(ui)
    \/ RunFails \/ Reply

IpcSpec == IpcInit /\ [][IpcNext]_ipcVars

\* Threads run, and recv_timeout returns after at most two seconds.
IpcFairness ==
    \A s \in Subs : WF_ipcVars(FirstState(s)) /\ WF_ipcVars(Wake(s)) /\ WF_ipcVars(WakeFails(s))

IpcFairSpec == IpcSpec /\ IpcFairness

-----------------------------------------------------------------------------
(* Correctness.                                                            *)

\* The counter that limits connections counts exactly the threads that run.
Handled == {c \in Conns : conn[c] \in {"reading", "waiting", "subscribed"}}
LiveCounts == IsFiniteSet(Handled) /\ live = Cardinality(Handled)

\* A command that is reported to have worked has run, and the state in its
\* response is not older than its effect.
ReplyIsFresh ==
    \A c \in Clients :
        response[c].ok => ran[c] # 0 /\ response[c].version >= ran[c]

\* The inductive invariant behind ReplyIsFresh: a command is in one place, in the
\* channel, running, or answered, it is there once, and no connection is told of
\* a version that is still to come.
Sent(c) == conn[c] \in {"waiting", "closed"} /\ reply[c] = "none" /\ ~response[c].ok
OnePlace ==
    /\ \A i \in 1 .. Len(queue) : Sent(queue[i]) /\ queue[i] # running.by
    /\ \A i, j \in 1 .. Len(queue) : queue[i] = queue[j] => i = j
    /\ running # NoCommand => running.by \in Clients /\ Sent(running.by)
RunBefore ==
    /\ version >= 1
    /\ running.result = "ok" => ran[running.by] # 0
    /\ \A c \in Clients :
        /\ reply[c] = "ok" => ran[c] # 0
        /\ response[c].ok => conn[c] = "closed"
        /\ ran[c] <= version
        /\ conn[c] \in {"idle", "reading"} => reply[c] = "none" /\ ~response[c].ok

IpcInv == IpcTypeOK /\ LiveCounts /\ ReplyIsFresh /\ OnePlace /\ RunBefore

\* "A saturated queue cannot leave clients stale": a subscriber that stays gets
\* every state or a later one.
SubscriberCatchesUp ==
    \A s \in Subs, v \in 1 .. MaxVersion :
        (version = v /\ conn[s] = "subscribed") ~> (seen[s] >= v \/ s \in hungUp)

\* "A heartbeat releases disconnected clients even while the desktop is idle".
HangUpReleases == \A s \in Subs : (s \in hungUp) ~> (conn[s] = "closed")
=============================================================================
