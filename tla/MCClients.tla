----------------------------- MODULE MCClients ------------------------------
(***************************************************************************)
(* The two conversations the compositor holds with clients that wait for   *)
(* an answer: the session lock and the control socket.  They share only    *)
(* the event loop, so a behaviour is one of the part chosen in its initial *)
(* state and the other stays as it starts.                                 *)
(***************************************************************************)
EXTENDS SessionLock

CONSTANTS Callers, Subs, MaxLive, QueueCap, MaxVersion, Nobody

VARIABLES part, conn, live, queue, running, ran, reply, response, version, subscribers, inbox,
          seen, hungUp

IPC == INSTANCE Ipc WITH Clients <- Callers

ASSUME ClientsAssumption == IPC!IpcAssumption

socketVars == <<conn, live, queue, running, ran, reply, response, version, subscribers, inbox,
                seen, hungUp>>
clientsVars == <<part, vars, socketVars>>

In(p) == part = p

ClientsInit ==
    /\ part \in {"lock", "socket"}
    /\ Init /\ IPC!IpcInit
    /\ In("lock") \/ mapped = {}

ClientsNext ==
    \/ In("lock") /\ Next /\ UNCHANGED <<part, socketVars>>
    \/ In("socket") /\ IPC!IpcNext /\ UNCHANGED <<part, vars>>

\* The fairness of the two modules, where each says what justifies it.
LockFairness ==
    /\ SF_vars(In("lock") /\ RedrawPass) /\ WF_vars(In("lock") /\ LockPresented)
    /\ \A o \in Outputs :
        WF_vars(In("lock") /\ FrameFinish(o)) /\ WF_vars(In("lock") /\ Repaint(o))
SocketFairness == \A s \in Subs :
    /\ WF_socketVars(In("socket") /\ IPC!FirstState(s))
    /\ WF_socketVars(In("socket") /\ IPC!Wake(s))
    /\ WF_socketVars(In("socket") /\ IPC!WakeFails(s))

ClientsSpec ==
    ClientsInit /\ [][ClientsNext]_clientsVars /\ LockFairness /\ SocketFairness

-----------------------------------------------------------------------------
\* lock.rs: of an unlocked session only late surfaces of denied clients cover an
\* output.  ipc.rs: a command that is reported to have worked has run, its response
\* shows a state at least as new, and the counter that limits connections counts
\* the threads that run.
ClientsSound ==
    /\ In("lock") => UnlockUncovers
    /\ In("socket") => IPC!IpcInv

\* ipc.rs, handle and publish_snapshot: a subscriber that stays connected ends up
\* with the last state published.
SubscriberCatchesUp == IPC!SubscriberCatchesUp

\* ipc.rs, handle: a subscriber that hangs up gives its place and thread back.
HangUpReleases == IPC!HangUpReleases
=============================================================================
