----------------------------- MODULE IpcSocket ------------------------------
(***************************************************************************)
(* Taking over the control socket at start-up: the first half of           *)
(* ipc::serve, one action per system call.  Compositors share a runtime    *)
(* directory; they may crash, leaving a socket file nobody listens on.     *)
(***************************************************************************)
EXTENDS Naturals

CONSTANTS
    Compositors,    \* compositors that share the runtime directory
    Overlap,        \* whether two compositors may be starting at once
    MaxBinds        \* bound: sockets bound so far

ASSUME SocketAssumption == Overlap \in BOOLEAN /\ MaxBinds \in Nat

VARIABLES
    pc,             \* what each compositor does next
    path,           \* the socket file at the shared path, 0 if there is none
    mine,           \* the socket each compositor listens on, 0 if none
    binds           \* sockets bound so far

socketVars == <<pc, path, mine, binds>>

Starting == {"stat", "connect", "remove", "bind"}
Sockets == 0 .. MaxBinds

SocketTypeOK ==
    /\ pc \in [Compositors -> Starting \cup {"off", "serving"}]
    /\ path \in Sockets /\ binds \in Sockets
    /\ mine \in [Compositors -> Sockets]

SocketInit ==
    /\ pc = [c \in Compositors |-> "off"]
    /\ path = 0 /\ binds = 0
    /\ mine = [c \in Compositors |-> 0]

Goto(c, where) == pc' = [pc EXCEPT ![c] = where]

\* A connection is accepted by whoever listens on that socket.
Answers(socket) == \E c \in Compositors : socket # 0 /\ mine[c] = socket

\* A compositor is started; install_desktop calls serve.
Launch(c) ==
    /\ pc[c] = "off" /\ binds < MaxBinds
    /\ Overlap \/ \A d \in Compositors : pc[d] \notin Starting
    /\ Goto(c, "stat")
    /\ UNCHANGED <<path, mine, binds>>

\* symlink_metadata: nothing there, or a socket to ask.
MutUnlinkFirst(c) ==
    /\ pc[c] = "stat"
    /\ Goto(c, "bind") /\ path' = 0
    /\ UNCHANGED <<mine, binds>>
Stat(c) ==
    /\ pc[c] = "stat"
    /\ Goto(c, IF path = 0 THEN "bind" ELSE "connect")
    /\ UNCHANGED <<path, mine, binds>>

\* connect: an answer, or a file that has gone, ends the start; a refusal
\* marks the file as stale.
MutConnect(c) ==
    /\ pc[c] = "connect"
    /\ Goto(c, IF path = 0 THEN "off" ELSE "remove")
    /\ UNCHANGED <<path, mine, binds>>
Connect(c) ==
    /\ pc[c] = "connect"
    /\ Goto(c, IF path = 0 \/ Answers(path) THEN "off" ELSE "remove")
    /\ UNCHANGED <<path, mine, binds>>

\* remove_file unlinks whatever is at the path now.
RemoveStale(c) ==
    /\ pc[c] = "remove"
    /\ Goto(c, IF path = 0 THEN "off" ELSE "bind")
    /\ path' = 0
    /\ UNCHANGED <<mine, binds>>

\* bind fails if there is a file again.
Bind(c) ==
    /\ pc[c] = "bind"
    /\ IF path # 0
         THEN Goto(c, "off") /\ UNCHANGED <<path, mine, binds>>
         ELSE /\ binds < MaxBinds
              /\ binds' = binds + 1
              /\ path' = binds + 1
              /\ mine' = [mine EXCEPT ![c] = binds + 1]
              /\ Goto(c, "serving")

\* The compositor ends: its listener closes, the file stays.
End(c) ==
    /\ pc[c] # "off"
    /\ Goto(c, "off")
    /\ mine' = [mine EXCEPT ![c] = 0]
    /\ UNCHANGED <<path, binds>>

SocketNext ==
    \E c \in Compositors :
        Launch(c) \/ Stat(c) \/ Connect(c) \/ RemoveStale(c) \/ Bind(c) \/ End(c)

SocketSpec == SocketInit /\ [][SocketNext]_socketVars

\* "Socket ownership is exclusive; never unlink another live session": the
\* path leads to every compositor that serves.
OwnsSocket == \A c \in Compositors : pc[c] = "serving" => path = mine[c]

\* The inductive form: a compositor that will unlink has found a dead socket,
\* and when starts do not overlap none has been bound since.
SocketInv ==
    /\ SocketTypeOK
    /\ path <= binds
    /\ \A c \in Compositors : (pc[c] = "serving") <=> (mine[c] # 0)
    /\ OwnsSocket
    /\ \A c, d \in Compositors : pc[c] \in Starting /\ pc[d] \in Starting => c = d
    /\ \A c, d \in Compositors : pc[c] \in {"remove", "bind"} => pc[d] # "serving"
=============================================================================
