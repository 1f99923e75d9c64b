----------------------------- MODULE WifiPanel ------------------------------
(***************************************************************************)
(* The Wi-Fi panel of the GTK shell (shell/src/wifi.rs).  It lists what    *)
(* NetworkManager's objects say, and reads them all again, one reading at  *)
(* a time, when a signal says that they changed; it asks for scans and for *)
(* connections, and follows the one it asked for last.                     *)
(*                                                                         *)
(* NetworkManager is external: it answers late or not in time, and may     *)
(* restart, when it numbers its connections from one again.  The bus       *)
(* delivers in order.  Strength, names and all texts are left out, and so  *)
(* is the mark on the network in use.                                      *)
(***************************************************************************)
EXTENDS Naturals, Sequences, FiniteSets

CONSTANTS
    Networks,
    Unsupported,        \* those whose security the form does not know
    Adapters,
    None,               \* no network, no argument
    MaxService,         \* bound: times NetworkManager starts
    MaxPaths,           \* bound: connections of one life of NetworkManager
    MaxActs             \* bound: changes, clicks and answers that fail, together

WifiAssumption ==
    /\ Unsupported \subseteq Networks /\ IsFiniteSet(Adapters)
    /\ None \notin Networks \cup Adapters
    /\ MaxService \in Nat \ {0} /\ MaxPaths \in Nat /\ MaxActs \in Nat

VARIABLES
    \* NetworkManager and the bus
    service, lives,     \* which of its lives it is in, or 0; how many it had
    adapters, air, radio,   \* the adapters, the networks in reach, WirelessEnabled
    conns,              \* state of the active connections, by number
    calls, mail,        \* not answered yet; not dispatched yet
    \* the panel
    owner, wifi,        \* what its proxy knows: name_owner and WirelessEnabled
    mapped, loading, again, scheduled,
    devices, listed, listOn,    \* what the last reading found; may rows be chosen
    remaining, scanOn,  \* answers of the scan under way; the button's sensitivity
    connecting, form,
    watched, progress,  \* connection_path and what the label says of it
    stale,              \* history: the last reading was not answered in time
    acts

bus == <<calls, mail>>
world == <<service, lives, adapters, air, radio, conns>>
reading == <<loading, again, stale>>
lists == <<devices, listed, listOn, scanOn>>
connection == <<connecting, form, watched, progress>>
proxy == <<owner, wifi>>
wifiVars == <<world, bus, proxy, mapped, reading, scheduled, lists, remaining, connection, acts>>

Paths == 1 .. MaxPaths
States == {"activating", "activated", "deactivating"}
CallOf(kinds, args) == [kind : kinds, owner : 0 .. MaxService, arg : args]
Asked == CallOf({"list"}, {None}) \cup CallOf({"scan"}, Adapters)
         \cup CallOf({"activate", "add"}, Networks) \cup CallOf({"status"}, Paths)
Call == CallOf({"proxy"}, {None}) \cup Asked
Signals ==
    [type : {"changed"}] \cup [type : {"property"}, wifi : BOOLEAN]
    \cup [type : {"owner"}, life : 0 .. MaxService, wifi : BOOLEAN]
    \cup [type : {"state"}, path : Paths, state : States \cup {"ended"}]
    \cup [type : {"gone"}, path : Paths]
Replies ==
    [type : {"reply"}, call : CallOf({"list"}, {None}), result : {"ok"},
     found : [adapters : SUBSET Adapters, networks : SUBSET Networks]]
    \cup [type : {"reply"}, call : CallOf({"activate", "add"}, Networks), result : {"ok"}, path : Paths]
    \cup [type : {"reply"}, call : CallOf({"status"}, Paths), result : {"ok"}, state : States]
    \cup [type : {"reply"}, call : CallOf({"scan"}, Adapters), result : {"ok"}]
    \cup [type : {"reply"}, call : Asked, result : {"error", "timeout"}]

WifiTypeOK ==
    /\ service \in 0 .. MaxService /\ lives \in 0 .. MaxService
    /\ adapters \subseteq Adapters /\ air \subseteq Networks
    /\ {radio, wifi, mapped, loading, again, scheduled, listOn, scanOn, connecting, stale} \subseteq BOOLEAN
    /\ conns \in [Paths -> States \cup {"none", "ended"}]
    /\ calls \in Seq(Call) /\ mail \in Seq(Signals \cup Replies)
    /\ owner \in 0 .. MaxService
    /\ devices \subseteq Adapters /\ listed \subseteq Networks
    /\ remaining \in Nat
    /\ form \in Networks \cup {None} /\ watched \in Paths \cup {0}
    /\ progress \in States \cup {"blank", "ended", "unreadable", "lost"}

\* The menu has not been opened; the service runs and the proxy knows it.
WifiInit ==
    /\ service = 1 /\ lives = 1
    /\ adapters = Adapters /\ air = Networks /\ radio = TRUE
    /\ conns = [p \in Paths |-> "none"]
    /\ calls = <<>> /\ mail = <<>>
    /\ owner = 1 /\ wifi = TRUE
    /\ mapped = FALSE /\ loading = FALSE /\ again = FALSE /\ scheduled = FALSE
    /\ devices = {} /\ listed = {} /\ listOn = TRUE
    /\ remaining = 0 /\ scanOn = FALSE
    /\ connecting = FALSE /\ form = None
    /\ watched = 0 /\ progress = "blank"
    /\ stale = FALSE /\ acts = 0

-----------------------------------------------------------------------------
(* NetworkManager and the bus.                                             *)

Counted == acts < MaxActs /\ acts' = acts + 1
Says(what) == mail' = mail \o what
Changed == [type |-> "changed"]
Property(on) == [type |-> "property", wifi |-> on]
Owner(life, on) == [type |-> "owner", life |-> life, wifi |-> on]
State(p, s) == [type |-> "state", path |-> p, state |-> s]
Gone(p) == [type |-> "gone", path |-> p]
Reply(call, result) == [type |-> "reply", call |-> call, result |-> result]
ListFound(call, what) == [type |-> "reply", call |-> call, result |-> "ok", found |-> what]
Begun(call, p) == [type |-> "reply", call |-> call, result |-> "ok", path |-> p]
Status(call, s) == [type |-> "reply", call |-> call, result |-> "ok", state |-> s]
Failed(reply) == reply.result # "ok"

panelVars == <<proxy, mapped, reading, scheduled, lists, remaining, connection>>

AirChanges ==
    /\ service # 0 /\ Counted
    /\ \/ \E n \in Networks : air' = (air \ {n}) \cup ({n} \ air) /\ UNCHANGED adapters
       \/ \E a \in Adapters : adapters' = (adapters \ {a}) \cup ({a} \ adapters) /\ UNCHANGED air
    /\ Says(<<Changed>>)
    /\ UNCHANGED <<service, lives, radio, conns, calls, panelVars>>
RadioSwitched ==
    /\ service # 0 /\ Counted
    /\ radio' = ~radio /\ Says(<<Property(~radio)>>)
    /\ UNCHANGED <<service, lives, adapters, air, conns, calls, panelVars>>

\* A connection comes up and down; at its end its object goes, with or without
\* a last change of its state.
After(s) == CASE s = "activating" -> {"activated", "ended"}
              [] s = "activated" -> {"deactivating", "ended"}
              [] s = "deactivating" -> {"ended"}
ConnectionMoves(p) ==
    /\ conns[p] \in States /\ Counted
    /\ \E s \in After(conns[p]) :
        /\ conns' = [conns EXCEPT ![p] = s]
        /\ \/ s # "ended" /\ Says(<<State(p, s)>>)
           \/ s = "ended" /\ \E last \in {<<>>, <<State(p, s)>>} : Says(last \o <<Gone(p)>>)
    /\ UNCHANGED <<service, lives, adapters, air, radio, calls, panelVars>>

\* The bus tells that the name has no owner, and that the calls have no answer;
\* the proxy's own call, which is always the first, it makes anew.
ServiceQuits ==
    /\ service # 0 /\ Counted
    /\ service' = 0 /\ conns' = [p \in Paths |-> "none"] /\ calls' = <<>>
    /\ LET own == calls # <<>> /\ Head(calls).kind = "proxy"
           unanswered == IF own THEN Tail(calls) ELSE calls IN
       Says(<<Owner(0, FALSE)>> \o [i \in DOMAIN unanswered |-> Reply(unanswered[i], "error")])
    /\ UNCHANGED <<lives, adapters, air, radio, panelVars>>
\* The proxy reads the properties before it knows the new owner.
ServiceStarts ==
    /\ service = 0 /\ calls = <<>> /\ lives < MaxService
    /\ lives' = lives + 1 /\ service' = lives + 1
    /\ calls' = <<[kind |-> "proxy", owner |-> lives + 1, arg |-> None]>>
    /\ UNCHANGED <<adapters, air, radio, conns, mail, panelVars, acts>>

Snapshot == [adapters |-> adapters, networks |-> IF adapters = {} THEN {} ELSE air]
Answered(reply) == calls' = Tail(calls) /\ Says(<<reply>>)

\* The first call is answered as the service sees fit.
Answer ==
    /\ calls # <<>>
    /\ LET call == Head(calls) IN
       \/ /\ service = 0 /\ Answered(Reply(call, "error")) /\ UNCHANGED <<conns, acts>>
       \/ /\ service # 0 /\ call.kind = "proxy"
          /\ calls' = Tail(calls) /\ Says(<<Owner(service, radio)>>) /\ UNCHANGED <<conns, acts>>
       \/ /\ service # 0 /\ call.kind = "list" /\ Answered(ListFound(call, Snapshot)) /\ UNCHANGED <<conns, acts>>
       \/ /\ service # 0 /\ call.kind = "scan"
          /\ \/ Answered(Reply(call, "ok")) /\ UNCHANGED acts
             \/ Answered(Reply(call, "error")) /\ Counted
          /\ UNCHANGED conns
       \/ /\ service # 0 /\ call.kind \in {"activate", "add"}
          /\ \/ /\ \E p \in Paths :
                    /\ conns[p] = "none" /\ \A q \in Paths : q < p => conns[q] # "none"
                    /\ conns' = [conns EXCEPT ![p] = "activating"]
                    /\ Answered(Begun(call, p))
                /\ UNCHANGED acts
             \/ Answered(Reply(call, "error")) /\ Counted /\ UNCHANGED conns
       \/ /\ service # 0 /\ call.kind = "status"
          /\ Answered(IF conns[call.arg] \in States THEN Status(call, conns[call.arg]) ELSE Reply(call, "error"))
          /\ UNCHANGED <<conns, acts>>
    /\ UNCHANGED <<service, lives, adapters, air, radio, panelVars>>
\* A call has its time limit; what was asked for is not done.
TimesOut ==
    /\ calls # <<>> /\ Head(calls).kind # "proxy" /\ Counted
    /\ Answered(Reply(Head(calls), "timeout"))
    /\ UNCHANGED <<world, panelVars>>

-----------------------------------------------------------------------------
(* Readings.  Operators named Mut... are slips of the definition below     *)
(* them that the properties must catch; no specification uses them.        *)

Usable == owner # 0 /\ wifi
AddCalls(kind, args) == calls \o [i \in DOMAIN args |-> [kind |-> kind, owner |-> owner, arg |-> args[i]]]

\* refresh, by a panel that may be open, with a reading under way or not.
Refresh(open, busy, once, life) ==
    /\ loading' = (busy \/ open)
    /\ again' = (once \/ (open /\ busy))
    /\ calls' = IF open /\ ~busy THEN Append(calls, [kind |-> "list", owner |-> life, arg |-> None]) ELSE calls

\* The reply of a reading; one of another life of the service is not shown.
MutOverRead == UNCHANGED calls /\ loading' = FALSE /\ UNCHANGED again
OverRead == Refresh(mapped, FALSE, again, owner)
Read(reply) ==
    \/ /\ owner # reply.call.owner
       /\ OverRead
       /\ UNCHANGED <<lists, stale>>
    \/ /\ owner = reply.call.owner
       /\ devices' = IF Failed(reply) THEN {} ELSE reply.found.adapters
       /\ listed' = IF Failed(reply) THEN {} ELSE reply.found.networks
       /\ scanOn' = (Usable /\ remaining = 0 /\ devices' # {})
       /\ listOn' = IF Failed(reply) THEN listOn ELSE ~connecting /\ Usable
       /\ stale' = (reply.result = "timeout")
       /\ IF again THEN Refresh(mapped, FALSE, FALSE, owner)
          ELSE loading' = FALSE /\ again' = FALSE /\ UNCHANGED calls

\* queue_refresh and its timer.
QueueRefresh == scheduled' = (scheduled \/ mapped)
TimerFires ==
    /\ scheduled /\ scheduled' = FALSE
    /\ Refresh(mapped, loading, again, owner)
    /\ UNCHANGED <<world, mail, proxy, mapped, stale, lists, remaining, connection, acts>>

-----------------------------------------------------------------------------
(* Connections.                                                            *)

\* watch_connection, connection_state.
Watch(p) ==
    /\ watched' = p /\ progress' = "activating"
    /\ calls' = AddCalls("status", <<p>>)
Moved(p, s) ==
    IF watched # p THEN UNCHANGED <<watched, progress>>
    ELSE progress' = s /\ watched' = IF s = "ended" THEN 0 ELSE p

\* The replies; a saved connection that fails opens the form instead.
FormFor(n) == IF n \in Unsupported THEN None ELSE n
Connected(reply) ==
    /\ connecting' = FALSE /\ listOn' = Usable
    /\ IF Failed(reply)
       THEN /\ form' = IF reply.call.kind = "activate" THEN FormFor(reply.call.arg) ELSE form
            /\ UNCHANGED <<watched, progress, calls>>
       ELSE /\ form' = IF reply.call.kind = "add" THEN None ELSE form
            /\ Watch(reply.path)
StatusRead(reply) ==
    IF owner # reply.call.owner THEN UNCHANGED <<watched, progress>>
    ELSE IF Failed(reply)
    THEN progress' = (IF watched = reply.call.arg THEN "unreadable" ELSE progress) /\ UNCHANGED watched
    ELSE Moved(reply.call.arg, reply.state)

\* The last answer of a scan ends it.
Scanned ==
    /\ remaining' = remaining - 1
    /\ scanOn' = IF remaining = 1 THEN Usable /\ devices # {} ELSE scanOn

-----------------------------------------------------------------------------
(* What the main loop dispatches.                                          *)

First == Head(mail)
Taken(types) == mail # <<>> /\ First.type \in types /\ mail' = Tail(mail)

HandleSignal == LET m == First IN
    /\ Taken({"changed", "property", "state", "gone"})
    /\ wifi' = IF m.type = "property" THEN m.wifi ELSE wifi
    /\ \/ m.type = "state" /\ Moved(m.path, m.state) /\ UNCHANGED scheduled
       \/ m.type = "gone" /\ Moved(m.path, "ended") /\ QueueRefresh
       \/ m.type \in {"changed", "property"} /\ QueueRefresh /\ UNCHANGED <<watched, progress>>
    /\ UNCHANGED <<world, calls, owner, mapped, reading, lists, remaining, connecting, form, acts>>

\* g-name-owner: the list goes, and with it the connection of another life.
MutLost == UNCHANGED <<watched, progress>>
Lost ==
    /\ watched' = 0
    /\ progress' = IF watched # 0 THEN "lost" ELSE progress
HandleOwner == LET m == First IN
    /\ Taken({"owner"})
    /\ owner' = m.life /\ wifi' = m.wifi
    /\ Lost
    /\ form' = None /\ listed' = {} /\ devices' = {} /\ scanOn' = FALSE
    /\ Refresh(mapped, loading, again, m.life)
    /\ UNCHANGED <<world, mapped, stale, scheduled, listOn, remaining, connecting, acts>>

HandleReply == LET m == First IN
    /\ Taken({"reply"})
    /\ \/ /\ m.call.kind = "list" /\ Read(m)
          /\ UNCHANGED <<remaining, connection>>
       \/ /\ m.call.kind = "scan" /\ Scanned
          /\ UNCHANGED <<calls, reading, devices, listed, listOn, connection>>
       \/ /\ m.call.kind \in {"activate", "add"} /\ Connected(m)
          /\ UNCHANGED <<reading, devices, listed, scanOn, remaining>>
       \/ /\ m.call.kind = "status" /\ StatusRead(m)
          /\ UNCHANGED <<calls, reading, lists, remaining, connecting, form>>
    /\ UNCHANGED <<world, proxy, mapped, scheduled, acts>>

-----------------------------------------------------------------------------
(* The user.                                                               *)

Open ==
    /\ ~mapped /\ mapped' = TRUE
    /\ Refresh(TRUE, loading, again, owner)
    /\ UNCHANGED <<world, mail, proxy, stale, scheduled, lists, remaining, connection, acts>>
Shut ==
    /\ mapped /\ Counted
    /\ mapped' = FALSE /\ form' = None
    /\ UNCHANGED <<world, bus, proxy, reading, scheduled, lists, remaining, connecting, watched, progress>>

Orders(S) == {order \in [1 .. Cardinality(S) -> S] : \A a \in S : \E i \in DOMAIN order : order[i] = a}
Scan ==
    /\ mapped /\ scanOn /\ Counted
    /\ Usable /\ remaining = 0 /\ devices # {}
    /\ \E order \in Orders(devices) :
        /\ remaining' = Len(order) /\ scanOn' = FALSE
        /\ calls' = AddCalls("scan", order)
    /\ UNCHANGED <<world, mail, proxy, mapped, reading, scheduled, devices, listed, listOn, connection>>

\* A row, or the button of the form with a password that is accepted.
Asks(kind, n) ==
    /\ mapped /\ Counted
    /\ Usable /\ ~connecting
    /\ connecting' = TRUE /\ listOn' = FALSE
    /\ watched' = 0 /\ progress' = "blank"
    /\ calls' = AddCalls(kind, <<n>>)
    /\ UNCHANGED <<world, mail, proxy, mapped, reading, scheduled, devices, listed, scanOn, remaining>>
Choose(n) == n \in listed /\ listOn /\ form' = None /\ Asks("activate", n)
Submit == form # None /\ UNCHANGED form /\ Asks("add", form)

WifiNext ==
    \/ AirChanges \/ RadioSwitched \/ \E p \in Paths : ConnectionMoves(p)
    \/ ServiceQuits \/ ServiceStarts \/ Answer \/ TimesOut
    \/ TimerFires \/ HandleSignal \/ HandleOwner \/ HandleReply
    \/ Open \/ Shut \/ Scan \/ Submit \/ \E n \in Networks : Choose(n)

WifiSpec == WifiInit /\ [][WifiNext]_wifiVars

-----------------------------------------------------------------------------
(* Properties.                                                             *)

Quiet == calls = <<>> /\ mail = <<>>

\* However restarts, signals and readings crossed, an open panel ends up with
\* the networks there are, and lets the user scan and choose exactly when the
\* service can do it (refresh, queue_refresh, the g-name-owner handler).
NetworksShown ==
    Quiet /\ ~scheduled /\ mapped /\ ~stale =>
        /\ listed = IF service = 0 THEN {} ELSE Snapshot.networks
        /\ scanOn = (service # 0 /\ radio /\ adapters # {})
        /\ listed # {} => listOn = radio

\* The panel waits for no answer that will not come (loading, scanning,
\* connecting), and what it says of a connection is true of that connection,
\* though the service may have restarted and given its number to another
\* (watch_connection, connection_state).
ConnectionIsTrue ==
    Quiet =>
        /\ ~loading /\ remaining = 0 /\ ~connecting
        /\ watched # 0 => progress \in {conns[watched], "unreadable"}

\* Why they hold.  Each flag that waits has its calls or answers on their way.
CountOf(q, S) == Cardinality({i \in DOMAIN q : q[i] \in S})
Waiting(kinds) ==
    CountOf(calls, {c \in Call : c.kind \in kinds}) + CountOf(mail, {m \in Replies : m.call.kind \in kinds})
AnswersCome ==
    /\ Waiting({"list"}) = IF loading THEN 1 ELSE 0
    /\ Waiting({"activate", "add"}) = IF connecting THEN 1 ELSE 0
    /\ Waiting({"scan"}) = remaining
    /\ \A i \in DOMAIN calls : calls[i].kind = "proxy" => i = 1 /\ service # 0

\* The owner and the radio that the proxy knows are the last it was told of.
ProxyDue == \E i \in DOMAIN calls : calls[i].kind = "proxy"
IsA(i, types) == i \in DOMAIN mail /\ mail[i].type \in types
OwnerIsTold ==
    /\ owner # service => ProxyDue \/ \E j \in DOMAIN mail : IsA(j, {"owner"})
    /\ \A i \in DOMAIN mail : IsA(i, {"owner"}) /\ mail[i].life # service =>
            ProxyDue \/ \E j \in DOMAIN mail : j > i /\ IsA(j, {"owner"})
RadioIsTold == service # 0 =>
    /\ wifi # radio => ProxyDue \/ \E j \in DOMAIN mail : IsA(j, {"owner", "property"})
    /\ \A i \in DOMAIN mail : IsA(i, {"owner", "property"}) /\ mail[i].wifi # radio =>
            ProxyDue \/ \E j \in DOMAIN mail : j > i /\ IsA(j, {"owner", "property"})

\* An open panel shows what there is, or will read it again, or is about to be
\* answered with what there is.
ToRead ==
    \/ scheduled \/ (loading /\ again) \/ ProxyDue
    \/ \E i \in DOMAIN mail : IsA(i, {"changed", "property", "gone", "owner"})
Current == IF service = 0 THEN [adapters |-> {}, networks |-> {}] ELSE Snapshot
TrueAnswer(m) ==
    \/ m.call.owner # owner \/ m.result = "timeout"
    \/ m.result = "error" /\ service = 0
    \/ m.result = "ok" /\ m.found = Current
ListIsDue == mapped =>
    \/ ToRead
    \/ \E i \in DOMAIN calls : calls[i].kind = "list"
    \/ \E i \in DOMAIN mail : IsA(i, {"reply"}) /\ mail[i].call.kind = "list" /\ TrueAnswer(mail[i])
    \/ ~loading /\ (stale \/ [adapters |-> devices, networks |-> listed] = Current)
ButtonsAreDue == mapped =>
    \/ ToRead \/ loading
    \/ /\ scanOn = (Usable /\ remaining = 0 /\ devices # {})
       /\ listed # {} => listOn = (Usable /\ ~connecting)

\* What the mail says of a connection is true or is followed by the truth, or by
\* the end of the service.
Claim(m, p) ==
    \/ m.type = "state" /\ m.path = p
    \/ m.type = "gone" /\ m.path = p
    \/ m.type = "reply" /\ m.result = "ok" /\ m.call.kind = "status" /\ m.call.arg = p
    \/ m.type = "reply" /\ m.result = "ok" /\ m.call.kind \in {"activate", "add"} /\ m.path = p
Claimed(m) ==
    IF m.type = "gone" THEN "ended"
    ELSE IF m.type = "reply" /\ m.call.kind # "status" THEN "activating" ELSE m.state
Truth(j, p) ==
    \/ mail[j].type = "owner"
    \/ mail[j].type \in {"state", "gone"} /\ Claim(mail[j], p) /\ Claimed(mail[j]) = conns[p]
ClaimsAreTrue ==
    \A i \in DOMAIN mail, p \in Paths : Claim(mail[i], p) /\ Claimed(mail[i]) # conns[p] =>
        \E j \in DOMAIN mail : j > i /\ Truth(j, p)
ProgressIsDue ==
    watched # 0 =>
        \/ progress \in {conns[watched], "unreadable"}
        \/ \E j \in DOMAIN mail : Truth(j, watched)

WifiInv ==
    /\ WifiTypeOK /\ NetworksShown /\ ConnectionIsTrue
    /\ AnswersCome /\ OwnerIsTold /\ RadioIsTold /\ ListIsDue /\ ButtonsAreDue
    /\ ClaimsAreTrue /\ ProgressIsDue
=============================================================================
