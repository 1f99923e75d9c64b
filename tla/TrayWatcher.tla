----------------------------- MODULE TrayWatcher -----------------------------
(***************************************************************************)
(* The registry of tray items and hosts of the GTK shell (shell/src/       *)
(* tray_watcher.rs).  An application registers a bus name or an object of  *)
(* its own connection; the watcher asks the bus who owns the name, and     *)
(* lists it if that is the caller; it forgets it when the bus says that    *)
(* the name changed hands.                                                 *)
(*                                                                         *)
(* The bus is external: it delivers to the watcher in order, and answers   *)
(* GetNameOwner when it comes to it, or not in time.  An application may   *)
(* own one well-known name, "shared"; "own" is the name of its connection. *)
(* Object paths are left out: an item is its service and its owner.        *)
(***************************************************************************)
EXTENDS Naturals, Sequences, FiniteSets

CONSTANTS
    Apps, Nobody,
    MaxEntries,         \* 64 in the code, for items, hosts and requests each
    MaxAsked,           \* bound: registrations asked for
    MaxMail,            \* bound: messages on their way to the watcher
    MaxTakeovers        \* bound: changes of the shared name's owner

TrayWatcherAssumption ==
    Nobody \notin Apps /\ MaxAsked \in Nat /\ MaxTakeovers \in Nat

VARIABLES
    alive,              \* the applications' connections
    shared,             \* owner of the well-known name
    mail,               \* messages of the bus to the watcher, in order
    items, hosts,       \* the registry: [service, owner]
    waiting,            \* ... pending: by request, [service, owner]
    calls,              \* GetNameOwner calls under way: request -> the call they answer
    seen, hostSeen,     \* what the signals told those who listen
    sequence, takeovers

watcherVars == <<alive, shared, mail, items, hosts, waiting, calls, seen, hostSeen, sequence,
                 takeovers>>

Entry == [service : {"own", "shared"}, owner : Apps]
Call == [entry : Entry, host : BOOLEAN]
Requests == 1..MaxAsked
Partial(D, R) == UNION {[S -> R] : S \in SUBSET D}
Message == [type : {"register"}, call : Call]
           \cup [type : {"owner"}, request : Requests, owner : Apps \cup {Nobody}]
           \cup [type : {"changed"}, service : {"own", "shared"},
                 old : Apps \cup {Nobody}, new : Apps \cup {Nobody}]

WatcherTypeOK ==
    /\ alive \subseteq Apps /\ shared \in Apps \cup {Nobody}
    /\ items \subseteq Entry /\ hosts \subseteq Entry /\ seen \subseteq Entry
    /\ waiting \in Partial(Requests, Entry) /\ calls \in Partial(Requests, Call)
    /\ hostSeen \in BOOLEAN /\ sequence \in 0..MaxAsked /\ takeovers \in 0..MaxTakeovers
    /\ mail \in Seq(Message)

WatcherInit ==
    /\ alive = Apps /\ shared = Nobody /\ mail = <<>>
    /\ items = {} /\ hosts = {} /\ waiting = <<>> /\ calls = <<>>
    /\ seen = {} /\ hostSeen = FALSE /\ sequence = 0 /\ takeovers = 0

-----------------------------------------------------------------------------
(* The bus and the applications (external).                                *)

Owner(service, app) == IF service = "own" THEN (IF app \in alive THEN app ELSE Nobody) ELSE shared
Changed(service, old, new) == [type |-> "changed", service |-> service, old |-> old, new |-> new]

\* The registrations the watcher has not come to.
Asked == {i \in 1..Len(mail) : mail[i].type = "register"}

\* RequestName and ReleaseName: one owner after another.
TakeName(app) ==
    /\ takeovers < MaxTakeovers /\ Len(mail) < MaxMail
    /\ app \in alive /\ shared' = (IF shared = app THEN Nobody ELSE app)
    /\ takeovers' = takeovers + 1
    /\ mail' = Append(mail, Changed("shared", shared, shared'))
    /\ UNCHANGED <<alive, items, hosts, waiting, calls, seen, hostSeen, sequence>>
\* A connection ends: its names go first, then its own.
Quit(app) ==
    /\ app \in alive /\ Len(mail) < MaxMail
    /\ alive' = alive \ {app}
    /\ shared' = IF shared = app THEN Nobody ELSE shared
    /\ mail' = mail \o (IF shared = app THEN <<Changed("shared", app, Nobody)>> ELSE <<>>)
                    \o <<Changed("own", app, Nobody)>>
    /\ UNCHANGED <<items, hosts, waiting, calls, seen, hostSeen, sequence, takeovers>>
Register(app, service, host) ==
    /\ app \in alive /\ Len(mail) < MaxMail
    /\ sequence + Cardinality(Asked) < MaxAsked
    /\ mail' = Append(mail, [type |-> "register",
                             call |-> [entry |-> [service |-> service, owner |-> app],
                                       host |-> host]])
    /\ UNCHANGED <<alive, shared, items, hosts, waiting, calls, seen, hostSeen, sequence, takeovers>>
\* GetNameOwner: the owner of that moment, or an error after 2 s.
Answer(r) ==
    /\ r \in DOMAIN calls /\ Len(mail) < MaxMail
    /\ \A i \in 1..Len(mail) : mail[i].type = "owner" => mail[i].request # r
    /\ \E owner \in {Owner(calls[r].entry.service, calls[r].entry.owner), Nobody} :
        mail' = Append(mail, [type |-> "owner", request |-> r, owner |-> owner])
    /\ UNCHANGED <<alive, shared, items, hosts, waiting, calls, seen, hostSeen, sequence, takeovers>>

-----------------------------------------------------------------------------
(* The watcher.  Operators named Mut... are slips of the definition below  *)
(* them that the properties must catch; no specification uses them.        *)

Next1(type) == mail # <<>> /\ mail[1].type = type /\ mail' = Tail(mail)
With(f, r, value) == [x \in DOMAIN f \cup {r} |-> IF x = r THEN value ELSE f[x]]
Without(f, r) == [x \in DOMAIN f \ {r} |-> f[x]]

\* RegisterStatusNotifierItem and ...Host, refused when too many wait.
Called ==
    /\ Next1("register")
    /\ IF Cardinality(DOMAIN waiting) >= MaxEntries
       THEN UNCHANGED <<waiting, calls, sequence>>
       ELSE /\ sequence' = sequence + 1
            /\ waiting' = With(waiting, sequence', mail[1].call.entry)
            /\ calls' = With(calls, sequence', mail[1].call)
    /\ UNCHANGED <<alive, shared, items, hosts, seen, hostSeen, takeovers>>

\* The reply is good if nothing was heard of the name since the question.
MutValid(r, owner) == r \in DOMAIN waiting /\ owner # Nobody
Valid(r, owner) == r \in DOMAIN waiting /\ owner = calls[r].entry.owner

\* Taken before the entry is in the list: a host after the first is no news.
MutFirst(list) == FALSE
First(list) == list = {}
\* A list takes what it does not hold, while there is room.
Takes(list, e) == e \notin list /\ Cardinality(list) < MaxEntries
OwnerKnown ==
    /\ Next1("owner")
    /\ LET r == mail[1].request
           e == calls[r].entry
       IN  /\ waiting' = Without(waiting, r) /\ calls' = Without(calls, r)
           /\ IF Valid(r, mail[1].owner) /\ calls[r].host /\ Takes(hosts, e)
              THEN hosts' = hosts \cup {e} /\ hostSeen' = (hostSeen \/ First(hosts))
              ELSE UNCHANGED <<hosts, hostSeen>>
           /\ IF Valid(r, mail[1].owner) /\ ~calls[r].host /\ Takes(items, e)
              THEN items' = items \cup {e} /\ seen' = seen \cup {e}
              ELSE UNCHANGED <<items, seen>>
    /\ UNCHANGED <<alive, shared, sequence, takeovers>>

\* NameOwnerChanged: what was registered under the name, and all of a connection
\* that is gone; a name that had no owner had nothing.
MutGoneWith(e, c) ==
    IF c.service = "own" THEN e.owner = c.old ELSE e.service = c.service /\ c.new = Nobody
GoneWith(e, c) ==
    IF c.service = "own" THEN e.owner = c.old ELSE e.service = c.service
Lost(had, left) == had # {} /\ left = {}
OwnerChanged ==
    /\ Next1("changed")
    /\ LET c == mail[1]
           Kept(set) == {e \in set : ~GoneWith(e, c)}
       IN  IF c.old = Nobody THEN UNCHANGED <<waiting, items, hosts, seen, hostSeen>>
           ELSE /\ waiting' = [r \in {x \in DOMAIN waiting : ~GoneWith(waiting[x], c)} |-> waiting[r]]
                /\ items' = Kept(items) /\ seen' = seen \ (items \ Kept(items))
                /\ hosts' = Kept(hosts)
                /\ hostSeen' = (hostSeen /\ ~Lost(hosts, hosts'))
    /\ UNCHANGED <<alive, shared, calls, sequence, takeovers>>

WatcherNext ==
    \/ \E app \in Apps : TakeName(app) \/ Quit(app)
    \/ \E app \in Apps, service \in {"own", "shared"}, host \in BOOLEAN : Register(app, service, host)
    \/ \E r \in Requests : Answer(r)
    \/ Called \/ OwnerKnown \/ OwnerChanged
WatcherSpec == WatcherInit /\ [][WatcherNext]_watcherVars

-----------------------------------------------------------------------------
(* Properties.                                                             *)

\* Whatever the registry lists belongs to the application that registered it, now
\* or until a change of owner that is on its way is handled: no name that passed
\* to another, and no connection that is gone, stays in the tray - not even when it
\* changed while the bus was asked about it.
ListedIsOwned ==
    \A e \in items \cup hosts :
        \/ Owner(e.service, e.owner) = e.owner
        \/ \E i \in 1..Len(mail) : mail[i].type = "changed" /\ mail[i].old = e.owner

\* Those who follow the signals know what the registry holds: every item that came
\* and went, and whether there is a host.
SignalsAgree == seen = items /\ hostSeen = (hosts # {})

\* A change of owner that takes e along is among the messages after the first n.
Warned(e, n) ==
    \E i \in 1..Len(mail) :
        i > n /\ mail[i].type = "changed" /\ mail[i].old = e.owner /\ GoneWith(e, mail[i])
Holds(e, n) == Owner(e.service, e.owner) = e.owner \/ Warned(e, n)
ListedIsWarned == \A e \in items \cup hosts : Holds(e, 0)

\* An answer was true when it was given: what happened since comes behind it.
AnswersHold ==
    \A i \in 1..Len(mail) : mail[i].type = "owner" =>
        /\ mail[i].request \in DOMAIN calls
        /\ mail[i].owner = calls[mail[i].request].entry.owner
            => Holds(calls[mail[i].request].entry, i)
        /\ \A j \in 1..Len(mail) :
            mail[j].type = "owner" /\ mail[j].request = mail[i].request => j = i

\* Requests are numbered in the order they are handled.
Numbered == DOMAIN calls \subseteq 1..sequence /\ sequence + Cardinality(Asked) <= MaxAsked

WatcherInv ==
    /\ WatcherTypeOK /\ ListedIsOwned /\ SignalsAgree
    /\ ListedIsWarned /\ AnswersHold /\ Numbered
=============================================================================
