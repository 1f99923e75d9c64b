------------------------------ MODULE ShellTray ------------------------------
(***************************************************************************)
(* The status notifier watcher of the SCTK bar (shell-sctk/src/main.rs):   *)
(* applications register tray items; for each registration one thread      *)
(* waits for the owner of the item's name to go and another refreshes the  *)
(* item when it signals a change.  The threads share the list of           *)
(* registered items under a lock and send what they load, or a removal, to *)
(* the bar's event loop.                                                   *)
(*                                                                         *)
(* An item belongs to an application under a well-known name: it may quit  *)
(* and start again, and each life has an owner name of its own.  A load    *)
(* finds the icon if the application is there, and else leaves the item    *)
(* blank.  A failing session bus is left out.                              *)
(***************************************************************************)
EXTENDS Naturals, Sequences, FiniteSets

CONSTANTS
    Apps,
    Nobody,             \* the list's lock is free
    MaxLives,           \* bound: lives of an application
    MaxRegistrations,   \* bound: times an application is registered
    MaxTrayQueue        \* bound: messages waiting for the bar

TrayAssumption ==
    /\ Nobody \notin Apps
    /\ {MaxLives, MaxRegistrations, MaxTrayQueue} \subseteq Nat \ {0}

Looks == {"blank", "icon"}
Threads == Apps \X (1..MaxRegistrations)

VARIABLES
    life,               \* the application's current or last life
    alive,              \* it runs
    listed,             \* TrayServer.items
    lister,             \* who holds its lock: an item being registered
    registrations,      \* history: registrations so far
    warden,             \* the owner's watcher: what it does
    removals,           \* how many threads are about to send a removal
    awaited,            \* the owner it found
    lost,               \* owners whose loss it has been signalled
    refresher,          \* the refreshing threads: "none", "idle" or what was loaded
    trayQueue,          \* the channel to the bar's event loop
    tray,               \* App.tray
    overtaken           \* history: a message was sent that the list contradicts

owners == <<life, alive>>
list == <<listed, lister, registrations>>
watch == <<warden, removals, awaited, lost>>
trayVars == <<owners, list, watch, refresher, trayQueue, tray, overtaken>>

-----------------------------------------------------------------------------
Subscribed == {"subscribed", "asked", "watching"}

TrayTypeOK ==
    /\ life \in [Apps -> 0..MaxLives] /\ alive \in [Apps -> BOOLEAN]
    /\ listed \subseteq Apps /\ lister \in Apps \cup {Nobody}
    /\ registrations \in [Apps -> 0..MaxRegistrations]
    /\ warden \in [Apps -> {"none", "started"} \cup Subscribed]
    /\ removals \in [Apps -> 0..MaxRegistrations]
    /\ awaited \in [Apps -> 0..MaxLives]
    /\ lost \in [Apps -> SUBSET (1..MaxLives)]
    /\ refresher \in [Threads -> {"none", "idle"} \cup Looks]
    /\ trayQueue \in Seq(Apps \X (Looks \cup {"gone"})) /\ Len(trayQueue) <= MaxTrayQueue
    /\ tray \in [Apps -> Looks \cup {"none"}]
    /\ overtaken \subseteq Apps

TrayInit ==
    /\ life = [a \in Apps |-> 0] /\ alive = [a \in Apps |-> FALSE]
    /\ listed = {} /\ lister = Nobody /\ registrations = [a \in Apps |-> 0]
    /\ warden = [a \in Apps |-> "none"] /\ awaited = [a \in Apps |-> 0]
    /\ lost = [a \in Apps |-> {}] /\ removals = [a \in Apps |-> 0]
    /\ refresher = [t \in Threads |-> "none"]
    /\ trayQueue = <<>> /\ tray = [a \in Apps |-> "none"]
    /\ overtaken = {}

Tell(a, what) == /\ Len(trayQueue) < MaxTrayQueue
                 /\ trayQueue' = Append(trayQueue, <<a, what>>)

-----------------------------------------------------------------------------
(* Applications.                                                           *)

Start(a) ==
    /\ ~alive[a] /\ life[a] < MaxLives
    /\ life' = [life EXCEPT ![a] = @ + 1] /\ alive' = [alive EXCEPT ![a] = TRUE]
    /\ UNCHANGED <<list, watch, refresher, trayQueue, tray, overtaken>>
\* NameOwnerChanged reaches a watcher that has installed its match rule.
Quit(a) ==
    /\ alive[a] /\ alive' = [alive EXCEPT ![a] = FALSE]
    /\ lost' = [lost EXCEPT ![a] = IF warden[a] \in Subscribed THEN @ \cup {life[a]} ELSE @]
    /\ UNCHANGED <<life, list, warden, removals, awaited, refresher, trayQueue, tray, overtaken>>

-----------------------------------------------------------------------------
(* register_status_notifier_item.  The lock is held while the item is      *)
(* loaded, so nothing else registers or is removed meanwhile.              *)

Loaded(a) == IF alive[a] THEN "icon" ELSE "blank"

Register(a) ==
    /\ alive[a] /\ lister = Nobody /\ registrations[a] < MaxRegistrations
    /\ a \notin listed
    /\ listed' = listed \cup {a} /\ lister' = a
    /\ registrations' = [registrations EXCEPT ![a] = @ + 1]
    /\ UNCHANGED <<owners, watch, refresher, trayQueue, tray, overtaken>>
Registered(a) ==
    /\ lister = a /\ lister' = Nobody
    /\ Tell(a, Loaded(a))
    /\ warden' = [warden EXCEPT ![a] = "started"]
    /\ lost' = [lost EXCEPT ![a] = {}] /\ awaited' = [awaited EXCEPT ![a] = 0]
    /\ refresher' = [refresher EXCEPT ![<<a, registrations[a]>>] = "idle"]
    /\ UNCHANGED <<owners, listed, registrations, removals, tray, overtaken>>

-----------------------------------------------------------------------------
(* spawn_tray_item_monitor, the owner's watcher.  Operators named Mut...   *)
(* are slips of the definition below them that the properties must catch.  *)

\* remove_tray_item: the item leaves the list under the lock, and the message
\* follows without it.  If it is not listed there is nothing to say.
Unlist(a) ==
    /\ lister = Nobody
    /\ listed' = listed \ {a}
    /\ warden' = [warden EXCEPT ![a] = "none"]
    /\ removals' = [removals EXCEPT ![a] = IF a \in listed THEN @ + 1 ELSE @]

\* The rule is installed before the owner is asked for.
WardenSubscribes(a) ==
    /\ warden[a] = "started"
    /\ warden' = [warden EXCEPT ![a] = "subscribed"]
    /\ UNCHANGED <<awaited, lost, listed, removals>>
\* GetNameOwner fails for a name that nobody owns any more.
MutWardenAsks(a) ==
    /\ warden[a] = "subscribed"
    /\ IF alive[a]
       THEN /\ awaited' = [awaited EXCEPT ![a] = life[a]]
            /\ warden' = [warden EXCEPT ![a] = "asked"]
       ELSE warden' = [warden EXCEPT ![a] = "none"] /\ UNCHANGED awaited
    /\ UNCHANGED <<lost, listed, removals>>
WardenAsks(a) ==
    /\ warden[a] = "subscribed"
    /\ IF alive[a]
       THEN /\ awaited' = [awaited EXCEPT ![a] = life[a]]
            /\ warden' = [warden EXCEPT ![a] = "asked"]
            /\ UNCHANGED <<listed, removals>>
       ELSE Unlist(a) /\ UNCHANGED awaited
    /\ UNCHANGED lost
WardenChecks(a) ==
    /\ warden[a] = "asked"
    /\ IF alive[a] /\ life[a] = awaited[a]
       THEN warden' = [warden EXCEPT ![a] = "watching"] /\ UNCHANGED <<listed, removals>>
       ELSE Unlist(a)
    /\ UNCHANGED <<awaited, lost>>
\* tray_service_owner_lost: only the loss of the owner it found counts.
OwnerLost(a) == awaited[a] \in lost[a]
WardenHears(a) ==
    /\ warden[a] = "watching" /\ OwnerLost(a)
    /\ Unlist(a)
    /\ UNCHANGED <<awaited, lost>>

Warden(a) ==
    /\ WardenSubscribes(a) \/ WardenAsks(a) \/ WardenChecks(a) \/ WardenHears(a)
    /\ UNCHANGED <<owners, lister, registrations, refresher, trayQueue, tray, overtaken>>
\* The item may have been registered again by the time the removal is sent.
SendRemoval(a) ==
    /\ removals[a] > 0 /\ removals' = [removals EXCEPT ![a] = @ - 1]
    /\ Tell(a, "gone")
    /\ overtaken' = IF a \in listed THEN overtaken \cup {a} ELSE overtaken
    /\ UNCHANGED <<owners, list, warden, awaited, lost, refresher, tray>>

-----------------------------------------------------------------------------
(* The refreshing thread.  It never ends while the bus is there.           *)

Refresh(t) ==
    /\ refresher[t] = "idle"
    /\ refresher' = [refresher EXCEPT ![t] = Loaded(t[1])]
    /\ UNCHANGED <<owners, list, watch, trayQueue, tray, overtaken>>
\* The item may have been removed by the time what was loaded is sent.
SendRefresh(t) ==
    /\ refresher[t] \in Looks
    /\ refresher' = [refresher EXCEPT ![t] = "idle"]
    /\ Tell(t[1], refresher[t])
    /\ overtaken' = IF t[1] \notin listed THEN overtaken \cup {t[1]} ELSE overtaken
    /\ UNCHANGED <<owners, list, watch, tray>>

\* The bar's event loop.
MutTrayHandle == tray' = [tray EXCEPT ![Head(trayQueue)[1]] =
                            IF Head(trayQueue)[2] = "gone" THEN "blank" ELSE Head(trayQueue)[2]]
TrayHandle == tray' = [tray EXCEPT ![Head(trayQueue)[1]] =
                            IF Head(trayQueue)[2] = "gone" THEN "none" ELSE Head(trayQueue)[2]]
HandleTray ==
    /\ trayQueue # <<>> /\ trayQueue' = Tail(trayQueue)
    /\ TrayHandle
    /\ UNCHANGED <<owners, list, watch, refresher, overtaken>>

TrayNext ==
    \/ \E a \in Apps : \/ Start(a) \/ Quit(a) \/ Register(a) \/ Registered(a)
                       \/ Warden(a) \/ SendRemoval(a)
    \/ \E t \in Threads : Refresh(t) \/ SendRefresh(t)
    \/ HandleTray

TraySpec == TrayInit /\ [][TrayNext]_trayVars

-----------------------------------------------------------------------------
(* Properties.                                                             *)

Unsaid(queue, a) == \A i \in DOMAIN queue : queue[i][1] # a

\* Nothing about a is on its way.
Settled(a) ==
    /\ lister # a /\ removals[a] = 0 /\ Unsaid(trayQueue, a)
    /\ warden[a] \in {"none", "watching"} /\ ~(warden[a] = "watching" /\ OwnerLost(a))
    /\ \A t \in Threads : t[1] = a => refresher[t] \notin Looks

\* An application that quits leaves no icon behind, and the bar and the
\* watcher's list agree: wherever in the registration it quits.  What a thread
\* sends after the list has moved on is the exception (NoIconStays).
TrayAgrees ==
    \A a \in Apps :
        Settled(a) /\ a \notin overtaken =>
            /\ a \in listed <=> tray[a] # "none"
            /\ a \in listed => alive[a] /\ awaited[a] = life[a]

\* What is listed is watched once its registration is through, and by one thread.
ListedIsWatched ==
    \A a \in Apps : /\ warden[a] # "none" <=> a \in listed /\ lister # a
                    /\ lister = a => a \in listed
                    /\ removals[a] + (IF a \in listed THEN 1 ELSE 0) <= registrations[a]

\* The owner a watcher found is there or its loss has been signalled.
OwnerFollowed ==
    \A a \in Apps : /\ alive[a] => life[a] > 0
                    /\ warden[a] \in {"asked", "watching"} =>
                            \/ alive[a] /\ awaited[a] = life[a]
                            \/ OwnerLost(a)

LastOf(queue, a, i) ==
    queue[i][1] = a /\ \A j \in DOMAIN queue : j > i => queue[j][1] # a

\* The last that was sent of an application, or is shown of it, is what the list says.
LastWordListed ==
    \A a \in Apps :
        a \notin overtaken /\ lister # a /\ removals[a] = 0 =>
            /\ \A i \in DOMAIN trayQueue :
                LastOf(trayQueue, a, i) => (a \in listed <=> trayQueue[i][2] # "gone")
            /\ Unsaid(trayQueue, a) => (a \in listed <=> tray[a] # "none")

TrayInv == TrayTypeOK /\ TrayAgrees /\ ListedIsWatched /\ OwnerFollowed /\ LastWordListed
=============================================================================
