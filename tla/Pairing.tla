------------------------------- MODULE Pairing -------------------------------
(***************************************************************************)
(* Pairing a Bluetooth device from the GTK shell (shell/src/               *)
(* bluetooth_pairing.rs, and the part of bluetooth.rs that owns it).  Each *)
(* pairing opens a bus connection of its own, exports an agent on it,      *)
(* registers the agent with BlueZ and asks the device to pair; BlueZ then  *)
(* calls the agent back with questions for the user, whose answers go to   *)
(* the call that asked.  Everything but BlueZ runs on one main loop: the   *)
(* task of a pairing may outlive the pairing, which its continuations find *)
(* out when they run.                                                      *)
(*                                                                         *)
(* BlueZ and the bus are external: they answer late, with an error or not  *)
(* at all (calls time out), and BlueZ may restart.  Texts are abstracted   *)
(* to the question they ask.                                               *)
(***************************************************************************)
EXTENDS Naturals, FiniteSets

CONSTANTS
    Devices,
    MaxPairings,        \* bound: pairings started
    MaxRestarts         \* bound: restarts of BlueZ

PairingAssumption == MaxPairings \in Nat /\ MaxRestarts \in Nat

VARIABLES
    service,            \* name_owner: the life of BlueZ that owns the name
    devices,            \* those in the object manager
    queued,             \* an update of the panel is queued
    current,            \* the pairing that is held: its number, or 0
    active,             \* fields of that pairing ...
    device, owner,
    linked,             \* ... connection and registration are set
    pending,            \* ... the call to be answered: its kind, or "none"
    shown,              \* what the message says
    accept, entry, panel,       \* the widgets' visibility
    tasks,              \* by number: what the task of a pairing waits for
    links,              \* by number: its private connection
    asked,              \* history, by number: BlueZ was asked to pair
    unanswered          \* calls of the agent that await their answer

pairingVars == <<service, devices, queued, current, active, device, owner, linked, pending,
                 shown, accept, entry, panel, tasks, links, asked, unanswered>>

world == <<service, devices>>
fields == <<device, owner>>
widgets == <<shown, accept, entry>>

Numbers == 1..MaxPairings
Kinds == {"pin", "passkey", "confirm"}          \* Answer
Texts == {"pairing", "waiting", "display"} \cup Kinds

PairingTypeOK ==
    /\ service \in 0..MaxRestarts /\ owner \in 0..MaxRestarts
    /\ devices \subseteq Devices /\ device \in Devices
    /\ queued \in BOOLEAN /\ active \in BOOLEAN /\ linked \in BOOLEAN
    /\ accept \in BOOLEAN /\ entry \in BOOLEAN /\ panel \in BOOLEAN
    /\ current \in 0..MaxPairings
    /\ pending \in Kinds \cup {"none"} /\ shown \in Texts
    /\ tasks \in [Numbers -> {"new", "connecting", "registering", "pairing", "over"}]
    /\ links \in [Numbers -> {"none", "open", "cancelling", "closed"}]
    /\ asked \in [Numbers -> BOOLEAN] /\ unanswered \in Nat

PairingInit ==
    /\ service = 0 /\ owner = 0 /\ devices = Devices /\ device \in Devices
    /\ queued = FALSE /\ current = 0 /\ active = FALSE /\ linked = FALSE
    /\ pending = "none" /\ shown = "pairing" /\ accept = FALSE /\ entry = FALSE /\ panel = FALSE
    /\ tasks = [g \in Numbers |-> "new"] /\ links = [g \in Numbers |-> "none"]
    /\ asked = [g \in Numbers |-> FALSE] /\ unanswered = 0

-----------------------------------------------------------------------------
(* The end of a pairing.  Operators named Mut... are slips of the          *)
(* definition below them that the properties must catch; no specification  *)
(* uses them.                                                              *)

\* close: the connection is kept until CancelPairing returned.
Closing(cancel) == IF cancel THEN "cancelling" ELSE "closed"

\* What finish does to the call under way.
Dropped ==
    /\ pending' = "none"
    /\ unanswered' = IF pending = "none" THEN unanswered ELSE unanswered - 1
\* ... and to the connection, if it is there yet.
Hung(cancel) == IF linked THEN [links EXCEPT ![current] = Closing(cancel)] ELSE links

\* finish: does nothing the second time.  It changes active, linked, pending,
\* unanswered, panel and links, and leaves the buttons, which are in the panel.
Finish(cancel) ==
    IF active
    THEN /\ active' = FALSE /\ linked' = FALSE /\ panel' = FALSE
         /\ Dropped /\ links' = Hung(cancel)
    ELSE UNCHANGED <<active, linked, panel, pending, unanswered, links>>

\* Taken, canceled and dropped: drop finds nothing left to do.
Abandoned == Finish(TRUE) /\ current' = 0

-----------------------------------------------------------------------------
(* The user.                                                               *)

\* A device's row, which is there while BlueZ runs; a pairing that has ended is
\* dropped for the new one.
MayStart == ~active
Start(d) ==
    /\ d \in devices /\ service > 0
    /\ MayStart /\ current < MaxPairings
    /\ \E g \in Numbers :
        /\ tasks[g] = "new" /\ \A h \in Numbers : h < g => tasks[h] # "new"
        /\ current' = g /\ tasks' = [tasks EXCEPT ![g] = "connecting"]
    /\ active' = TRUE /\ linked' = FALSE /\ pending' = "none"
    /\ device' = d /\ owner' = service
    /\ shown' = "pairing" /\ accept' = FALSE /\ entry' = FALSE /\ panel' = TRUE
    /\ UNCHANGED <<world, queued, links, asked, unanswered>>

\* respond, from the button or the entry: a text that is no answer is refused
\* (the message says how it should be), and everything stays.
Respond ==
    /\ panel /\ accept /\ pending # "none"
    /\ pending' = "none" /\ unanswered' = unanswered - 1
    /\ shown' = "pairing" /\ accept' = FALSE /\ entry' = FALSE
    /\ UNCHANGED <<world, queued, current, active, fields, linked, panel, tasks, links, asked>>

Cancel ==
    /\ panel /\ Finish(TRUE)
    /\ UNCHANGED <<world, queued, current, fields, widgets, tasks, asked>>

\* The popover closes.
Unmap ==
    /\ current > 0 /\ Abandoned
    /\ UNCHANGED <<world, queued, fields, widgets, tasks, asked>>

-----------------------------------------------------------------------------
(* The task of a pairing, which holds it weakly.                           *)

Over(g) == tasks' = [tasks EXCEPT ![g] = "over"]

\* The connection is there, or cannot be had; registering the object on it may
\* fail, too.
MutWanted(g) == current = g
Wanted(g) == current = g /\ active
Connected(g) ==
    /\ tasks[g] = "connecting"
    /\ \/ /\ ~Wanted(g) /\ Over(g)
          /\ \/ links' = [links EXCEPT ![g] = "closed"]
             \/ UNCHANGED links
          /\ UNCHANGED <<active, linked, panel, pending, unanswered>>
       \/ /\ Wanted(g) /\ Over(g) /\ Finish(FALSE)
       \/ /\ Wanted(g)
          /\ linked' = TRUE /\ links' = [links EXCEPT ![g] = "open"]
          /\ tasks' = [tasks EXCEPT ![g] = "registering"]
          /\ UNCHANGED <<active, panel, pending, unanswered>>
    /\ UNCHANGED <<world, queued, current, fields, widgets, asked>>

\* RegisterAgent returned or timed out.
MutRefusedAgent == UNCHANGED <<active, linked, panel, pending, unanswered, links>>
RefusedAgent == Finish(FALSE)
Registered(g) ==
    /\ tasks[g] = "registering"
    /\ \/ /\ ~(current = g /\ active) /\ Over(g)
          /\ UNCHANGED <<active, linked, panel, pending, unanswered, links, asked>>
       \/ /\ current = g /\ active /\ Over(g) /\ RefusedAgent /\ UNCHANGED asked
       \/ /\ current = g /\ active /\ owner = service
          /\ tasks' = [tasks EXCEPT ![g] = "pairing"]
          /\ asked' = [asked EXCEPT ![g] = TRUE]
          /\ UNCHANGED <<active, linked, panel, pending, unanswered, links>>
    /\ UNCHANGED <<world, queued, current, fields, widgets>>

\* Pair returned, failed, timed out or was canceled with the pairing.
PairReturns(g) ==
    /\ tasks[g] = "pairing" /\ Over(g)
    /\ \E failed \in BOOLEAN :
        /\ \/ asked' = [asked EXCEPT ![g] = FALSE]
           \/ failed /\ UNCHANGED asked
        /\ IF current = g THEN Finish(failed)
           ELSE UNCHANGED <<active, linked, panel, pending, unanswered, links>>
    /\ UNCHANGED <<world, queued, current, fields, widgets>>

\* CancelPairing returned or timed out.
CancelReturns(g) ==
    /\ links[g] = "cancelling" /\ links' = [links EXCEPT ![g] = "closed"]
    /\ UNCHANGED <<world, queued, current, active, fields, linked, pending, widgets, panel,
                   tasks, asked, unanswered>>

-----------------------------------------------------------------------------
(* request: BlueZ calls the agent, whose object is there while "linked".   *)
(* Calls of other senders, of other devices and with numbers out of range  *)
(* are refused, as is a question while another waits for its answer.       *)

MutAccepts == TRUE
Accepts == pending = "none"

\* RequestPinCode, RequestPasskey; RequestConfirmation, RequestAuthorization and
\* AuthorizeService; the call waits for the user.
Question(k) ==
    /\ linked /\ active /\ Accepts
    /\ pending' = k /\ unanswered' = unanswered + 1
    /\ shown' = k /\ accept' = TRUE /\ entry' = (k \in {"pin", "passkey"})
    /\ UNCHANGED <<world, queued, current, active, fields, linked, panel, tasks, links, asked>>

\* DisplayPasskey, DisplayPinCode: answered at once.
Display ==
    /\ linked /\ active /\ Accepts
    /\ shown' = "display" /\ accept' = FALSE /\ entry' = FALSE
    /\ UNCHANGED <<world, queued, current, active, fields, linked, pending, panel, tasks, links,
                   asked, unanswered>>

\* Cancel: BlueZ takes its question back; the pairing goes on.
MutTakenBack == UNCHANGED <<accept, entry, shown>>
TakenBack == accept' = FALSE /\ entry' = FALSE /\ shown' = "waiting"
CancelQuestion ==
    /\ linked /\ active
    /\ Dropped /\ TakenBack
    /\ UNCHANGED <<world, queued, current, active, fields, linked, panel, tasks, links, asked>>

Release ==
    /\ linked /\ active /\ Finish(FALSE)
    /\ UNCHANGED <<world, queued, current, fields, widgets, tasks, asked>>

-----------------------------------------------------------------------------
(* BlueZ and its objects.                                                  *)

\* The service appears, or another life of it takes the name.
NewService ==
    /\ service < MaxRestarts /\ service' = service + 1
    /\ IF current > 0 THEN Abandoned
       ELSE UNCHANGED <<active, linked, panel, pending, unanswered, links, current>>
    /\ UNCHANGED <<devices, queued, fields, widgets, tasks, asked>>

DevicesChange(d) ==
    /\ devices' = IF d \in devices THEN devices \ {d} ELSE devices \cup {d}
    /\ queued' = TRUE
    /\ UNCHANGED <<service, current, active, fields, linked, pending, widgets, panel, tasks,
                   links, asked, unanswered>>

\* update: a device that is gone takes its pairing with it.
Update ==
    /\ queued /\ queued' = FALSE
    /\ IF active /\ device \notin devices THEN Finish(TRUE)
       ELSE UNCHANGED <<active, linked, panel, pending, unanswered, links>>
    /\ UNCHANGED <<world, current, fields, widgets, tasks, asked>>

Step(g) == Connected(g) \/ Registered(g) \/ PairReturns(g)
PairingNext ==
    \/ \E d \in Devices : Start(d) \/ DevicesChange(d)
    \/ \E k \in Kinds : Question(k)
    \/ \E g \in Numbers : Step(g) \/ CancelReturns(g)
    \/ Respond \/ Cancel \/ Unmap \/ Display \/ CancelQuestion \/ Release \/ NewService \/ Update

\* The calls of a pairing have timeouts (5 s, 120 s, 3 s), so their callbacks run.
PairingSpec ==
    /\ PairingInit /\ [][PairingNext]_pairingVars
    /\ \A g \in Numbers : WF_pairingVars(Step(g)) /\ WF_pairingVars(CancelReturns(g))

-----------------------------------------------------------------------------
(* Properties.                                                             *)

\* A pairing keeps a connection to the bus only while it is the one under way:
\* whenever it ends - canceled, closed with the popover, outlived by its task,
\* refused by BlueZ - its connection is closed, or waits for CancelPairing only,
\* and with it BlueZ forgets the agent and the request to pair (finish, close,
\* and the two checks of the task in start).
LinksReleased ==
    \A g \in Numbers :
        /\ links[g] = "open" <=> current = g /\ active /\ linked
        /\ tasks[g] = "over" /\ asked[g] => links[g] \in {"cancelling", "closed"}

\* The user answers the question that is shown, and no call of BlueZ is lost: the
\* one call that waits is the one the panel asks about, with the means to answer
\* it; and a button that is shown has a call to answer (request, respond, finish).
AnswersTheQuestion ==
    /\ unanswered = IF pending = "none" THEN 0 ELSE 1
    /\ pending # "none" => active /\ panel /\ accept /\ shown = pending
    /\ panel /\ accept => pending # "none"
    /\ panel => entry = (pending \in {"pin", "passkey"})

\* A task and its pairing agree on how far they are: only an active pairing has
\* the panel and a connection, it has the connection from the moment its agent
\* is being registered until it ends, and BlueZ is asked over that connection.
TaskFollows ==
    /\ linked => active
    /\ active => current # 0 /\ panel
    /\ \A g \in Numbers :
        /\ asked[g] => tasks[g] \in {"pairing", "over"} /\ links[g] # "none"
        /\ current = g /\ active /\ tasks[g] \in {"registering", "pairing"} => linked
        /\ current = g /\ active => tasks[g] \notin {"new", "over"}

PairingInv == PairingTypeOK /\ LinksReleased /\ AnswersTheQuestion /\ TaskFollows

\* A pairing ends, by itself if need be, and so another can be started (start and
\* the timeouts of its calls).
PairingEnds == \A g \in Numbers : (current = g /\ active) ~> ~(current = g /\ active)

=============================================================================
