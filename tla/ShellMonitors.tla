---------------------------- MODULE ShellMonitors ----------------------------
(***************************************************************************)
(* The bar's status modules (shell-sctk/src/main.rs): threads that wait    *)
(* for a service's signals, read its whole state again and send it to the  *)
(* event loop.                                                             *)
(*                                                                         *)
(*   "network"    one thread; "audio" does the same with pactl's output    *)
(*   "media"      one for players that come and go, and one for each       *)
(*   "bluetooth"  likewise, but a new device alone is not a reason to read *)
(*   "config"     the configuration file, with a pause after each burst    *)
(*                                                                         *)
(* A service is a set of objects, each on or off.  What a thread reads it  *)
(* sends in a step of its own.  Which of the services it is, is fixed at   *)
(* the start.  A service that fails is left out.                           *)
(***************************************************************************)
EXTENDS Naturals, Sequences, FiniteSets

CONSTANTS
    Objects,
    Main,               \* the thread that knows of the objects
    MaxReadings         \* bound: readings waiting for the event loop

MonitorAssumption == Main \notin Objects /\ MaxReadings \in Nat

Services == {"network", "media", "bluetooth", "config"}
Watchers == Objects \cup {Main}
Absent == {}            \* what a thread holds that has read nothing

VARIABLES
    service,
    present, on,        \* the service's objects, and those that are on
    phase,              \* a thread: "none", "starting", "waiting", "read"
    reading,            \* what it read last
    told,               \* threads with a signal to handle
    readings,           \* the channel to the event loop
    label,              \* what the bar shows
    overtaken,          \* history: threads others have sent ahead of
    crossed,            \* history: the last reading sent was such a one
    unwatched,          \* history: objects that came before Main listened
    missed              \* history: a change nobody was yet there to hear

things == <<service, present, on>>
monitorVars == <<things, phase, reading, told, readings, label, overtaken, crossed, unwatched, missed>>

-----------------------------------------------------------------------------
MonitorsTypeOK ==
    /\ service \in Services
    /\ present \subseteq Objects /\ on \subseteq present
    /\ phase \in [Watchers -> {"none", "starting", "waiting", "pause", "drained", "read"}]
    /\ reading \in [Watchers -> SUBSET Objects]
    /\ told \subseteq Watchers /\ overtaken \subseteq Watchers
    /\ readings \in Seq(SUBSET Objects) /\ label \subseteq Objects
    /\ unwatched \subseteq Objects /\ crossed \in BOOLEAN /\ missed \in BOOLEAN

\* Every monitor reads once before it listens.
MonitorsInit ==
    /\ service \in Services
    /\ present \in SUBSET Objects /\ on \in SUBSET present
    /\ service \in {"network", "config"} => present = Objects
    /\ phase = [t \in Watchers |-> IF t = Main \/ (t \in present /\ service \notin {"network", "config"})
                                   THEN "starting" ELSE "none"]
    /\ reading = [t \in Watchers |-> Absent] /\ told = {}
    /\ readings = <<on>> /\ label = {}
    /\ overtaken = {} /\ crossed = FALSE /\ unwatched = {} /\ missed = FALSE

Listening(t) == phase[t] \notin {"none", "starting"}
Hears(o) == IF service \in {"network", "config"} THEN Main ELSE o
\* Nobody listens to o yet, but somebody will.
Early(o) == LET t == Hears(o) IN
            \/ o \in unwatched \/ phase[t] = "starting"
            \/ phase[t] = "none" /\ (Main \in told \/ ~Listening(Main))
Tell(t) == told' = IF Listening(t) THEN told \cup {t} ELSE told

-----------------------------------------------------------------------------
(* The service.                                                            *)

Toggle(o) ==
    /\ o \in present
    /\ on' = (on \ {o}) \cup ({o} \ on)
    /\ Tell(Hears(o))
    /\ missed' = (missed \/ Early(o))
    /\ UNCHANGED <<service, present, phase, reading, readings, label, overtaken, crossed, unwatched>>
\* Players and devices come, switched off, and go; a device that goes has been
\* disconnected first.  A thread for an object stays when the object goes.
ComesAndGoes(o) ==
    /\ service \in {"media", "bluetooth"}
    /\ o \in present => o \notin on
    /\ present' = (present \ {o}) \cup ({o} \ present)
    /\ Tell(Main)
    /\ unwatched' = IF Listening(Main) THEN unwatched ELSE unwatched \cup {o}
    /\ missed' = (missed \/ ~Listening(Main))
    /\ UNCHANGED <<service, on, phase, reading, readings, label, overtaken, crossed>>

-----------------------------------------------------------------------------
(* The threads.  Operators named Mut... are slips of the definition below  *)
(* them that the properties must catch; no specification uses them.        *)

Subscribe(t) ==
    /\ phase[t] = "starting"
    /\ phase' = [phase EXCEPT ![t] = "waiting"]
    /\ UNCHANGED <<things, reading, told, readings, label, overtaken, crossed, unwatched, missed>>

\* Each reading is of the whole service, whatever the signal was about.
ReadState == on

\* A thread for each object that has none yet: the set of watched names.
MutWatched(p) == p
Watched(p) == [t \in Watchers |-> IF t \in present /\ p[t] = "none" /\ service # "network"
                                  THEN "starting" ELSE p[t]]

\* The next signal.  New objects get their threads; the state is read again,
\* unless all that is new is a device.
WakeMain ==
    /\ Main \in told /\ phase[Main] = "waiting" /\ service # "config"
    /\ told' = told \ {Main} /\ unwatched' = {}
    /\ IF service = "bluetooth"
       THEN phase' = Watched(phase) /\ UNCHANGED <<reading, missed>>
       ELSE /\ phase' = [Watched(phase) EXCEPT ![Main] = "read"]
            /\ reading' = [reading EXCEPT ![Main] = ReadState] /\ missed' = FALSE
    /\ UNCHANGED <<things, readings, label, overtaken, crossed>>
Wake(o) ==
    /\ o \in told /\ phase[o] = "waiting"
    /\ told' = told \ {o}
    /\ phase' = [phase EXCEPT ![o] = "read"]
    /\ reading' = [reading EXCEPT ![o] = ReadState] /\ missed' = FALSE
    /\ UNCHANGED <<things, readings, label, overtaken, crossed, unwatched>>

\* The configuration: after the first event the thread sleeps, throws away what
\* came meanwhile and then reads the file.
ConfigPauses ==
    /\ service = "config" /\ Main \in told /\ phase[Main] = "waiting"
    /\ told' = told \ {Main}
    /\ phase' = [phase EXCEPT ![Main] = "pause"]
    /\ UNCHANGED <<things, reading, readings, label, overtaken, crossed, unwatched, missed>>

ConfigDrains ==
    /\ phase[Main] = "pause"
    /\ told' = told \ {Main}
    /\ phase' = [phase EXCEPT ![Main] = "drained"]
    /\ UNCHANGED <<things, reading, readings, label, overtaken, crossed, unwatched, missed>>
ConfigReads ==
    /\ phase[Main] = "drained"
    /\ phase' = [phase EXCEPT ![Main] = "read"]
    /\ reading' = [reading EXCEPT ![Main] = ReadState] /\ missed' = FALSE
    /\ UNCHANGED <<things, told, readings, label, overtaken, crossed, unwatched>>

Send(t) ==
    /\ phase[t] = "read" /\ Len(readings) < MaxReadings
    /\ phase' = [phase EXCEPT ![t] = "waiting"]
    /\ reading' = [reading EXCEPT ![t] = Absent]
    /\ readings' = Append(readings, reading[t])
    /\ crossed' = (t \in overtaken)
    /\ overtaken' = ({u \in Watchers : phase[u] = "read"} \cup overtaken) \ {t}
    /\ UNCHANGED <<things, told, label, unwatched, missed>>

\* The event loop.
Show ==
    /\ readings # <<>>
    /\ label' = Head(readings) /\ readings' = Tail(readings)
    /\ UNCHANGED <<things, phase, reading, told, overtaken, crossed, unwatched, missed>>

MonitorsNext ==
    \/ \E o \in Objects : Toggle(o) \/ ComesAndGoes(o) \/ Wake(o)
    \/ \E t \in Watchers : Subscribe(t) \/ Send(t)
    \/ WakeMain \/ ConfigPauses \/ ConfigDrains \/ ConfigReads \/ Show

MonitorsSpec == MonitorsInit /\ [][MonitorsNext]_monitorVars

-----------------------------------------------------------------------------
(* Properties.                                                             *)

Quiet ==
    /\ told = {} /\ readings = <<>>
    /\ \A t \in Watchers : phase[t] \in {"none", "waiting"}

\* When everything that was signalled has been handled, the bar shows the
\* service as it is.  The exceptions are a change between a thread's start and
\* its subscription, and two threads that sent in another order than they read.
LabelsCatchUp == Quiet => label = on \/ crossed \/ missed

\* Why it holds: what was sent last is the service as it is, or somebody is due
\* to send that.  Two threads that hold a reading do not both hold an old one,
\* unless the later of them was sent ahead of; and an object without a thread is
\* one that Main has yet to hear of.
LastSent == IF readings = <<>> THEN label ELSE readings[Len(readings)]
Due ==
    \/ \E t \in told : t # Main \/ service # "bluetooth"
    \/ phase[Main] \in {"pause", "drained"}
    \/ \E t \in Watchers : phase[t] = "read" /\ reading[t] = on
SentIsCurrent == LastSent = on \/ crossed \/ missed \/ Due
ReadIsCurrent ==
    \A t \in Watchers \ overtaken : phase[t] = "read" => reading[t] = on \/ missed \/ Due
NewIsNoted ==
    /\ \A o \in present : phase[Hears(o)] = "none" => o \in unwatched \/ Main \in told
    /\ phase[Main] \in {"pause", "drained"} => service = "config"
MonitorsInv == MonitorsTypeOK /\ LabelsCatchUp /\ SentIsCurrent /\ ReadIsCurrent /\ NewIsNoted
=============================================================================
