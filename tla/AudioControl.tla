----------------------------- MODULE AudioControl -----------------------------
(***************************************************************************)
(* The volume control of the GTK shell (shell/src/audio.rs, for the output *)
(* device).  Every reading and every change is a child process that takes  *)
(* its time; a `pactl subscribe` that is left running says when to read    *)
(* again.  Readings, changes and listings are each one at a time: what     *)
(* comes in meanwhile is remembered in `again`, `pending` and `listAgain`. *)
(*                                                                         *)
(* A level is volume and mute together, one per output device (sink).  The *)
(* list of devices is abstracted to the one it marks as the default.  The  *)
(* microphone is a second control of the same kind, fed by the same        *)
(* monitor while its popover is open; it is left out, as are the texts.    *)
(***************************************************************************)
EXTENDS Naturals, Sequences

CONSTANTS
    Sinks,              \* output devices
    Levels,             \* levels of a device
    None,               \* no level, no device
    MaxEvents,          \* bound: changes by other programs, changes made with the control,
                        \* commands that fail and monitors that end, together
    MaxLines            \* bound: lines of the monitor not read yet

AudioAssumption ==
    /\ Sinks # {} /\ Levels # {} /\ None \notin Sinks \cup Levels
    /\ MaxEvents \in Nat /\ MaxLines \in Nat

VARIABLES
    level, sink,        \* the sound server: the level of every device, the default one
    lines,              \* what the monitor has printed and the shell has not read
    monitor,            \* "none", "starting" (not subscribed yet) or "live"
    retry, debounce,    \* the timers that are set
    reading, again,     \* the reading under way: its stage and what it got
    listing, listAgain, listDirty,
    writing, pending,   \* the change under way, the volume to set after it
    data, available, listed,    \* what the control shows
    visible,            \* its popover
    chosen,             \* history: the volume the user chose last, until it is set
    unseenLevel, unseenSink,    \* history: changed since the last reading, with nobody to notice
    events              \* counter of the bound

audioVars == <<level, sink, lines, monitor, retry, debounce, reading, again, listing, listAgain,
               listDirty, writing, pending, data, available, listed, visible, chosen,
               unseenLevel, unseenSink, events>>

readings == <<reading, again, data, available>>
listings == <<listing, listAgain, listed>>
watch == <<lines, monitor, retry, debounce, listDirty>>
writes == <<writing, pending, chosen>>
server == <<level, sink>>
Counted == events < MaxEvents /\ events' = events + 1
unseen == <<unseenLevel, unseenSink>>

\* A command: not started, running, or ended with what it got (None: it failed).
Idle == [stage |-> "idle", got |-> None]
Running == [stage |-> "running", got |-> None]
Ended(got) == [stage |-> "ended", got |-> got]
Commands(Got) == {Idle, Running} \cup {Ended(g) : g \in Got \cup {None}}

\* What change() is asked for.
Requests == [kind : {"volume"}, to : Levels] \cup [kind : {"sink"}, to : Sinks]
            \cup [kind : {"mute"}, to : {None}]
NoRequest == [kind |-> "none", to |-> None]

AudioTypeOK ==
    /\ level \in [Sinks -> Levels] /\ sink \in Sinks
    /\ Len(lines) <= MaxLines /\ lines \in Seq({"sink", "server"})
    /\ monitor \in {"none", "starting", "live"} /\ {retry, debounce, again, listAgain, listDirty} \subseteq BOOLEAN
    /\ reading \in Commands(Levels) /\ listing \in Commands(Sinks)
    /\ writing \in [request : Requests \cup {NoRequest}, stage : {"idle", "running", "ended"}]
    /\ {pending, chosen, data} \subseteq Levels \cup {None} /\ listed \in Sinks \cup {None}
    /\ {available, visible, unseenLevel, unseenSink} \subseteq BOOLEAN

\* widget: subscribe, then refresh.  Levels and devices are alike: it starts with some.
AudioInit ==
    /\ level = [s \in Sinks |-> CHOOSE l \in Levels : TRUE] /\ sink = CHOOSE s \in Sinks : TRUE
    /\ lines = <<>> /\ monitor = "starting" /\ retry = FALSE /\ debounce = FALSE
    /\ reading = Running /\ again = FALSE
    /\ listing = Idle /\ listAgain = FALSE /\ listDirty = FALSE
    /\ writing = [request |-> NoRequest, stage |-> "idle"] /\ pending = None
    /\ data = None /\ available = FALSE /\ listed = None /\ visible = FALSE
    /\ chosen = None /\ unseenLevel = FALSE /\ unseenSink = FALSE
    /\ events = 0

-----------------------------------------------------------------------------
(* The sound server and the monitor.                                       *)

\* A change is printed by a monitor that has subscribed; otherwise nobody notices.
Noticed(kind) == monitor = "live" /\ lines' = Append(lines, kind)
Change(kind, ofSink) ==
    \/ Len(lines) < MaxLines /\ Noticed(kind) /\ UNCHANGED unseen
    \/ monitor # "live" /\ unseenLevel' = TRUE /\ unseenSink' = (unseenSink \/ ofSink) /\ UNCHANGED lines

\* Another program sets the level of the default device, or the default device.
OutsideLevel == \E l \in Levels \ {level[sink]} :
    /\ Counted
    /\ level' = [level EXCEPT ![sink] = l] /\ Change("sink", FALSE)
    /\ UNCHANGED <<sink, monitor, retry, debounce, listDirty, readings, listings, writes, visible>>
OutsideSink == \E s \in Sinks \ {sink} :
    /\ Counted
    /\ sink' = s /\ Change("server", TRUE)
    /\ UNCHANGED <<level, monitor, retry, debounce, listDirty, readings, listings, writes, visible>>

Subscribed ==
    /\ monitor = "starting" /\ monitor' = "live"
    /\ UNCHANGED <<server, lines, retry, debounce, listDirty, readings, listings, writes, visible, unseen, events>>

-----------------------------------------------------------------------------
(* Readings and listings.                                                  *)

\* refresh and refresh_devices: started, or remembered while one is under way.
Asked(command) == IF command.stage = "idle" THEN Running ELSE command
MutAskedAgain(command, flag) == flag
AskedAgain(command, flag) == flag \/ command.stage # "idle"
Refresh == reading' = Asked(reading) /\ again' = AskedAgain(reading, again)
RefreshDevices(wanted) ==
    IF visible /\ wanted
    THEN listing' = Asked(listing) /\ listAgain' = AskedAgain(listing, listAgain)
    ELSE UNCHANGED <<listing, listAgain>>

\* wpctl get-volume, pactl get-default-sink: what the server says, or a failure.
ReadLevel ==
    /\ reading = Running /\ reading' = Ended(level[sink]) /\ unseenLevel' = FALSE
    /\ UNCHANGED <<server, watch, again, data, available, listings, writes, visible, unseenSink, events>>
ReadSink ==
    /\ listing = Running /\ listing' = Ended(sink) /\ unseenSink' = FALSE
    /\ UNCHANGED <<server, watch, listAgain, listed, readings, writes, visible, unseenLevel, events>>
ReadFails ==
    /\ Counted
    /\ \/ reading = Running /\ reading' = Ended(None) /\ UNCHANGED listing
       \/ listing = Running /\ listing' = Ended(None) /\ UNCHANGED reading
    /\ UNCHANGED <<server, watch, again, data, available, listAgain, listed, writes, visible, unseen>>

\* The task goes on: what it got is shown, and once more when asked meanwhile.
Repeated(command, flag) == IF flag THEN Running ELSE Idle
LevelShown ==
    /\ reading.stage = "ended"
    /\ available' = (reading.got # None) /\ data' = IF reading.got = None THEN data ELSE reading.got
    /\ reading' = Repeated(reading, again) /\ again' = FALSE
    /\ UNCHANGED <<server, watch, listings, writes, visible, unseen, events>>
DevicesShown ==
    /\ listing.stage = "ended"
    /\ listed' = IF visible THEN listing.got ELSE listed
    /\ listing' = Repeated(listing, listAgain /\ visible) /\ listAgain' = FALSE
    /\ UNCHANGED <<server, watch, readings, writes, visible, unseen, events>>

-----------------------------------------------------------------------------
(* Changes.                                                                *)

\* change: one at a time; meanwhile only the last volume is remembered.
MutKept(request) == IF request.kind = "volume" /\ pending = None THEN request.to ELSE pending
Kept(request) == IF request.kind = "volume" THEN request.to ELSE pending
Write(request) ==
    IF writing.stage = "idle"
    THEN writing' = [request |-> request, stage |-> "running"] /\ UNCHANGED pending
    ELSE pending' = Kept(request) /\ UNCHANGED writing

\* The slider while the device is available, the mute button and the list while
\* no change is under way.
Press == \E request \in Requests :
    /\ visible /\ Counted
    /\ request.kind # "sink" => available
    /\ request.kind # "volume" => writing.stage = "idle"
    /\ request.kind = "sink" => listed # None
    /\ Write(request)
    /\ chosen' = IF request.kind = "volume" THEN request.to ELSE chosen
    /\ UNCHANGED <<server, watch, readings, listings, visible, unseen>>

\* The command takes effect, and its own change is one the monitor reports.
Reported(kind) == IF monitor = "live" THEN Len(lines) < MaxLines /\ Noticed(kind) ELSE UNCHANGED lines
Applied ==
    /\ writing.stage = "running" /\ writing' = [writing EXCEPT !.stage = "ended"]
    /\ \/ /\ writing.request.kind = "sink"
          /\ sink' = writing.request.to /\ Reported("server") /\ UNCHANGED level
       \/ /\ writing.request.kind = "volume"
          /\ level' = [level EXCEPT ![sink] = writing.request.to] /\ Reported("sink") /\ UNCHANGED sink
       \/ /\ writing.request.kind = "mute"
          /\ \E l \in Levels \ {level[sink]} : level' = [level EXCEPT ![sink] = l]
          /\ Reported("sink") /\ UNCHANGED sink
    /\ UNCHANGED <<monitor, retry, debounce, listDirty, readings, listings, pending, chosen, visible, unseen, events>>
WriteFails ==
    /\ writing.stage = "running" /\ Counted
    /\ writing' = [writing EXCEPT !.stage = "ended"]
    /\ UNCHANGED <<server, watch, readings, listings, pending, chosen, visible, unseen>>

\* The task goes on: the volume that waits is set next, otherwise the level is read.
MutThenRead == FALSE
ThenRead == pending = None
Written ==
    /\ writing.stage = "ended"
    /\ RefreshDevices(writing.request.kind = "sink")
    /\ writing' = IF pending = None THEN [request |-> NoRequest, stage |-> "idle"]
                  ELSE [request |-> [kind |-> "volume", to |-> pending], stage |-> "running"]
    /\ pending' = None /\ chosen' = IF pending = None THEN None ELSE chosen
    /\ IF ThenRead THEN Refresh ELSE UNCHANGED <<reading, again>>
    /\ UNCHANGED <<server, watch, data, available, listed, visible, unseen, events>>

-----------------------------------------------------------------------------
(* The monitor's lines, the timers, the popover.                           *)

\* subscribe, a line: changed() after noting whether the devices are concerned.
ReadLine ==
    /\ lines # <<>> /\ lines' = Tail(lines)
    /\ listDirty' = (listDirty \/ Head(lines) = "server") /\ debounce' = TRUE
    /\ UNCHANGED <<server, monitor, retry, readings, listings, writes, visible, unseen, events>>

Debounced ==
    /\ debounce /\ debounce' = FALSE
    /\ Refresh /\ RefreshDevices(listDirty) /\ listDirty' = FALSE
    /\ UNCHANGED <<server, lines, monitor, retry, data, available, listed, writes, visible, unseen, events>>

\* The monitor ends: what it printed is read first, then it is started anew in 5 s.
MonitorEnds ==
    /\ monitor # "none" /\ lines = <<>> /\ Counted
    /\ monitor' = "none" /\ retry' = TRUE
    /\ UNCHANGED <<server, lines, debounce, listDirty, readings, listings, writes, visible, unseen>>

Reconnect ==
    /\ retry /\ retry' = FALSE
    /\ Refresh /\ RefreshDevices(TRUE) /\ monitor' = "starting"
    /\ UNCHANGED <<server, lines, debounce, listDirty, data, available, listed, writes, visible, unseen, events>>

\* connect_map: the popover opens.
Open ==
    /\ ~visible /\ visible' = TRUE /\ Refresh
    /\ listing' = Asked(listing) /\ listAgain' = AskedAgain(listing, listAgain)
    /\ UNCHANGED <<server, watch, data, available, listed, writes, unseen, events>>
Shut ==
    /\ visible /\ visible' = FALSE
    /\ UNCHANGED <<server, watch, readings, listings, writes, unseen, events>>

AudioNext ==
    \/ OutsideLevel \/ OutsideSink \/ Subscribed \/ MonitorEnds
    \/ ReadLevel \/ ReadSink \/ ReadFails \/ LevelShown \/ DevicesShown
    \/ Press \/ Applied \/ WriteFails \/ Written
    \/ ReadLine \/ Debounced \/ Reconnect \/ Open \/ Shut

AudioSpec == AudioInit /\ [][AudioNext]_audioVars

-----------------------------------------------------------------------------
\* While it moves the slider, the user gives many volumes and few are set: the
\* last one is always among them, in the command that runs or in the one that
\* follows it (change, pending_volume).
LastChoiceKept ==
    chosen # None =>
        \/ pending = chosen
        \/ pending = None /\ writing.request = [kind |-> "volume", to |-> chosen]

\* When nothing is under way and the monitor listens, the control shows the
\* level and the default device there are, apart from a change nobody could
\* notice and a command that failed (refresh, changed, change).
NothingUnderWay == monitor = "live" /\ lines = <<>> /\ ~debounce /\ writing.stage = "idle"
ShownIsTrue ==
    NothingUnderWay =>
        /\ reading = Idle /\ available /\ ~unseenLevel => data = level[sink]
        /\ listing = Idle /\ visible /\ listed # None /\ ~unseenSink => listed = sink

\* Why it holds: what a flag remembers is under way, and each of the two is shown
\* as it is, has been read as it is, or will be read.
FlagsUnderWay ==
    /\ again => reading.stage # "idle"
    /\ listAgain => listing.stage # "idle"
    /\ listDirty => debounce
    /\ writing.stage = "idle" => pending = None /\ chosen = None
LevelIsDue ==
    \/ unseenLevel \/ lines # <<>> \/ debounce \/ again \/ writing.stage # "idle"
    \/ reading = Running
    \/ reading.stage = "ended" /\ reading.got \in {level[sink], None}
    \/ reading = Idle /\ (~available \/ data = level[sink])
SinkIsDue ==
    \/ ~visible \/ unseenSink \/ listDirty \/ listAgain
    \/ \E i \in DOMAIN lines : lines[i] = "server"
    \/ writing.stage # "idle" /\ writing.request.kind = "sink"
    \/ listing = Running
    \/ listing.stage = "ended" /\ listing.got \in {sink, None}
    \/ listing = Idle /\ listed \in {sink, None}
AudioInv ==
    /\ AudioTypeOK /\ ShownIsTrue /\ LastChoiceKept
    /\ FlagsUnderWay /\ LevelIsDue /\ SinkIsDue
=============================================================================
