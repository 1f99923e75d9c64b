-------------------------- MODULE RecorderControl --------------------------
(***************************************************************************)
(* The compositor's control of screen recordings: RecorderController of    *)
(* recorder.rs, the `recorder' commands of policy.rs, the capture boost of *)
(* state.rs, and what locking the session and leaving the VT do to them.   *)
(*                                                                         *)
(* A recording is one child process: the native engine, controlled over    *)
(* its stdin, or the launcher of a game capture, controlled by signals.    *)
(* Processes die on their own at any moment; the compositor notices in     *)
(* poll, which maintain_desktop calls once per turn of the event loop.     *)
(***************************************************************************)
EXTENDS Naturals

CONSTANTS
    Sources,        \* what a native recording can show: windows, regions, the output
    Output,         \* RecorderCaptureSource::Output
    Windows,        \* the sources that are windows
    MaxStarts,      \* bound: processes started
    MaxLocks,       \* bound: locks and VT switches
    KillMayFail     \* whether running /bin/kill on a launcher may fail

ASSUME RecorderAssumption ==
    /\ Output \in Sources /\ Windows \subseteq Sources \ {Output}
    /\ MaxStarts \in Nat /\ MaxLocks \in Nat
    /\ KillMayFail \in BOOLEAN

Procs == 1 .. MaxStarts     \* processes in the order they are started
NoProc == 0

VARIABLES
    child,          \* the native engine, or NoProc
    launcher,       \* the game capture launcher, or NoProc
    stdin,          \* the engine's control pipe is held
    state,          \* status.state
    started,        \* processes started so far
    life,           \* life of each process
    paused,         \* whether the engine's pipeline is paused
    game,           \* whether the process is a game capture
    override,       \* capture_override
    commitDriven,   \* capture_commit_driven
    boost,          \* the capture boost timer is installed
    tagNext,        \* capture_recorder_session_pending
    locked,         \* lock.locked
    active,         \* desktop.active
    locks           \* locks and VT switches so far

processes == <<started, life, paused, game>>
capture == <<override, commitDriven, boost, tagNext>>
session == <<locked, active, locks>>
controller == <<child, launcher, stdin, state>>
recVars == <<controller, processes, capture, session>>

States == {"Idle", "Starting", "Recording", "Paused", "Error"}
Lives == {"unborn", "running", "finishing", "dead"}

RecTypeOK ==
    /\ child \in Procs \cup {NoProc}
    /\ launcher \in Procs \cup {NoProc}
    /\ stdin \in BOOLEAN
    /\ state \in States
    /\ started \in 0 .. MaxStarts
    /\ life \in [Procs -> Lives]
    /\ paused \in [Procs -> BOOLEAN]
    /\ game \in [Procs -> BOOLEAN]
    /\ override \in Sources
    /\ commitDriven \in BOOLEAN
    /\ boost \in BOOLEAN
    /\ tagNext \in BOOLEAN
    /\ locked \in BOOLEAN
    /\ active \in BOOLEAN
    /\ locks \in 0 .. MaxLocks

RecInit ==
    /\ child = NoProc /\ launcher = NoProc /\ stdin = FALSE /\ state = "Idle"
    /\ started = 0
    /\ life = [p \in Procs |-> "unborn"]
    /\ paused = [p \in Procs |-> FALSE]
    /\ game = [p \in Procs |-> FALSE]
    /\ override = Output /\ commitDriven = FALSE /\ boost = FALSE /\ tagNext = FALSE
    /\ locked = FALSE /\ active = TRUE /\ locks = 0

-----------------------------------------------------------------------------
(* Pieces of the handlers.  Operators named Mut... are slips that the      *)
(* properties must catch; no specification uses them.                      *)

IsRunning == child # NoProc \/ launcher # NoProc

\* desktop_command refuses everything but status queries while locked.
MutCommandsWhileLocked == TRUE
CommandsAllowed == ~locked

\* start_capture_boost and stop_capture_boost.
BoostOn(src, commit) ==
    /\ override' = src /\ commitDriven' = commit /\ boost' = TRUE /\ tagNext' = TRUE
MutBoostForgotten == UNCHANGED capture
BoostOff ==
    /\ override' = Output /\ commitDriven' = FALSE /\ boost' = FALSE /\ tagNext' = FALSE

\* A process is spawned.
Spawn(isGame) ==
    /\ started < MaxStarts
    /\ started' = started + 1
    /\ life' = [life EXCEPT ![started + 1] = "running"]
    /\ game' = [game EXCEPT ![started + 1] = isGame]
    /\ UNCHANGED paused

MutResetKeepsPipe == child' = NoProc /\ launcher' = NoProc /\ stdin' = stdin /\ state' = "Idle"
Reset == child' = NoProc /\ launcher' = NoProc /\ stdin' = FALSE /\ state' = "Idle"

\* A process that is told to stop keeps running until its file is final.
Finish(p) == life' = [life EXCEPT ![p] = IF @ = "running" THEN "finishing" ELSE @]

-----------------------------------------------------------------------------
(* Commands.                                                               *)

\* recorder start, xwayland-start (commit driven) and the starting half of
\* toggle, when the engine can be spawned.
Start(src, commit) ==
    /\ CommandsAllowed /\ ~IsRunning
    /\ commit => src \in Windows
    /\ BoostOn(src, commit)
    /\ Spawn(FALSE)
    /\ child' = started + 1 /\ stdin' = TRUE /\ state' = "Starting"
    /\ UNCHANGED <<launcher, session>>

\* The same commands when RecorderController::start refuses: a recording is
\* already running, the recorder is disabled, or the engine cannot be spawned;
\* replay-start is always refused.  The boost was started before and is
\* stopped again.  A stop with nothing to stop has the same effect.
StartRefused ==
    /\ CommandsAllowed
    /\ BoostOff
    /\ UNCHANGED <<controller, processes, session>>

\* game-start and game-attach; both name the output as source first.
StartGame ==
    /\ CommandsAllowed /\ ~IsRunning
    /\ override' = Output
    /\ Spawn(TRUE)
    /\ launcher' = started + 1 /\ state' = "Starting"
    /\ UNCHANGED <<child, stdin, commitDriven, boost, tagNext, session>>

StartGameRefused ==
    /\ CommandsAllowed
    /\ override' = Output
    /\ UNCHANGED <<controller, processes, commitDriven, boost, tagNext, session>>

\* recorder stop (and toggle) of a native recording: "stop" is written to the
\* engine, which a detached thread then waits for.
StopNative ==
    /\ CommandsAllowed
    /\ child # NoProc /\ life[child] # "dead"
    /\ Finish(child)
    /\ Reset
    /\ BoostOff
    /\ UNCHANGED <<started, paused, game, session>>

\* The same when the engine has died unnoticed: the write fails after the
\* child and the pipe were taken, and the error returns before reset.
StopBroken ==
    /\ CommandsAllowed
    /\ child # NoProc /\ life[child] = "dead"
    /\ child' = NoProc /\ stdin' = FALSE
    /\ BoostOff
    /\ UNCHANGED <<launcher, state, processes, session>>

\* recorder stop of a game capture: the launcher is signalled, or was dead and
\* not yet reaped.  stop leaves the (idle) boost alone; toggle does not.
StopGame ==
    /\ CommandsAllowed
    /\ child = NoProc /\ launcher # NoProc
    /\ Finish(launcher)
    /\ Reset
    /\ UNCHANGED capture \/ BoostOff
    /\ UNCHANGED <<started, paused, game, session>>

\* The launcher was taken, but the signal failed: the error returns before
\* reset, and the launcher runs on.
StopGameFailed ==
    /\ CommandsAllowed /\ KillMayFail
    /\ child = NoProc /\ launcher # NoProc /\ life[launcher] # "dead"
    /\ launcher' = NoProc
    /\ UNCHANGED capture \/ BoostOff
    /\ UNCHANGED <<child, stdin, state, processes, session>>

\* recorder pause: a toggle on both sides of the pipe.
MutPauseAlways == "Paused"
MutPauseResumes == IF state = "Paused" THEN "Resumed" ELSE "Paused"
PauseState == IF state = "Paused" THEN "Recording" ELSE "Paused"

TogglePause ==
    /\ CommandsAllowed
    /\ stdin /\ child # NoProc /\ life[child] # "dead"
    /\ paused' = [paused EXCEPT ![child] = ~@]
    /\ state' = PauseState
    /\ UNCHANGED <<child, launcher, stdin, started, life, game, capture, session>>

-----------------------------------------------------------------------------
(* poll, from maintain_desktop.                                            *)

\* try_wait reports the engine's exit; maintain_desktop then stops the boost.
MutPollKeepsChild ==
    /\ child # NoProc /\ life[child] = "dead"
    /\ state' = "Error"
    /\ UNCHANGED <<child, launcher, stdin, processes, capture, session>>
PollExit ==
    /\ child # NoProc /\ life[child] = "dead"
    /\ child' = NoProc /\ stdin' = FALSE /\ state' = "Error"
    /\ BoostOff
    /\ UNCHANGED <<launcher, processes, session>>

\* try_wait reports the launcher's exit, after its muxer finished or failed.
PollGameExit ==
    /\ child = NoProc /\ launcher # NoProc /\ life[launcher] = "dead"
    /\ launcher' = NoProc /\ stdin' = FALSE
    /\ state' \in {"Idle", "Error"}
    /\ BoostOff
    /\ UNCHANGED <<child, processes, session>>

\* Half a second after the spawn the recording counts as started.
PollStarted ==
    /\ state = "Starting"
    /\ \/ child # NoProc /\ life[child] # "dead"
       \/ child = NoProc /\ launcher # NoProc /\ life[launcher] # "dead"
    /\ state' = "Recording"
    /\ UNCHANGED <<child, launcher, stdin, processes, capture, session>>

-----------------------------------------------------------------------------
(* Lock and VT switch.                                                     *)

\* abort: the engine is killed, the launcher is asked to finish.
MutAbortDrops ==
    /\ child' = NoProc /\ launcher' = NoProc /\ stdin' = FALSE /\ state' = "Error"
    /\ UNCHANGED processes
Abort ==
    /\ \E killed \in {TRUE, ~KillMayFail} :
          life' = [p \in Procs |->
                      IF p = child THEN "dead"
                      ELSE IF killed /\ p = launcher /\ life[p] = "running" THEN "finishing"
                      ELSE life[p]]
    /\ child' = NoProc /\ launcher' = NoProc /\ stdin' = FALSE /\ state' = "Error"
    /\ UNCHANGED <<started, paused, game>>

AbortIfRunning == IF IsRunning THEN Abort ELSE UNCHANGED <<controller, processes>>

Lock ==
    /\ ~locked /\ active /\ locks < MaxLocks
    /\ locked' = TRUE /\ locks' = locks + 1
    /\ BoostOff
    /\ AbortIfRunning
    /\ UNCHANGED <<active>>

Unlock ==
    /\ locked
    /\ locked' = FALSE
    /\ UNCHANGED <<controller, processes, capture, active, locks>>

PauseSession ==
    /\ active /\ locks < MaxLocks
    /\ active' = FALSE /\ locks' = locks + 1
    /\ BoostOff
    /\ AbortIfRunning
    /\ UNCHANGED <<locked>>

ActivateSession ==
    /\ ~active
    /\ active' = TRUE
    /\ UNCHANGED <<controller, processes, capture, locked, locks>>

-----------------------------------------------------------------------------
(* The processes.                                                          *)

\* A running process exits: the encoder failed, the game ended.
ProcExit(p) ==
    /\ life[p] = "running"
    /\ life' = [life EXCEPT ![p] = "dead"]
    /\ UNCHANGED <<controller, started, paused, game, capture, session>>

\* A process told to stop ends with its file final, or wait_detached kills it
\* after 20 seconds.
ProcFinished(p) ==
    /\ life[p] = "finishing"
    /\ life' = [life EXCEPT ![p] = "dead"]
    /\ UNCHANGED <<controller, started, paused, game, capture, session>>

-----------------------------------------------------------------------------
Commands ==
    \/ \E src \in Sources, commit \in BOOLEAN : Start(src, commit)
    \/ StartRefused \/ StartGame \/ StartGameRefused
    \/ StopNative \/ StopBroken \/ StopGame \/ StopGameFailed \/ TogglePause

Poll == PollExit \/ PollGameExit \/ PollStarted

Session == Lock \/ Unlock \/ PauseSession \/ ActivateSession

World == \E p \in Procs : ProcExit(p) \/ ProcFinished(p)

RecNext == Commands \/ Poll \/ Session \/ World

RecSpec == RecInit /\ [][RecNext]_recVars

\* The boost timer wakes the event loop, so poll runs while it is installed;
\* the detached thread ends every process that was told to stop.
RecFairness ==
    /\ WF_recVars(boost /\ Poll)
    /\ \A p \in Procs : WF_recVars(ProcFinished(p))

RecFairSpec == RecSpec /\ RecFairness

-----------------------------------------------------------------------------
(* Correctness.                                                            *)

\* A locked session records nothing: no process is held, no boost timer runs,
\* and nothing of an earlier capture source is left for the next one.
LockedMeansStopped ==
    locked => child = NoProc /\ launcher = NoProc /\ ~boost /\ ~tagNext /\ override = Output

\* The boost timer, the window override and the claim on the next capture
\* session exist only for a native engine the controller still holds.
BoostHasEngine ==
    /\ boost => child # NoProc
    /\ tagNext => boost
    /\ override # Output \/ commitDriven => boost

\* Every process that records is the one the controller can stop; only a
\* launcher that /bin/kill failed to signal escapes it.
OneRecorder ==
    /\ \A p \in Procs :
          life[p] = "running" => p \in {child, launcher} \/ (KillMayFail /\ game[p])
    /\ child = NoProc \/ launcher = NoProc

\* The inductive invariant behind the three above: handles are of started
\* processes of the right kind, and the pipe is held with the engine.
HandlesOK ==
    /\ \A p \in Procs : p > started => life[p] = "unborn"
    /\ child <= started /\ launcher <= started
    /\ launcher # NoProc => game[launcher]
    /\ child # NoProc => ~game[child]
    /\ stdin <=> child # NoProc

RecInv == RecTypeOK /\ HandlesOK /\ LockedMeansStopped /\ BoostHasEngine /\ OneRecorder

\* "Paused" is shown exactly while the engine's pipeline is paused.
PauseAgrees ==
    child # NoProc /\ life[child] = "running" => (state = "Paused" <=> paused[child])

\* With it, a process not started yet has not been paused: inductive.
PauseInv == PauseAgrees /\ \A p \in Procs : p > started => ~paused[p]

\* An engine that dies is noticed, as long as no refused start takes away the
\* boost timer that wakes the loop; poll then never reports it again.
DeathNoticed ==
    \A p \in Procs : (child = p /\ life[p] = "dead" /\ boost) ~> (child # p \/ ~boost)

\* "Enter starts or stops" (the panel sends stop unless the state is Idle or
\* Error): an active state means there is something to stop.
ActiveStateHasProcess ==
    state \in {"Starting", "Recording", "Paused"} => IsRunning

\* "Window capture follows the client": as long as an engine keeps recording,
\* the source it was started with stays.
SourceStays ==
    [][child # NoProc /\ child' = child => override' = override]_recVars
=============================================================================
