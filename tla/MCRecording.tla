---------------------------- MODULE MCRecording -----------------------------
(***************************************************************************)
(* The three programs a recording goes through: the compositor's control   *)
(* of the recorder processes, the recording engine, and the muxer of game  *)
(* captures.  The control sees of the engine only its process and its      *)
(* lines on stdin, the muxer none of both, so a behaviour is one of the    *)
(* part chosen in its initial state and the others stay as they start.     *)
(***************************************************************************)
EXTENDS RecorderControl

CONSTANTS
    \* RecorderEngine
    Pool, Backlog, InPipeline, FillLimit, MaxClock, MaxOrders, MaxMishaps,
    \* GameMuxer
    Peers, Hook, QueueLimit, MaxPackets, MaxInFlight, MaxPts

VARIABLES
    part,
    paced, clock, piped, orders, spoken, told, main, halted, spare, shot, backlog, worker, pushing,
    releases, reached, origin, pausedAt, pausedFor, written, unfilled, file, mishaps,
    brittle, caller, pidKnown, wire, hungUp, packets, muxer, outcome, graceful, lastPts, received,
    handed, open, writer, muxed, ffmpeg, output, socketFile

EN == INSTANCE RecorderEngine WITH MaxFaults <- MaxMishaps
GM == INSTANCE GameMuxer

ASSUME RecordingAssumption == EN!EngineAssumption /\ GM!MuxerAssumption

engineVars == <<paced, clock, piped, orders, spoken, told, main, halted, spare, shot, backlog,
                worker, pushing, releases, reached, origin, pausedAt, pausedFor, written,
                unfilled, file, mishaps>>
muxerVars == <<brittle, caller, pidKnown, wire, hungUp, packets, muxer, outcome, graceful,
               lastPts, received, handed, open, writer, muxed, ffmpeg, output, socketFile>>
recordingVars == <<part, recVars, engineVars, muxerVars>>

In(p) == part = p

RecordingInit ==
    /\ part \in {"recorder", "engine", "muxer"}
    /\ RecInit /\ EN!EngineInit /\ GM!MuxerInit
    /\ In("engine") \/ ~paced
    /\ In("muxer") \/ ~(brittle \/ socketFile)

RecordingNext ==
    \/ In("recorder") /\ RecNext /\ UNCHANGED <<part, engineVars, muxerVars>>
    \/ In("engine") /\ EN!EngineNext /\ UNCHANGED <<part, recVars, muxerVars>>
    \/ In("muxer") /\ GM!MuxerNext /\ UNCHANGED <<part, recVars, engineVars>>

\* The fairness of the modules, where each says what justifies it.
RecorderFairness ==
    /\ WF_recVars(In("recorder") /\ boost /\ Poll)
    /\ \A p \in Procs : WF_recVars(In("recorder") /\ ProcFinished(p))
EngineFairness ==
    /\ WF_engineVars(In("engine") /\ EN!Forward)
    /\ WF_engineVars(In("engine") /\ EN!EngineWork)
    /\ WF_engineVars(In("engine") /\ EN!EncoderWork)
    /\ WF_engineVars(In("engine") /\ EN!Held /\ EN!Killed)
MuxerFairness ==
    /\ WF_muxerVars(In("muxer") /\ (GM!Read \/ GM!End \/ GM!JoinWriter \/ GM!WaitCleanly))
    /\ WF_muxerVars(In("muxer") /\ (GM!Write \/ GM!Conclude))
    /\ WF_muxerVars(In("muxer") /\ GM!FfmpegEnds)

RecordingSpec ==
    /\ RecordingInit /\ [][RecordingNext]_recordingVars
    /\ RecorderFairness /\ EngineFairness /\ MuxerFairness

-----------------------------------------------------------------------------
\* "Paused" is shown while the pipeline is paused; no buffer of the engine's pool
\* is drawn into while it is read, none is lost, and the frames written and left
\* out account for the whole time line; a session of the muxer that reports
\* success has an indexed file with every unit that was received, one that
\* failed leaves none unless FFmpeg itself broke.
RecordingSound ==
    /\ In("recorder") => PauseInv
    /\ In("engine") => EN!PoolSound /\ EN!TimelineAddsUp /\ EN!EngineInv
    /\ In("muxer") => GM!MuxerInv

\* crates/recorder, main.rs: a "stop" ends the engine whatever it is doing; the
\* kill of recorder.rs, wait_detached, is needed only where somebody else holds it.
StopEnds == EN!StopEnds

\* muxer.rs, the accept loop: the muxer ends after the hook it serves.
EndsWithItsHook == GM!EndsWithItsHook
=============================================================================
