--------------------------- MODULE RecorderEngine ---------------------------
(***************************************************************************)
(* The recording engine of crates/recorder, one process with four threads: *)
(* the main thread of run asks the compositor for frames in a pool of      *)
(* buffers, the reader forwards the lines of stdin to it, the encoder      *)
(* worker turns each frame into buffers of the GStreamer pipeline, and the *)
(* pipeline's threads finalize them, which returns the pool's buffer.      *)
(* The compositor, GStreamer and FFmpeg are external.  Time is counted in  *)
(* frame intervals.                                                        *)
(***************************************************************************)
EXTENDS Naturals, Sequences, FiniteSets

CONSTANTS
    Pool,           \* CAPTURE_BUFFER_POOL_SIZE
    Backlog,        \* capacity of the channel to the encoder worker
    InPipeline,     \* max-buffers of the pipeline's appsrc
    FillLimit,      \* duplicates that may fill a gap: one second of frames
    MaxClock,       \* bound: frame intervals
    MaxOrders,      \* bound: lines on stdin
    MaxFaults       \* bound: failures of the encoder, the muxer, the session

EngineAssumption ==
    /\ {Pool, Backlog, InPipeline, FillLimit} \subseteq Nat \ {0}
    /\ {MaxClock, MaxOrders, MaxFaults} \subseteq Nat

VARIABLES
    paced,          \* --pacing commit
    clock,          \* the time
    piped,          \* lines written to stdin and not read
    orders,         \* lines the reader has forwarded and run has not read
    spoken,         \* lines written so far
    told,           \* "stop" was written; the detached thread waits for the end
    main,           \* where run is
    halted,         \* run's paused
    spare,          \* available_slots, the released ones included
    shot,           \* the frame being captured: its slot and presentation time
    backlog,        \* commands to the worker
    worker,         \* where the worker is
    pushing,        \* what it pushes: a frame and its span of indices
    releases,       \* the latest BufferRelease of each buffer of the pool
    reached,        \* 1 + last_frame_index, or 0
    origin,         \* presentation_origin_ns
    pausedAt,       \* paused_at
    pausedFor,      \* paused_ns
    written,        \* stats.encoded_frames
    unfilled,       \* stats.unfilled_frames
    file,           \* the recording
    mishaps         \* failures so far

mainVars == <<orders, main, halted, spare, shot>>
timing == <<reached, origin, pausedAt, pausedFor, written, unfilled>>
workerVars == <<worker, pushing, releases, timing, file>>
given == <<paced, clock, piped, spoken, told, mishaps>>
engineVars == <<given, mainVars, backlog, workerVars>>

NoShot == [slot |-> 0, at |-> 0]
NoPush == [slot |-> 0, next |-> 0, target |-> 0]
Fresh == [inFlight |-> 0, checks |-> 0, retired |-> FALSE, returned |-> FALSE]
Lines == {"pause", "stop"}
Commands == [kind : {"frame"}, slot : 1 .. Pool, at : 0 .. MaxClock]
                \cup [kind : {"pause"}, on : BOOLEAN] \cup {[kind |-> "finish"]}
Ended == main \in {"done", "failed"}
Playing == pausedAt = {}

EngineTypeOK ==
    /\ {paced, told, halted} \subseteq BOOLEAN
    /\ clock \in 0 .. MaxClock /\ spoken \in 0 .. MaxOrders /\ mishaps \in 0 .. MaxFaults
    /\ piped \in Seq(Lines) /\ orders \in Seq(Lines)
    /\ main \in {"starting", "top", "waiting", "picking", "shooting", "shot", "halting", "finishing",
                 "joining", "done", "failed"}
    /\ spare \in Seq(1 .. Pool) /\ Len(spare) <= Pool
    /\ shot \in [slot : 0 .. Pool, at : 0 .. MaxClock]
    /\ backlog \in Seq(Commands) /\ Len(backlog) <= Backlog
    /\ worker \in {"idle", "pushing", "retiring", "returning", "draining", "muxing", "done", "failed"}
    /\ releases \in [1 .. Pool -> [inFlight : 0 .. InPipeline, checks : Nat,
                                   retired : BOOLEAN, returned : BOOLEAN]]
    /\ pushing \in [slot : 0 .. Pool, next : Nat, target : Nat]
    /\ {reached, written, unfilled} \subseteq Nat
    /\ origin \subseteq 0 .. MaxClock /\ pausedAt \subseteq 0 .. MaxClock /\ pausedFor \in 0 .. MaxClock
    /\ file \in {"none", "open", "indexed", "cut"}

EngineInit ==
    /\ paced \in BOOLEAN
    /\ clock = 0 /\ piped = <<>> /\ orders = <<>> /\ spoken = 0 /\ mishaps = 0 /\ told = FALSE
    /\ main = "starting" /\ halted = FALSE
    /\ spare = [s \in 1 .. Pool |-> s] /\ shot = NoShot /\ backlog = <<>>
    /\ worker = "idle" /\ pushing = NoPush
    /\ releases = [s \in 1 .. Pool |-> Fresh]
    /\ reached = 0 /\ origin = {} /\ pausedAt = {} /\ pausedFor = 0
    /\ written = 0 /\ unfilled = 0 /\ file = "none"

-----------------------------------------------------------------------------
(* The world.                                                              *)

Tick ==
    /\ ~Ended /\ main # "starting" /\ clock < MaxClock /\ clock' = clock + 1
    /\ UNCHANGED <<paced, piped, spoken, told, mishaps, mainVars, backlog, workerVars>>

\* The compositor writes a line; after "stop" it closes the pipe.
Speak(line) ==
    /\ ~Ended /\ ~told /\ spoken < MaxOrders /\ spoken' = spoken + 1
    /\ piped' = Append(piped, line) /\ told' = (line = "stop")
    /\ UNCHANGED <<paced, clock, mishaps, mainVars, backlog, workerVars>>

\* The reader thread forwards one line.
Forward ==
    /\ ~Ended /\ main # "starting" /\ piped # <<>>
    /\ orders' = Append(orders, Head(piped)) /\ piped' = Tail(piped)
    /\ UNCHANGED <<paced, clock, spoken, told, mishaps, main, halted, spare, shot, backlog, workerVars>>

-----------------------------------------------------------------------------
(* The main thread.                                                        *)

MutStops == orders # <<>> /\ Head(orders) = "stop"
Stops == \E i \in DOMAIN orders : orders[i] = "stop"
Toggles == Cardinality({i \in DOMAIN orders : orders[i] = "pause"}) % 2 = 1

\* A send blocks while the channel is full, and fails once the worker is gone.
Offer(command) == Len(backlog) < Backlog /\ worker # "failed" /\ backlog' = Append(backlog, command)

\* Options::parse: what the engine accepts; replay buffering is refused, and
\* HDR is HEVC only.
Options == [codec : {"h264", "hevc", "other"}, hdr : BOOLEAN, replay : BOOLEAN]
Accepted(o) == ~o.replay /\ (o.hdr => o.codec = "hevc")

\* Encoder::new knows two codecs.
Encodes(o) == o.codec \in {"h264", "hevc"}

\* select_format: HDR needs ten bits per channel, anything else eight.
Depths == {"eight", "ten"}
Selectable(offered, hdr) == (IF hdr THEN "ten" ELSE "eight") \in offered

\* The options are read, the output found, its constraints awaited, the pool
\* allocated and the encoder started, in this order; the reader thread starts
\* with the constraints and the file with the encoder.
StartUp(options, offered) ==
    /\ main = "starting"
    /\ \/ /\ Accepted(options) /\ Selectable(offered, options.hdr) /\ Encodes(options)
          /\ main' = "top" /\ file' = "open" /\ UNCHANGED mishaps
       \/ /\ mishaps < MaxFaults /\ mishaps' = mishaps + 1
          /\ main' = "failed" /\ file' \in {"none", "cut"}
    /\ UNCHANGED <<paced, clock, piped, spoken, told, orders, halted, spare, shot, backlog,
                   worker, pushing, releases, timing>>

\* The loop's head: drain_commands, and a change of pause is passed on.
Turn ==
    /\ main = "top" /\ orders' = <<>>
    /\ \/ Stops /\ main' = "finishing" /\ UNCHANGED <<halted, backlog>>
       \/ /\ ~Stops /\ Toggles
          /\ halted' = ~halted /\ Offer([kind |-> "pause", on |-> halted'])
          /\ main' = IF halted' THEN "waiting" ELSE "picking"
       \/ /\ ~Stops /\ ~Toggles
          /\ main' = IF halted THEN "waiting" ELSE "picking"
          /\ UNCHANGED <<halted, backlog>>
    /\ UNCHANGED <<given, spare, shot, workerVars>>

\* While paused the engine waits for one line, 100 ms at a time.
Await ==
    /\ main = "waiting"
    /\ \/ orders = <<>> /\ main' = "top" /\ UNCHANGED <<orders, halted, backlog>>
       \/ /\ orders # <<>> /\ orders' = Tail(orders)
          /\ \/ Head(orders) = "stop" /\ main' = "finishing" /\ UNCHANGED <<halted, backlog>>
             \/ /\ Head(orders) = "pause" /\ halted' = FALSE /\ main' = "top"
                /\ Offer([kind |-> "pause", on |-> FALSE])
    /\ UNCHANGED <<given, spare, shot, workerVars>>

\* The bound on the frames captured: how far their indices run ahead.
Ahead == reached + Len(backlog) > clock + 1

\* A spare buffer is attached to a new capture frame; without one the loop
\* starts over.
Pick ==
    /\ main = "picking"
    /\ \/ /\ spare = <<>> \/ Ahead
          /\ main' = "top" /\ UNCHANGED <<spare, shot>>
       \/ /\ spare # <<>> /\ ~Ahead /\ spare' = Tail(spare)
          /\ shot' = [slot |-> Head(spare), at |-> 0] /\ main' = "shooting"
    /\ UNCHANGED <<given, orders, halted, backlog, workerVars>>

\* blocking_dispatch returns when the compositor sends something, and the lines
\* that came meanwhile are read only then: the frame is ready, or it or its
\* session ended, or another event arrived.  Nothing makes the compositor send
\* one (a stop takes the boost timer away, so a static screen need not answer),
\* and a line on stdin does not wake this wait; no fairness asks for it.
Dispatch ==
    /\ main = "shooting" /\ orders' = <<>>
    /\ halted' = (halted # Toggles)
    /\ \/ /\ main' = IF Stops THEN "finishing" ELSE "shot"
          /\ shot' = IF Stops THEN NoShot ELSE [shot EXCEPT !.at = clock]
          /\ UNCHANGED <<given, workerVars>>
       \/ /\ orders # <<>>
          /\ main' = IF Stops THEN "finishing" ELSE "shooting"
          /\ shot' = IF Stops THEN NoShot ELSE shot
          /\ UNCHANGED <<given, workerVars>>
       \/ /\ mishaps < MaxFaults /\ mishaps' = mishaps + 1
          /\ main' = IF Stops THEN "finishing" ELSE "failed"
          /\ file' = IF Stops THEN file ELSE "cut"
          /\ shot' = NoShot
          /\ UNCHANGED <<paced, clock, piped, spoken, told, worker, pushing, releases, timing>>
    /\ UNCHANGED <<spare, backlog>>

\* The completed frame goes to the worker, followed by a pause that was asked
\* for while it was captured.
Submit ==
    /\ main = "shot" /\ Offer([kind |-> "frame", slot |-> shot.slot, at |-> shot.at])
    /\ shot' = NoShot /\ main' = IF halted THEN "halting" ELSE "top"
    /\ UNCHANGED <<given, orders, halted, spare, workerVars>>

PauseAfter ==
    /\ main = "halting" /\ Offer([kind |-> "pause", on |-> TRUE]) /\ main' = "top"
    /\ UNCHANGED <<given, orders, halted, spare, shot, workerVars>>

FinishUp ==
    /\ main = "finishing" /\ Offer([kind |-> "finish"]) /\ main' = "joining"
    /\ UNCHANGED <<given, orders, halted, spare, shot, workerVars>>

\* The worker's result is the engine's; a send to a worker that failed ends
\* the engine too.
Join ==
    /\ \/ main = "joining" /\ worker \in {"done", "failed"} /\ main' = worker
       \/ /\ worker = "failed" /\ main' = "failed"
          /\ \/ main \in {"shot", "halting", "finishing"}
             \/ main = "top" /\ ~Stops /\ Toggles
             \/ main = "waiting" /\ orders # <<>> /\ Head(orders) = "pause"
    /\ file' = IF main' = "failed" THEN "cut" ELSE file
    /\ UNCHANGED <<given, orders, halted, spare, shot, backlog, worker, pushing, releases, timing>>

-----------------------------------------------------------------------------
(* The encoder worker.                                                     *)

Monus(a, b) == IF a > b THEN a - b ELSE 0
Lesser(a, b) == IF a < b THEN a ELSE b
Greater(a, b) == IF a < b THEN b ELSE a

\* frame_index_at of the recorded time at t; the first frame is the origin.
IndexAt(t) == Monus(Monus(t, CHOOSE o \in IF origin = {} THEN {t} ELSE origin : TRUE), pausedFor)

\* cfr_span: the indices a frame fills, and those it leaves out.
MutCfrSpan(index) ==
    LET missing == IF reached = 0 THEN 0 ELSE index - reached IN
    [first |-> index - Lesser(missing, FillLimit), unfilled |-> 0]
CfrSpan(index) ==
    LET missing == IF reached = 0 THEN 0 ELSE index - reached
        duplicates == Lesser(missing, FillLimit) IN
    [first |-> index - duplicates, unfilled |-> missing - duplicates]

StartPush(slot, first, target) ==
    /\ releases' = [releases EXCEPT ![slot].retired = FALSE, ![slot].returned = FALSE]
    /\ pushing' = [slot |-> slot, next |-> first, target |-> target]
    /\ worker' = "pushing"

\* push_latest and push_committed: a frame that is too early for a constant
\* rate is skipped and its buffer returned at once.
MutReturnSkipped(slot) == spare' = spare
ReturnSkipped(slot) == spare' = Append(spare, slot)

TakeFrame(f) ==
    LET index == IndexAt(f.at) IN
    /\ origin' = IF origin = {} THEN {f.at} ELSE origin
    /\ \/ /\ ~paced /\ reached # 0 /\ index < reached
          /\ ReturnSkipped(f.slot)
          /\ UNCHANGED <<worker, pushing, releases, unfilled>>
       \/ /\ ~paced /\ (reached = 0 \/ index >= reached)
          /\ StartPush(f.slot, CfrSpan(index).first, index)
          /\ unfilled' = unfilled + CfrSpan(index).unfilled /\ UNCHANGED spare
       \/ /\ paced
          /\ LET paced_index == Greater(index, reached) IN
             /\ StartPush(f.slot, paced_index, paced_index)
             /\ unfilled' = unfilled + (IF reached = 0 THEN 0 ELSE paced_index - reached)
          /\ UNCHANGED spare
    /\ UNCHANGED <<pausedAt, pausedFor>>

SetPaused(on) ==
    /\ \/ on /\ pausedAt' = (IF pausedAt = {} THEN {clock} ELSE pausedAt) /\ UNCHANGED pausedFor
       \/ /\ ~on /\ pausedAt' = {}
          /\ pausedFor' = pausedFor + (IF pausedAt = {} THEN 0 ELSE clock - (CHOOSE p \in pausedAt : TRUE))
    /\ UNCHANGED <<worker, pushing, releases, unfilled, origin, spare>>

Take ==
    /\ ~Ended /\ worker = "idle" /\ backlog # <<>>
    /\ backlog' = Tail(backlog)
    /\ LET c == Head(backlog) IN
       \/ c.kind = "frame" /\ TakeFrame(c)
       \/ c.kind = "pause" /\ SetPaused(c.on)
       \/ /\ c.kind = "finish" /\ worker' = "draining"
          /\ UNCHANGED <<pushing, releases, unfilled, origin, pausedAt, pausedFor, spare>>
    /\ UNCHANGED <<given, orders, main, halted, shot, reached, written, file>>

InFlight ==
    LET total[s \in 0 .. Pool] == IF s = 0 THEN 0 ELSE total[s - 1] + releases[s].inFlight
    IN total[Pool]

\* push_one: one buffer of the pipeline refers to the frame.  The appsrc
\* blocks the worker while it is full.
Push ==
    /\ ~Ended /\ worker = "pushing"
    /\ InFlight < InPipeline
    /\ written' = written + 1
    /\ releases' = [releases EXCEPT ![pushing.slot].inFlight = @ + 1]
    /\ pushing' = [pushing EXCEPT !.next = @ + 1]
    /\ worker' = IF pushing.next = pushing.target THEN "retiring" ELSE "pushing"
    /\ UNCHANGED <<given, mainVars, backlog, reached, origin, pausedAt, pausedFor, unfilled, file>>

\* maybe_return: the counters only fall once retired is set, so its two loads
\* and the exchange are one step; threads that come to it later change nothing.
MutMayReturn(r) == r.retired /\ ~r.returned
MayReturn(r) == r.retired /\ r.inFlight = 0 /\ ~r.returned

MaybeReturn(s, rs) ==
    IF MayReturn(rs[s])
    THEN /\ releases' = [rs EXCEPT ![s].returned = TRUE, ![s].checks = 0]
         /\ spare' = Append(spare, s)
    ELSE releases' = rs /\ UNCHANGED spare

\* retire stores the flag and then looks whether every buffer is gone.
Retire ==
    /\ ~Ended /\ worker = "retiring" /\ worker' = "returning"
    /\ releases' = [releases EXCEPT ![pushing.slot].retired = TRUE]
    /\ UNCHANGED <<given, mainVars, backlog, pushing, timing, file>>

MutReturnFrame == UNCHANGED <<releases, spare>>
ReturnFrame == MaybeReturn(pushing.slot, releases)

Retired ==
    /\ ~Ended /\ worker = "returning" /\ worker' = "idle"
    /\ ReturnFrame
    /\ reached' = pushing.target + 1 /\ pushing' = NoPush
    /\ UNCHANGED <<given, orders, main, halted, shot, backlog, origin, pausedAt, pausedFor,
                   written, unfilled, file>>

\* A thread of the pipeline drops a buffer: encoder_buffer_finalized counts
\* it down and then looks whether it was the last.
Finalize(s) ==
    /\ ~Ended /\ releases[s].inFlight > 0
    /\ releases' = [releases EXCEPT ![s].inFlight = @ - 1, ![s].checks = @ + 1]
    /\ UNCHANGED <<given, mainVars, backlog, worker, pushing, timing, file>>

Finalized(s) ==
    /\ ~Ended /\ releases[s].checks > 0
    /\ MaybeReturn(s, [releases EXCEPT ![s].checks = @ - 1])
    /\ UNCHANGED <<given, orders, main, halted, shot, backlog, worker, pushing, timing, file>>

\* stop: a pipeline that plays posts its end of stream once it is drained; for
\* a paused one, or one that is slow, the ten seconds pass.  Before that the
\* threads that end the audio sources are joined without a limit.
Drain ==
    /\ ~Ended /\ worker = "draining"
    /\ \/ Playing /\ InFlight = 0 /\ worker' = "muxing"
       \/ (~Playing \/ InFlight > 0) /\ worker' = "failed"
    /\ UNCHANGED <<given, mainVars, backlog, pushing, releases, timing, file>>

\* FFmpeg reads the end of its input and writes the index, or misses its
\* fifteen seconds.
Mux ==
    /\ ~Ended /\ worker = "muxing"
    /\ \/ worker' = "done" /\ file' = "indexed"
       \/ worker' = "failed" /\ UNCHANGED file
    /\ UNCHANGED <<given, mainVars, backlog, pushing, releases, timing>>

\* The pipeline refuses a buffer or a change of state, or FFmpeg fails.
Fault ==
    /\ ~Ended /\ main # "starting" /\ worker \in {"pushing", "idle", "draining", "muxing"}
    /\ mishaps < MaxFaults /\ mishaps' = mishaps + 1
    /\ worker' = "failed"
    /\ UNCHANGED <<paced, clock, piped, spoken, told, mainVars, backlog, pushing, releases, timing, file>>

\* wait_detached kills the process twenty seconds after "stop".  FFmpeg outlives
\* it and may index what has reached it.  (abort, which kills an engine that was
\* not told to stop, is in RecorderControl.)
Killed ==
    /\ ~Ended /\ told /\ main' = "failed"
    /\ file' \in IF file = "open" THEN {"cut", "indexed"} ELSE {file}
    /\ UNCHANGED <<given, orders, halted, spare, shot, backlog, worker, pushing, releases, timing>>

-----------------------------------------------------------------------------
EngineNext ==
    \/ Tick \/ Forward \/ \E line \in Lines : Speak(line)
    \/ \E options \in Options, offered \in SUBSET Depths : StartUp(options, offered)
    \/ Turn \/ Await \/ Pick \/ Dispatch \/ Submit \/ PauseAfter \/ FinishUp \/ Join
    \/ Take \/ Push \/ Retire \/ Retired \/ Drain \/ Mux \/ Fault \/ Killed
    \/ \E s \in 1 .. Pool : Finalize(s) \/ Finalized(s)

\* What the engine's own threads do without waiting for somebody else.
EngineWork == Turn \/ Await \/ Pick \/ Submit \/ PauseAfter \/ FinishUp \/ Join
EncoderWork == Take \/ Push \/ Retire \/ Retired \/ Mux

\* The waits for somebody else: for the compositor's answer, at the start and
\* to a capture; for room in the pipeline; for the end of its stream.
Held ==
    \/ main \in {"starting", "shooting"}
    \/ worker = "pushing" /\ InFlight >= InPipeline
    \/ worker = "draining"

\* The reader, the main thread and the worker run.  The compositor and the
\* pipeline owe nothing; in their stead wait_detached kills an engine that was
\* told to stop and that one of them still holds when the twenty seconds are over.
EngineSpec ==
    /\ EngineInit /\ [][EngineNext]_engineVars
    /\ WF_engineVars(Forward) /\ WF_engineVars(EngineWork) /\ WF_engineVars(EncoderWork)
    /\ WF_engineVars(Held /\ Killed)

-----------------------------------------------------------------------------
(* Properties.                                                             *)

\* The compositor never draws into a buffer the encoder may still read: a
\* spare buffer and the one being captured are used by no buffer of the
\* pipeline, no frame being pushed and no frame on its way to the worker.
BuffersUntouched ==
    \A s \in {spare[i] : i \in DOMAIN spare} \cup ({shot.slot} \ {0}) :
        /\ releases[s].inFlight = 0
        /\ worker \in {"pushing", "retiring"} => pushing.slot # s
        /\ \A i \in DOMAIN backlog : backlog[i].kind = "frame" => backlog[i].slot # s

\* No buffer of the pool is lost or doubled while the engine records: each is
\* spare, captured, on its way to the worker, or held by exactly one release
\* that somebody will still look at.
PoolIsWhole ==
    main \in {"top", "waiting", "picking", "shooting", "shot", "halting"} /\ worker # "failed" =>
    \A s \in 1 .. Pool :
        Cardinality({i \in DOMAIN spare : spare[i] = s})
        + (IF shot.slot = s THEN 1 ELSE 0)
        + Cardinality({i \in DOMAIN backlog : backlog[i].kind = "frame" /\ backlog[i].slot = s})
        + (IF ~releases[s].returned /\ (releases[s].inFlight + releases[s].checks > 0 \/ pushing.slot = s)
           THEN 1 ELSE 0) = 1

PoolSound == BuffersUntouched /\ PoolIsWhole

\* The recording's time line adds up: each index up to the last is either
\* written once or counted as unfilled, whatever was skipped or paused.
TimelineAddsUp ==
    worker = "idle" /\ reached # 0 =>
        written + unfilled = reached

\* What makes the three inductive.  A buffer is in one place at a time, and a
\* release that is not on its way to the pool is being pushed or has a thread
\* that will still look at it; the push in hand starts where the time line ends;
\* and a pause never began before the time that the pauses add up to.
Spares(s) == \E i \in DOMAIN spare : spare[i] = s
Queued(s) == \E i \in DOMAIN backlog : backlog[i].kind = "frame" /\ backlog[i].slot = s
Holding(s) == ~releases[s].returned
              /\ (releases[s].inFlight + releases[s].checks > 0 \/ pushing.slot = s)
Recording == main \in {"starting", "top", "waiting", "picking", "shooting", "shot", "halting"}

PlacesInv ==
    /\ \A i, j \in DOMAIN spare : spare[i] = spare[j] => i = j
    /\ \A i, j \in DOMAIN backlog :
          backlog[i].kind = "frame" /\ backlog[j].kind = "frame" /\ backlog[i].slot = backlog[j].slot
              => i = j
    /\ \A s \in 1 .. Pool :
          /\ Spares(s) => shot.slot # s /\ ~Queued(s) /\ ~Holding(s)
          /\ shot.slot = s => ~Queued(s) /\ ~Holding(s)
          /\ Queued(s) => ~Holding(s)
          /\ Recording /\ worker # "failed" => Spares(s) \/ shot.slot = s \/ Queued(s) \/ Holding(s)

ReleasesInv ==
    \A s \in 1 .. Pool :
        /\ releases[s].returned => releases[s].inFlight = 0 /\ releases[s].checks = 0
        /\ ~releases[s].retired /\ releases[s].inFlight + releases[s].checks > 0 => pushing.slot = s
        /\ worker \in {"pushing", "retiring"} /\ pushing.slot = s =>
              ~releases[s].retired /\ ~releases[s].returned
        /\ worker = "returning" /\ pushing.slot = s => releases[s].retired

TimelineInv ==
    /\ worker \in {"idle", "draining", "muxing", "done"} => pushing = NoPush
    /\ worker \in {"pushing", "retiring", "returning"} =>
          /\ pushing.slot # 0 /\ written + unfilled = pushing.next
          /\ worker = "pushing" => pushing.next <= pushing.target
          /\ worker # "pushing" => pushing.next = pushing.target + 1
    /\ worker = "idle" => written + unfilled = reached /\ (reached = 0 => origin = {})
    /\ pausedFor <= clock
    /\ \A p \in pausedAt : pausedFor <= p /\ p <= clock

EngineInv ==
    /\ EngineTypeOK /\ PlacesInv /\ ReleasesInv /\ TimelineInv
    /\ main \in {"shooting", "shot"} => shot.slot # 0
    /\ Recording /\ main \notin {"shooting", "shot"} => shot.slot = 0

\* A "stop" ends the engine wherever it is read: no line is lost and no buffer,
\* channel or pause keeps the engine from its end.  Only where the compositor or
\* the pipeline holds it for ever is the end that of wait_detached's kill.
StopEnds == told ~> Ended
=============================================================================
