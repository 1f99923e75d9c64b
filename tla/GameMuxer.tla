------------------------------ MODULE GameMuxer ------------------------------
(***************************************************************************)
(* The muxer of a game capture: a process that accepts one authenticated   *)
(* hook on a private socket, reads its packets in order, and hands the     *)
(* access units to a writer thread that feeds FFmpeg through a pipe.       *)
(* The hook, GStreamer and FFmpeg are external: the hook sends what the    *)
(* protocol lets it express, in any order, and may vanish in mid-packet.   *)
(***************************************************************************)
EXTENDS Naturals, Sequences

CONSTANTS
    Peers,          \* processes that may connect
    Hook,           \* the one the launcher started
    QueueLimit,     \* MAX_QUEUED_ACCESS_UNITS
    MaxPackets,     \* bound: packets of the hook
    MaxInFlight,    \* bound: packets sent and not read
    MaxPts          \* bound: time stamps

MuxerAssumption ==
    /\ Hook \in Peers
    /\ QueueLimit \in Nat \ {0} /\ MaxPackets \in Nat /\ MaxInFlight \in Nat /\ MaxPts \in Nat

VARIABLES
    brittle,        \* GStreamer and FFmpeg may fail
    caller,         \* connections not accepted yet, in order
    pidKnown,       \* the launcher has written the PID file
    wire,           \* packets sent and not read
    hungUp,         \* the hook closed its end
    packets,        \* packets sent so far
    muxer,          \* where the main thread is
    outcome,        \* "ok" or "err"
    graceful,       \* graceful_end
    lastPts,        \* stats.last_pts_ns, as a set
    received,       \* stats.received_access_units
    handed,         \* the channel to the writer
    open,           \* the sender of that channel is alive
    writer,         \* where the writer thread is
    muxed,          \* access units the writer pushed
    ffmpeg,         \* the child process
    output,         \* the requested file
    socketFile      \* the socket exists

hookVars == <<brittle, caller, pidKnown, wire, hungUp, packets>>
mainThread == <<muxer, outcome, graceful, lastPts, received, open, socketFile>>
writerVars == <<writer, muxed>>
muxerVars == <<hookVars, mainThread, handed, writerVars, ffmpeg, output>>

Stamps == 0 .. MaxPts
Units == [kind : {"unit"}, pts : Stamps, timed : BOOLEAN]
Plain == {"hello", "forged", "start", "oddStart", "stats", "stop", "error", "garbage", "stray"}
Packets == [kind : Plain] \cup Units
MuxerEnded == muxer \in {"done", "failed"}

MuxerTypeOK ==
    /\ brittle \in BOOLEAN /\ caller \in Seq(Peers) /\ pidKnown \in BOOLEAN /\ hungUp \in BOOLEAN
    /\ packets \in 0 .. MaxPackets
    /\ wire \in Seq(Packets) /\ Len(wire) <= MaxInFlight
    /\ muxer \in {"binding", "accepting", "greeting", "configuring", "reading", "ending",
                  "joining", "waiting", "done", "failed"}
    /\ outcome \in {"ok", "err"} /\ graceful \in BOOLEAN /\ lastPts \subseteq Stamps
    /\ received \in 0 .. MaxPackets /\ muxed \in 0 .. received
    /\ handed \in Seq({"unit", "finish"}) /\ Len(handed) <= QueueLimit /\ open \in BOOLEAN
    /\ writer \in {"none", "running", "ending", "done", "failed"}
    /\ ffmpeg \in {"none", "running", "finished", "broken", "killed"}
    /\ output \in {"absent", "partial", "indexed"} /\ socketFile \in BOOLEAN

MuxerInit ==
    /\ brittle \in BOOLEAN /\ caller = <<>> /\ pidKnown = FALSE /\ wire = <<>> /\ hungUp = FALSE /\ packets = 0
    /\ muxer = "binding" /\ outcome = "ok" /\ graceful = FALSE
    /\ lastPts = {} /\ received = 0 /\ handed = <<>> /\ open = FALSE
    /\ writer = "none" /\ muxed = 0 /\ ffmpeg = "none" /\ output = "absent"
    /\ socketFile \in BOOLEAN

-----------------------------------------------------------------------------
(* The other processes.                                                    *)

LauncherWritesPid ==
    /\ ~pidKnown /\ pidKnown' = TRUE
    /\ UNCHANGED <<brittle, caller, wire, hungUp, packets, mainThread, handed, writerVars, ffmpeg, output>>

Connect(p) ==
    /\ muxer = "accepting" /\ Len(caller) < 2 /\ \A i \in DOMAIN caller : caller[i] # p
    /\ caller' = Append(caller, p)
    /\ UNCHANGED <<brittle, pidKnown, wire, hungUp, packets, mainThread, handed, writerVars, ffmpeg, output>>

\* Channel::send.  A packet with a wrong magic, version, number, length or
\* payload is garbage; one that is cut off was started when the hook died, so
\* nothing follows it.
SendPacket(packet) ==
    /\ muxer \in {"greeting", "configuring", "reading"} /\ ~hungUp
    /\ packets < MaxPackets /\ Len(wire) < MaxInFlight
    /\ wire' = Append(wire, packet)
    /\ packets' = packets + 1
    /\ UNCHANGED <<brittle, caller, pidKnown, hungUp, mainThread, handed, writerVars, ffmpeg, output>>

HookDies ==
    /\ muxer \in {"greeting", "configuring", "reading"} /\ ~hungUp /\ hungUp' = TRUE
    /\ UNCHANGED <<brittle, caller, pidKnown, wire, packets, mainThread, handed, writerVars, ffmpeg, output>>

-----------------------------------------------------------------------------
(* The main thread.                                                        *)

Exit(code) == muxer' = code /\ UNCHANGED <<outcome, graceful, lastPts, received, open>>

\* A socket that exists is not replaced.
Bind ==
    /\ muxer = "binding"
    /\ IF socketFile THEN Exit("failed") /\ UNCHANGED socketFile
       ELSE Exit("accepting") /\ socketFile' = TRUE
    /\ UNCHANGED <<hookVars, handed, writerVars, ffmpeg, output>>

\* accept_expected_peer waits two seconds for the PID file, then gives up;
\* it takes the first peer that is the launcher's process.
Expected(p) == p = Hook

AcceptPeer ==
    /\ muxer = "accepting" /\ caller # <<>>
    /\ caller' = Tail(caller)
    /\ \/ pidKnown /\ Expected(Head(caller)) /\ Exit("greeting")
       \/ pidKnown /\ ~Expected(Head(caller)) /\ Exit("accepting")
       \/ ~pidKnown /\ Exit("failed")
    /\ UNCHANGED <<brittle, pidKnown, wire, hungUp, packets, socketFile, handed, writerVars, ffmpeg, output>>

\* Channel::recv returns the next packet or finds the end of the stream.
Arrived == IF wire = <<>> THEN "eof" ELSE Head(wire).kind
Readable == wire # <<>> \/ hungUp
Consume ==
    /\ wire' = IF wire = <<>> THEN <<>> ELSE Tail(wire)
    /\ UNCHANGED <<brittle, caller, pidKnown, hungUp, packets>>

\* server_handshake and the Start packet; anything else ends the process
\* before FFmpeg was started.
Greet ==
    /\ muxer = "greeting" /\ Readable /\ Consume
    /\ muxer' = IF Arrived = "hello" THEN "configuring" ELSE "failed"
    /\ UNCHANGED <<outcome, graceful, lastPts, received, open, socketFile, handed, writerVars,
                   ffmpeg, output>>

\* validate_start: even dimensions within bounds and the launcher's rate; an
\* "oddStart" is a Start that fails it.
Startable == Arrived = "start"

Configure ==
    /\ muxer = "configuring" /\ Readable /\ Consume
    /\ \/ /\ Startable /\ muxer' = "reading" /\ open' = TRUE
          /\ writer' = "running" /\ ffmpeg' = "running" /\ output' = "partial"
       \/ /\ ~Startable \/ brittle
          /\ muxer' = "failed" /\ UNCHANGED <<open, writer, ffmpeg, output>>
    /\ UNCHANGED <<outcome, graceful, lastPts, received, socketFile, handed, muxed>>

Leave(result, gracefully) ==
    /\ muxer' = "ending" /\ outcome' = result /\ graceful' = gracefully
    /\ UNCHANGED <<lastPts, received, handed>>

\* note_access_unit: time never moves backwards and every unit lasts.
Acceptable(unit) == unit.timed /\ \A last \in lastPts : unit.pts >= last

MutHangUp == Leave("err", FALSE)
HangUp == Leave("ok", TRUE)

\* run_session's loop, one packet at a time.
Read ==
    /\ muxer = "reading" /\ Readable /\ Consume
    /\ \/ /\ Arrived = "unit" /\ Acceptable(Head(wire))
          /\ received' = received + 1 /\ lastPts' = {Head(wire).pts}
          /\ \/ /\ writer = "running" /\ Len(handed) < QueueLimit
                /\ handed' = Append(handed, "unit")
                /\ UNCHANGED <<muxer, outcome, graceful>>
             \/ /\ writer = "failed"
                /\ muxer' = "ending" /\ outcome' = "err" /\ UNCHANGED <<graceful, handed>>
       \/ Arrived = "unit" /\ ~Acceptable(Head(wire)) /\ Leave("err", FALSE)
       \/ Arrived = "stats" /\ UNCHANGED <<muxer, outcome, graceful, lastPts, received, handed>>
       \/ Arrived \in {"stop", "eof"} /\ HangUp
       \/ Arrived \notin {"unit", "stats", "stop", "eof"} /\ Leave("err", FALSE)
    /\ UNCHANGED <<open, socketFile, writerVars, ffmpeg, output>>

\* Only a graceful end asks the writer to finish; then the sender is dropped.
Finishes == graceful /\ outcome = "ok"

End ==
    /\ muxer = "ending" /\ muxer' = "joining" /\ open' = FALSE
    /\ IF Finishes
       THEN \/ /\ writer = "running" /\ Len(handed) < QueueLimit
               /\ handed' = Append(handed, "finish") /\ UNCHANGED outcome
            \/ writer = "failed" /\ outcome' = "err" /\ UNCHANGED handed
       ELSE UNCHANGED <<outcome, handed>>
    /\ UNCHANGED <<hookVars, graceful, lastPts, received, socketFile, writerVars, ffmpeg,
                   output>>

\* The writer's result is the session's.
MutJoined == outcome
Joined == IF writer = "failed" THEN "err" ELSE outcome

\* A failed session kills FFmpeg and removes its file; a complete one waits
\* for FFmpeg.
JoinWriter ==
    /\ muxer = "joining" /\ writer \in {"done", "failed"}
    /\ outcome' = Joined
    /\ IF outcome' = "ok" /\ graceful
       THEN muxer' = "waiting" /\ UNCHANGED <<ffmpeg, output>>
       ELSE muxer' = "failed" /\ ffmpeg' = "killed" /\ output' = "absent"
    /\ UNCHANGED <<hookVars, graceful, lastPts, received, open, socketFile, handed,
                   writerVars>>

\* wait_cleanly; only an end without error drops the socket's guard.
WaitCleanly ==
    /\ muxer = "waiting" /\ ffmpeg \in {"finished", "broken"}
    /\ \/ ffmpeg = "finished" /\ muxer' = "done" /\ socketFile' = FALSE /\ UNCHANGED outcome
       \/ ffmpeg = "broken" /\ muxer' = "failed" /\ outcome' = "err" /\ UNCHANGED socketFile
    /\ UNCHANGED <<hookVars, graceful, lastPts, received, open, handed, writerVars, ffmpeg,
                   output>>

-----------------------------------------------------------------------------
(* The writer thread and FFmpeg.                                           *)

\* muxer_writer: units go to FFmpeg in order; without a request to finish
\* the stream is torn down.  GStreamer refuses once FFmpeg is gone.
Write ==
    /\ writer = "running" /\ ~MuxerEnded
    /\ \/ /\ handed # <<>> /\ handed' = Tail(handed)
          /\ \/ Head(handed) = "finish" /\ writer' = "ending" /\ UNCHANGED muxed
             \/ /\ Head(handed) # "finish" /\ ffmpeg = "running"
                /\ muxed' = muxed + 1 /\ UNCHANGED writer
             \/ /\ Head(handed) # "finish" /\ (ffmpeg = "broken" \/ brittle)
                /\ writer' = "failed" /\ UNCHANGED muxed
       \/ handed = <<>> /\ ~open /\ writer' = "failed" /\ UNCHANGED <<handed, muxed>>
    /\ UNCHANGED <<hookVars, mainThread, ffmpeg, output>>

\* The end of the stream is posted within ten seconds, or the writer fails.
Conclude ==
    /\ writer = "ending" /\ ~MuxerEnded
    /\ \/ ffmpeg = "running" /\ writer' = "done"
       \/ (ffmpeg = "broken" \/ brittle) /\ writer' = "failed"
    /\ UNCHANGED <<hookVars, mainThread, handed, muxed, ffmpeg, output>>

\* Once its input is closed FFmpeg writes the index; of a stream that was
\* torn down the file holds a part.
FfmpegEnds ==
    /\ ffmpeg = "running" /\ ~MuxerEnded
    /\ \/ writer \in {"done", "failed"} /\ ffmpeg' = "finished"
          /\ output' = IF writer = "done" THEN "indexed" ELSE output
       \/ brittle /\ ffmpeg' = "broken" /\ UNCHANGED output
    /\ UNCHANGED <<hookVars, mainThread, handed, writerVars>>

-----------------------------------------------------------------------------
MuxerNext ==
    \/ LauncherWritesPid \/ HookDies
    \/ \E p \in Peers : Connect(p)
    \/ \E packet \in Packets : SendPacket(packet)
    \/ Bind \/ AcceptPeer \/ Greet \/ Configure \/ Read \/ End \/ JoinWriter \/ WaitCleanly
    \/ Write \/ Conclude \/ FfmpegEnds

\* Threads run, and FFmpeg ends once its input has.
MuxerSpec ==
    /\ MuxerInit /\ [][MuxerNext]_muxerVars
    /\ WF_muxerVars(Read \/ End \/ JoinWriter \/ WaitCleanly)
    /\ WF_muxerVars(Write \/ Conclude) /\ WF_muxerVars(FfmpegEnds)

-----------------------------------------------------------------------------
(* Properties.                                                             *)

\* What counts as a recording is one: a session that reports success has an
\* indexed file with every unit that was received, and a session that failed
\* leaves none, unless FFmpeg itself broke after the last unit.
FileIsHonest ==
    /\ muxer = "done" => output = "indexed" /\ muxed = received
    /\ muxer = "failed" /\ ffmpeg # "broken" => output = "absent"

\* What makes FileIsHonest inductive: before FFmpeg was started there is nothing;
\* the request to finish is the last thing the channel holds and comes after
\* run_session; and as long as the writer did not fail, every unit received is
\* in the channel or in the file.
Unstarted == muxer \in {"binding", "accepting", "greeting", "configuring"}
Finishing == handed # <<>> /\ handed[Len(handed)] = "finish"
Undelivered == IF Finishing THEN Len(handed) - 1 ELSE Len(handed)

MuxerInv ==
    /\ MuxerTypeOK /\ FileIsHonest
    /\ received + Len(wire) <= packets
    /\ Unstarted => /\ writer = "none" /\ ffmpeg = "none" /\ output = "absent"
                    /\ handed = <<>> /\ received = 0
    /\ writer = "none" => Unstarted \/ muxer = "failed"
    /\ muxer \in {"reading", "ending"} => open /\ writer \in {"running", "failed"} /\ ~Finishing
    /\ \A i \in 1 .. Len(handed) : handed[i] = "finish" => i = Len(handed)
    /\ writer \in {"ending", "done"} => handed = <<>>
    /\ writer # "failed" => muxed + Undelivered = received
    /\ ffmpeg = "finished" /\ writer = "done" => output = "indexed"
    /\ ffmpeg = "finished" => writer \in {"done", "failed"}
    /\ muxer = "waiting" => writer = "done"

\* A recording ends with its hook, however the hook ends: no thread waits for
\* one that is gone, and without a failure of GStreamer or FFmpeg a hook that
\* vanished between two packets leaves a finished recording.
EndsWithItsHook ==
    /\ (muxer = "reading" /\ hungUp) ~> MuxerEnded
    /\ (muxer = "reading" /\ hungUp /\ wire = <<>>) ~> (muxer = "done" \/ brittle)
=============================================================================
