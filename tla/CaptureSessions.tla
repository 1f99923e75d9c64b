-------------------------- MODULE CaptureSessions --------------------------
(***************************************************************************)
(* The image-copy-capture sessions of state.rs, composed with the recorder *)
(* control: which frames the compositor delivers to whom, when, and what   *)
(* they show.  The native engine is an ordinary capture client; its        *)
(* session is recognised only because start_capture_boost marks the next   *)
(* session to be created as the recorder's.                                *)
(*                                                                         *)
(* One output is captured.  A client owns at most one session, and a       *)
(* session has at most one frame in flight (a second is a protocol error). *)
(***************************************************************************)
EXTENDS RecorderControl, Retain, FiniteSets

CONSTANTS
    Others,         \* capture clients other than the recording engines
    MaxSessions,    \* capture_sessions holds at most this many (32)
    MaxPending      \* pending_capture_frames holds at most this many (32)

ASSUME CaptureAssumption ==
    /\ Others \cap Procs = {}
    /\ MaxSessions \in Nat /\ MaxPending \in Nat

Owners == Procs \cup Others

VARIABLES
    sess,           \* capture_sessions: the owners with a session
    tag,            \* the sessions whose state says recorder
    captured,       \* the sessions whose state says has_captured
    fresh,          \* the sessions with last_generation # capture_generation
    pending,        \* pending_capture_frames, as the owners of the frames
    closed,         \* windows that are gone
    delivered       \* the frames completed with success in the last step

sessions == <<sess, tag, captured, fresh, pending, closed>>
capVars == <<recVars, sessions, delivered>>

Waiting == {pending[i] : i \in DOMAIN pending}

CapTypeOK ==
    /\ sess \subseteq Owners
    /\ tag \subseteq sess /\ captured \subseteq sess /\ fresh \subseteq sess
    /\ pending \in Seq(Owners) /\ Len(pending) <= MaxPending
    /\ closed \subseteq Windows
    /\ \A d \in delivered : d.to \in Owners /\ d.shows \in Sources

CapInit ==
    /\ RecInit
    /\ sess = {} /\ tag = {} /\ captured = {} /\ fresh = {} /\ pending = <<>>
    /\ closed = {} /\ delivered = {}

-----------------------------------------------------------------------------
\* capture_constraints: no session is valid while locked or on another VT.
MutAlwaysValid == TRUE
Valid == ~locked /\ active

\* What a frame of o's session shows.
Shows(o) == IF o \in tag THEN override ELSE Output

Without(o) == Retain(pending, Owners \ {o})

\* complete_capture_frame for the sessions in S, where the sessions in news
\* have not seen the current generation.  A frame fails when its window is
\* gone, and may fail in the renderer.
Complete(S, news) ==
    \E ok \in SUBSET {o \in S : Valid /\ Shows(o) \notin closed} :
        /\ captured' = captured \cup ok
        /\ fresh' = news \ ok
        /\ delivered' = {[to |-> o, shows |-> Shows(o), changed |-> o \in news] : o \in ok}

\* process_pending_capture_frames: a recorder's frame is always completed, any
\* other only when the output changed since the client's last frame.
MutDueAll(news) == Waiting
MutDueChanged(news) == Waiting \cap news
Due(news) == Waiting \cap (tag \cup news)

ProcessPending(news) ==
    /\ pending' = Retain(pending, Owners \ Due(news))
    /\ Complete(Due(news), news)

-----------------------------------------------------------------------------
(* Clients.                                                                *)

\* new_session.  An engine opens its session while it starts up, which a stop
\* sent meanwhile does not prevent: it reads its control pipe later.
NewSession(o) ==
    /\ o \notin sess /\ Valid /\ Cardinality(sess) < MaxSessions
    /\ o \in Procs => life[o] \in {"running", "finishing"} /\ ~game[o]
    /\ sess' = sess \cup {o} /\ fresh' = fresh \cup {o}
    /\ tag' = IF tagNext THEN tag \cup {o} ELSE tag
    /\ tagNext' = FALSE
    /\ delivered' = {}
    /\ UNCHANGED <<controller, processes, override, commitDriven, boost, session,
                   captured, pending, closed>>

MutQueueHasRoom == Len(pending) <= MaxPending
QueueHasRoom == Len(pending) < MaxPending

\* frame: the first one is completed at once, later ones wait, beyond the
\* limit they fail.
RequestFrame(o) ==
    /\ o \in sess /\ o \notin Waiting
    /\ IF o \in captured
         THEN /\ QueueHasRoom
              /\ pending' = Append(pending, o)
              /\ delivered' = {}
              /\ UNCHANGED <<captured, fresh>>
         ELSE /\ Complete({o}, fresh)
              /\ UNCHANGED pending
    /\ UNCHANGED <<recVars, sess, tag, closed>>

\* frame_aborted.
FrameAborted(o) ==
    /\ o \in Waiting
    /\ pending' = Without(o)
    /\ delivered' = {}
    /\ UNCHANGED <<recVars, sess, tag, captured, fresh, closed>>

\* session_destroyed, by the client or because the client is gone.
MutKeepsFrames(o) == pending
PendingAfter(o) == Without(o)

SessionDestroyed(o) ==
    /\ o \in sess
    /\ o \in Procs => life[o] \in {"finishing", "dead"}
    /\ sess' = sess \ {o} /\ tag' = tag \ {o}
    /\ captured' = captured \ {o} /\ fresh' = fresh \ {o}
    /\ pending' = PendingAfter(o)
    /\ delivered' = {}
    /\ UNCHANGED <<recVars, closed>>

\* A window commits new content.  A commit-driven recording of it gets one
\* frame, the first one waiting.
Commit(w) ==
    /\ w \in Windows \ closed
    /\ LET mine == Retain(pending, tag)
       IN  IF commitDriven /\ w = override /\ mine # <<>>
             THEN /\ pending' = Without(mine[1])
                  /\ Complete({mine[1]}, sess)
             ELSE /\ fresh' = sess /\ delivered' = {}
                  /\ UNCHANGED <<captured, pending>>
    /\ UNCHANGED <<recVars, sess, tag, closed>>

CloseWindow(w) ==
    /\ w \in Windows \ closed
    /\ closed' = closed \cup {w} /\ delivered' = {}
    /\ UNCHANGED <<recVars, sess, tag, captured, fresh, pending>>

-----------------------------------------------------------------------------
(* The compositor.                                                         *)

\* capture_boost_tick; for a commit-driven recording it only sends frame
\* callbacks.
BoostTick ==
    /\ boost /\ Valid /\ pending # <<>> /\ ~commitDriven
    /\ ProcessPending(fresh)
    /\ UNCHANGED <<recVars, sess, tag, closed>>

\* The main loop after a redraw: a new generation for every session.
RedrawPass ==
    /\ active
    /\ ProcessPending(sess)
    /\ UNCHANGED <<recVars, sess, tag, closed>>

\* A recorder step that leaves the sessions alone.
RecorderStep ==
    /\ \/ \E src \in Sources \ closed, commit \in BOOLEAN : Start(src, commit)
       \/ StartRefused \/ StartGame \/ StartGameRefused
       \/ StopNative \/ StopBroken \/ StopGame \/ StopGameFailed \/ TogglePause
       \/ Poll \/ Unlock \/ ActivateSession \/ World
    /\ delivered' = {}
    /\ UNCHANGED <<sess, tag, captured, fresh, pending, closed>>

\* Lock clears the sessions; after PauseSession refresh_capture_sessions, which
\* the main loop runs in the same turn, drops them.  Either way their pending
\* frames fail.
MutKeepsSessions == UNCHANGED <<sess, tag, captured, fresh, pending>>
DropSessions ==
    /\ sess' = {} /\ tag' = {} /\ captured' = {} /\ fresh' = {} /\ pending' = <<>>

LeaveDesktop ==
    /\ Lock \/ PauseSession
    /\ DropSessions
    /\ delivered' = {}
    /\ UNCHANGED closed

CapNext ==
    \/ \E o \in Owners : NewSession(o) \/ RequestFrame(o) \/ FrameAborted(o) \/ SessionDestroyed(o)
    \/ \E w \in Windows : Commit(w) \/ CloseWindow(w)
    \/ BoostTick \/ RedrawPass \/ RecorderStep \/ LeaveDesktop

CapSpec == CapInit /\ [][CapNext]_capVars

\* The boost timer fires again and again.
CapFairSpec == CapSpec /\ WF_capVars(BoostTick)

-----------------------------------------------------------------------------
(* Correctness.                                                            *)

\* While the session is locked or on another VT nothing is captured, and no
\* session or frame of before is left to resume afterwards.
HiddenCapturesNothing == ~Valid => sess = {} /\ pending = <<>> /\ delivered = {}

\* The boost never hands an ordinary capture client a frame it has already
\* seen: the recorder's frame rate does not leak into other clients.
NoRepeats == \A d \in delivered : d.to \notin tag => d.changed

\* A queued frame belongs to a live session that captured before, and is
\* queued once.
PendingHasSession ==
    /\ Waiting \subseteq sess \cap captured
    /\ Once(pending)

\* A session that was not answered yet has not seen the current generation: the
\* frame that is completed at once is a new one.
FirstFrameIsNew == sess \ captured \subseteq fresh

\* Frames wait only for sessions there are, no more of them than the limit, and a
\* client's first frame is never an old one (new_session, frame,
\* session_destroyed, process_pending_capture_frames).
CaptureSound == CapTypeOK /\ PendingHasSession /\ FirstFrameIsNew

\* The inductive invariant behind these: the recorder's control keeps its own.
CapInv == RecInv /\ CaptureSound /\ HiddenCapturesNothing /\ NoRepeats

\* The recorder is fed even when nothing on the output changes: its waiting
\* frames are all answered while the boost runs.
StaticScreenRecorded ==
    (Waiting \cap tag # {} /\ boost /\ ~commitDriven)
        ~> (Waiting \cap tag = {} \/ ~boost \/ commitDriven)

\* "Window capture follows the client": what the running engine receives shows
\* the source the recording was started with.
EngineShowsSource == \A d \in delivered : d.to = child => d.shows = override
=============================================================================
