----------------------------- MODULE Screencopy -----------------------------
(***************************************************************************)
(* The deprecated wlr-screencopy protocol (screencopy.rs): frames that are *)
(* copied at once, frames that wait for the next redraw of the desktop,    *)
(* and what becomes of the client's buffer in every case.                  *)
(*                                                                         *)
(* Requests and the redraw pass run on the one compositor thread.  One     *)
(* output is modelled: a frame of another output shares nothing with it    *)
(* but the queue.                                                          *)
(***************************************************************************)
EXTENDS Retain, FiniteSets, SequencesExt

CONSTANTS
    CopyClients,        \* screencopy clients, one manager each
    MaxFrames,          \* bound: frame objects created
    MaxWaiting,         \* the queue limit (32 in the code)
    MaxHides            \* bound: locks, VT switches and unplugs

ASSUME ScreencopyAssumption == MaxFrames \in Nat /\ MaxWaiting \in Nat /\ MaxHides \in Nat

VARIABLES
    copyLocked,         \* lock.locked
    copyActive,         \* desktop.active
    copyMapped,         \* the output is in the Space
    copyRedraw,         \* desktop.redraw
    captured,           \* ManagerData.captured
    frames,             \* FrameData of every frame object
    waiting,            \* pending_screencopies
    hides

copyVars == <<copyLocked, copyActive, copyMapped, copyRedraw, captured, frames,
              waiting, hides>>

-----------------------------------------------------------------------------
(* A frame object: who owns it, whether it was created with an output,     *)
(* what the last event said, and where the buffer attached to it is.       *)

Outcomes == {"none", "offered", "failed", "ready", "error"}
BufferStates == {"unused", "held", "released"}
FrameData == [client : CopyClients, alive : BOOLEAN, output : BOOLEAN,
              initial : BOOLEAN, used : BOOLEAN, buffer : BufferStates,
              answer : Outcomes]

\* Frames are numbered as they are created.
FrameIds == 1 .. MaxFrames
Known == DOMAIN frames
Holds(f) == f \in Known /\ frames[f].buffer = "held"

CopyTypeOK ==
    /\ copyLocked \in BOOLEAN /\ copyActive \in BOOLEAN
    /\ copyMapped \in BOOLEAN /\ copyRedraw \in BOOLEAN
    /\ captured \in [CopyClients -> BOOLEAN]
    /\ frames \in Seq(FrameData) /\ Len(frames) <= MaxFrames
    /\ waiting \in Seq(FrameIds)
    /\ hides \in 0 .. MaxHides

CopyInit ==
    /\ copyLocked = FALSE /\ copyActive = TRUE
    /\ copyMapped = TRUE /\ copyRedraw = FALSE
    /\ captured = [c \in CopyClients |-> FALSE]
    /\ frames = <<>>
    /\ waiting = <<>>
    /\ hides = 0

-----------------------------------------------------------------------------
(* Operators named Mut... are slips of the definition below them that the  *)
(* properties must catch; no specification uses them.                      *)

\* What may be shown to a client: not the lock screen, not another VT.
MutCopyShown == ~copyLocked /\ copyMapped
CopyShown == ~copyLocked /\ copyActive /\ copyMapped

\* create_frame.  Only the first frame of a manager is initial, also when it
\* is refused.  An output that may not be shown is forgotten: the frame fails.
CreateFrame(c) ==
    /\ Len(frames) < MaxFrames
    /\ frames' = Append(frames,
            [client |-> c, alive |-> TRUE, output |-> CopyShown,
             initial |-> ~captured[c], used |-> FALSE, buffer |-> "unused",
             answer |-> IF CopyShown THEN "offered" ELSE "failed"])
    /\ captured' = [captured EXCEPT ![c] = TRUE]
    /\ UNCHANGED <<copyLocked, copyActive, copyMapped, copyRedraw, waiting, hides>>

\* The answers perform_copy can give: it looks at what is visible now, the
\* client's buffer may not fit, and reading or writing the pixels may fail.
CopyAnswers(data) ==
    IF ~data.output \/ ~CopyShown THEN {"failed"} ELSE {"error", "failed", "ready"}

\* perform_copy: the buffer is given back whatever the answer is.
Answered(data, answer) == [data EXCEPT !.buffer = "released", !.answer = answer]

\* FrameData destroyed, by request or with its client: a waiting buffer is
\* given back.
MutDestroyed(data) == [data EXCEPT !.alive = FALSE]
Destroyed(data) ==
    [data EXCEPT !.alive = FALSE,
                 !.buffer = IF @ = "held" THEN "released" ELSE @]

\* post_error disconnects the client and destroys its objects.
Kill(fs, dead) == [f \in DOMAIN fs |-> IF fs[f].client \in dead THEN Destroyed(fs[f])
                                                            ELSE fs[f]]

\* request_copy of a frame that is copied at once.
CopyNow(f, withDamage) ==
    /\ f \in Known /\ frames[f].alive /\ ~frames[f].used
    /\ ~withDamage \/ frames[f].initial
    /\ \E answer \in CopyAnswers(frames[f]) :
        LET done == [frames EXCEPT ![f] = Answered([@ EXCEPT !.used = TRUE], answer)] IN
        frames' = IF answer = "error" THEN Kill(done, {frames[f].client}) ELSE done
    /\ UNCHANGED <<copyLocked, copyActive, copyMapped, copyRedraw, captured, waiting,
                   hides>>

\* retain(is_alive)
LiveWaiting == Retain(waiting, {f \in Known : frames[f].alive})

\* request_copy of a later frame with damage: it waits for the next redraw,
\* or fails when too many wait.
CopyWithDamage(f) ==
    /\ f \in Known /\ frames[f].alive /\ ~frames[f].used /\ ~frames[f].initial
    /\ IF Len(LiveWaiting) >= MaxWaiting
       THEN /\ frames' = [frames EXCEPT ![f] = Answered([@ EXCEPT !.used = TRUE], "failed")]
            /\ waiting' = LiveWaiting
       ELSE /\ frames' = [frames EXCEPT ![f].used = TRUE, ![f].buffer = "held"]
            /\ waiting' = Append(LiveWaiting, f)
    /\ UNCHANGED <<copyLocked, copyActive, copyMapped, copyRedraw, captured, hides>>

\* A second copy of the same frame is a protocol error.
CopyAgain(f) ==
    /\ f \in Known /\ frames[f].alive /\ frames[f].used
    /\ frames' = Kill(frames, {frames[f].client})
    /\ UNCHANGED <<copyLocked, copyActive, copyMapped, copyRedraw, captured, waiting,
                   hides>>

\* The client destroys a frame; the queue keeps the dead object.
DestroyFrame(f) ==
    /\ f \in Known /\ frames[f].alive
    /\ frames' = [frames EXCEPT ![f] = Destroyed(@)]
    /\ UNCHANGED <<copyLocked, copyActive, copyMapped, copyRedraw, captured, waiting,
                   hides>>

\* The redraw pass takes the whole queue and answers every frame that is
\* alive and still has its buffer.
ProcessPending ==
    LET due == {f \in ToSet(waiting) : frames[f].alive /\ Holds(f)} IN
    /\ copyRedraw /\ copyActive
    /\ copyRedraw' = FALSE
    /\ waiting' = <<>>
    /\ \E answer \in [due -> Outcomes] :
        /\ \A f \in due : answer[f] \in CopyAnswers(frames[f])
        /\ LET done == [f \in Known |-> IF f \in due THEN Answered(frames[f], answer[f])
                                                 ELSE frames[f]]
           IN frames' = Kill(done, {frames[f].client : f \in {g \in due : answer[g] = "error"}})
    /\ UNCHANGED <<copyLocked, copyActive, copyMapped, captured, hides>>

-----------------------------------------------------------------------------
(* What else happens to the output.                                        *)

\* A client commits and the desktop is redrawn.
DesktopDamage ==
    /\ copyRedraw' = TRUE
    /\ UNCHANGED <<copyLocked, copyActive, copyMapped, captured, frames, waiting, hides>>

\* lock and unlock; both ask for a redraw.
CopyLock ==
    /\ ~copyLocked => copyActive /\ hides < MaxHides
    /\ copyLocked' = ~copyLocked
    /\ hides' = IF copyLocked THEN hides ELSE hides + 1
    /\ copyRedraw' = TRUE
    /\ UNCHANGED <<copyActive, copyMapped, captured, frames, waiting>>

\* PauseSession and ActivateSession; a redraw is asked for on the way back.
CopySwitch ==
    /\ copyActive => hides < MaxHides
    /\ copyActive' = ~copyActive
    /\ hides' = IF copyActive THEN hides + 1 ELSE hides
    /\ copyRedraw' = (copyRedraw \/ ~copyActive)
    /\ UNCHANGED <<copyLocked, copyMapped, captured, frames, waiting>>

\* The output leaves the Space.  Its WeakOutput may be gone or only unmapped;
\* both are found by perform_copy.  An output that comes back is another object.
CopyUnplug ==
    /\ copyMapped /\ hides < MaxHides
    /\ copyMapped' = FALSE
    /\ hides' = hides + 1
    /\ UNCHANGED <<copyLocked, copyActive, copyRedraw, captured, frames, waiting>>

CopyNext ==
    \/ \E c \in CopyClients : CreateFrame(c)
    \/ \E f \in FrameIds :
        \/ \E d \in BOOLEAN : CopyNow(f, d)
        \/ CopyWithDamage(f)
        \/ CopyAgain(f)
        \/ DestroyFrame(f)
    \/ ProcessPending
    \/ DesktopDamage
    \/ CopyLock
    \/ CopySwitch
    \/ CopyUnplug

CopySpec == CopyInit /\ [][CopyNext]_copyVars

-----------------------------------------------------------------------------
(* Properties.                                                             *)

\* Every buffer comes back: the compositor holds a buffer exactly for the
\* frames that are alive and in the queue, it never forgets one in an error,
\* full-queue, destroy or disconnect path, and no frame is queued twice
\* (request_copy, process_pending, destroyed).
BuffersComeBack ==
    /\ \A f \in Known : Holds(f) <=> frames[f].alive /\ f \in ToSet(waiting)
    /\ \A f \in Known : frames[f].answer \in {"ready", "error"}
                            => frames[f].buffer = "released"
    /\ Once(waiting)
    /\ Cardinality({f \in Known : Holds(f)}) <= MaxWaiting

\* The inductive form: the queue holds frame objects there are, and a frame that
\* was not used yet has no buffer.
CopyInv ==
    /\ CopyTypeOK /\ BuffersComeBack
    /\ ToSet(waiting) \subseteq Known
    /\ \A f \in Known : ~frames[f].used => frames[f].buffer = "unused"

\* Pixels are copied only while the desktop itself is shown: a frame that was
\* created, or has waited, from before a lock or a VT switch gets none
\* (perform_copy).
HiddenNeverCopied ==
    [][\A f \in Known : frames'[f].answer = "ready" /\ frames[f].answer # "ready"
            => ~copyLocked /\ copyActive /\ copyMapped]_copyVars
=============================================================================
