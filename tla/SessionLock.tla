---------------------------- MODULE SessionLock ----------------------------
(***************************************************************************)
(* The ext-session-lock implementation of the DRM backend: the handlers of *)
(* lock.rs, the frames of udev.rs that carry a lock generation from the    *)
(* repaint to the page flip, hotplug and VT switches.                      *)
(*                                                                         *)
(* The compositor is one calloop thread.  Every action is one callback of  *)
(* that loop; callbacks inserted with insert_idle run, in order, after the *)
(* event sources of the same dispatch, and the redraw pass of the main     *)
(* loop after them.                                                        *)
(***************************************************************************)
EXTENDS Integers, Sequences

CONSTANTS
    Outputs,            \* DRM connectors
    Clients,            \* locker clients, one lock object each
    NoClient,           \* Option::None of a client or of a surface
    Gone,               \* an Output object whose connector was unplugged
    MaxGeneration,      \* bound: accepted lock requests
    MaxHotplug,         \* bound: connector events
    MaxSwitch           \* bound: VT switches away

ASSUME LockAssumption ==
    /\ NoClient \notin Clients
    /\ Gone \notin Outputs
    /\ MaxGeneration \in Nat
    /\ MaxHotplug \in Nat
    /\ MaxSwitch \in Nat

VARIABLES
    active,         \* desktop.active: the session owns the VT
    locked,         \* lock.locked
    generation,     \* lock.generation
    confirmation,   \* lock.confirmation: whose lock object is to be told
    mapped,         \* outputs in the Space
    lockOutput,     \* the LockOutput kept in each Output's user data
    redraw,         \* desktop.redraw
    damage,         \* the next render of the output is not empty
    repaint,        \* a repaint timer or idle render of the output is due
    pending,        \* frame submitted to KMS, page flip outstanding
    queued,         \* frame waiting behind the pending one
    screen,         \* frame the output scans out
    idle,           \* insert_idle(lock_presented) callbacks, oldest first
    client,         \* protocol state of each client's lock object
    strays,         \* history: outputs of the unlocked session a denied client covered
    hotplugs,       \* connector events so far
    switches        \* VT switches so far

kms == <<damage, repaint, pending, queued, screen>>
env == <<hotplugs, switches>>
vars == <<active, locked, generation, confirmation, mapped, lockOutput, redraw,
          kms, idle, client, strays, env>>

-----------------------------------------------------------------------------
(* Frames.  A frame rendered from a locked output holds nothing but lock   *)
(* content and carries the generation of that output's LockOutput.         *)

NoFrame == -2
Desktop == -1
Generation == 0 .. MaxGeneration
Frame == Generation \cup {NoFrame, Desktop}

Unlocked == [locked |-> FALSE, surface |-> NoClient, generation |-> 0,
             presentations |-> 0]

MutFreshLock(g) == [locked |-> TRUE, surface |-> NoClient, generation |-> g,
                 presentations |-> 1]
FreshLock(g) == [locked |-> TRUE, surface |-> NoClient, generation |-> g,
                 presentations |-> 0]

\* Presentations saturate; the code only tells 0, 1 and "two or more" apart.
Presentations == 0 .. 2
MutBumpForever(n) == n + 1
Bump(n) == IF n < 2 THEN n + 1 ELSE n
Counted(l) == [locked |-> l.locked, surface |-> l.surface, generation |-> l.generation,
               presentations |-> Bump(l.presentations)]

LockOutputs == [locked : BOOLEAN, surface : Clients \cup {NoClient},
                generation : Generation, presentations : Presentations]

ClientStates == {"none", "waiting", "locked", "finished"}

TypeOK ==
    /\ active \in BOOLEAN
    /\ locked \in BOOLEAN
    /\ generation \in Generation
    /\ confirmation \in Clients \cup {NoClient}
    /\ mapped \in SUBSET Outputs
    /\ lockOutput \in [Outputs -> LockOutputs]
    /\ redraw \in BOOLEAN
    /\ damage \in [Outputs -> BOOLEAN]
    /\ repaint \in [Outputs -> BOOLEAN]
    /\ pending \in [Outputs -> Frame]
    /\ queued \in [Outputs -> Frame]
    /\ screen \in [Outputs -> Frame]
    /\ idle \in Seq([output : Outputs \cup {Gone}, generation : Generation])
    /\ client \in [Clients -> ClientStates]
    /\ strays \subseteq Outputs
    /\ hotplugs \in 0 .. MaxHotplug
    /\ switches \in 0 .. MaxSwitch

\* The compositor runs on its VT with every initial connector showing the
\* desktop, and no client has asked for a lock.
Init ==
    /\ active = TRUE
    /\ locked = FALSE
    /\ generation = 0
    /\ confirmation = NoClient
    /\ mapped \in SUBSET Outputs
    /\ lockOutput = [o \in Outputs |-> Unlocked]
    /\ redraw = FALSE
    /\ damage = [o \in Outputs |-> FALSE]
    /\ repaint = [o \in Outputs |-> FALSE]
    /\ pending = [o \in Outputs |-> NoFrame]
    /\ queued = [o \in Outputs |-> NoFrame]
    /\ screen = [o \in Outputs |-> IF o \in mapped THEN Desktop ELSE NoFrame]
    /\ idle = <<>>
    /\ client = [c \in Clients |-> "none"]
    /\ strays = {}
    /\ hotplugs = 0
    /\ switches = 0

-----------------------------------------------------------------------------
(* Protocol requests of locker clients.                                    *)
(* Operators named Mut... are slips of the definition below them that the  *)
(* properties must catch; no specification uses them.                      *)

\* A lock request is refused while locked or on another VT.
MutMayLockTwice == active
MayLock == ~locked /\ active

\* reset_buffers on every mapped output: its next frame is drawn in full.
MutKeepBuffers == damage
ResetBuffers == [o \in Outputs |-> o \in mapped \/ damage[o]]

\* ext_session_lock_manager_v1.lock.  A refused request drops the locker
\* object, which tells the client "finished".
LockDenied(c) ==
    /\ client[c] = "none"
    /\ ~MayLock
    /\ client' = [client EXCEPT ![c] = "finished"]
    /\ UNCHANGED <<active, locked, generation, confirmation, mapped, lockOutput,
                   redraw, kms, idle, strays, env>>

\* An accepted one starts a generation and covers every mapped output.
Lock(c) ==
    /\ client[c] = "none"
    /\ MayLock
    /\ generation < MaxGeneration
    /\ locked' = TRUE
    /\ generation' = generation + 1
    /\ confirmation' = c
    /\ lockOutput' = [o \in Outputs |-> IF o \in mapped THEN FreshLock(generation + 1)
                                                       ELSE lockOutput[o]]
    /\ damage' = ResetBuffers
    /\ redraw' = TRUE
    /\ strays' = {}
    /\ client' = [client EXCEPT ![c] = "waiting"]
    /\ UNCHANGED <<active, mapped, repaint, pending, queued, screen, idle, env>>

\* Unlocking clears the LockOutput of the mapped outputs.
MutStayCovered == lockOutput
Uncovered == [o \in Outputs |-> IF o \in mapped THEN Unlocked ELSE lockOutput[o]]

\* unlock_and_destroy, which the protocol allows once "locked" was sent.
MutUnlockEarly(c) ==
    /\ client[c] \in {"waiting", "locked"}
    /\ locked' = FALSE
    /\ confirmation' = NoClient
    /\ lockOutput' = Uncovered
    /\ damage' = ResetBuffers
    /\ redraw' = TRUE
    /\ strays' = {}
    /\ client' = [client EXCEPT ![c] = "none"]
    /\ UNCHANGED <<active, generation, mapped, repaint, pending, queued, screen,
                   idle, env>>
Unlock(c) ==
    /\ client[c] = "locked"
    /\ locked' = FALSE
    /\ confirmation' = NoClient
    /\ lockOutput' = Uncovered
    /\ damage' = ResetBuffers
    /\ redraw' = TRUE
    /\ strays' = {}
    /\ client' = [client EXCEPT ![c] = "none"]
    /\ UNCHANGED <<active, generation, mapped, repaint, pending, queued, screen,
                   idle, env>>

\* get_lock_surface: new_surface does not look at lock.locked, and the lock
\* object of a denied client still has the request.
NewSurface(c, o) ==
    /\ client[c] # "none"
    /\ o \in mapped
    /\ lockOutput' = [lockOutput EXCEPT ![o] =
            [locked |-> TRUE, surface |-> c, generation |-> generation,
             presentations |-> @.presentations]]
    /\ damage' = [damage EXCEPT ![o] = TRUE]
    /\ strays' = IF ~locked /\ client[c] = "finished" THEN strays \cup {o} ELSE strays
    /\ redraw' = TRUE
    /\ UNCHANGED <<active, locked, generation, confirmation, mapped, repaint, pending,
                   queued, screen, idle, client, env>>

\* The client destroys a lock object that holds nothing, or dies with it.
\* No handler runs: an accepted lock stays.
ClientGone(c) ==
    /\ client[c] # "none"
    /\ client' = [client EXCEPT ![c] = "none"]
    /\ UNCHANGED <<active, locked, generation, confirmation, mapped, lockOutput,
                   redraw, kms, idle, strays, env>>

\* A commit damages what the output shows: the desktop, or its lock surface.
Commit(o) ==
    /\ o \in mapped
    /\ lockOutput[o].locked => lockOutput[o].surface # NoClient
    /\ damage' = [damage EXCEPT ![o] = TRUE]
    /\ redraw' = TRUE
    /\ UNCHANGED <<active, locked, generation, confirmation, mapped, lockOutput,
                   repaint, pending, queued, screen, idle, client, strays, env>>

-----------------------------------------------------------------------------
(* Rendering and page flips.                                               *)

\* What output_elements draws and queue_frame tags.
FrameOf(o) == IF lockOutput[o].locked THEN lockOutput[o].generation ELSE Desktop

\* render_surface for the outputs S.  An empty frame is not queued; a frame
\* queued behind a pending flip replaces the one that waited there.
RenderSurfaces(S) ==
    LET drawn == {o \in S : damage[o]} IN
    /\ pending' = [o \in Outputs |-> IF o \in drawn /\ pending[o] = NoFrame
                                     THEN FrameOf(o) ELSE pending[o]]
    /\ queued' = [o \in Outputs |-> IF o \in drawn /\ pending[o] # NoFrame
                                    THEN FrameOf(o) ELSE queued[o]]
    /\ damage' = [o \in Outputs |-> damage[o] /\ o \notin S]
    /\ repaint' = [o \in Outputs |-> repaint[o] /\ o \notin S]

\* The main loop's redraw pass, after the dispatch and its idle callbacks.
RedrawPass ==
    /\ redraw /\ active
    /\ idle = <<>>
    /\ redraw' = FALSE
    /\ RenderSurfaces(mapped)
    /\ UNCHANGED <<active, locked, generation, confirmation, mapped, lockOutput,
                   screen, idle, client, strays, env>>

\* A repaint timer.  On an inactive device the render fails and is retried.
Repaint(o) ==
    /\ o \in mapped /\ repaint[o] /\ active
    /\ RenderSurfaces({o})
    /\ UNCHANGED <<active, locked, generation, confirmation, mapped, lockOutput,
                   redraw, screen, idle, client, strays, env>>

\* The generation a flip reports is the one its frame was tagged with when it
\* was queued.
MutTagAtFlip(o) == IF lockOutput[o].locked THEN lockOutput[o].generation ELSE Desktop
FlipTag(o) == pending[o]

\* The page flip of the pending frame (frame_finish).  A dispatch reads one
\* flip of a CRTC, so the previous callback of the output has run.
FrameFinish(o) ==
    /\ o \in mapped /\ active
    /\ pending[o] # NoFrame
    /\ \A i \in 1 .. Len(idle) : idle[i].output # o
    /\ screen' = [screen EXCEPT ![o] = pending[o]]
    /\ pending' = [pending EXCEPT ![o] = queued[o]]
    /\ queued' = [queued EXCEPT ![o] = NoFrame]
    /\ repaint' = [repaint EXCEPT ![o] = TRUE]
    /\ idle' = IF FlipTag(o) \in Generation
               THEN Append(idle, [output |-> o, generation |-> FlipTag(o)])
               ELSE idle
    /\ UNCHANGED <<active, locked, generation, confirmation, mapped, lockOutput,
                   redraw, damage, client, strays, env>>

MutReadyUnseen(l, g) == l.locked /\ l.generation = g
Ready(l, g) == l.locked /\ l.generation = g /\ l.presentations >= 2

\* Does record_presented count a callback e?  Only on an output that is still
\* the object the Space maps; a callback of an unplugged Output object counts
\* on that object alone.
Records(e) ==
    /\ e.output \in mapped
    /\ lockOutput[e.output].locked
    /\ lockOutput[e.output].generation = e.generation

\* record_presented asks for another frame after the first one.
MutNeverAgain(l) == FALSE
AskAgain(l) == Bump(l.presentations) < 2

\* The idle callback lock_presented(output, generation).  The first
\* presentation of an output asks for a second, full frame; whichever callback
\* finds all mapped outputs ready tells the locker.
LockPresented ==
    LET e == Head(idle)
        counts == locked /\ generation = e.generation
        records == counts /\ Records(e)
        again == records /\ AskAgain(lockOutput[e.output])
        ready == counts /\ \A o \in mapped : Ready(lockOutput'[o], generation)
    IN
    /\ idle # <<>>
    /\ idle' = Tail(idle)
    /\ lockOutput' = IF records
                     THEN [lockOutput EXCEPT ![e.output] = Counted(@)]
                     ELSE lockOutput
    /\ damage' = [o \in Outputs |-> damage[o] \/ (again /\ o = e.output)]
    /\ redraw' \in {redraw \/ again} \cup IF counts /\ e.output = Gone THEN {TRUE} ELSE {}
    /\ confirmation' = IF ready THEN NoClient ELSE confirmation
    /\ client' = [c \in Clients |-> IF ready /\ c = confirmation /\ client[c] = "waiting"
                                    THEN "locked" ELSE client[c]]
    /\ UNCHANGED <<active, locked, generation, mapped, repaint, pending, queued,
                   screen, strays, env>>

-----------------------------------------------------------------------------
(* Hotplug and VT switches.                                                *)

\* The LockOutput of a new Output object.
MutPlugUncovered == Unlocked
PlugLockOutput == IF locked THEN FreshLock(generation) ELSE Unlocked

\* connector_connected: a new Output object, covered from the start when the
\* session is locked, rendered by an idle callback.
Plug(o) ==
    /\ hotplugs < MaxHotplug
    /\ o \notin mapped
    /\ mapped' = mapped \cup {o}
    /\ lockOutput' = [lockOutput EXCEPT ![o] = PlugLockOutput]
    /\ damage' = [damage EXCEPT ![o] = TRUE]
    /\ repaint' = [repaint EXCEPT ![o] = TRUE]
    /\ hotplugs' = hotplugs + 1
    /\ UNCHANGED <<active, locked, generation, confirmation, redraw, pending, queued,
                   screen, idle, client, strays, switches>>

\* connector_disconnected: the surface and its frames go; callbacks keep the
\* old Output object.
MutUnplugKeepsFrames(o) ==
    /\ hotplugs < MaxHotplug
    /\ o \in mapped
    /\ mapped' = mapped \ {o}
    /\ lockOutput' = [lockOutput EXCEPT ![o] = Unlocked]
    /\ damage' = [damage EXCEPT ![o] = FALSE]
    /\ repaint' = [repaint EXCEPT ![o] = FALSE]
    /\ idle' = [i \in DOMAIN idle |-> IF idle[i].output = o
                                      THEN [output |-> Gone, generation |-> idle[i].generation]
                                      ELSE idle[i]]
    /\ strays' = strays \ {o}
    /\ hotplugs' = hotplugs + 1
    /\ UNCHANGED <<pending, queued, screen, active, locked, generation, confirmation, redraw,
                   client, switches>>
Unplug(o) ==
    /\ hotplugs < MaxHotplug
    /\ o \in mapped
    /\ mapped' = mapped \ {o}
    /\ lockOutput' = [lockOutput EXCEPT ![o] = Unlocked]
    /\ damage' = [damage EXCEPT ![o] = FALSE]
    /\ repaint' = [repaint EXCEPT ![o] = FALSE]
    /\ pending' = [pending EXCEPT ![o] = NoFrame]
    /\ queued' = [queued EXCEPT ![o] = NoFrame]
    /\ screen' = [screen EXCEPT ![o] = NoFrame]
    /\ idle' = [i \in DOMAIN idle |-> IF idle[i].output = o
                                      THEN [output |-> Gone, generation |-> idle[i].generation]
                                      ELSE idle[i]]
    /\ strays' = strays \ {o}
    /\ hotplugs' = hotplugs + 1
    /\ UNCHANGED <<active, locked, generation, confirmation, redraw, client, switches>>

PauseSession ==
    /\ active /\ switches < MaxSwitch
    /\ active' = FALSE
    /\ switches' = switches + 1
    /\ UNCHANGED <<locked, generation, confirmation, mapped, lockOutput, redraw, kms,
                   idle, client, strays, hotplugs>>

\* The devices are activated again; KMS may have lost the frames of the
\* outputs in lost, which then render in full.
ActivateSession ==
    /\ ~active
    /\ active' = TRUE
    /\ redraw' = TRUE
    /\ \E lost \in SUBSET mapped :
        /\ pending' = [o \in Outputs |-> IF o \in lost THEN NoFrame ELSE pending[o]]
        /\ queued' = [o \in Outputs |-> IF o \in lost THEN NoFrame ELSE queued[o]]
        /\ damage' = [o \in Outputs |-> o \in lost \/ damage[o]]
    /\ repaint' = [o \in Outputs |-> o \in mapped]
    /\ UNCHANGED <<locked, generation, confirmation, mapped, lockOutput, screen, idle,
                   client, strays, env>>

-----------------------------------------------------------------------------
Next ==
    \/ \E c \in Clients : LockDenied(c) \/ Lock(c) \/ Unlock(c) \/ ClientGone(c)
    \/ \E c \in Clients, o \in Outputs : NewSurface(c, o)
    \/ \E o \in Outputs : Commit(o) \/ Repaint(o) \/ FrameFinish(o) \/ Plug(o) \/ Unplug(o)
    \/ RedrawPass \/ LockPresented \/ PauseSession \/ ActivateSession

Spec == Init /\ [][Next]_vars

\* calloop runs every idle callback and dispatches every ready source, and KMS
\* completes the flips of an active device.  The main loop follows every
\* dispatch with its redraw pass, so a pass that is due again and again runs.
\* Clients, cables and VT switches owe nothing.
Fairness ==
    /\ SF_vars(RedrawPass)
    /\ WF_vars(LockPresented)
    /\ \A o \in Outputs : WF_vars(FrameFinish(o)) /\ WF_vars(Repaint(o))

FairSpec == Spec /\ Fairness

-----------------------------------------------------------------------------
(* Correctness.                                                            *)

\* While the session is locked every mapped output, also one plugged in since,
\* is covered in the current generation: render.rs draws no desktop on it.
LockCoversOutputs ==
    locked => \A o \in mapped : lockOutput[o].locked /\ lockOutput[o].generation = generation

\* A presentation counted for the current lock is one of its own frames:
\* flips of older desktop or lock frames, reported late, never advance it.
CountedFramesAreOnScreen ==
    locked => \A o \in mapped :
        lockOutput[o].presentations > 0 => screen[o] = generation

\* Once the locker has been told "locked", no mapped output scans out the
\* desktop, whatever was in flight, was plugged in or switched VT meanwhile.
ConfirmedMeansHidden ==
    locked /\ confirmation = NoClient => \A o \in mapped : screen[o] # Desktop

\* At most one client holds the lock, and what it was told is true: a waiting
\* client is the one to be confirmed, and only the holder's unlock, never a
\* second locker, ends a confirmed lock.
OneHolder ==
    /\ \A c \in Clients : client[c] = "waiting" => locked /\ confirmation = c
    /\ \A c \in Clients : client[c] = "locked" => locked /\ confirmation = NoClient
    /\ \A c, d \in Clients : client[c] = "locked" /\ client[d] = "locked" => c = d

\* The unlocked session shows every output, but for those that a client asked to
\* cover after its own lock was denied: nothing of the lock that ended stays.
UnlockUncovers == ~locked => \A o \in mapped : lockOutput[o].locked => o \in strays

\* On an active session an accepted lock that still waits for an output is
\* eventually confirmed, unless an output is unplugged meanwhile: only a flip
\* makes lock_presented look again, and an unplug damages no other output.
LockConfirmed ==
    \A S \in SUBSET Outputs :
        (confirmation # NoClient /\ mapped = S /\ \E o \in S : ~Ready(lockOutput[o], generation))
            ~> (confirmation = NoClient \/ ~active \/ ~(S \subseteq mapped))

\* After an unlock the desktop comes back on every output, unless a client whose
\* lock was denied covers it.
DesktopReturns ==
    \A o \in Outputs :
        (~locked /\ o \in mapped)
            ~> (screen[o] = Desktop \/ locked \/ ~active \/ o \notin mapped \/ o \in strays)

-----------------------------------------------------------------------------
(* The inductive invariant behind the safety properties.                   *)

\* A slot of an output's pipeline that holds nothing but the current lock.
Clean(f) == f \in {NoFrame, generation}

\* Nothing carries a generation that has not been started.
NoFutureFrames ==
    /\ \A o \in Outputs : /\ lockOutput[o].generation <= generation
                         /\ pending[o] <= generation
                         /\ queued[o] <= generation
                         /\ screen[o] <= generation
    /\ \A i \in 1 .. Len(idle) : idle[i].generation <= generation

\* An unplugged connector keeps no frame, and callbacks name mapped outputs.
UnmappedIsEmpty ==
    /\ \A o \in Outputs \ mapped : /\ pending[o] = NoFrame
                                   /\ queued[o] = NoFrame
                                   /\ screen[o] = NoFrame
    /\ \A i \in 1 .. Len(idle) : idle[i].output \in mapped \cup {Gone}

\* Behind a frame of the current lock nothing older follows.
FlipsInOrder ==
    \A o \in mapped :
        /\ pending[o] = NoFrame => queued[o] = NoFrame
        /\ locked /\ pending[o] = generation => Clean(queued[o])
        /\ locked /\ screen[o] = generation => Clean(pending[o]) /\ Clean(queued[o])

\* The flip an outstanding callback of the current lock reports is on screen.
CallbacksAreOnScreen ==
    locked => \A i \in 1 .. Len(idle) :
        idle[i].output \in mapped /\ idle[i].generation = generation
            => screen[idle[i].output] = generation

\* After the confirmation the whole pipeline of every output is clean.
ConfirmedMeansClean ==
    locked /\ confirmation = NoClient =>
        \A o \in mapped : Clean(screen[o]) /\ Clean(pending[o]) /\ Clean(queued[o])

\* ConfirmedMeansHidden is not inductive: a desktop frame still in flight, or a
\* late callback of one, would break it on the next step.
LockInv ==
    /\ TypeOK
    /\ LockCoversOutputs
    /\ CountedFramesAreOnScreen
    /\ NoFutureFrames
    /\ UnmappedIsEmpty
    /\ FlipsInOrder
    /\ CallbacksAreOnScreen
    /\ ConfirmedMeansClean
    /\ OneHolder
    /\ UnlockUncovers

-----------------------------------------------------------------------------
\* The promise to the locker, by refinement.
Promise == INSTANCE LockPromise WITH
    phase <- IF ~locked THEN "unlocked"
             ELSE IF confirmation # NoClient THEN "locking" ELSE "locked",
    exposed <- \E o \in mapped : screen[o] = Desktop

ImplementsPromise == Promise!Spec

=============================================================================
