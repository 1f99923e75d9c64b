----------------------------- MODULE RenderLoop -----------------------------
(***************************************************************************)
(* What makes one output repaint (udev.rs): the redraw pass at the end of  *)
(* a turn, page flips and the repaint timer each of them arms, the timers  *)
(* of renders that failed, throttled vblanks, VT switches and hotplug.     *)
(*                                                                         *)
(* The compositor is one thread; the kernel and the clients act at any     *)
(* time.  Times are left out: a timer fires some time after it was armed.  *)
(* A throttle timer that outlives its output is left out.                  *)
(***************************************************************************)
EXTENDS Naturals

CONSTANTS
    MaxCommits,         \* bound: changes of the scene
    MaxFaults,          \* bound: renders that fail on a working device
    MaxSwitches         \* bound: VT switches and hotplugs

RenderLoopAssumption ==
    MaxCommits \in Nat /\ MaxFaults \in Nat /\ MaxSwitches \in Nat

VARIABLES
    plugged,            \* the connector has a SurfaceData
    undrawn,            \* the scene has changed since the last frame
    redraw,             \* desktop.redraw
    sessionActive,      \* desktop.active, and the DRM device is not paused
    master,             \* the kernel lets this process set modes
    pending,            \* the frame whose flip is outstanding
    queued,             \* a frame waits behind the pending one
    repaint,            \* repaint_timer
    orphans,            \* repaint timers whose token was dropped or cleared
    loose,              \* timers of failed renders, which nobody holds
    idleRender,         \* insert_idle of a render
    failed,             \* history: the last render failed and was not rescheduled
    commits, faults, switches

loopBounds == <<commits, faults, switches>>
frameVars == <<undrawn, pending, queued>>
loopVars == <<plugged, redraw, sessionActive, master, frameVars, repaint, orphans, loose,
              idleRender, failed, loopBounds>>

\* "flipped": the vblank event waits to be read; "throttled": it was read too
\* early for the mode and is handled again by vblank_throttle_timer.
Flight == {"none", "flying", "flipped", "throttled"}

LoopTypeOK ==
    /\ plugged \in BOOLEAN /\ undrawn \in BOOLEAN /\ redraw \in BOOLEAN
    /\ sessionActive \in BOOLEAN /\ master \in BOOLEAN
    /\ pending \in Flight /\ queued \in BOOLEAN
    /\ repaint \in BOOLEAN /\ orphans \in Nat /\ loose \in Nat
    /\ idleRender \in BOOLEAN /\ failed \in BOOLEAN
    /\ commits \in 0 .. MaxCommits /\ faults \in 0 .. MaxFaults
    /\ switches \in 0 .. MaxSwitches

\* connector_connected has just set the output up.
LoopInit ==
    /\ plugged = TRUE /\ undrawn = TRUE /\ redraw = TRUE
    /\ sessionActive = TRUE /\ master = TRUE
    /\ pending = "none" /\ queued = FALSE
    /\ repaint = FALSE /\ orphans = 0 /\ loose = 0 /\ idleRender = TRUE
    /\ failed = FALSE
    /\ commits = 0 /\ faults = 0 /\ switches = 0

-----------------------------------------------------------------------------
(* render_surface.                                                         *)
(* Operators named Mut... are slips of the definition below them that the  *)
(* properties must catch; no specification uses them.                      *)

\* What rendering and queueing can come to.  Without damage no frame is
\* queued and the device is not asked.
Outcomes ==
    IF ~undrawn THEN {"empty"}
    ELSE IF ~sessionActive THEN {"inactive"}
    ELSE IF ~master THEN {"denied"}
    ELSE {"drawn"} \cup (IF faults < MaxFaults THEN {"testFailed", "other"} ELSE {})

MutSleepless(outcome) == outcome \in {"inactive", "denied", "testFailed", "empty"}
MutRescheduled(outcome) == outcome \in {"inactive", "denied"}
Rescheduled(outcome) == outcome \in {"inactive", "denied", "testFailed"}

\* A new frame is submitted, or replaces the one that waits behind a flip.  A
\* timer that renders a failed output again is not stored anywhere.
Render(looseLeft) ==
    IF ~plugged
    THEN /\ loose' = looseLeft
         /\ UNCHANGED <<frameVars, failed, faults>>
    ELSE \E outcome \in Outcomes :
         /\ undrawn' = (undrawn /\ outcome # "drawn")
         /\ pending' = IF outcome = "drawn" /\ pending = "none" THEN "flying" ELSE pending
         /\ queued' = (queued \/ (outcome = "drawn" /\ pending # "none"))
         /\ loose' = looseLeft + (IF Rescheduled(outcome) THEN 1 ELSE 0)
         /\ failed' = (outcome = "other" \/ (failed /\ outcome = "empty"))
         /\ faults' = IF outcome \in {"testFailed", "other"} THEN faults + 1 ELSE faults

\* The end of a turn; an output that is rendered gives up its repaint timer.
RedrawPass ==
    /\ redraw /\ sessionActive
    /\ redraw' = FALSE
    /\ Render(loose)
    /\ repaint' = (repaint /\ ~plugged)
    /\ UNCHANGED <<plugged, sessionActive, master, orphans, idleRender, commits, switches>>

RepaintFires ==
    /\ repaint
    /\ repaint' = FALSE
    /\ Render(loose)
    /\ UNCHANGED <<plugged, redraw, sessionActive, master, orphans, idleRender, commits, switches>>

\* The timer of an output that is gone clears the token of its successor,
\* whose timer goes on.
OrphanFires ==
    /\ orphans > 0
    /\ orphans' = IF repaint THEN orphans ELSE orphans - 1
    /\ repaint' = FALSE
    /\ Render(loose)
    /\ UNCHANGED <<plugged, redraw, sessionActive, master, idleRender, commits, switches>>

LooseFires ==
    /\ loose > 0
    /\ Render(loose - 1)
    /\ repaint' = (repaint /\ ~plugged)
    /\ UNCHANGED <<plugged, redraw, sessionActive, master, orphans, idleRender, commits, switches>>

IdleRender ==
    /\ idleRender
    /\ idleRender' = FALSE
    /\ Render(loose)
    /\ repaint' = (repaint /\ ~plugged)
    /\ UNCHANGED <<plugged, redraw, sessionActive, master, orphans, commits, switches>>

-----------------------------------------------------------------------------
(* frame_finish.                                                           *)

\* The kernel shows the pending frame.
Flip ==
    /\ pending = "flying"
    /\ pending' = "flipped"
    /\ UNCHANGED <<plugged, redraw, sessionActive, master, undrawn, queued, repaint, orphans,
                   loose, idleRender, failed, loopBounds>>

\* A vblank that comes too early is handled later, by a timer.
Throttle ==
    /\ pending = "flipped"
    /\ pending' = "throttled"
    /\ repaint' = FALSE
    /\ UNCHANGED <<plugged, redraw, sessionActive, master, undrawn, queued, orphans, loose,
                   idleRender, failed, loopBounds>>

\* frame_submitted also submits the frame that waits.  When the device refuses
\* it, its content is drawn again with the next frame; an inactive device is
\* not asked again.
MutNextRepaint(refused) == ~refused
NextRepaint(refused) == ~refused \/ sessionActive
FrameFinish ==
    LET refused == queued /\ (~sessionActive \/ ~master) IN
    /\ pending \in {"flipped", "throttled"}
    /\ pending' = IF queued /\ ~refused THEN "flying" ELSE "none"
    /\ queued' = FALSE
    /\ undrawn' = (undrawn \/ refused)
    /\ repaint' = NextRepaint(refused)
    /\ UNCHANGED <<plugged, redraw, sessionActive, master, orphans, loose, idleRender, failed,
                   loopBounds>>

-----------------------------------------------------------------------------
(* Clients, the session and cables.                                        *)

\* A commit, input, an animation frame: the scene changes.
SceneChanges ==
    /\ commits < MaxCommits
    /\ commits' = commits + 1
    /\ undrawn' = plugged
    /\ redraw' = TRUE
    /\ failed' = FALSE
    /\ UNCHANGED <<plugged, sessionActive, master, pending, queued, repaint, orphans, loose,
                   idleRender, faults, switches>>

\* The seat changes hands before the session notices.
LoseMaster ==
    /\ master /\ sessionActive /\ switches < MaxSwitches
    /\ switches' = switches + 1
    /\ master' = FALSE
    /\ UNCHANGED <<plugged, redraw, sessionActive, frameVars, repaint, orphans, loose, idleRender,
                   failed, commits, faults>>
PauseSession ==
    /\ sessionActive /\ ~master
    /\ sessionActive' = FALSE
    /\ UNCHANGED <<plugged, redraw, master, frameVars, repaint, orphans, loose, idleRender,
                   failed, loopBounds>>

\* The device is activated again: frames may have been lost, and the next one
\* is drawn in full.
ActivateSession ==
    /\ ~sessionActive
    /\ sessionActive' = TRUE /\ master' = TRUE
    /\ redraw' = TRUE
    /\ idleRender' = TRUE
    /\ undrawn' = plugged
    /\ failed' = FALSE
    /\ \/ UNCHANGED <<pending, queued>>
       \/ pending' = "none" /\ queued' = FALSE
    /\ UNCHANGED <<plugged, repaint, orphans, loose, loopBounds>>

\* connector_disconnected drops the SurfaceData with its frames, but not the
\* timer; connector_connected makes a new one.
Unplug ==
    /\ plugged /\ switches < MaxSwitches
    /\ switches' = switches + 1
    /\ plugged' = FALSE
    /\ undrawn' = FALSE /\ pending' = "none" /\ queued' = FALSE /\ failed' = FALSE
    /\ orphans' = IF repaint THEN orphans + 1 ELSE orphans
    /\ repaint' = FALSE
    /\ UNCHANGED <<redraw, sessionActive, master, loose, idleRender, commits, faults>>
Plug ==
    /\ ~plugged /\ sessionActive /\ master
    /\ plugged' = TRUE
    /\ undrawn' = TRUE
    /\ idleRender' = TRUE
    /\ UNCHANGED <<redraw, sessionActive, master, pending, queued, repaint, orphans, loose,
                   failed, loopBounds>>

LoopNext ==
    \/ RedrawPass \/ RepaintFires \/ OrphanFires \/ LooseFires \/ IdleRender
    \/ Flip \/ Throttle \/ FrameFinish
    \/ SceneChanges
    \/ LoseMaster \/ PauseSession \/ ActivateSession
    \/ Unplug \/ Plug

LoopSpec == LoopInit /\ [][LoopNext]_loopVars

-----------------------------------------------------------------------------
(* Properties.                                                             *)

Quiet == ~repaint /\ orphans = 0 /\ loose = 0 /\ ~idleRender /\ pending = "none"

\* A change of the scene is not forgotten: while the screen is out of date
\* something is there that will render it, unless the last render failed in a
\* way that is not tried again (render_surface, frame_finish).
ChangeRemembered ==
    plugged /\ sessionActive /\ undrawn /\ ~failed
        => redraw \/ repaint \/ orphans > 0 \/ loose > 0 \/ idleRender

\* ... and not by the repaint timer alone while a flip is outstanding: a vblank
\* that comes too early takes that timer away (frame_finish).
FlightRemembered ==
    plugged /\ sessionActive /\ undrawn /\ ~failed /\ pending # "none"
        => redraw \/ orphans > 0 \/ loose > 0 \/ idleRender

LoopInv == LoopTypeOK /\ ChangeRemembered /\ FlightRemembered

\* When nothing happens any more, an active output shows the scene and
\* sleeps: "No damage: sleep until a commit, input, or desktop change"
\* (render_surface).
Settled == ~sessionActive \/ (Quiet /\ ~redraw /\ (~undrawn \/ failed))
ScreenSettles == <>[]Settled
=============================================================================
