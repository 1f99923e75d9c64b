------------------------------- MODULE Scene --------------------------------
(***************************************************************************)
(* What moves on one output: opening fades, moves and resizes of windows   *)
(* after a layout change, the closing images of windows that are gone, and *)
(* the one timer that drives them (maintain_desktop, transitions.rs).      *)
(*                                                                         *)
(* Every turn of the main loop ends with maintain_desktop.  Lengths are    *)
(* left out: a window has a place, and a time that an animation has left   *)
(* is a small number that any passing of time may lower.                   *)
(***************************************************************************)
EXTENDS Naturals, Sequences, FiniteSets, SequencesExt, Retain

CONSTANTS
    SceneWindows,       \* toplevels, mapped and unmapped at will
    Places,             \* rects the layout can give a window
    Duration,           \* length of an animation, in steps of time
    MaxImages,          \* closing images kept per output (8 in the code)
    MaxStirs            \* bound: turns started by something else than the timer

ASSUME SceneAssumption ==
    /\ Duration \in Nat \ {0} /\ MaxImages \in Nat \ {0} /\ MaxStirs \in Nat
    /\ IsFiniteSet(SceneWindows) /\ Places # {}

VARIABLES
    sceneLocked,        \* lock.locked
    sceneActive,        \* desktop.active
    shownWs,            \* the workspace the output shows
    gaming,             \* the output shows a fullscreen window, or the profile is gaming
    win,                \* per window: see WindowState
    images,             \* closing images of the output, oldest first
    timer,              \* desktop.animation_timer
    settled,            \* maintain_desktop ran since the last event
    stirs

sceneVars == <<sceneLocked, sceneActive, shownWs, gaming, win, images, timer, settled, stirs>>

-----------------------------------------------------------------------------
Ws == {1, 2}
Time == 0 .. Duration

\* content: the surface has a buffer.  rect: Managed.rect, which is the place
\* the window was sent to; target: what the layout wants next.  opening and
\* movement hold the time left (0: no animation); opened is Managed.opened.
WindowState == [mapped : BOOLEAN, content : BOOLEAN, ws : Ws, inSpace : BOOLEAN,
                target : Places, rect : Places, opened : BOOLEAN,
                opening : Time, movement : Time, captured : BOOLEAN]
\* closed: left by a window that is gone, not by a change of workspace.
Image == [source : SceneWindows, ws : Ws, left : Time, closed : BOOLEAN]

NewWindow(ws, place) ==
    [mapped |-> TRUE, content |-> FALSE, ws |-> ws, inSpace |-> FALSE, target |-> place,
     rect |-> place, opened |-> FALSE, opening |-> 0, movement |-> 0, captured |-> FALSE]
Unmanaged(place) == [NewWindow(1, place) EXCEPT !.mapped = FALSE]

SceneTypeOK ==
    /\ sceneLocked \in BOOLEAN /\ sceneActive \in BOOLEAN /\ gaming \in BOOLEAN
    /\ shownWs \in Ws
    /\ win \in [SceneWindows -> WindowState]
    /\ images \in Seq(Image) /\ Len(images) <= MaxImages
    /\ timer \in BOOLEAN /\ settled \in BOOLEAN
    /\ stirs \in 0 .. MaxStirs

SceneInit ==
    /\ sceneLocked = FALSE /\ sceneActive = TRUE /\ gaming = FALSE
    /\ shownWs = 1
    /\ win = [w \in SceneWindows |-> Unmanaged(CHOOSE p \in Places : TRUE)]
    /\ images = <<>>
    /\ timer = FALSE /\ settled = TRUE
    /\ stirs = 0

-----------------------------------------------------------------------------
(* Events.  Each starts a turn that ends with Maintain.                    *)
(* Operators named Mut... are slips of the definition below them that the  *)
(* properties must catch; no specification uses them.                      *)

Stir == stirs < MaxStirs /\ stirs' = stirs + 1 /\ settled' = FALSE

Visible(w) == win[w].mapped /\ win[w].ws = shownWs

\* retain: a full list loses its oldest image.
Retained(image) ==
    Append(IF Len(images) >= MaxImages THEN Tail(images) ELSE images, image)

\* capture_closing_window: only of a window that is in the Space, shows
\* something and was not captured before, and only on a desktop that is shown.
Captures(w) ==
    sceneActive /\ ~sceneLocked /\ win[w].inSpace /\ win[w].content /\ ~win[w].captured
ImagesAfterClose(w) ==
    IF Captures(w) THEN Retained([source |-> w, ws |-> win[w].ws, left |-> Duration,
                                closed |-> TRUE])
    ELSE images

\* A new toplevel is managed on the shown workspace; its first buffer follows.
Map(w, place) ==
    /\ Stir /\ ~win[w].mapped
    /\ win' = [win EXCEPT ![w] = [NewWindow(shownWs, place) EXCEPT !.captured = win[w].captured]]
    /\ UNCHANGED <<sceneLocked, sceneActive, shownWs, gaming, images, timer>>

\* A commit that attaches a buffer: a window that comes back has its closing
\* image removed (cancel_closing_window).
WithoutImages(w) ==
    IF win[w].captured THEN Retain(images, {i \in Image : i.source # w}) ELSE images
CommitBuffer(w) ==
    /\ Stir /\ win[w].mapped
    /\ images' = WithoutImages(w)
    /\ win' = [win EXCEPT ![w].content = TRUE, ![w].captured = FALSE]
    /\ UNCHANGED <<sceneLocked, sceneActive, shownWs, gaming, timer>>

\* A commit that removes the buffer: the closing image is taken and
\* window_unmapped resets the animations.  The window stays managed.
CommitNull(w) ==
    /\ Stir /\ win[w].mapped /\ win[w].content
    /\ images' = ImagesAfterClose(w)
    /\ win' = [win EXCEPT ![w].content = FALSE, ![w].opened = FALSE, ![w].opening = 0,
                          ![w].movement = 0, ![w].captured = @ \/ Captures(w)]
    /\ UNCHANGED <<sceneLocked, sceneActive, shownWs, gaming, timer>>

\* The toplevel is destroyed; the surface may get another role later.
Close(w) ==
    /\ Stir /\ win[w].mapped
    /\ images' = ImagesAfterClose(w)
    /\ win' = [win EXCEPT ![w] = [Unmanaged(@.rect) EXCEPT
                                    !.captured = win[w].captured \/ Captures(w)]]
    /\ UNCHANGED <<sceneLocked, sceneActive, shownWs, gaming, timer>>

\* Another workspace is shown: the windows that go leave an image each, which
\* belongs to the workspace that comes.  The sources are not marked captured.
ShowWorkspace ==
    LET leaving == SetToSeq({w \in SceneWindows : Visible(w) /\ win[w].inSpace /\ win[w].content})
        kept == images \o [k \in 1 .. Len(leaving) |->
                    [source |-> leaving[k], ws |-> 3 - shownWs, left |-> Duration,
                     closed |-> FALSE]]
    IN
    /\ Stir
    /\ shownWs' = 3 - shownWs
    /\ images' = IF ~sceneActive \/ sceneLocked THEN images
                 ELSE SubSeq(kept, IF Len(kept) > MaxImages THEN Len(kept) - MaxImages + 1 ELSE 1,
                             Len(kept))
    /\ UNCHANGED <<sceneLocked, sceneActive, gaming, win, timer>>

\* The layout gives a window another rect.
MoveTarget(w, place) ==
    /\ Stir /\ win[w].mapped /\ place # win[w].target
    /\ win' = [win EXCEPT ![w].target = place]
    /\ UNCHANGED <<sceneLocked, sceneActive, shownWs, gaming, images, timer>>

\* lock and unlock, a VT switch, a fullscreen window that comes or goes.
ToggleLock ==
    /\ Stir
    /\ sceneLocked' = ~sceneLocked
    /\ UNCHANGED <<sceneActive, shownWs, gaming, win, images, timer>>
ToggleActive ==
    /\ Stir
    /\ sceneActive' = ~sceneActive
    /\ UNCHANGED <<sceneLocked, shownWs, gaming, win, images, timer>>
ToggleGaming ==
    /\ Stir
    /\ gaming' = ~gaming
    /\ UNCHANGED <<sceneLocked, sceneActive, shownWs, win, images, timer>>

-----------------------------------------------------------------------------
(* The end of a turn.                                                      *)

Hidden == sceneLocked \/ ~sceneActive

\* animate_movement, and the condition transitions::tick is given.
MayMove == ~gaming /\ ~Hidden

\* The opening fade starts with the first content and does not wait for a
\* hidden desktop.
Faded(s) ==
    IF s.opened \/ Hidden THEN [s EXCEPT !.opened = TRUE, !.opening = 0]
    ELSE IF ~s.content THEN s
    ELSE IF s.opening = 0 THEN [s EXCEPT !.opening = Duration]
    ELSE s

\* A movement starts when the target changes and the window is on screen; one
\* of a hidden or gaming output is dropped.
Moved(s) ==
    [s EXCEPT !.movement = IF ~MayMove \/ ~s.inSpace THEN 0
                           ELSE IF s.target # s.rect THEN Duration ELSE @,
              !.rect = s.target, !.inSpace = TRUE]

\* A window that is not shown leaves the Space and will fade in again.
Left(s) ==
    IF s.inSpace THEN [s EXCEPT !.inSpace = FALSE, !.movement = 0, !.opened = FALSE,
                                !.opening = 0]
    ELSE s

MutAnimating(w, ws) == ws[w].movement > 0
Animating(w, ws) == ws[w].opening > 0 \/ ws[w].movement > 0

\* transitions::tick keeps what may still be seen.
MutTicked == Retain(images, {i \in Image : MayMove /\ i.ws = shownWs})
Ticked == Retain(images, {i \in Image : MayMove /\ i.ws = shownWs /\ i.left > 0})
TimerNeeded(kept, ws) ==
    kept # <<>> \/ \E w \in SceneWindows : Visible(w) /\ Animating(w, ws)

\* maintain_desktop: closing images of another workspace, of a desktop that is
\* hidden, or past their time go; the timer runs while anything visible moves.
Maintain ==
    /\ ~settled
    /\ settled' = TRUE
    /\ win' = [w \in SceneWindows |-> IF Visible(w) THEN Moved(Faded(win[w])) ELSE Left(win[w])]
    /\ images' = Ticked
    /\ timer' = TimerNeeded(images', win')
    /\ UNCHANGED <<sceneLocked, sceneActive, shownWs, gaming, stirs>>

\* The timer fires: it is gone, the desktop is to be redrawn, the turn ends.
TimerFires ==
    /\ timer /\ settled
    /\ timer' = FALSE
    /\ settled' = FALSE
    /\ UNCHANGED <<sceneLocked, sceneActive, shownWs, gaming, win, images, stirs>>

\* Time passes between two turns.  An opening fade whose time is over is seen
\* to be over in the turn that follows.
Less(n) == IF n = 0 THEN 0 ELSE n - 1
Elapse ==
    /\ settled
    /\ \/ images # <<>>
       \/ \E w \in SceneWindows : win[w].opening > 0 \/ win[w].movement > 0
    /\ images' = [k \in 1 .. Len(images) |-> [images[k] EXCEPT !.left = Less(@)]]
    /\ win' = [w \in SceneWindows |-> [win[w] EXCEPT
                    !.opening = Less(@), !.movement = Less(@),
                    !.opened = @ \/ win[w].opening = 1]]
    /\ UNCHANGED <<sceneLocked, sceneActive, shownWs, gaming, timer, settled, stirs>>

SceneNext ==
    \/ \E w \in SceneWindows :
        \/ \E p \in Places : Map(w, p) \/ MoveTarget(w, p)
        \/ CommitBuffer(w) \/ CommitNull(w) \/ Close(w)
    \/ ShowWorkspace
    \/ ToggleLock \/ ToggleActive \/ ToggleGaming
    \/ Maintain
    \/ TimerFires
    \/ Elapse

SceneSpec == SceneInit /\ [][SceneNext]_sceneVars

-----------------------------------------------------------------------------
(* Properties.                                                             *)

\* Between two turns: a desktop that is not shown moves nothing and keeps no
\* closing image of it; images belong to the workspace shown; and while a
\* visible window still moves the timer is there to go on with it.  A window that
\* was closed and has content again is not shown with the image it left.
SceneSound ==
    settled =>
        /\ Hidden => images = <<>> /\ ~timer
                     /\ \A w \in SceneWindows : win[w].movement = 0 /\ win[w].opening = 0
        /\ \A k \in 1 .. Len(images) : images[k].ws = shownWs
        /\ (\E w \in SceneWindows : Visible(w) /\ win[w].opening + win[w].movement > 0) => timer
        /\ \A k \in 1 .. Len(images) :
                timer /\ ~(images[k].closed /\ win[images[k].source].content)

\* At any time, a window that is not in the Space has nothing to move,
\* and a closing image is of a window that has not come back with content since
\* (capture_closing_window, cancel_closing_window).
ImagesOfTheGone ==
    /\ \A w \in SceneWindows : ~win[w].inSpace => win[w].opening = 0 /\ win[w].movement = 0
    /\ \A k \in 1 .. Len(images) : images[k].closed =>
            win[images[k].source].captured /\ ~win[images[k].source].content

SceneInv == SceneTypeOK /\ SceneSound /\ ImagesOfTheGone

\* The timer does not run for ever: a desktop nobody touches becomes idle.
BecomesIdle == <>[](~timer)
=============================================================================
