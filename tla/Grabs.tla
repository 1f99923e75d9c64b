-------------------------------- MODULE Grabs -------------------------------
(***************************************************************************)
(* Interactive moves and resizes (shell/grabs.rs, shell/xdg.rs): a pointer *)
(* button or a touch point grabs a floating window, motion moves it or     *)
(* asks its client for another size, and the release ends a resize with a  *)
(* last configure that the client acknowledges and commits.                *)
(*                                                                         *)
(* Meanwhile commands switch workspaces, windows close and the session     *)
(* locks.  Sizes and positions are left out, X11 windows too; every window *)
(* is a client of its own.                                                 *)
(***************************************************************************)
EXTENDS Naturals, Sequences, FiniteSets, SequencesExt

CONSTANTS
    Held,               \* floating windows
    NoWindow,
    MaxConfigures,      \* bound: configures a client has not acknowledged
    MaxTurns            \* bound: commands, closed windows and locks

GrabsAssumption ==
    NoWindow \notin Held /\ MaxConfigures \in Nat \ {0} /\ MaxTurns \in Nat

VARIABLES
    pointerGrab, touchGrab,
    inSpace,            \* windows the Space holds
    alive, shown,       \* windows that live; those of the visible workspace
    covering,           \* windows that are fullscreen
    resizeState,        \* SurfaceData::resize_state
    resizingSet,        \* windows whose pending state has Resizing
    lastSent,           \* windows whose last configure had Resizing
    wire,               \* configures the client has yet to acknowledge
    ackedResizing,      \* windows whose last acknowledged configure had Resizing
    grabsLocked,
    crashed,            \* the assertion that has failed
    shared,             \* history: windows two devices have resized at a time
    turns

client == <<lastSent, wire, ackedResizing>>
place == <<inSpace, alive, shown, covering, grabsLocked, turns>>
grabsVars == <<pointerGrab, touchGrab, place, resizeState, resizingSet, client, crashed, shared>>

-----------------------------------------------------------------------------
NoGrab == [kind |-> "none", win |-> NoWindow, corner |-> FALSE]
Grab == {NoGrab} \cup [kind : {"click", "move", "resize"}, win : Held, corner : BOOLEAN]
\* "late": sent by the last release, or after it.
Configure == [resizing : BOOLEAN, late : BOOLEAN]

GrabsTypeOK ==
    /\ pointerGrab \in Grab /\ touchGrab \in Grab
    /\ inSpace \subseteq Held /\ alive \subseteq Held /\ shown \subseteq Held
    /\ covering \subseteq Held /\ shared \subseteq Held
    /\ resizeState \in [Held -> {"not", "resizing", "finalAck", "commit"}]
    /\ resizingSet \subseteq Held /\ lastSent \subseteq Held /\ ackedResizing \subseteq Held
    /\ wire \in [Held -> Seq(Configure)] /\ \A w \in Held : Len(wire[w]) <= MaxConfigures
    /\ grabsLocked \in BOOLEAN
    /\ crashed \in {"no", "element_location", "resize_state"}
    /\ turns \in 0 .. MaxTurns

GrabsInit ==
    /\ pointerGrab = NoGrab /\ touchGrab = NoGrab
    /\ inSpace = Held /\ alive = Held /\ shown = Held /\ covering = {}
    /\ resizeState = [w \in Held |-> "not"]
    /\ resizingSet = {} /\ lastSent = {} /\ ackedResizing = {}
    /\ wire = [w \in Held |-> << >>]
    /\ grabsLocked = FALSE /\ crashed = "no" /\ shared = {} /\ turns = 0

Running == crashed = "no"

-----------------------------------------------------------------------------
(* Grabs.  A device is the pointer or the touch point.                     *)

GrabOf(dev) == IF dev = "pointer" THEN pointerGrab ELSE touchGrab
SetGrab(dev, g) ==
    IF dev = "pointer" THEN pointerGrab' = g /\ UNCHANGED touchGrab
    ELSE touchGrab' = g /\ UNCHANGED pointerGrab
Other(dev) == GrabOf(IF dev = "pointer" THEN "touch" ELSE "pointer")

\* can_manipulate_window; window_for_surface looks in the Space.
CanManipulate(w) == ~grabsLocked /\ w \in (inSpace \cap shown) \ covering

\* A press or a touch that begins on a window.
Down(dev, w) ==
    /\ Running /\ ~grabsLocked /\ GrabOf(dev).kind = "none" /\ w \in inSpace \cap alive
    /\ SetGrab(dev, [kind |-> "click", win |-> w, corner |-> FALSE])
    /\ UNCHANGED <<place, resizeState, resizingSet, client, crashed, shared>>

StartMove(dev, w) ==
    /\ SetGrab(dev, [kind |-> "move", win |-> w, corner |-> FALSE])
    /\ UNCHANGED <<place, resizeState, resizingSet, client, crashed, shared>>
StartResize(dev, w, corner) ==
    /\ SetGrab(dev, [kind |-> "resize", win |-> w, corner |-> corner])
    /\ resizeState' = [resizeState EXCEPT ![w] = "resizing"]
    /\ shared' = IF Other(dev).kind = "resize" /\ Other(dev).win = w THEN shared \cup {w} ELSE shared
    /\ UNCHANGED <<place, resizingSet, client, crashed>>

\* begin_mouse_action: the modifier and a button, on a window under the pointer.
BeginMouseAction(w) ==
    /\ Running /\ pointerGrab.kind = "none" /\ w \in alive /\ CanManipulate(w)
    /\ \/ StartMove("pointer", w)
       \/ \E corner \in BOOLEAN : StartResize("pointer", w, corner)

\* move_request and resize_request of xdg_toplevel, with the serial of the press
\* that began the grab, which a move or resize keeps.
MoveRequest(dev) ==
    /\ Running /\ GrabOf(dev).kind # "none"
    /\ GrabOf(dev).win \in alive /\ CanManipulate(GrabOf(dev).win)
    /\ StartMove(dev, GrabOf(dev).win)
ResizeRequest(dev, corner) ==
    /\ Running /\ GrabOf(dev).kind # "none"
    /\ GrabOf(dev).win \in alive /\ CanManipulate(GrabOf(dev).win)
    /\ StartResize(dev, GrabOf(dev).win, corner)

-----------------------------------------------------------------------------
(* Configures.                                                             *)

Send(w, cfg) ==
    /\ Len(wire[w]) < MaxConfigures
    /\ wire' = [wire EXCEPT ![w] = Append(@, cfg)]
    /\ lastSent' = IF cfg.resizing THEN lastSent \cup {w} ELSE lastSent \ {w}
    /\ UNCHANGED ackedResizing

\* A release makes what was sent before it early.
MutRetired(configures) == configures
Retired(configures) == [i \in DOMAIN configures |-> [configures[i] EXCEPT !.late = FALSE]]

\* The window follows the pointer, into the Space if it was not there; a resize
\* of a dead window ends.
Drag(dev) ==
    LET g == GrabOf(dev) IN
    /\ Running
    /\ \/ /\ g.kind = "move"
          /\ inSpace' = inSpace \cup {g.win}
          /\ UNCHANGED <<pointerGrab, touchGrab, resizingSet, client>>
       \/ /\ g.kind = "resize" /\ g.win \notin alive
          /\ SetGrab(dev, NoGrab)
          /\ UNCHANGED <<inSpace, resizingSet, client>>
       \/ /\ g.kind = "resize" /\ g.win \in alive
          /\ resizingSet' = resizingSet \cup {g.win}
          /\ Send(g.win, [resizing |-> TRUE, late |-> resizeState[g.win] = "finalAck"])
          /\ UNCHANGED <<pointerGrab, touchGrab, inSpace>>
    /\ UNCHANGED <<alive, shown, covering, grabsLocked, turns, resizeState, crashed, shared>>

\* The end of a resize: the last configure, which is left out when it would say
\* nothing new; the position of a window that grew to the left or upwards is
\* looked up in the Space; the state must still be Resizing.
EndResize(g) ==
    /\ resizingSet' = resizingSet \ {g.win}
    /\ \/ /\ Len(wire[g.win]) < MaxConfigures
          /\ wire' = [wire EXCEPT ![g.win] = Append(Retired(@), [resizing |-> FALSE, late |-> TRUE])]
          /\ lastSent' = lastSent \ {g.win}
       \/ /\ g.win \notin lastSent
          /\ wire' = [wire EXCEPT ![g.win] = Retired(@)]
          /\ UNCHANGED lastSent
    /\ UNCHANGED ackedResizing
    /\ crashed' = IF g.corner /\ g.win \notin inSpace THEN "element_location"
                  ELSE IF resizeState[g.win] # "resizing" THEN "resize_state" ELSE "no"
    /\ resizeState' = IF crashed' = "no" THEN [resizeState EXCEPT ![g.win] = "finalAck"] ELSE resizeState

Up(dev) ==
    LET g == GrabOf(dev) IN
    /\ Running /\ g.kind # "none"
    /\ SetGrab(dev, NoGrab)
    /\ IF g.kind = "resize" /\ g.win \in alive THEN EndResize(g)
       ELSE UNCHANGED <<resizeState, resizingSet, client, crashed>>
    /\ UNCHANGED <<place, shared>>

\* The compositor takes the touch sequence back.
TouchCancel ==
    /\ Running /\ touchGrab.kind # "none"
    /\ SetGrab("touch", NoGrab)
    /\ UNCHANGED <<place, resizeState, resizingSet, client, crashed, shared>>

\* maintain_desktop gives a window another size.
PolicyConfigure(w) ==
    /\ Running /\ w \in alive \cap inSpace
    /\ Send(w, [resizing |-> w \in resizingSet, late |-> resizeState[w] = "finalAck"])
    /\ UNCHANGED <<pointerGrab, touchGrab, place, resizeState, resizingSet, crashed, shared>>

\* ack_configure: acknowledging a configure acknowledges the ones before it.
Ack(w) ==
    /\ Running /\ w \in alive
    /\ \E i \in DOMAIN wire[w] :
        /\ wire' = [wire EXCEPT ![w] = SubSeq(@, i + 1, Len(@))]
        /\ ackedResizing' = IF wire[w][i].resizing THEN ackedResizing \cup {w}
                            ELSE ackedResizing \ {w}
        /\ resizeState' = [resizeState EXCEPT ![w] =
                IF @ = "finalAck" /\ wire[w][i].late /\ w \in ackedResizing THEN "commit" ELSE @]
    /\ UNCHANGED <<pointerGrab, touchGrab, place, resizingSet, lastSent, crashed, shared>>

\* The commit that follows ends the resize (ensure_initial_configure).
Commit(w) ==
    /\ Running /\ w \in alive \cap inSpace /\ resizeState[w] = "commit"
    /\ resizeState' = [resizeState EXCEPT ![w] = "not"]
    /\ UNCHANGED <<pointerGrab, touchGrab, place, resizingSet, client, crashed, shared>>

-----------------------------------------------------------------------------
(* Around the grabs.                                                       *)

Turn == Running /\ turns < MaxTurns /\ turns' = turns + 1
SwitchTo(w) ==
    /\ Turn /\ w \in alive
    /\ shown' = SymDiff(shown, {w})
    /\ UNCHANGED <<pointerGrab, touchGrab, inSpace, alive, covering, grabsLocked, resizeState,
                   resizingSet, client, crashed, shared>>
GoFullscreen(w) ==
    /\ Turn /\ w \in alive
    /\ covering' = SymDiff(covering, {w})
    /\ UNCHANGED <<pointerGrab, touchGrab, inSpace, alive, shown, grabsLocked, resizeState,
                   resizingSet, client, crashed, shared>>
CloseWindow(w) ==
    /\ Turn /\ w \in alive
    /\ alive' = alive \ {w}
    /\ UNCHANGED <<pointerGrab, touchGrab, inSpace, shown, covering, grabsLocked, resizeState,
                   resizingSet, client, crashed, shared>>
GrabsLock ==
    /\ Turn /\ ~grabsLocked
    /\ grabsLocked' = TRUE
    /\ pointerGrab' = NoGrab /\ touchGrab' = NoGrab
    /\ UNCHANGED <<inSpace, alive, shown, covering, resizeState, resizingSet, client, crashed, shared>>
GrabsUnlock ==
    /\ Running /\ grabsLocked
    /\ grabsLocked' = FALSE
    /\ UNCHANGED <<pointerGrab, touchGrab, inSpace, alive, shown, covering, turns, resizeState,
                   resizingSet, client, crashed, shared>>

\* The end of a turn: the Space drops dead windows and hidden ones.
EndTurn ==
    /\ Running /\ inSpace # alive \cap shown
    /\ inSpace' = alive \cap shown
    /\ UNCHANGED <<pointerGrab, touchGrab, alive, shown, covering, grabsLocked, turns, resizeState,
                   resizingSet, client, crashed, shared>>

GrabsNext ==
    \/ \E w \in Held : \/ \E dev \in {"pointer", "touch"} : Down(dev, w)
                       \/ BeginMouseAction(w) \/ PolicyConfigure(w) \/ Ack(w) \/ Commit(w)
                       \/ SwitchTo(w) \/ GoFullscreen(w) \/ CloseWindow(w)
    \/ \E dev \in {"pointer", "touch"} :
            \/ MoveRequest(dev) \/ Drag(dev) \/ Up(dev)
            \/ \E corner \in BOOLEAN : ResizeRequest(dev, corner)
    \/ TouchCancel
    \/ GrabsLock \/ GrabsUnlock \/ EndTurn

GrabsSpec == GrabsInit /\ [][GrabsNext]_grabsVars

-----------------------------------------------------------------------------
(* Properties.                                                             *)

\* A release never meets an "invalid resize state" (grabs.rs:666), unless the
\* pointer and a touch point have resized the same window at the same time:
\* acknowledgements and commits of an earlier resize that come late do not
\* disturb a new one.  A resize is over only when its client has acknowledged
\* a configure that its own release sent, or a later one, and no longer takes
\* itself to be resized (ack_configure).
GrabIsResizing ==
    /\ \A dev \in {"pointer", "touch"} :
        LET g == GrabOf(dev) IN
        g.kind = "resize" /\ g.win \in alive \ shared => resizeState[g.win] = "resizing"
    /\ \A w \in alive \ shared :
        /\ resizeState[w] = "finalAck" =>
                \A i, j \in DOMAIN wire[w] : i < j /\ wire[w][i].late => wire[w][j].late
        /\ resizeState[w] = "commit" => w \notin ackedResizing

\* The inductive invariant behind it: two devices on one window are known, and
\* once the button is up nothing that is sent tells the client to resize.
GrabsInv ==
    /\ GrabsTypeOK /\ GrabIsResizing
    /\ pointerGrab.kind = "resize" /\ touchGrab.kind = "resize" /\ pointerGrab.win = touchGrab.win
            => pointerGrab.win \in shared
    /\ \A w \in alive \ shared :
        /\ resizeState[w] \in {"finalAck", "commit"} => w \notin resizingSet
        /\ resizeState[w] = "finalAck" =>
                \A i \in DOMAIN wire[w] : wire[w][i].late => ~wire[w][i].resizing
        /\ resizeState[w] = "commit" => \A i \in DOMAIN wire[w] : ~wire[w][i].resizing
=============================================================================
