------------------------------ MODULE Pointing ------------------------------
(***************************************************************************)
(* Pointer, touch and tablet events (input_handler.rs) and the focus they  *)
(* give: the surface under the pointer, pointer constraints, the keyboard  *)
(* focus that follows a press or the pointer, and what the end of a turn   *)
(* corrects (policy.rs, maintain_desktop).                                 *)
(*                                                                         *)
(* One turn of the loop handles any number of input events and requests    *)
(* and then maintains the desktop.  There is one output, which stays; a    *)
(* surface covers a set of spots.  Popups, regions, drag and drop and X11  *)
(* windows are left out.                                                   *)
(***************************************************************************)
EXTENDS Retain, FiniteSets, SequencesExt

CONSTANTS
    Windows, Layers,
    LayerOf,            \* the layer of each layer surface
    TakesKeys,          \* layer surfaces that can receive keyboard focus
    Spots,              \* places the pointer can be at
    Covers,             \* the spots each surface covers
    Asks,               \* the pointer constraint of each window
    NoTarget, LockScreen,
    MaxShuffles         \* bound: changes of the scene by others than the user

PointingAssumption ==
    /\ LayerOf \in [Layers -> {"overlay", "top", "bottom", "background"}]
    /\ TakesKeys \subseteq Layers /\ Windows \cap Layers = {}
    /\ Covers \in [Windows \cup Layers -> SUBSET Spots]
    /\ Asks \in [Windows -> {"none", "locked", "confined"}]
    /\ {NoTarget, LockScreen} \cap (Windows \cup Layers) = {} /\ NoTarget # LockScreen
    /\ IsFiniteSet(Windows) /\ Spots # {} /\ MaxShuffles \in Nat

VARIABLES
    wanted,             \* windows of the visible workspace
    wantsFull,          \* windows whose fullscreen flag is set
    stack,              \* windows in the Space, the topmost last
    layers,             \* mapped layer surfaces
    full,               \* FullscreenSurface of the output
    locked, lockUp,     \* lock.locked; the output has a lock surface
    onVt,               \* desktop.active
    loc,                \* the pointer's place
    ptrFocus, kbFocus,
    grab,               \* of the pointer: an implicit click grab, or a move or resize
    touchFocus,         \* of the touch point that is down
    constrained,        \* windows whose constraint is active
    follow,             \* input.follow_mouse
    settled,            \* history: nothing has happened since the turn ended
    shuffles

scene == <<wanted, wantsFull, stack, layers, full>>
session == <<locked, lockUp, onVt, follow>>
pointingVars == <<scene, session, loc, ptrFocus, kbFocus, grab, touchFocus, constrained,
                  settled, shuffles>>

Targets == Windows \cup Layers \cup {NoTarget, LockScreen}

PointingTypeOK ==
    /\ wanted \subseteq Windows /\ wantsFull \subseteq Windows
    /\ stack \in Seq(Windows) /\ IsInjective(stack)
    /\ layers \subseteq Layers /\ full \in Windows \cup {NoTarget}
    /\ locked \in BOOLEAN /\ lockUp \in BOOLEAN
    /\ onVt \in BOOLEAN /\ follow \in BOOLEAN /\ settled \in BOOLEAN
    /\ loc \in Spots /\ ptrFocus \in Targets /\ kbFocus \in Targets /\ touchFocus \in Targets
    /\ grab \in {"none", "click", "action"}
    /\ constrained \subseteq Windows
    /\ shuffles \in 0 .. MaxShuffles

PointingInit ==
    /\ wanted = Windows /\ wantsFull = {} /\ stack = SetToSeq(Windows)
    /\ layers = Layers /\ full = NoTarget
    /\ locked = FALSE /\ lockUp = FALSE /\ onVt = TRUE /\ follow \in BOOLEAN
    /\ loc \in Spots /\ ptrFocus = NoTarget /\ kbFocus = NoTarget
    /\ grab = "none" /\ touchFocus = NoTarget
    /\ constrained = {}
    /\ settled = FALSE /\ shuffles = 0

-----------------------------------------------------------------------------
(* Hit tests.  Operators named Mut... are slips of the definition below    *)
(* them that the properties must catch; no specification uses them.        *)

LayerAt(names, p) == {l \in layers : LayerOf[l] \in names /\ p \in Covers[l]}
WindowAt(p) == {w \in Windows : \E i \in DOMAIN stack :
                    /\ stack[i] = w /\ p \in Covers[w]
                    /\ \A j \in i + 1 .. Len(stack) : p \notin Covers[stack[j]]}
FullAt(p) == IF full # NoTarget /\ p \in Covers[full] THEN {full} ELSE {}

\* layer_under: the overlay layer comes before the top layer, the bottom layer
\* before the background, and of the surfaces of one layer one is uppermost.
LayerUnder(over, under, p) ==
    LET hits == IF LayerAt({over}, p) # {} THEN LayerAt({over}, p) ELSE LayerAt({under}, p)
    IN  {l \in hits : l = CHOOSE t \in hits : TRUE}
Upper(p) == LayerUnder("overlay", "top", p)
Lower(p) == LayerUnder("bottom", "background", p)

\* The target of the first hit test that hits.
FirstOf(hits) ==
    LET found == {i \in DOMAIN hits : hits[i] # {}} IN
    IF found = {} THEN NoTarget
    ELSE CHOOSE t \in hits[CHOOSE i \in found : \A j \in found : i <= j] : TRUE

\* surface_under.
SurfaceUnder(p) ==
    IF locked THEN IF lockUp THEN LockScreen ELSE NoTarget
    ELSE FirstOf(<<FullAt(p), Upper(p), WindowAt(p), Lower(p)>>)

\* What update_keyboard_focus looks for; nothing found leaves the focus.
MutKeyboardTarget(p) ==
    FirstOf(<<Upper(p) \cap TakesKeys, FullAt(p), WindowAt(p), Lower(p) \cap TakesKeys>>)
KeyboardTarget(p) ==
    FirstOf(<<FullAt(p), Upper(p) \cap TakesKeys, WindowAt(p), Lower(p) \cap TakesKeys>>)

FocusAfter(p, grabbed) ==
    IF locked \/ grabbed \/ KeyboardTarget(p) = NoTarget THEN kbFocus ELSE KeyboardTarget(p)
Grabbed == grab # "none" \/ touchFocus # NoTarget

\* A press raises the window it focuses, unless that is the fullscreen one.
Raised(p, grabbed) ==
    LET t == KeyboardTarget(p) IN
    IF locked \/ grabbed \/ t \notin ToSet(stack) \/ t \in FullAt(p) THEN stack
    ELSE Append(Retain(stack, Windows \ {t}), t)

Follow(p) == kbFocus' = IF follow THEN FocusAfter(p, Grabbed) ELSE kbFocus

\* pointer.motion: a grab keeps its focus; a surface that is left loses its
\* constraint.
Enter(target, base) ==
    LET now == IF grab = "none" THEN target ELSE ptrFocus IN
    /\ ptrFocus' = now
    /\ constrained' = IF now = ptrFocus THEN base ELSE base \ {ptrFocus}

-----------------------------------------------------------------------------
(* Pointer events.                                                         *)

Held(kind) == LET t == SurfaceUnder(loc) IN
              t \in constrained /\ Asks[t] = kind

\* on_pointer_move passes on the surface the pointer comes from.
PointerMove(p) ==
    LET under == SurfaceUnder(loc)
        next == SurfaceUnder(p)
        after == constrained \cup {w \in Windows : w = next /\ Asks[w] # "none"}
    IN
    /\ p # loc
    /\ settled' = FALSE
    /\ IF Held("locked") \/ (Held("confined") /\ next # under)
       THEN UNCHANGED <<loc, ptrFocus, kbFocus, constrained>>
       ELSE loc' = p /\ Enter(under, after) /\ Follow(p)
    /\ UNCHANGED <<scene, session, grab, touchFocus, shuffles>>

\* on_pointer_move_absolute, and the motion of a tablet tool, which leaves the
\* keyboard focus.
PointerMoveAbsolute(p, tool) ==
    /\ settled' = FALSE
    /\ loc' = p
    /\ Enter(SurfaceUnder(p), constrained)
    /\ IF tool THEN UNCHANGED kbFocus ELSE Follow(p)
    /\ UNCHANGED <<scene, session, grab, touchFocus, shuffles>>

\* on_pointer_button: a press focuses and raises what it hits; with the mouse
\* modifier held it starts a move or a resize of the window.
ButtonPress(modifier) ==
    /\ settled' = FALSE
    /\ kbFocus' = FocusAfter(loc, Grabbed)
    /\ stack' = Raised(loc, Grabbed)
    /\ LET t == SurfaceUnder(loc)
           act == modifier /\ ~locked /\ grab = "none" /\ t \in ToSet(stack) \ wantsFull
       IN  /\ grab' = IF act THEN "action" ELSE IF grab = "none" THEN "click" ELSE grab
           /\ ptrFocus' = IF act THEN NoTarget ELSE ptrFocus
           /\ constrained' = IF act THEN constrained \ {ptrFocus} ELSE constrained
    /\ UNCHANGED <<wanted, wantsFull, layers, full, session, loc, touchFocus, shuffles>>

\* The last button came up; the toolkit looks for a focus again.
ButtonRelease ==
    /\ grab # "none"
    /\ settled' = FALSE
    /\ grab' = "none"
    /\ UNCHANGED <<scene, session, loc, ptrFocus, kbFocus, touchFocus, constrained, shuffles>>

\* on_tablet_tool_tip: the tip's own events go to the tool's focus.
TipDown ==
    /\ settled' = FALSE
    /\ kbFocus' = FocusAfter(loc, Grabbed)
    /\ stack' = Raised(loc, Grabbed)
    /\ UNCHANGED <<wanted, wantsFull, layers, full, session, loc, ptrFocus, grab,
                   touchFocus, constrained, shuffles>>

\* on_touch_down and on_touch_up or cancel; the point keeps the surface it hit.
TouchDown(p) ==
    /\ touchFocus = NoTarget
    /\ settled' = FALSE
    /\ kbFocus' = FocusAfter(p, Grabbed)
    /\ stack' = Raised(p, Grabbed)
    /\ touchFocus' = SurfaceUnder(p)
    /\ UNCHANGED <<wanted, wantsFull, layers, full, session, loc, ptrFocus, grab,
                   constrained, shuffles>>
TouchUp ==
    /\ touchFocus # NoTarget
    /\ settled' = FALSE
    /\ touchFocus' = NoTarget
    /\ UNCHANGED <<scene, session, loc, ptrFocus, kbFocus, grab, constrained, shuffles>>

-----------------------------------------------------------------------------
(* What others do during a turn.                                           *)

Shuffled == shuffles < MaxShuffles /\ shuffles' = shuffles + 1 /\ settled' = FALSE

\* Commands and clients; maintain_desktop carries them out.
Untouched == UNCHANGED <<stack, session, loc, ptrFocus, kbFocus, grab, touchFocus, constrained>>
SwitchWorkspace(w) ==
    /\ Shuffled
    /\ wanted' = SymDiff(wanted, {w})
    /\ UNCHANGED <<wantsFull, layers, full>> /\ Untouched
Fullscreen(w) ==
    /\ w \in ToSet(stack) \ wantsFull
    /\ Shuffled
    /\ wantsFull' = wantsFull \cup {w} /\ full' = w
    /\ UNCHANGED <<wanted, layers>> /\ Untouched
Unfullscreen(w) ==
    /\ w \in wantsFull
    /\ Shuffled
    /\ wantsFull' = wantsFull \ {w} /\ full' = NoTarget
    /\ UNCHANGED <<wanted, layers>> /\ Untouched
MapLayer(l) ==
    /\ Shuffled
    /\ layers' = SymDiff(layers, {l})
    /\ UNCHANGED <<wanted, wantsFull, full>> /\ Untouched

PointingLock ==
    /\ ~locked /\ onVt
    /\ Shuffled
    /\ locked' = TRUE /\ lockUp' = FALSE
    /\ ptrFocus' = NoTarget /\ kbFocus' = NoTarget /\ grab' = "none" /\ touchFocus' = NoTarget
    /\ constrained' = constrained \ {ptrFocus}
    /\ UNCHANGED <<scene, onVt, follow, loc>>
NewLockSurface ==
    /\ locked /\ ~lockUp
    /\ lockUp' = TRUE /\ kbFocus' = LockScreen
    /\ settled' = FALSE
    /\ UNCHANGED <<scene, locked, onVt, follow, loc, ptrFocus, grab, touchFocus, constrained, shuffles>>
PointingUnlock ==
    /\ locked
    /\ locked' = FALSE /\ lockUp' = FALSE
    /\ settled' = FALSE
    /\ UNCHANGED <<scene, onVt, follow, loc, ptrFocus, kbFocus, grab, touchFocus, constrained, shuffles>>
SwitchVt ==
    /\ Shuffled
    /\ onVt' = ~onVt
    /\ UNCHANGED <<scene, locked, lockUp, follow, loc, ptrFocus, kbFocus, grab, touchFocus, constrained>>

-----------------------------------------------------------------------------
(* The end of a turn.                                                      *)

\* The windows of the visible workspace are in the Space, new ones on top, the
\* last fullscreen one is the output's; a session that is not locked has a
\* focused window unless a layer surface has the focus; the pointer enters what
\* has come under it.  The order of newly mapped windows is left open.
MutRefocus(under) == ptrFocus
Refocus(under) == under

MaintainDesktop ==
    LET kept == Retain(stack, wanted)
        new == wanted \ ToSet(stack) IN
    /\ ~settled
    /\ settled' = TRUE
    /\ stack' = kept \o SetToSeq(new)
    /\ full' = IF wanted \cap wantsFull = {} THEN NoTarget
               ELSE CHOOSE w \in wanted \cap wantsFull : TRUE
    /\ LET lost == kbFocus \notin layers \cup ToSet(stack') /\ ~locked IN
       kbFocus' = IF ~lost THEN kbFocus
                  ELSE IF stack' = << >> THEN NoTarget ELSE stack'[Len(stack')]
    /\ UNCHANGED <<wanted, wantsFull, layers, session, loc, grab, touchFocus, shuffles>>
    /\ LET under == SurfaceUnder(loc)' IN
       IF onVt /\ ~locked /\ grab = "none" THEN Enter(Refocus(under), constrained)
       ELSE UNCHANGED <<ptrFocus, constrained>>

PointingNext ==
    \/ \E p \in Spots : \/ PointerMove(p) \/ TouchDown(p)
                        \/ \E tool \in BOOLEAN : PointerMoveAbsolute(p, tool)
    \/ \E modifier \in BOOLEAN : ButtonPress(modifier)
    \/ ButtonRelease \/ TipDown \/ TouchUp
    \/ \E w \in Windows : SwitchWorkspace(w) \/ Fullscreen(w) \/ Unfullscreen(w)
    \/ \E l \in Layers : MapLayer(l)
    \/ PointingLock \/ NewLockSurface \/ PointingUnlock \/ SwitchVt
    \/ MaintainDesktop

PointingSpec == PointingInit /\ [][PointingNext]_pointingVars

-----------------------------------------------------------------------------
(* Properties.                                                             *)

\* One click, one addressee: a press that opens a turn focuses for the keyboard
\* the surface that gets the button, unless that is a layer surface which
\* refuses the keyboard; the two hit tests are separate code, and motion leaves
\* the pointer focus behind until the turn ends (update_keyboard_focus,
\* on_pointer_move, maintain_desktop).
ClickStep ==
    (\E modifier \in BOOLEAN : ButtonPress(modifier))
        /\ settled /\ onVt /\ ~locked /\ ~Grabbed /\ grab' = "click"
        /\ ptrFocus \notin {NoTarget} \cup (Layers \ TakesKeys)
    => kbFocus' = ptrFocus

ClickAgrees == [][ClickStep]_pointingVars

\* The invariant behind it: when a turn has ended the pointer's focus is what is
\* under it.
PointingInv ==
    /\ PointingTypeOK
    /\ settled /\ onVt /\ ~locked /\ grab = "none" => ptrFocus = SurfaceUnder(loc)
=============================================================================
