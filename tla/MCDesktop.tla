----------------------------- MODULE MCDesktop ------------------------------
(***************************************************************************)
(* The parts of the compositor that answer requests and input: workspaces, *)
(* geometry, settings, screen copies, the socket's path, keys, pointer and *)
(* grabs.  They are checked side by side: a behaviour is one of the part   *)
(* chosen in its initial state and the others stay as they start.          *)
(***************************************************************************)
EXTENDS Workspaces, Screencopy, Settings, Layout, IpcSocket, TLC

CONSTANTS
    \* Keys
    Letters, Chords,
    \* Pointing
    Windows, Layers, LayerOf, TakesKeys, Spots, Covers, Asks, NoTarget, LockScreen, MaxShuffles,
    \* Grabs
    Dragged, NoWindow, MaxConfigures, MaxTurns

VARIABLES
    part,
    held, pressed, forwarded, suppressed, tapPending, tapUsed, keysLocked, exclusive, inhibited,
    ran, clean,
    wanted, wantsFull, stack, layers, full, locked, lockUp, onVt, loc, ptrFocus, kbFocus, grab,
    touchFocus, constrained, follow, idled, shuffles,
    pointerGrab, touchGrab, inSpace, living, shown, covering, resizeState, resizingSet, lastSent,
    wire, ackedResizing, grabsLocked, crashed, shared, turns

KY == INSTANCE Keys
PT == INSTANCE Pointing WITH settled <- idled
GR == INSTANCE Grabs WITH alive <- living, Held <- Dragged

ASSUME DesktopAssumption == KY!KeysAssumption /\ PT!PointingAssumption /\ GR!GrabsAssumption

keysVars == <<held, pressed, forwarded, suppressed, tapPending, tapUsed, keysLocked, exclusive,
              inhibited, ran, clean>>
pointingVars == <<wanted, wantsFull, stack, layers, full, locked, lockUp, onVt, follow, loc,
                  ptrFocus, kbFocus, grab, touchFocus, constrained, idled, shuffles>>
grabsVars == <<pointerGrab, touchGrab, inSpace, living, shown, covering, grabsLocked, turns,
               resizeState, resizingSet, lastSent, wire, ackedResizing, crashed, shared>>
desktopVars == <<part, wsVars, layoutVars, settingsVars, copyVars, socketVars, keysVars, pointingVars,
                 grabsVars>>

In(p) == part = p

\* The parts that do not run start in one of their initial states.
DesktopInit ==
    /\ part \in {"workspaces", "layout", "settings", "screencopy", "socket", "keys",
                 "pointing", "grabs"}
    /\ WsInit /\ LayoutInit /\ SettingsInit /\ CopyInit /\ SocketInit
    /\ KY!KeysInit /\ PT!PointingInit /\ GR!GrabsInit
    /\ In("layout") \/ (area.w = 2 /\ area.h = 4 /\ gap = 0)
    /\ In("settings") \/ (file = NoFile /\ config = DefaultConfig)
    /\ In("pointing") \/ (~follow /\ loc = CHOOSE s \in Spots : TRUE)

DesktopNext ==
    /\ UNCHANGED part
    /\ IF In("layout") THEN LayoutNext ELSE UNCHANGED layoutVars
    /\ IF In("settings") THEN SettingsNext ELSE UNCHANGED settingsVars
    /\ IF In("screencopy") THEN CopyNext ELSE UNCHANGED copyVars
    /\ IF In("socket") THEN SocketNext ELSE UNCHANGED socketVars
    /\ IF In("keys") THEN KY!KeysNext ELSE UNCHANGED keysVars
    /\ IF In("pointing") THEN PT!PointingNext ELSE UNCHANGED pointingVars
    /\ IF In("grabs") THEN GR!GrabsNext ELSE UNCHANGED grabsVars
    /\ IF In("workspaces") THEN WsNext ELSE UNCHANGED wsVars

DesktopSpec == DesktopInit /\ [][DesktopNext]_desktopVars

-----------------------------------------------------------------------------
(* Properties of the parts, where several belong together.                 *)

\* maintain_desktop loses no window, puts each on one output, leaves the focus
\* on a window that is shown, and has nothing left to do when it has run.
WorkspacesSound ==
    In("workspaces") => WsInv

\* floating_rect and tile keep windows inside their area and apart, and focus
\* by direction finds a window wherever there is one.
LayoutRight == In("layout") => LayoutTypeOK /\ FloatInside /\ TilesFit /\ FocusReaches

\* A setting that was accepted survives, a reload takes over the file, each
\* buffer of a screen copy comes back once, and a compositor that is about to
\* unlink the socket is alone.
ServicesSound ==
    /\ In("settings") => SettingsInv
    /\ In("screencopy") => CopyInv
    /\ In("socket") => SocketInv

\* shell/grabs.rs, xdg.rs: a window that is being resized knows it, whatever
\* acknowledgements are still under way.
GrabsSound ==
    /\ In("grabs") => GR!GrabsInv
    /\ In("keys") => KY!KeysInv
    /\ In("pointing") => PT!PointingInv

\* input_handler.rs: the launcher opens on a clean tap of Super alone.
TapOpensLauncher == [][In("keys") => KY!TapStep]_keysVars

\* input_handler.rs: one click, one addressee.
ClickAgrees == [][In("pointing") => PT!ClickStep]_pointingVars

-----------------------------------------------------------------------------
(* The instances.                                                          *)

OutputSymmetry == Permutations(Outputs)
MCRuleWs == [id \in WindowIds |-> IF id = 2 THEN 2 ELSE 0]
MCRuleOut == [id \in WindowIds |-> NoOutput]
MCFloatRects == [x : {-30, 3, 40}, y : {-30, 30}, w : {-2, 60}, h : {0, 4}]

MCChords == {[mods |-> {"Super"}, letter |-> "d"], [mods |-> {"Super", "Shift"}, letter |-> "e"]}

MCLayerOf == [bar |-> "top", wall |-> "background"]
MCCovers == [a |-> {"p", "q"}, b |-> {"q"}, bar |-> {"q"}, wall |-> {"p", "q"}]
MCAsks == [a |-> "confined", b |-> "locked"]
=============================================================================
