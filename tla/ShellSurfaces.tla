---------------------------- MODULE ShellSurfaces ----------------------------
(***************************************************************************)
(* The surfaces of the native shell's bar process (shell-sctk/src/main.rs) *)
(* and the drawing of their contents: a bar on every output, and on any of *)
(* them a panel of controls, whose power page asks before it acts.  A      *)
(* surface with a frame callback under way is not drawn again before the   *)
(* callback comes; the request is noted.                                   *)
(*                                                                         *)
(* What is drawn is abstracted to what it lags behind in: "labels" stands  *)
(* for everything redrawn when it changes, "recorder" for the recording    *)
(* label of the bar, "panel" for the page of the controls.  Sizes, the     *)
(* notification cards and the tray menu are left out, and so is a drawing  *)
(* that fails for want of memory.                                          *)
(***************************************************************************)
EXTENDS Naturals, FiniteSets

CONSTANTS Outputs

VARIABLES
    outputs,            \* those the shell was told of
    bars, panels,       \* surfaces by output: a record, or Gone
    page,               \* control_panel: "none", "power" or another page
    armed,              \* pending_power_action is set
    latest,             \* history: the output the controls were last shown on
    exit

surfaceVars == <<outputs, bars, panels, page, armed, latest, exit>>

Gone == [there |-> FALSE, configured |-> FALSE, pending |-> FALSE, requested |-> FALSE, lags |-> {}]
\* add_kind_surface: drawn when the compositor configures it.
New == [Gone EXCEPT !.there = TRUE]
\* bar_right_modules: what the hit tests of the bar measure, as it is now.
Measured == {"labels", "recorder"}
Surface == [there : BOOLEAN, configured : BOOLEAN, pending : BOOLEAN, requested : BOOLEAN,
            lags : SUBSET (Measured \cup {"panel"})]

Pages == {"none", "audio", "power"}

SurfacesTypeOK ==
    /\ outputs \subseteq Outputs /\ latest \in Outputs
    /\ bars \in [Outputs -> Surface] /\ panels \in [Outputs -> Surface]
    /\ page \in Pages /\ {armed, exit} \subseteq BOOLEAN

SurfacesInit ==
    /\ outputs = {} /\ latest \in Outputs
    /\ bars = [o \in Outputs |-> Gone] /\ panels = [o \in Outputs |-> Gone]
    /\ page = "none" /\ armed = FALSE /\ exit = FALSE

-----------------------------------------------------------------------------
(* Drawing.  Operators named Mut... are slips of the definition below them *)
(* that the properties must catch; no specification uses them.             *)

Lag(s, what) == IF s.configured THEN [s EXCEPT !.lags = @ \cup {what}] ELSE s

\* draw: the whole surface as it is now, with a callback for the next time.
Drawn(s) ==
    IF s.pending THEN [s EXCEPT !.requested = TRUE]
    ELSE [s EXCEPT !.pending = TRUE, !.requested = FALSE, !.lags = {}]
Redrawn(s) == IF s.configured THEN Drawn(s) ELSE s
RedrawAll(f) == [o \in Outputs |-> Redrawn(f[o])]

MutCalledBack(s) == [s EXCEPT !.pending = FALSE, !.requested = FALSE]
CalledBack(s) ==
    LET idle == [s EXCEPT !.pending = FALSE, !.requested = FALSE] IN
    IF s.requested THEN Drawn(idle) ELSE idle
Configured(s) == Drawn([s EXCEPT !.configured = TRUE])

Configure(o) ==
    /\ ~exit
    /\ \/ bars[o].there /\ bars' = [bars EXCEPT ![o] = Configured(@)] /\ UNCHANGED panels
       \/ panels[o].there /\ panels' = [panels EXCEPT ![o] = Configured(@)] /\ UNCHANGED bars
    /\ UNCHANGED <<outputs, page, armed, latest, exit>>
Frame(o) ==
    /\ ~exit
    /\ \/ bars[o].pending /\ bars' = [bars EXCEPT ![o] = CalledBack(@)] /\ UNCHANGED panels
       \/ panels[o].pending /\ panels' = [panels EXCEPT ![o] = CalledBack(@)] /\ UNCHANGED bars
    /\ UNCHANGED <<outputs, page, armed, latest, exit>>

-----------------------------------------------------------------------------
(* Outputs.                                                                *)

NewOutput(o) ==
    /\ ~exit /\ o \notin outputs
    /\ outputs' = outputs \cup {o} /\ bars' = [bars EXCEPT ![o] = New]
    /\ UNCHANGED <<panels, page, armed, latest, exit>>
OutputDestroyed(o) ==
    /\ ~exit /\ o \in outputs
    /\ outputs' = outputs \ {o}
    /\ bars' = [bars EXCEPT ![o] = Gone] /\ panels' = [panels EXCEPT ![o] = Gone]
    /\ UNCHANGED <<page, armed, latest, exit>>
\* The compositor closes a surface; the process ends with the last one.
Closed(o) ==
    /\ ~exit
    /\ \/ bars[o].there /\ bars' = [bars EXCEPT ![o] = Gone] /\ UNCHANGED panels
       \/ panels[o].there /\ panels' = [panels EXCEPT ![o] = Gone] /\ UNCHANGED bars
    /\ exit' = (\A p \in Outputs : ~bars'[p].there /\ ~panels'[p].there)
    /\ UNCHANGED <<outputs, page, armed, latest>>

-----------------------------------------------------------------------------
(* Contents.                                                               *)

AllLag(f, what) == [o \in Outputs |-> Lag(f[o], what)]

\* A label of the bar: every source of one calls redraw_all.
MutLabels == bars' = AllLag(bars, "labels")
Labels == bars' = RedrawAll(AllLag(bars, "labels"))
LabelChanges ==
    /\ ~exit /\ Labels
    /\ panels' = RedrawAll(panels)
    /\ UNCHANGED <<outputs, page, armed, latest, exit>>
\* A snapshot that differs in the recorder only: bar_snapshot_changed compares
\* the focused window and the outputs.
RecorderChanges ==
    /\ ~exit /\ bars' = AllLag(bars, "recorder")
    /\ UNCHANGED <<outputs, panels, page, armed, latest, exit>>

ShowControls(o, p) ==
    /\ ~exit /\ bars[o].configured
    /\ page' = p /\ armed' = FALSE /\ latest' = o
    /\ panels' = [AllLag(panels, "panel") EXCEPT
                    ![o] = IF @.there THEN Redrawn(@) ELSE New]
    /\ UNCHANGED <<outputs, bars, exit>>
MutHidden == UNCHANGED armed
Hidden == armed' = FALSE
HideControls(o) ==
    /\ ~exit /\ panels[o].configured
    /\ page' = "none" /\ Hidden
    /\ panels' = RedrawAll(AllLag(panels, "panel"))
    /\ UNCHANGED <<outputs, bars, latest, exit>>

\* A press on the power page.  The rows of the question and those of the page
\* overlap: one place may mean two things, before and after the first press.
Rows == {"arms", "arms or confirms", "arms or cancels", "confirms", "cancels"}
Arms(row) == row \in {"arms", "arms or confirms", "arms or cancels"}
Confirms(row) == row \in {"confirms", "arms or confirms"}
Cancels(row) == row \in {"cancels", "arms or cancels"}
PressPower(o, row) ==
    /\ ~exit /\ panels[o].configured /\ page = "power"
    /\ ~(armed /\ Confirms(row))
    /\ armed' = IF armed THEN ~Cancels(row) ELSE Arms(row)
    /\ bars' = RedrawAll(bars)
    /\ panels' = RedrawAll(IF armed' = armed THEN panels ELSE AllLag(panels, "panel"))
    /\ UNCHANGED <<outputs, page, latest, exit>>
\* The page closes, and the session, the machine or nothing at all follows.
PowerOff(o, row) ==
    /\ armed /\ Confirms(row) /\ page = "power"
    /\ HideControls(o)

\* click_bar, by what the hit test finds: a page of controls, or a switch of the
\* notifications, which relabels the bar; the rest is commands to other programs.
PressBar(o) ==
    \/ \E p \in Pages \ {"none"} : ShowControls(o, p)
    \/ bars[o].configured /\ LabelChanges

SurfacesNext ==
    \E o \in Outputs :
        \/ Configure(o) \/ Frame(o) \/ NewOutput(o) \/ OutputDestroyed(o) \/ Closed(o)
        \/ LabelChanges \/ RecorderChanges \/ HideControls(o)
        \/ PressBar(o)
        \/ \E row \in Rows : PressPower(o, row) \/ PowerOff(o, row)

SurfacesSpec == SurfacesInit /\ [][SurfacesNext]_surfaceVars

-----------------------------------------------------------------------------
(* Properties.                                                             *)

\* Due: what it shows will be replaced, without another event having to come.
Due(s) == s.configured => s.lags = {} \/ (s.pending /\ s.requested)

\* No redraw is lost between the callback and the flag: a surface that shows
\* something old has a callback to come that replaces it.  The two exceptions
\* are the recording label, and controls open on another output than the last.
NoLostRedraw ==
    \A o \in Outputs :
        /\ bars[o].lags \subseteq {"recorder"} \/ Due(bars[o])
        /\ Due(panels[o]) \/ latest # o

\* A question nobody was asked is never pending: a press on a page that is
\* opened later would answer it.
ArmedOnThePage == armed => page = "power"

SurfacesInv == SurfacesTypeOK /\ NoLostRedraw /\ ArmedOnThePage
=============================================================================
