---------------------------- MODULE RecorderPanel ----------------------------
(***************************************************************************)
(* The recorder panel of the SCTK shell (shell-sctk/src/main.rs): choosing *)
(* a source, and editing the recorder's settings.  The two halves share    *)
(* the panel and no state.                                                 *)
(*                                                                         *)
(* A source is a capture method and, for each method, a cursor into a      *)
(* list.  Windows come with the compositor's snapshots, and close behind   *)
(* the panel's back; the list of processes is read again whenever it is    *)
(* needed.  A cursor is an index, so what it points at changes with the    *)
(* list.                                                                   *)
(*                                                                         *)
(* An adjustment of a setting is computed from the last snapshot and       *)
(* checked against the compositor's rules there; its commands are sent,    *)
(* one by one, by a thread of their own, so that two adjustments overlap   *)
(* and neither sees what the other did.  A text row is edited in a buffer  *)
(* that belongs to whichever row is selected when it is committed.         *)
(*                                                                         *)
(* Launch profiles, which only change with the settings, are left out; so  *)
(* is the layout of the panel.  Of the settings the encoder and HDR, which *)
(* depend on each other, and the two texts are kept; a text is the row     *)
(* whose edit it came from.                                                *)
(***************************************************************************)
EXTENDS Naturals, FiniteSetsExt, SequencesExt

CONSTANTS
    MaxWindow,          \* windows are 1..MaxWindow, in the order of the list
    X11,                \* those of Xwayland
    MaxProcess,         \* processes with OpenGL are 1..MaxProcess
    MaxBatches          \* bound: threads that send settings

AllWindows == 1..MaxWindow
PanelAssumption ==
    MaxWindow \in Nat /\ MaxProcess \in Nat /\ MaxBatches \in Nat /\ X11 \subseteq AllWindows

Methods == <<"screen", "xwayland", "inject">>
None == 0               \* no window, no process

VARIABLES
    open,               \* the compositor's windows
    recording,          \* its recorder is neither idle nor failed
    memory,             \* the window its settings remember, if any
    seenOpen, seenRecording, seenMemory,    \* the panel's snapshot of them
    processes,          \* what a scan of /proc finds
    method,             \* recorder_capture_mode
    chosen,             \* recorder_selected: 0 is the portal's picker
    chosenX,            \* recorder_xwayland_selected, from 0
    chosenP,            \* recorder_attach_selected, from 0
    restored,           \* recorder_selection_restored
    running,            \* the panel is open
    held,               \* the compositor's settings
    shown,              \* recorder_settings of the panel's snapshot
    batches,            \* what each thread has left to send
    feedback,           \* recorder_feedback
    at,                 \* recorder_settings_row
    editing,            \* recorder_path_edit: the row it was begun on, or "none"
    clicked,            \* history: another row was clicked during the edit
    overlap             \* history: commands were computed with others on their way

world == <<open, recording, memory, processes>>
seen == <<seenOpen, seenRecording, seenMemory>>
cursors == <<method, chosen, chosenX, chosenP>>
panelVars == <<world, seen, cursors, restored, running>>
settingsVars == <<held, shown, batches, feedback, at, editing, clicked, overlap>>

-----------------------------------------------------------------------------
PositionIn(set, w) == Cardinality({v \in set : v < w})
\* The i-th of a list counted from 0, or None.
Nth(set, i) == LET there == {w \in set : PositionIn(set, w) = i} IN
               IF there = {} THEN None ELSE CHOOSE w \in there : TRUE
ToRange(i, set) == Min({i, IF set = {} THEN 0 ELSE Cardinality(set) - 1})

PanelTypeOK ==
    /\ open \subseteq AllWindows /\ seenOpen \subseteq AllWindows
    /\ recording \in BOOLEAN /\ seenRecording \in BOOLEAN
    /\ memory \in 0..MaxWindow /\ seenMemory \in 0..MaxWindow
    /\ processes \subseteq 1..MaxProcess
    /\ method \in ToSet(Methods)
    /\ chosen \in 0..MaxWindow /\ chosenX \in 0..MaxWindow /\ chosenP \in 0..MaxProcess
    /\ restored \in BOOLEAN /\ running \in BOOLEAN

PanelInit ==
    /\ open \in SUBSET AllWindows /\ recording \in BOOLEAN /\ memory \in 0..MaxWindow
    /\ processes = {}
    /\ seenOpen = {} /\ seenRecording = FALSE /\ seenMemory = None
    /\ method = "screen" /\ chosen = 0 /\ chosenX = 0 /\ chosenP = 0
    /\ restored = FALSE /\ running = TRUE

\* Windows and processes come and go; a recording starts and ends elsewhere.
WorldChanges ==
    /\ \/ \E w \in AllWindows : open' = SymDiff(open, {w}) /\ UNCHANGED <<recording, processes>>
       \/ \E p \in 1..MaxProcess : processes' = SymDiff(processes, {p})
                                   /\ UNCHANGED <<open, recording>>
       \/ recording' = ~recording /\ UNCHANGED <<open, processes>>
    /\ UNCHANGED <<memory, seen, cursors, restored, running>>

-----------------------------------------------------------------------------
(* What is selected, and what a start would do.                            *)

SelectedX == Nth(seenOpen \cap X11, chosenX)
SelectedProcess == Nth(processes, chosenP)

\* remembered_screen_command: an open window that matches the remembered
\* identity is preferred to the cursor's.
ScreenCommand ==
    IF seenMemory \in seenOpen THEN <<"start", "remembered">>
    ELSE IF chosen > 0 /\ Nth(seenOpen, chosen - 1) # None
    THEN <<"start", Nth(seenOpen, chosen - 1)>>
    ELSE <<"start", "output">>

\* recorder_start_command.
StartCommand ==
    CASE seenRecording -> <<"stop">>
      [] ~seenRecording /\ method = "screen" -> ScreenCommand
      [] ~seenRecording /\ method = "xwayland" ->
            IF SelectedX = None THEN <<>> ELSE <<"xwayland-start", SelectedX>>
      [] ~seenRecording /\ method = "inject" ->
            IF SelectedProcess = None THEN <<>> ELSE <<"game-attach", SelectedProcess>>

\* recorder_start_blocker: what the panel says instead of "start".
\* The slip asks whether there is a window at all, not whether one is selected.
MutBlocked ==
    /\ ~seenRecording
    /\ \/ method = "xwayland" /\ seenOpen \cap X11 = {}
       \/ method = "inject" /\ SelectedProcess = None
Blocked ==
    /\ ~seenRecording
    /\ \/ method = "xwayland" /\ SelectedX = None
       \/ method = "inject" /\ SelectedProcess = None

-----------------------------------------------------------------------------
(* A snapshot arrives; the first one restores the remembered selection.    *)

\* cycle_recorder_capture_mode forward and back brings every cursor into its
\* list; of a screen source only the snapshot does.
Brought == /\ chosenX' = ToRange(chosenX, seenOpen' \cap X11)
           /\ chosenP' = ToRange(chosenP, processes)

\* restore_recorder_selection, for the remembered method m: the window that
\* matches, and the head of the list when none does.
Restore(m) ==
    /\ method' = m
    /\ chosen' = IF m = "screen" /\ memory \in seenOpen'
                 THEN PositionIn(seenOpen', memory) + 1
                 ELSE Min({chosen, Cardinality(seenOpen')})
    /\ IF m = "xwayland" /\ memory \in seenOpen' \cap X11
       THEN /\ chosenX' = PositionIn(seenOpen' \cap X11, memory)
            /\ chosenP' = ToRange(chosenP, processes)
       ELSE Brought

MutSnapshotCursor == UNCHANGED chosen
SnapshotCursor == chosen' = Min({chosen, Cardinality(seenOpen')})

SnapshotArrives ==
    /\ running
    /\ seenOpen' = open /\ seenRecording' = recording /\ seenMemory' = memory
    /\ IF restored THEN SnapshotCursor /\ UNCHANGED <<method, chosenX, chosenP>>
                   ELSE \E m \in ToSet(Methods) : Restore(m)
    /\ restored' = TRUE
    /\ UNCHANGED <<world, running>>

-----------------------------------------------------------------------------
(* The user.                                                               *)

Around(i, step) == ((i - 1 + step) % Len(Methods)) + 1
CycleMethod(step) ==
    /\ running
    /\ \E i \in DOMAIN Methods : method = Methods[i] /\ method' = Methods[Around(i, step)]
    /\ UNCHANGED seenOpen
    /\ Brought
    /\ UNCHANGED <<world, seenRecording, seenMemory, chosen, restored, running>>

\* move_recorder_selection: an empty list takes the cursor to its head.
Down(i, set) == IF set = {} THEN 0 ELSE Min({i + 1, Cardinality(set) - 1})
Up(i, set) == IF set = {} \/ i = 0 THEN 0 ELSE i - 1
MoveSelection ==
    /\ running
    /\ \/ /\ method = "screen"
          /\ chosen' \in {Min({chosen + 1, Cardinality(seenOpen)}), IF chosen = 0 THEN 0 ELSE chosen - 1}
          /\ UNCHANGED <<chosenX, chosenP>>
       \/ /\ method = "xwayland"
          /\ chosenX' \in {Down(chosenX, seenOpen \cap X11), Up(chosenX, seenOpen \cap X11)}
          /\ UNCHANGED <<chosen, chosenP>>
       \/ /\ method = "inject"
          /\ chosenP' \in {Down(chosenP, processes), Up(chosenP, processes)}
          /\ UNCHANGED <<chosen, chosenX>>
    /\ UNCHANGED <<world, seen, method, restored, running>>

\* "Remember current": the window under the cursor.  The portal's picker, which
\* is no window, is taken for the first of the list.
ToRemember ==
    IF method = "screen" THEN Nth(seenOpen, IF chosen = 0 THEN 0 ELSE chosen - 1) ELSE SelectedX
RememberCurrent ==
    /\ running /\ method # "inject" /\ ToRemember # None
    /\ memory' = ToRemember
    /\ UNCHANGED <<open, recording, processes, seen, cursors, restored, running>>

\* Enter, or a click on the button: the panel sends its command and closes.
StartStop ==
    /\ running /\ ~Blocked /\ StartCommand # <<>>
    /\ running' = FALSE
    /\ recording' \in IF seenRecording THEN {FALSE} ELSE {TRUE, recording}
    /\ UNCHANGED <<open, memory, processes, seen, cursors, restored>>

PanelNext ==
    \/ WorldChanges \/ SnapshotArrives \/ MoveSelection \/ RememberCurrent \/ StartStop
    \/ \E step \in {1, Len(Methods) - 1} : CycleMethod(step)

PanelSpec == PanelInit /\ [][PanelNext]_panelVars

-----------------------------------------------------------------------------
(* The settings.                                                           *)

Codecs == {"h264", "hevc"}
TextRows == {"target", "path"}
Rows == <<"codec", "hdr", "target", "path">>
Settings == [codec : Codecs, hdr : BOOLEAN, target : TextRows, path : TextRows]
Commands == [key : {"codec"}, value : Codecs] \cup [key : {"hdr"}, value : BOOLEAN]
            \cup [key : TextRows, value : TextRows]

\* validate_recorder, of wm-core.
Allowed(s) == s.hdr => s.codec = "hevc"
With(s, c) == [s EXCEPT ![c.key] = c.value]

PanelSettingsTypeOK ==
    /\ held \in Settings /\ shown \in Settings
    /\ batches \in Seq(Seq(Commands)) /\ Len(batches) <= MaxBatches
    /\ feedback \in {"none", "saved", "failed"}
    /\ at \in DOMAIN Rows
    /\ editing \in {"none"} \cup TextRows
    /\ clicked \in BOOLEAN /\ overlap \in BOOLEAN

PanelSettingsInit ==
    /\ held \in {s \in Settings : Allowed(s) /\ s.target = "target" /\ s.path = "path"}
    /\ shown = held /\ batches = <<>> /\ feedback = "none"
    /\ at = 1 /\ editing = "none" /\ clicked = FALSE /\ overlap = FALSE

-----------------------------------------------------------------------------
(* Adjustments.                                                            *)

\* Without HEVC there is no HDR, which has to go first.
Adjustment(row) ==
    IF row = "hdr" THEN <<[key |-> "hdr", value |-> ~shown.hdr]>>
    ELSE IF shown.codec = "h264" THEN <<[key |-> "codec", value |-> "hevc"]>>
    ELSE (IF shown.hdr THEN <<[key |-> "hdr", value |-> FALSE]>> ELSE <<>>)
         \o <<[key |-> "codec", value |-> "h264"]>>

\* Of the one or two commands each is applied to a candidate, which is checked
\* as the compositor would check it.
Accepted(commands, s) ==
    /\ Allowed(With(s, commands[1]))
    /\ Len(commands) = 2 => Allowed(With(With(s, commands[1]), commands[2]))
Acceptable(commands) == Accepted(commands, shown)

\* send_recorder_commands.
SendCommands(commands) ==
    /\ Len(batches) < MaxBatches
    /\ batches' = Append(batches, commands)
    /\ overlap' = (overlap \/ batches # <<>> \/ shown # held)
    /\ feedback' = "none"

\* apply_recorder_adjustment: Left, Right, Enter or a click on the row.
Adjust ==
    /\ Rows[at] \notin TextRows
    /\ IF Acceptable(Adjustment(Rows[at]))
       THEN SendCommands(Adjustment(Rows[at]))
       ELSE feedback' = "failed" /\ UNCHANGED <<batches, overlap>>
    /\ UNCHANGED <<held, shown, at, editing, clicked>>

\* A thread sends its next command; the first that is refused is its last.
Deliver(i) ==
    LET c == Head(batches[i])
        rest == Tail(batches[i])
        ok == Allowed(With(held, c))
    IN
    /\ held' = IF ok THEN With(held, c) ELSE held
    /\ batches' = IF ok /\ rest # <<>> THEN [batches EXCEPT ![i] = rest] ELSE RemoveAt(batches, i)
    /\ feedback' = IF ~ok THEN "failed" ELSE IF rest = <<>> THEN "saved" ELSE feedback
    /\ UNCHANGED <<shown, at, editing, clicked, overlap>>

\* The subscription brings the settings back.
Refreshed ==
    /\ shown # held /\ shown' = held
    /\ overlap' = (overlap /\ batches # <<>>)
    /\ UNCHANGED <<held, batches, feedback, at, editing, clicked>>

-----------------------------------------------------------------------------
(* Rows and the text buffer.                                               *)

\* Moving with the keyboard drops the edit.
MutMoveRow(row) == at' = row /\ UNCHANGED <<editing, clicked>>
MoveRow(row) == at' = row /\ editing' = "none" /\ clicked' = FALSE
KeyRow ==
    /\ \E row \in DOMAIN Rows : row \in {at - 1, at + 1} /\ MoveRow(row)
    /\ UNCHANGED <<held, shown, batches, feedback, overlap>>

\* Enter, or a click, on a text row begins an edit of what it shows.
BeginEdit ==
    /\ Rows[at] \in TextRows /\ editing = "none"
    /\ editing' = Rows[at] /\ clicked' = FALSE
    /\ UNCHANGED <<held, shown, batches, feedback, at, overlap>>
\* A click on another row moves the cursor and keeps the buffer; on a text row
\* it begins another edit.  What else it does is Adjust.
ClickRow(row) ==
    /\ row # at /\ at' = row
    /\ editing' = IF Rows[row] \in TextRows THEN Rows[row] ELSE editing
    /\ clicked' = (Rows[row] \notin TextRows /\ editing # "none")
    /\ UNCHANGED <<held, shown, batches, feedback, overlap>>
\* Escape, and the tabs.
CancelEdit ==
    /\ editing # "none" /\ editing' = "none" /\ clicked' = FALSE
    /\ UNCHANGED <<held, shown, batches, feedback, at, overlap>>

\* commit_recorder_text_edit: what is not the target's row is the path's.
Commit ==
    /\ editing # "none"
    /\ SendCommands(<<[key |-> IF Rows[at] = "target" THEN "target" ELSE "path",
                       value |-> editing]>>)
    /\ editing' = "none"
    /\ UNCHANGED <<held, shown, at, clicked>>

PanelSettingsNext ==
    \/ Adjust \/ Refreshed \/ KeyRow \/ BeginEdit \/ CancelEdit \/ Commit
    \/ \E row \in DOMAIN Rows : ClickRow(row)
    \/ \E i \in DOMAIN batches : Deliver(i)

PanelSettingsSpec == PanelSettingsInit /\ [][PanelSettingsNext]_settingsVars

-----------------------------------------------------------------------------
(* Properties.                                                             *)

\* What the panel says and what it can do never disagree, whatever closed
\* since the cursors were set, and a chosen screen source is a source.
ReadyMeansStartable ==
    /\ Blocked <=> StartCommand = <<>>
    /\ chosen <= Cardinality(seenOpen)

\* The panel never sends what it could know will be rejected: a command fails
\* at the compositor only if it was computed while others were on their way.
RejectedOnlyInOverlap ==
    \A i \in DOMAIN batches :
        ~overlap => Allowed(With(held, Head(batches[i])))

\* With the keyboard alone a text ends up in the setting it was typed for.
EditKeepsItsRow == editing # "none" /\ ~clicked => editing = Rows[at]

SettingsEdited == RejectedOnlyInOverlap /\ EditKeepsItsRow

PanelInv == PanelTypeOK /\ ReadyMeansStartable

\* Without overlap one thread sends, and what it sends was accepted for the
\* settings the compositor holds.
OneAccepted ==
    /\ Allowed(held)
    /\ \A i \in DOMAIN batches :
        /\ Len(batches[i]) \in 1..2
        /\ ~overlap => i = 1 /\ Accepted(batches[i], held)

PanelSettingsInv == PanelSettingsTypeOK /\ OneAccepted /\ SettingsEdited
=============================================================================
