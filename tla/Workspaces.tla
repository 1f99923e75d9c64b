----------------------------- MODULE Workspaces -----------------------------
(***************************************************************************)
(* Window management policy of policy.rs: which output shows which         *)
(* workspace, where every managed window is, which windows are mapped in   *)
(* the space, and which one has the keyboard focus.                        *)
(*                                                                         *)
(* Handlers (key bindings, IPC commands, client requests, hotplug) change  *)
(* this state in any order within a turn of the event loop;                *)
(* maintain_desktop, at the end of every turn, repairs it.  The session is *)
(* unlocked; layout, decoration and animation are left out.                *)
(***************************************************************************)
EXTENDS Naturals, SequencesExt, Retain

CONSTANTS
    Outputs,        \* connectors, by name
    NoOutput,       \* the empty output name
    WindowIds,      \* toplevels, in the order of their ids
    Layer,          \* keyboard focus on a layer surface or popup
    NoFocus,        \* no keyboard focus, or one that is dead
    NumSpaces,      \* layout.workspaces
    AllSpaces,      \* the workspaces a new output may get (9)
    RuleWs,         \* the workspace a rule gives each window, or 0
    RuleOut         \* the output a rule gives each window, or NoOutput

ASSUME WorkspaceAssumption ==
    /\ NoOutput \notin Outputs
    /\ WindowIds \subseteq Nat
    /\ {Layer, NoFocus} \cap WindowIds = {} /\ Layer # NoFocus
    /\ AllSpaces \in Nat /\ NumSpaces \in 1 .. AllSpaces
    /\ RuleWs \in [WindowIds -> 0 .. NumSpaces]
    /\ RuleOut \in [WindowIds -> Outputs \cup {NoOutput}]

VARIABLES
    mapped,         \* the outputs of the space, in its order
    shows,          \* desktop.outputs: the workspace each output shows
    windows,        \* desktop.windows, in order
    alive,          \* toplevels whose client object lives
    placed,         \* windows that are elements of the space
    focus,          \* keyboard focus
    settled,        \* maintain_desktop was the last step
    panicked        \* "no", or the assertion of the code that failed

wsVars == <<mapped, shows, windows, alive, placed, focus, settled, panicked>>

Mapped == Range(mapped)
Ids(wins) == {wins[i].id : i \in DOMAIN wins}
IndexOf(wins, id) ==
    CHOOSE i \in DOMAIN wins : wins[i].id = id /\ \A j \in 1 .. i - 1 : wins[j].id # id
OutNames == Outputs \cup {NoOutput}
Managed == [id : WindowIds, ws : 1 .. AllSpaces, out : OutNames, scratch : BOOLEAN]

WsTypeOK ==
    /\ mapped \in Seq(Outputs) /\ IsInjective(mapped)
    /\ DOMAIN shows \subseteq OutNames /\ shows \in [DOMAIN shows -> 1 .. AllSpaces]
    /\ windows \in Seq(Managed)
    /\ alive \subseteq WindowIds /\ placed \subseteq WindowIds
    /\ focus \in WindowIds \cup {Layer, NoFocus}
    /\ settled \in BOOLEAN
    /\ panicked \in {"no", "index", "unwrap"}

WsInit ==
    /\ mapped = <<>> /\ shows = <<>> /\ windows = <<>>
    /\ alive = {} /\ placed = {} /\ focus = NoFocus
    /\ settled = TRUE /\ panicked = "no"

-----------------------------------------------------------------------------
(* maintain_desktop, part by part.                                         *)

\* Output out shows workspace n.
Showing(sh, out, n) == [o \in DOMAIN sh \cup {out} |-> IF o = out THEN n ELSE sh[o]]

\* A new output shows the first workspace that no output shows.
FirstFree(sh) ==
    LET free == (1 .. AllSpaces) \ Range(sh) IN IF free = {} THEN 1 ELSE Min(free)
Given(sh, out) == IF out \in DOMAIN sh THEN sh ELSE Showing(sh, out, FirstFree(sh))

Assigned(sh) ==
    LET seen[n \in 0 .. Len(mapped)] ==
            IF n = 0 THEN Restrict(sh, DOMAIN sh \cap Mapped) ELSE Given(seen[n - 1], mapped[n])
    IN  seen[Len(mapped)]

\* The focused window's output, else the one under the pointer.
ActiveOutput(wins, pointer) ==
    IF focus \in Ids(wins) THEN wins[IndexOf(wins, focus)].out ELSE pointer

Pointers == IF mapped = <<>> THEN {NoOutput} ELSE Mapped

\* Dead windows go, windows of an output that is gone move to the first one.
Kept ==
    LET live == Retain(windows, {w \in Managed : w.id \in alive})
        first == IF mapped = <<>> THEN NoOutput ELSE mapped[1]
    IN  [i \in DOMAIN live |->
            IF live[i].out \in Mapped THEN live[i] ELSE [live[i] EXCEPT !.out = first]]

\* A new window appears on the active output unless a rule places it.
NewWindow(id, sh, act) ==
    LET out == IF RuleOut[id] \in Mapped THEN RuleOut[id] ELSE act
        cur == IF out \in DOMAIN sh THEN sh[out] ELSE 1
    IN  [id |-> id, ws |-> IF RuleWs[id] # 0 THEN RuleWs[id] ELSE cur, out |-> out,
         scratch |-> FALSE]

Visible(w, sh) == ~w.scratch /\ w.out \in DOMAIN sh /\ sh[w.out] = w.ws

\* Focus is kept on a placed window or a layer surface; else the last placed
\* window gets it.
Refocus(wins, pl) ==
    IF focus = Layer \/ (focus \in Ids(wins) /\ focus \in pl) THEN focus
    ELSE LET on == {i \in DOMAIN wins : wins[i].id \in pl}
         IN  IF on = {} THEN NoFocus ELSE wins[Max(on)].id

\* Windows by id, the smallest first.
ById(ids) ==
    [i \in 1 .. Cardinality(ids) |->
        CHOOSE id \in ids : Cardinality({other \in ids : other < id}) = i - 1]

\* The state maintain_desktop leaves when desktop.outputs is sh.
MutMaintainedDrops(sh, pointer) ==
    LET s == Assigned(sh)
        pl == {Kept[i].id : i \in {j \in DOMAIN Kept : Visible(Kept[j], s)}}
    IN  [shows |-> s, windows |-> Kept, placed |-> pl, focus |-> Refocus(Kept, pl)]
Maintained(sh, pointer) ==
    LET s == Assigned(sh)
        kept == Kept
        fresh == ById((placed \cap alive) \ Ids(windows))
        act == ActiveOutput(kept, pointer)
        all == kept \o [i \in DOMAIN fresh |-> NewWindow(fresh[i], s, act)]
        pl == {all[i].id : i \in {j \in DOMAIN all : Visible(all[j], s)}}
    IN  [shows |-> s, windows |-> all, placed |-> pl, focus |-> Refocus(all, pl)]

Maintain ==
    /\ panicked = "no"
    /\ \E p \in Pointers :
          LET m == Maintained(shows, p)
          IN  /\ shows' = m.shows /\ windows' = m.windows
              /\ placed' = m.placed /\ focus' = m.focus
    /\ settled' = TRUE
    /\ UNCHANGED <<mapped, alive, panicked>>

-----------------------------------------------------------------------------
(* Handlers.                                                               *)

Handler == panicked = "no" /\ settled' = FALSE

Plug(o) ==
    /\ Handler /\ o \notin Mapped
    /\ mapped' = Append(mapped, o)
    /\ UNCHANGED <<shows, windows, alive, placed, focus, panicked>>

Unplug(o) ==
    /\ Handler /\ o \in Mapped
    /\ mapped' = Retain(mapped, Outputs \ {o})
    /\ UNCHANGED <<shows, windows, alive, placed, focus, panicked>>

\* new_toplevel maps the window; maintain_desktop adopts it.
Open(id) ==
    /\ Handler /\ id \notin alive \cup placed \cup Ids(windows)
    /\ alive' = alive \cup {id} /\ placed' = placed \cup {id}
    /\ UNCHANGED <<mapped, shows, windows, focus, panicked>>

Close(id) ==
    /\ Handler /\ id \in alive
    /\ alive' = alive \ {id}
    /\ UNCHANGED <<mapped, shows, windows, placed, focus, panicked>>

\* Clicks, follow-mouse, focus DIRECTION and layer surfaces move the focus.
FocusAt(f) ==
    /\ Handler /\ f \in (placed \cap alive) \cup {Layer, NoFocus}
    /\ focus' = f
    /\ UNCHANGED <<mapped, shows, windows, alive, placed, panicked>>

\* workspace N [OUTPUT].  An output that already shows n gets this output's
\* workspace in exchange, with its windows.
MutWorkspaceSteals(n, out) ==
    /\ shows' = Showing(shows, out, n)
    /\ windows' = [i \in DOMAIN windows |->
          IF windows[i].ws = n THEN [windows[i] EXCEPT !.out = out] ELSE windows[i]]
SelectWorkspace(n, out) ==
    LET previous == IF out \in DOMAIN shows THEN shows[out] ELSE 1
        others == {o \in DOMAIN shows \ {out} : shows[o] = n}
        swap == others # {}
    IN  \E other \in IF swap THEN others ELSE {NoOutput} :
          /\ shows' = Showing(IF swap THEN Showing(shows, other, previous) ELSE shows, out, n)
          /\ windows' = [i \in DOMAIN windows |->
                IF windows[i].ws = n THEN [windows[i] EXCEPT !.out = out]
                ELSE IF swap /\ windows[i].ws = previous
                       THEN [windows[i] EXCEPT !.out = other]
                ELSE windows[i]]

Workspace(n, out) ==
    /\ Handler
    /\ SelectWorkspace(n, out)
    /\ UNCHANGED <<mapped, alive, placed, focus, panicked>>

WorkspaceCmd ==
    \E n \in 1 .. NumSpaces, out \in {ActiveOutput(windows, p) : p \in Pointers} \cup DOMAIN shows :
        Workspace(n, out)

\* send N: the focused window goes where n is shown, or stays on this output.
Send(n) ==
    /\ Handler /\ focus \in Ids(windows)
    /\ LET i == IndexOf(windows, focus)
           owners == {o \in DOMAIN shows : shows[o] = n}
       IN  \E owner \in IF owners # {} THEN owners ELSE {windows[i].out} :
             windows' = [windows EXCEPT ![i] = [@ EXCEPT !.ws = n, !.out = owner]]
    /\ UNCHANGED <<mapped, shows, alive, placed, focus, panicked>>

ScratchSend ==
    /\ Handler /\ focus \in Ids(windows)
    /\ windows' = [windows EXCEPT ![IndexOf(windows, focus)] = [@ EXCEPT !.scratch = TRUE]]
    /\ UNCHANGED <<mapped, shows, alive, placed, focus, panicked>>

ScratchShow ==
    /\ Handler
    /\ \E i \in DOMAIN windows, out \in {ActiveOutput(windows, p) : p \in Pointers} :
          /\ windows[i].scratch /\ \A j \in 1 .. i - 1 : ~windows[j].scratch
          /\ LET n == IF out \in DOMAIN shows THEN shows[out] ELSE 1
             IN  windows' = [windows EXCEPT ![i] =
                               [@ EXCEPT !.scratch = FALSE, !.ws = n, !.out = out]]
    /\ UNCHANGED <<mapped, shows, alive, placed, focus, panicked>>

\* focus ID: the window's output shows its workspace, the desktop is
\* maintained, and the window at the index found before gets the focus.
FocusId(id) ==
    /\ panicked = "no" /\ id \in Ids(windows)
    /\ \E p \in Pointers :
          LET i == IndexOf(windows, id)
              m == Maintained(Showing(shows, windows[i].out, windows[i].ws), p)
          IN  /\ shows' = m.shows /\ windows' = m.windows /\ placed' = m.placed
              /\ IF i <= Len(m.windows)
                   THEN focus' = m.windows[i].id /\ UNCHANGED panicked
                   ELSE focus' = m.focus /\ panicked' = "index"
    /\ settled' = FALSE
    /\ UNCHANGED <<mapped, alive>>

\* move DIRECTION: the focused window swaps places with a placed one.
Move(j) ==
    /\ Handler /\ focus \in Ids(windows)
    /\ j \in DOMAIN windows /\ windows[j].id \in placed \ {focus}
    /\ LET i == IndexOf(windows, focus)
       IN  windows' = [windows EXCEPT ![i] = windows[j], ![j] = windows[i]]
    /\ UNCHANGED <<mapped, shows, alive, placed, focus, panicked>>

\* xdg_toplevel.set_fullscreen naming an output that clients have been told of:
\* the window is looked up in the space, where a hidden window is not.
FullscreenRequest(id) ==
    /\ Handler /\ id \in alive /\ DOMAIN shows \cap Mapped # {}
    /\ panicked' = IF id \in placed THEN "no" ELSE "unwrap"
    /\ UNCHANGED <<mapped, shows, windows, alive, placed, focus>>

WsNext ==
    \/ Maintain \/ WorkspaceCmd \/ ScratchSend \/ ScratchShow
    \/ \E o \in Outputs : Plug(o) \/ Unplug(o)
    \/ \E id \in WindowIds : Open(id) \/ Close(id) \/ FocusId(id) \/ FullscreenRequest(id)
    \/ \E f \in WindowIds \cup {Layer, NoFocus} : FocusAt(f)
    \/ \E n \in 1 .. NumSpaces : Send(n)
    \/ \E j \in DOMAIN windows : Move(j)

WsSpec == WsInit /\ [][WsNext]_wsVars

-----------------------------------------------------------------------------
(* Correctness.                                                            *)

\* maintain_desktop reaches a fixed point: run again with nothing in between,
\* as an IPC command and the main loop do, it changes nothing.
MaintainStable ==
    settled => \A p \in Pointers :
        Maintained(shows, p)
            = [shows |-> shows, windows |-> windows, placed |-> placed, focus |-> focus]

\* No window is lost: after maintenance every live toplevel is managed, once,
\* and none that is dead.
NoWindowLost ==
    settled => /\ Ids(windows) = alive
               /\ \A i, j \in DOMAIN windows : windows[i].id = windows[j].id => i = j

\* Scratchpad windows stay hidden, and the keyboard reaches only what is shown.
FocusShown ==
    settled => /\ focus \in placed \cup {Layer, NoFocus}
               /\ focus = NoFocus => placed = {}
               /\ \A i \in DOMAIN windows : windows[i].scratch => windows[i].id \notin placed

Distinct == \A o, q \in DOMAIN shows \cap Mapped : shows[o] = shows[q] => o = q

\* maintain_desktop has run since outputs came or went.
OutputsSeen ==
    DOMAIN shows = Mapped /\ \A i \in DOMAIN windows : windows[i].out \in Mapped

\* Why no window is lost: one that lives is managed or still to be adopted, and
\* what maintain_desktop leaves gives it nothing to do.
Adopted ==
    /\ alive \subseteq Ids(windows) \cup placed
    /\ \A i, j \in DOMAIN windows : windows[i].id = windows[j].id => i = j
    /\ IsFiniteSet(placed)
AtRest ==
    settled => /\ DOMAIN shows = Mapped
               /\ \A i \in DOMAIN windows :
                      windows[i].out \in Mapped \/ (mapped = <<>> /\ windows[i].out = NoOutput)
               /\ placed = {windows[i].id : i \in {j \in DOMAIN windows : Visible(windows[j], shows)}}
WsInv ==
    WsTypeOK /\ Adopted /\ AtRest /\ NoWindowLost /\ FocusShown /\ MaintainStable

\* Two outputs come to show the same workspace through focus ID only: a new
\* output gets a free one, and selecting a workspace that another output shows
\* exchanges the two (once maintain_desktop has seen the outputs).
WorkspacesExchanged ==
    [][Distinct /\ (settled' \/ OutputsSeen) /\ ~Distinct'
         => \E id \in WindowIds : FocusId(id)]_wsVars

\* The assertion in fullscreen_request that the window is in the space.
FullscreenFindsWindow == panicked # "unwrap"
=============================================================================
