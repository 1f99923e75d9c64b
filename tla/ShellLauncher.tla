---------------------------- MODULE ShellLauncher ----------------------------
(***************************************************************************)
(* The launcher of the native shell (shell-sctk/src/main.rs): a query, the *)
(* results it finds, the selected one, and what choosing it starts.  The   *)
(* process ends after a choice; the request to the compositor is sent by a *)
(* thread of its own.                                                      *)
(* Spaces in a query are left out, and so is everything about drawing but  *)
(* how many rows there is room for.                                        *)
(***************************************************************************)
EXTENDS Naturals, Sequences, SequencesExt, Retain

CONSTANTS
    Apps,               \* the installed programs, in order
    Found,              \* what a non-empty search term finds
    OpenWindows,        \* windows the compositor shows
    MaxResults,         \* 8 in the code
    Rows,               \* 5 in the code: the rows there is room for
    MaxQuery            \* bound: characters typed

LauncherAssumption ==
    /\ Apps \in Seq(ToSet(Apps))
    /\ MaxResults \in Nat \ {0} /\ Rows \in Nat /\ MaxQuery \in Nat

VARIABLES
    apps,               \* the programs, once they are loaded
    query, selected,
    requests,           \* threads that have not reached the compositor yet
    started,            \* what the compositor was asked for
    exit, ended

launcherVars == <<apps, query, selected, requests, started, exit, ended>>

Marks == {"@", ">", ":"}
Power == <<"lock", "quit">>

\* The launcher process is the only one that does not subscribe to the
\* compositor's snapshots: its list of windows stays the default, empty one.
SnapshotWindows == <<>>

-----------------------------------------------------------------------------
(* Queries and results.                                                    *)

Category(q) == IF q # <<>> /\ Head(q) \in Marks THEN Head(q) ELSE "apps"
Term(q) == IF Category(q) = "apps" THEN q ELSE Tail(q)
InCategory(c, q) == (IF c = "apps" THEN <<>> ELSE <<c>>) \o Term(q)

Matching(list, term) == IF term = <<>> THEN list ELSE Retain(list, Found)
First(list) == SubSeq(list, 1, IF Len(list) < MaxResults THEN Len(list) ELSE MaxResults)

Items(q, installed) ==
    LET term == Term(q) IN
    CASE Category(q) = ">" -> IF term = <<>> THEN <<>> ELSE <<"command">>
      [] Category(q) = "@" -> First(Matching(SnapshotWindows, term))
      [] Category(q) = ":" -> Matching(Power, term)
      [] OTHER             -> First(Matching(installed, term))

Results == Items(query, apps)

LauncherTypeOK ==
    /\ apps \in {<<>>, Apps} /\ query \in Seq(Marks \cup {"x"}) /\ Len(query) <= MaxQuery
    /\ selected \in 0..MaxResults
    /\ {exit, ended} \subseteq BOOLEAN

LauncherInit ==
    /\ apps = <<>> /\ query = <<>> /\ selected = 0
    /\ requests = <<>> /\ started = <<>> /\ exit = FALSE /\ ended = FALSE

-----------------------------------------------------------------------------
(* Events.  Those of one batch are all handled, the ones after a choice    *)
(* too.  Operators named Mut... are slips of the definition below them     *)
(* that the properties must catch; no specification uses them.             *)

Least(a, b) == IF a < b THEN a ELSE b
Clamped(n, count) == Least(n, IF count = 0 THEN 0 ELSE count - 1)

AppsLoaded ==
    /\ ~ended /\ apps = <<>>
    /\ apps' = Apps
    /\ selected' = Clamped(selected, Len(Items(query, Apps)))
    /\ UNCHANGED <<query, requests, started, exit, ended>>

Type(char) ==
    /\ ~ended /\ Len(query) < MaxQuery
    /\ query' = Append(query, char) /\ selected' = 0
    /\ UNCHANGED <<apps, requests, started, exit, ended>>
MutAfterErase == selected
AfterErase == 0
Erase ==
    /\ ~ended /\ query # <<>>
    /\ query' = Front(query) /\ selected' = AfterErase
    /\ UNCHANGED <<apps, requests, started, exit, ended>>
Choose(c) ==
    /\ ~ended /\ query' = InCategory(c, query) /\ selected' = 0
    /\ Len(query') <= MaxQuery
    /\ UNCHANGED <<apps, requests, started, exit, ended>>
MoveUp ==
    /\ ~ended /\ selected > 0 /\ selected' = selected - 1
    /\ UNCHANGED <<apps, query, requests, started, exit, ended>>
MoveDown ==
    /\ ~ended /\ Results # <<>>
    /\ selected' = Least(selected + 1, Len(Results) - 1)
    /\ UNCHANGED <<apps, query, requests, started, exit, ended>>

\* activate_launcher_item with the n-th result, counted from 0.
Activate(n) ==
    IF n < Len(Results)
    THEN requests' = Append(requests, Results[n + 1]) /\ exit' = TRUE
    ELSE UNCHANGED <<requests, exit>>
Return ==
    /\ ~ended /\ ~exit /\ Activate(selected)
    /\ UNCHANGED <<apps, query, selected, started, ended>>
\* In the batch of a choice: a second one.
ReturnAgain ==
    /\ ~ended /\ exit /\ Len(requests) + Len(started) = 1 /\ Activate(selected)
    /\ UNCHANGED <<apps, query, selected, started, ended>>
\* The rows that are drawn; the results after them can be selected all the same.
Visible == Least(Len(Results), Rows)
Click(n) ==
    /\ ~ended /\ ~exit /\ n < Visible
    /\ selected' = n /\ Activate(n)
    /\ UNCHANGED <<apps, query, started, ended>>
Escape ==
    /\ ~ended /\ exit' = TRUE
    /\ UNCHANGED <<apps, query, selected, requests, started, ended>>

\* A request reaches the compositor, or the process ends and takes it along.
Request ==
    /\ requests # <<>> /\ ~ended
    /\ started' = Append(started, Head(requests)) /\ requests' = Tail(requests)
    /\ UNCHANGED <<apps, query, selected, exit, ended>>
Ends ==
    /\ exit /\ ~ended /\ ended' = TRUE /\ requests' = <<>>
    /\ UNCHANGED <<apps, query, selected, started, exit>>

LauncherNext ==
    \/ AppsLoaded \/ Erase \/ MoveUp \/ MoveDown \/ Return \/ ReturnAgain \/ Escape \/ Request \/ Ends
    \/ \E char \in Marks \cup {"x"} : Type(char)
    \/ \E c \in Marks \cup {"apps"} : Choose(c)
    \/ \E n \in 0..MaxResults : Click(n)

LauncherSpec == LauncherInit /\ [][LauncherNext]_launcherVars

-----------------------------------------------------------------------------
(* Properties.                                                             *)

\* The selection is on a result whenever there is one, whichever of the query,
\* the category and the list of programs changed, so Return never does nothing
\* in front of a list.
SelectionOnResult ==
    /\ Results # <<>> => selected < Len(Results)
    /\ Results = <<>> => selected = 0

LauncherInv == LauncherTypeOK /\ SelectionOnResult
=============================================================================
