------------------------- MODULE ShellNotifications -------------------------
(***************************************************************************)
(* The notification service of the SCTK bar (shell-sctk/src/main.rs).  A   *)
(* thread serves the bus name: calls of clients become events for the      *)
(* bar's event loop, which keeps the rows, an expiry timer for each, the   *)
(* scroll offset and the panel's layer surface.  What the loop reports     *)
(* goes back over a second channel, from which the thread emits the bus    *)
(* signals.  The configuration warning is a row under an id of its own.    *)
(*                                                                         *)
(* Deadlines are compared, never computed with: one is "due" or not, and   *)
(* Tick makes every deadline given out so far due.  Texts and icons are    *)
(* left out.                                                               *)
(***************************************************************************)
EXTENDS Naturals, SequencesExt, FiniteSetsExt, Retain

CONSTANTS
    RowLimit,           \* rows kept (100 in the code)
    MaxNotices,         \* bound: ids the service gives out
    MaxInbox,           \* bound: events waiting for the loop
    MaxSignals          \* bound: signals waiting to be emitted

NoticeAssumption ==
    RowLimit \in Nat \ {0} /\ MaxNotices \in Nat /\ MaxInbox \in Nat /\ MaxSignals \in Nat

Warning == MaxNotices + 1                       \* CONFIG_ERROR_NOTIFICATION_ID
NoticeIds == 1..MaxNotices
RowIds == NoticeIds \cup {Warning}
Lives == {"forever", "running", "due"}          \* expires_at

Row == [id : RowIds, life : Lives]
Upsert == [kind : {"upsert"}, row : Row]
Close == [kind : {"close"}, id : RowIds]
Dismiss == [kind : {"dismiss"}, id : RowIds]

VARIABLES
    given,              \* NotificationServer.next_id
    inbox,              \* notification_events: the channel to the loop
    rows,               \* notifications, the oldest first
    timers,             \* notification_timers: by id, their deadlines
    outbox,             \* notification_signals: the channel back
    firstRow,           \* notification_offset
    muted,              \* do_not_disturb
    failing,            \* snapshot.error is set
    panel,              \* the surface: "none", "small" (hidden) or "full"
    expected,           \* history: ids a client still takes to be on screen
    evicted             \* history: ids dropped by the limit that a client expects

noticeVars == <<given, inbox, rows, timers, outbox, firstRow, muted, failing, panel,
                expected, evicted>>

-----------------------------------------------------------------------------
Has(id) == \E i \in DOMAIN rows : rows[i].id = id
Expired(list) == {r \in ToSet(list) : r.life = "due"}
Without(list, ids) == Retain(list, {r \in Row : r.id \notin ids})
Clamped(offset, list) == Min({offset, IF list = <<>> THEN 0 ELSE Len(list) - 1})

\* sync_notification_surface: critical rows are shown even when muted.
Critical(r) == r.id = Warning
PanelFor(list, quiet, now) ==
    IF \E r \in ToSet(list) : Critical(r) \/ ~quiet THEN "full"
    ELSE IF now = "none" THEN "none" ELSE "small"

NoticesTypeOK ==
    /\ given \in 0..MaxNotices
    /\ inbox \in Seq(Upsert \cup Close \cup Dismiss)
    /\ rows \in Seq(Row) /\ Len(rows) <= RowLimit
    /\ \A i, j \in DOMAIN rows : rows[i].id = rows[j].id => i = j
    /\ timers \in [RowIds -> {"none", "running", "due"}]
    /\ outbox \in Seq(RowIds) /\ firstRow \in Nat
    /\ muted \in BOOLEAN /\ failing \in BOOLEAN /\ panel \in {"none", "small", "full"}
    /\ expected \subseteq RowIds /\ evicted \subseteq RowIds

NoticesInit ==
    /\ given = 0 /\ inbox = <<>> /\ rows = <<>> /\ outbox = <<>>
    /\ timers = [id \in RowIds |-> "none"]
    /\ firstRow = 0 /\ muted = FALSE /\ failing = FALSE /\ panel = "none"
    /\ expected = {} /\ evicted = {}

loopState == <<rows, timers, outbox, firstRow, muted, failing, panel, evicted>>
Tell(event) == Len(inbox) < MaxInbox /\ inbox' = Append(inbox, event)

-----------------------------------------------------------------------------
(* The bus.  A client only names an id the service gave out.               *)

\* notify: a new id, or the one it replaces; the deadline runs from the call.
Notify(id) ==
    /\ id \in 1..(given + 1) \cap NoticeIds
    /\ given' = Max({given, id})
    /\ Tell([kind |-> "upsert", row |-> [id |-> id, life |-> "running"]])
    /\ expected' = expected \cup {id}
    /\ UNCHANGED loopState
CloseNotification(id) ==
    /\ id \in 1..given
    /\ Tell([kind |-> "close", id |-> id])
    /\ UNCHANGED <<given, loopState, expected>>

\* The thread emits NotificationClosed for the oldest report.
EmitClosed ==
    /\ outbox # <<>>
    /\ outbox' = Tail(outbox)
    /\ expected' = expected \ {Head(outbox)} /\ evicted' = evicted \ {Head(outbox)}
    /\ UNCHANGED <<given, inbox, rows, timers, firstRow, muted, failing, panel>>

\* A snapshot whose error differs from the last one's.
Snapshot ==
    /\ failing' = ~failing
    /\ Tell(IF failing' THEN [kind |-> "upsert", row |-> [id |-> Warning, life |-> "forever"]]
            ELSE [kind |-> "close", id |-> Warning])
    /\ UNCHANGED <<given, rows, timers, outbox, firstRow, muted, panel, expected, evicted>>

-----------------------------------------------------------------------------
(* The bar's event loop.  Operators named Mut... are slips of the          *)
(* definition below them that the properties must catch.                   *)

\* The new row replaces the one with its id in place, or goes to the end.
Placed(row) == IF Has(row.id)
               THEN [i \in DOMAIN rows |-> IF rows[i].id = row.id THEN row ELSE rows[i]]
               ELSE Append(rows, row)
Kept(list) == SubSeq(list, IF Len(list) > RowLimit THEN Len(list) - RowLimit + 1 ELSE 1, Len(list))
Dropped(list) == {r.id : r \in ToSet(list)} \ {r.id : r \in ToSet(Kept(list))}

\* A timer is only started for a row that was not there.
MutTimerOf(row) == IF row.life = "forever" \/ Has(row.id) THEN "none" ELSE row.life
TimerOf(row) == IF row.life = "forever" THEN "none" ELSE row.life

HandleUpsert(row) ==
    LET all == Placed(row)  gone == Dropped(all) IN
    /\ rows' = Kept(all)
    /\ timers' = [id \in RowIds |-> IF id = row.id THEN TimerOf(row)
                                    ELSE IF id \in gone THEN "none" ELSE timers[id]]
    /\ evicted' = (evicted \ {row.id}) \cup (gone \cap expected)
    /\ firstRow' = 0
    /\ UNCHANGED outbox

\* A row its application closes goes without a report.
MutReported(event) == <<>>
Reported(event) == IF event.kind = "close" THEN <<event.id>> ELSE <<>>

HandleRemove(event) ==
    /\ rows' = Without(rows, {event.id})
    /\ timers' = [timers EXCEPT ![event.id] = "none"]
    /\ firstRow' = Clamped(firstRow, rows')
    /\ Len(outbox) < MaxSignals
    /\ outbox' = outbox \o Reported(event)
    /\ UNCHANGED evicted

Handle ==
    /\ inbox # <<>>
    /\ inbox' = Tail(inbox)
    /\ LET event == Head(inbox) IN
       IF event.kind = "upsert" THEN HandleUpsert(event.row) ELSE HandleRemove(event)
    /\ panel' = PanelFor(rows', muted, panel)
    /\ UNCHANGED <<given, muted, failing, expected>>

Report(ids) == /\ Len(outbox) + Cardinality(ids) <= MaxSignals
               /\ outbox' = outbox \o SetToSeq(ids)

\* expire_notifications with what its callers do when something expired.
Expire ==
    LET gone == {r.id : r \in Expired(rows)} IN
    IF gone = {} THEN UNCHANGED <<rows, outbox, firstRow, panel>>
    ELSE /\ rows' = Without(rows, gone)
         /\ Report(gone)
         /\ firstRow' = Clamped(firstRow, rows')
         /\ panel' = PanelFor(rows', muted, panel)
TimerFires(id) ==
    /\ timers[id] = "due"
    /\ timers' = [timers EXCEPT ![id] = "none"]
    /\ Expire
    /\ UNCHANGED <<given, inbox, muted, failing, expected, evicted>>
\* The maintenance timer of the clock and the battery also expires rows.
Maintain ==
    /\ Expire
    /\ UNCHANGED <<given, inbox, timers, muted, failing, expected, evicted>>

-----------------------------------------------------------------------------
(* The user.                                                               *)

\* What a click leaves for the loop: the timer goes with the event.
Dismissals(ids) == SetToSeq({[kind |-> "dismiss", id |-> id] : id \in ids})
MutLeave(ids) == /\ rows' = Without(rows, ids) /\ firstRow' = firstRow
Leave(ids) == /\ rows' = Without(rows, ids)
              /\ firstRow' = Clamped(firstRow, rows')
Dismissed(ids) ==
    /\ Leave(ids)
    /\ Report(ids)
    /\ Len(inbox) + Cardinality(ids) <= MaxInbox
    /\ inbox' = inbox \o Dismissals(ids)
    /\ panel' = PanelFor(rows', muted, panel)
    /\ UNCHANGED <<given, timers, muted, failing, expected, evicted>>

\* click_notification: a row, counted from the newest; the middle button takes all.
ClickRow(row) ==
    /\ panel = "full" /\ row \in 0..2 /\ firstRow + row < Len(rows)
    /\ Dismissed({rows[Len(rows) - firstRow - row].id})
ClickMiddle ==
    /\ panel = "full"
    /\ Dismissed({r.id : r \in ToSet(rows)})

\* scroll_notifications.
ScrollNotices ==
    /\ panel = "full"
    /\ \/ firstRow' = Clamped(firstRow + 1, rows)
       \/ firstRow' = IF firstRow = 0 THEN 0 ELSE firstRow - 1
    /\ UNCHANGED <<given, inbox, rows, timers, outbox, muted, failing, panel, expected, evicted>>

\* The bar's module, its controls panel and a new configuration set the mute.
MutToggleMute == /\ muted' = ~muted /\ UNCHANGED panel
ToggleMute == /\ muted' = ~muted
              /\ panel' = PanelFor(rows, muted', panel)
SetMute ==
    /\ ToggleMute
    /\ UNCHANGED <<given, inbox, rows, timers, outbox, firstRow, failing, expected, evicted>>

\* "Clear all" in the controls panel: no event follows, and the timers stay.
ClearAll ==
    /\ rows # <<>>
    /\ Report({r.id : r \in ToSet(rows)})
    /\ rows' = <<>> /\ firstRow' = 0
    /\ panel' = PanelFor(<<>>, muted, panel)
    /\ UNCHANGED <<given, inbox, timers, muted, failing, expected, evicted>>

\* The compositor closes the panel's surface with its output.
PanelClosed ==
    /\ panel # "none" /\ panel' = "none"
    /\ UNCHANGED <<given, inbox, rows, timers, outbox, firstRow, muted, failing, expected, evicted>>

\* Time passes every deadline that has been given out.
Due(life) == IF life = "running" THEN "due" ELSE life
Tick ==
    /\ rows' = [i \in DOMAIN rows |-> [rows[i] EXCEPT !.life = Due(@)]]
    /\ timers' = [id \in RowIds |-> Due(timers[id])]
    /\ inbox' = [i \in DOMAIN inbox |-> IF inbox[i].kind = "upsert"
                                        THEN [inbox[i] EXCEPT !.row.life = Due(@)]
                                        ELSE inbox[i]]
    /\ UNCHANGED <<given, outbox, firstRow, muted, failing, panel, expected, evicted>>

NoticesNext ==
    \/ \E id \in NoticeIds : Notify(id) \/ CloseNotification(id)
    \/ EmitClosed \/ Snapshot \/ Handle
    \/ \E id \in RowIds : TimerFires(id)
    \/ Maintain
    \/ \E row \in 0..2 : ClickRow(row)
    \/ ClickMiddle \/ ScrollNotices \/ SetMute \/ ClearAll \/ PanelClosed \/ Tick

NoticesSpec == NoticesInit /\ [][NoticesNext]_noticeVars

-----------------------------------------------------------------------------
(* Properties.                                                             *)

\* A client that has not been told its notification is closed finds it on
\* its way to the rows, in them, or on its way to be reported; the only ones
\* that go without a word are those the row limit drops.
Accounted ==
    \A id \in expected :
        \/ Has(id) \/ id \in evicted \/ id \in ToSet(outbox)
        \/ \E i \in DOMAIN inbox : inbox[i].kind = "upsert" /\ inbox[i].row.id = id

\* A row that expires has its timer, with its own deadline, or has just been
\* found due: replacing, dismissing and clearing never leave a row to stay on
\* screen until the next clock tick.
TimedRows == \A r \in ToSet(rows) : r.life = "running" => timers[r.id] = "running"

\* The panel is on screen for some row and away for none (unless its output
\* took it along), and it is never scrolled past the last row.
PanelMatchesRows ==
    /\ panel = "full" <=> (panel # "none" /\ \E r \in ToSet(rows) : Critical(r) \/ ~muted)
    /\ firstRow = 0 \/ firstRow < Len(rows)

\* Why a client is told: what a click dismissed has been reported, or is to be
\* shown anew after the dismissal has been handled.
DismissalsTold ==
    \A i \in DOMAIN inbox : inbox[i].kind = "dismiss" /\ inbox[i].id \in expected =>
        \/ inbox[i].id \in ToSet(outbox)
        \/ \E j \in DOMAIN inbox : j > i /\ inbox[j].kind = "upsert" /\ inbox[j].row.id = inbox[i].id
NoticesInv == NoticesTypeOK /\ Accounted /\ TimedRows /\ PanelMatchesRows /\ DismissalsTold
=============================================================================
