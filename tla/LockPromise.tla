---------------------------- MODULE LockPromise ----------------------------
(***************************************************************************)
(* What session locking promises a locker client, without outputs, frames  *)
(* or generations: between the moment the locker is told "locked" and its  *)
(* unlock, no output shows the desktop.  SessionLock implements this       *)
(* specification (refinement mapping at the end of that module).           *)
(***************************************************************************)

VARIABLES
    phase,      \* "unlocked", "locking" (accepted, not confirmed), "locked"
    exposed     \* some output scans out desktop content

vars == <<phase, exposed>>

Init == phase = "unlocked" /\ exposed \in BOOLEAN

\* A lock request is accepted; the desktop is still on screen.
Accept == phase = "unlocked" /\ phase' = "locking" /\ UNCHANGED exposed

\* The locker is told that the session is locked: only once nothing shows.
Confirm == phase = "locking" /\ ~exposed /\ phase' = "locked" /\ UNCHANGED exposed

Unlock == phase = "locked" /\ phase' = "unlocked" /\ UNCHANGED exposed

\* Before the confirmation the desktop may come and go.
Flip == phase # "locked" /\ exposed' \in BOOLEAN /\ UNCHANGED phase

Next == Accept \/ Confirm \/ Unlock \/ Flip

Spec == Init /\ [][Next]_vars
=============================================================================
