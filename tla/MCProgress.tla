----------------------------- MODULE MCProgress -----------------------------
(***************************************************************************)
(* The parts that time and hardware drive: the supervision timer, the      *)
(* animations, the rendering of an output, the outputs themselves, and the *)
(* pairing of a Bluetooth device.  They do not touch each other's state,   *)
(* so a behaviour is one of the part chosen in its initial state and the   *)
(* others stay as they start.                                              *)
(***************************************************************************)
EXTENDS Supervisor, Scene

CONSTANTS
    \* RenderLoop
    MaxCommits, MaxFaults, MaxSwitches,
    \* Devices
    Connectors, Headsets, ModeLists, Requests, Unplugged, NoSurface, MaxCables, MaxReloads, MaxAway,
    \* Pairing
    Gadgets, MaxPairings, MaxRestarts

VARIABLES
    part,
    plugged, undrawn, redraw, sessionActive, master, pending, queued, repaint, orphans, loose,
    idleRender, failed, commits, faults, switches,
    cable, uevent, gpu, seated, wanted, scanned, surface, space, offered, leases, kmsHdr, refused,
    cables, reconfigs, aways,
    bluez, devices, pairQueued, current, pairActive, device, owner, linked, pairPending, shown,
    accept, entry, panel, tasks, links, asked, unanswered

RL == INSTANCE RenderLoop
DV == INSTANCE Devices
PA == INSTANCE Pairing WITH
    Devices <- Gadgets, service <- bluez, queued <- pairQueued, active <- pairActive, pending <- pairPending

ASSUME ProgressAssumption ==
    RL!RenderLoopAssumption /\ DV!DevicesAssumption /\ PA!PairingAssumption

loopVars == <<plugged, undrawn, redraw, sessionActive, master, pending, queued, repaint,
              orphans, loose, idleRender, failed, commits, faults, switches>>
deviceVars == <<cable, cables, reconfigs, aways, uevent, gpu, seated, wanted, scanned, surface,
                space, offered, leases, kmsHdr, refused>>
pairingVars == <<bluez, devices, pairQueued, current, pairActive, device, owner, linked, pairPending,
                 shown, accept, entry, panel, tasks, links, asked, unanswered>>

In(p) == part = p

ProgressInit ==
    /\ part \in {"supervisor", "scene", "render", "devices", "pairing"}
    /\ SupervisorInit /\ SceneInit /\ RL!LoopInit /\ DV!DevicesInit /\ PA!PairingInit
    /\ In("devices") \/ \A c \in Connectors : cable[c] = Unplugged

ProgressNext ==
    /\ UNCHANGED part
    /\ IF In("supervisor") THEN SupervisorNext ELSE UNCHANGED supervisorVars
    /\ IF In("scene") THEN SceneNext ELSE UNCHANGED sceneVars
    /\ IF In("render") THEN RL!LoopNext ELSE UNCHANGED loopVars
    /\ IF In("devices") THEN DV!DevicesNext ELSE UNCHANGED deviceVars
    /\ IF In("pairing") THEN PA!PairingNext ELSE UNCHANGED pairingVars

progressVars == <<part, supervisorVars, sceneVars, loopVars, deviceVars, pairingVars>>

-----------------------------------------------------------------------------
(* Fairness: that of the parts, where each module says why.                *)

\* The supervision timer is re-armed by its own callback.
SupervisorFairness == WF_supervisorVars(In("supervisor") /\ Supervise)
\* The loop ends every turn with maintain_desktop, a frame timer fires, and time
\* passes between two turns.
SceneFairness ==
    /\ WF_sceneVars(In("scene") /\ Maintain) /\ WF_sceneVars(In("scene") /\ TimerFires)
    /\ SF_sceneVars(In("scene") /\ Elapse)
\* calloop dispatches timers, idle callbacks and sources that are ready; a flip
\* of a working device completes.
RenderFairness ==
    /\ WF_loopVars(In("render") /\ RL!RedrawPass) /\ WF_loopVars(In("render") /\ RL!RepaintFires)
    /\ WF_loopVars(In("render") /\ RL!OrphanFires) /\ WF_loopVars(In("render") /\ RL!LooseFires)
    /\ WF_loopVars(In("render") /\ RL!IdleRender) /\ WF_loopVars(In("render") /\ RL!Flip)
    /\ WF_loopVars(In("render") /\ RL!FrameFinish) /\ WF_loopVars(In("render") /\ RL!PauseSession)
PairingFairness == \A g \in PA!Numbers :
    /\ WF_pairingVars(In("pairing") /\ PA!Step(g)) /\ WF_pairingVars(In("pairing") /\ PA!CancelReturns(g))

ProgressSpec ==
    /\ ProgressInit /\ [][ProgressNext]_progressVars
    /\ SupervisorFairness /\ SceneFairness /\ RenderFairness /\ PairingFairness

-----------------------------------------------------------------------------
(* Properties of the parts, under the names of their modules.              *)

\* bluetooth_pairing.rs: a pairing ends, whatever BlueZ and the user do.
PairingEnds == PA!PairingEnds

\* udev.rs: an output whose scene no longer changes shows the scene there is.
ScreenSettles == <>[](In("render") => RL!Settled)

\* No process outlives the session, no animation the place it is about, no
\* change of the scene is forgotten (policy.rs, transitions.rs), no output lacks
\* its connector, and each has the mode that was asked for (udev.rs).
DesktopSound ==
    /\ In("supervisor") => SupervisorInv
    /\ In("scene") => SceneInv
    /\ In("render") => RL!LoopInv
    /\ In("devices") => DV!DevicesInv

\* A pairing keeps no connection longer than it lasts, and the answer of the
\* user goes to the question that is shown (bluetooth_pairing.rs).
PairingSound == In("pairing") => PA!PairingInv

-----------------------------------------------------------------------------
ModeA == [size |-> 1, refresh |-> 60000, preferred |-> TRUE]
ModeB == [size |-> 1, refresh |-> 144000, preferred |-> FALSE]
ModeC == [size |-> 2, refresh |-> 59940, preferred |-> FALSE]
MCModeLists == {<<>>, <<ModeA, ModeB>>, <<ModeB, ModeC>>}
MCRequests == {[size |-> 1, refresh |-> 144000, hdr |-> FALSE],
               [size |-> 2, refresh |-> 60000, hdr |-> TRUE]}
=============================================================================
