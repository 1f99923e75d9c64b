------------------------------ MODULE Devices ------------------------------
(***************************************************************************)
(* The DRM device of the compositor (udev.rs): scans after a hotplug, what *)
(* becomes of each connector, the mode and HDR state of an output, leases  *)
(* of non-desktop connectors, and VT switches.  VRR is left out.           *)
(*                                                                         *)
(* Cables move at any time; udev reports them and one handler scans the    *)
(* device.  The kernel may refuse whatever the compositor asks of it.  One *)
(* CRTC belongs to each connector.                                         *)
(***************************************************************************)
EXTENDS Integers, Sequences, FiniteSets, SequencesExt

CONSTANTS
    Connectors,         \* connectors of the device
    Headsets,           \* those whose "non-desktop" property is set
    ModeLists,          \* mode lists a display may advertise (sequences of Mode)
    Requests,           \* [outputs.*] sections (sets of OutputConfig records)
    Unplugged,          \* nothing is plugged in
    NoSurface,          \* the connector has no SurfaceData
    MaxCables,          \* bound: cable and EDID events
    MaxReloads,         \* bound: reloads of the configuration
    MaxAway             \* bound: VT switches and GPU removals

Mode == [size : Nat, refresh : Nat, preferred : BOOLEAN]
OutputConfig == [size : Nat, refresh : Nat, hdr : BOOLEAN]
\* An output: the modes of its connector, its current mode, the modes its
\* wl_output announces, and what configure_hdr reached (hdr_enabled).
SurfaceData == [modes : ModeLists, mode : Mode, announced : SUBSET Mode, hdr : BOOLEAN]

DevicesAssumption ==
    /\ Headsets \subseteq Connectors
    /\ \A l \in ModeLists : l \in Seq(Mode)
    /\ Requests \subseteq OutputConfig
    /\ Unplugged \notin ModeLists /\ NoSurface \notin SurfaceData
    /\ MaxCables \in Nat /\ MaxReloads \in Nat /\ MaxAway \in Nat

VARIABLES
    cable,              \* what is plugged into each connector
    uevent,             \* the udev backend has a Changed event to report
    gpu,                \* backends holds the device
    seated,             \* desktop.active
    wanted,             \* config.outputs
    scanned,            \* the DrmScanner: what the last scan found
    surface,            \* SurfaceData of each connector
    space,              \* outputs mapped in the Space
    offered,            \* non_desktop_connectors
    leases,             \* active_leases: the connectors of each
    kmsHdr,             \* HDR properties set on the connector and its CRTC
    refused,            \* history: the kernel refused the last mode asked for
    cables, reconfigs, aways

deviceEnv == <<cable, cables, reconfigs, aways>>
deviceVars == <<deviceEnv, uevent, gpu, seated, wanted, scanned, surface, space,
                offered, leases, kmsHdr, refused>>

-----------------------------------------------------------------------------
(* select_output_mode.  Requests of size or refresh 0 are automatic.       *)

AbsDiff(a, b) == IF a < b THEN b - a ELSE a - b
Auto == [size |-> 0, refresh |-> 0, hdr |-> FALSE]

Acceptable(modes, req) ==
    {i \in DOMAIN modes :
        /\ req.size \in {0, modes[i].size}
        /\ req.refresh = 0 \/ AbsDiff(modes[i].refresh, req.refresh) <= 500}

\* max_by_key: nearest to the refresh asked for, then preferred, then the
\* highest refresh, then the first in the list.
Distance(m, req) == IF req.refresh = 0 THEN 0 ELSE AbsDiff(m.refresh, req.refresh)
Preferable(m, n, req) ==
    \/ Distance(m, req) < Distance(n, req)
    \/ /\ Distance(m, req) = Distance(n, req)
       /\ \/ m.preferred /\ ~n.preferred
          \/ m.preferred = n.preferred /\ m.refresh > n.refresh
MutSelect(modes, req) ==
    LET fit == DOMAIN modes
        best == {i \in fit : \A j \in fit : ~Preferable(modes[j], modes[i], req)}
    IN  {modes[i] : i \in {k \in best : \A l \in best : k <= l}}
\* The set holds the mode, or nothing.
Select(modes, req) ==
    LET fit == Acceptable(modes, req)
        best == {i \in fit : \A j \in fit : ~Preferable(modes[j], modes[i], req)}
    IN  {modes[i] : i \in {k \in best : \A l \in best : k <= l}}

-----------------------------------------------------------------------------
(* The state of the device.                                                *)

Shown == {c \in Connectors : surface[c] # NoSurface}

DevicesTypeOK ==
    /\ cable \in [Connectors -> ModeLists \cup {Unplugged}]
    /\ scanned \in [Connectors -> ModeLists \cup {Unplugged}]
    /\ uevent \in BOOLEAN /\ gpu \in BOOLEAN /\ seated \in BOOLEAN
    /\ wanted \in [Connectors -> Requests \cup {Auto}]
    /\ surface \in [Connectors -> SurfaceData \cup {NoSurface}]
    /\ space \subseteq Connectors /\ offered \subseteq Headsets
    /\ leases \subseteq SUBSET Headsets
    /\ kmsHdr \in [Connectors -> BOOLEAN] /\ refused \in [Connectors -> BOOLEAN]
    /\ cables \in 0 .. MaxCables /\ reconfigs \in 0 .. MaxReloads /\ aways \in 0 .. MaxAway

\* The compositor starts with whatever is plugged in; GpuAdded comes first.
DevicesInit ==
    /\ cable \in [Connectors -> ModeLists \cup {Unplugged}]
    /\ uevent = FALSE /\ gpu = FALSE /\ seated = TRUE
    /\ wanted = [c \in Connectors |-> Auto]
    /\ scanned = [c \in Connectors |-> Unplugged]
    /\ surface = [c \in Connectors |-> NoSurface]
    /\ space = {} /\ offered = {} /\ leases = {}
    /\ kmsHdr = [c \in Connectors |-> FALSE]
    /\ refused = [c \in Connectors |-> FALSE]
    /\ cables = 0 /\ reconfigs = 0 /\ aways = 0

-----------------------------------------------------------------------------
(* Operators named Mut... are slips of the definition below them that the  *)
(* properties must catch; no specification uses them.                      *)

\* synchronize_output_modes: the current mode stays although the connector no
\* longer has it.
MutAnnounce(s) == [s EXCEPT !.announced = ToSet(s.modes)]
Announce(s) ==
    [s EXCEPT !.announced = ToSet(s.modes) \cup {m \in @ : m = s.mode}]

\* The mode an output comes up with: the one asked for or the default.
FirstChoice(modes, req) ==
    IF Select(modes, req) # {} THEN Select(modes, req) ELSE Select(modes, Auto)

\* configure_hdr; taken says that the kernel has the properties and accepts them.
Hdr(s, req, taken) == [s EXCEPT !.hdr = IF taken THEN req.hdr ELSE @]

\* connector_connected of a desktop connector.  Setup and HDR may fail (ok);
\* a connector without usable modes stays dark.
SetUp(c, ok) ==
    LET modes == cable[c]
        choice == FirstChoice(modes, wanted[c])
        fresh == [modes |-> modes, mode |-> CHOOSE m \in choice : TRUE,
                  announced |-> ToSet(modes), hdr |-> FALSE]
    IN  IF choice = {} \/ ~ok.setup THEN NoSurface
        ELSE Hdr(fresh, wanted[c], wanted[c].hdr /\ ok.hdr)

\* apply_output_config for one surface: a mode that is not advertised, or that
\* the kernel refuses, leaves the current one.
Configured(s, req, ok) ==
    LET choice == Select(s.modes, req)
        moded == IF choice # {} /\ choice # {s.mode} /\ ok.mode
                 THEN Announce([s EXCEPT !.mode = CHOOSE m \in choice : TRUE]) ELSE s
    IN  Hdr(moded, req, ok.hdr)
Denied(s, req, ok) == Select(s.modes, req) \notin {{}, {s.mode}} /\ ~ok.mode

KernelSays == [setup : BOOLEAN, mode : BOOLEAN, hdr : BOOLEAN]
\* configure_hdr has set or cleared the properties of an output it changed.
HdrAfter(c, old, new) ==
    IF new = NoSurface THEN kmsHdr[c]
    ELSE IF old = NoSurface THEN kmsHdr[c] \/ new.hdr
    ELSE IF old.hdr # new.hdr THEN new.hdr ELSE kmsHdr[c]

-----------------------------------------------------------------------------
(* Cables and scans.                                                       *)

Cable(c, what) ==
    /\ cables < MaxCables /\ what # cable[c]
    /\ cables' = cables + 1
    /\ cable' = [cable EXCEPT ![c] = what]
    /\ uevent' = gpu
    /\ UNCHANGED <<reconfigs, aways, gpu, seated, wanted, scanned, surface, space, offered,
                   leases, kmsHdr, refused>>

\* connector_disconnected takes the output from the Space with its surface.
MutSpaceAfter(new) == space \cup {c \in Connectors : new[c] # NoSurface}
SpaceAfter(new) == {c \in Connectors : new[c] # NoSurface}

\* device_changed: the scan reports what differs from the last one.  A display
\* whose modes changed is configured again, with every other output of the
\* device, or set up if that has failed so far.
Scan ==
    LET came == {c \in Connectors : scanned[c] = Unplugged /\ cable[c] # Unplugged}
        went == {c \in Connectors : scanned[c] # Unplugged /\ cable[c] = Unplugged}
        differs == {c \in Connectors \ (came \cup went) : scanned[c] # cable[c]}
        starts == (came \cup {c \in differs : surface[c] = NoSurface}) \ Headsets
        again == \E c \in differs : surface[c] # NoSurface
        updated(c) == IF c \in differs THEN Announce([surface[c] EXCEPT !.modes = cable[c]])
                      ELSE surface[c]
    IN
    /\ uevent' = FALSE
    /\ scanned' = cable
    /\ \E ok \in [(IF again THEN Shown \ went ELSE {}) \cup starts -> KernelSays] :
        /\ surface' = [c \in Connectors |->
                CASE c \in went -> NoSurface
                  [] c \in starts -> SetUp(c, ok[c])
                  [] c \in Shown \ went -> IF again THEN Configured(updated(c), wanted[c], ok[c])
                                           ELSE surface[c]
                  [] OTHER -> NoSurface]
        /\ refused' = [c \in Connectors |->
                IF c \in Shown \ went THEN IF again THEN Denied(updated(c), wanted[c], ok[c])
                                           ELSE refused[c]
                ELSE FALSE]
    /\ space' = SpaceAfter(surface')
    /\ offered' = (offered \ went) \cup (came \cap Headsets)
    /\ kmsHdr' = [c \in Connectors |-> HdrAfter(c, surface[c], surface'[c])]
    /\ UNCHANGED <<deviceEnv, seated, wanted, leases>>

DeviceChanged == gpu /\ uevent /\ UNCHANGED gpu /\ Scan

\* The reload command gives one output another section; apply_output_config
\* visits all of them.
Reconfigure(c, req) ==
    LET now == [wanted EXCEPT ![c] = req] IN
    /\ reconfigs < MaxReloads /\ req # wanted[c]
    /\ reconfigs' = reconfigs + 1
    /\ wanted' = now
    /\ \E ok \in [Shown -> KernelSays] :
        /\ surface' = [d \in Connectors |-> IF d \in Shown THEN Configured(surface[d], now[d], ok[d])
                                            ELSE NoSurface]
        /\ refused' = [d \in Connectors |-> d \in Shown /\ Denied(surface[d], now[d], ok[d])]
    /\ kmsHdr' = [d \in Connectors |-> HdrAfter(d, surface[d], surface'[d])]
    /\ UNCHANGED <<cable, cables, aways, uevent, gpu, seated, scanned, space, offered, leases>>

\* device_removed, and device_added, which ends with a scan.
GpuRemoved ==
    /\ gpu /\ aways < MaxAway
    /\ aways' = aways + 1
    /\ gpu' = FALSE
    /\ uevent' = FALSE
    /\ scanned' = [c \in Connectors |-> Unplugged]
    /\ surface' = [c \in Connectors |-> NoSurface]
    /\ space' = SpaceAfter(surface')
    /\ offered' = {} /\ leases' = {}
    /\ kmsHdr' = [c \in Connectors |-> FALSE]
    /\ refused' = [c \in Connectors |-> FALSE]
    /\ UNCHANGED <<cable, cables, reconfigs, seated, wanted>>
GpuAdded ==
    /\ ~gpu
    /\ gpu' = TRUE
    /\ Scan

-----------------------------------------------------------------------------
(* Leases and VT switches.                                                 *)

\* lease_request grants connectors that are offered and whose planes nobody
\* has claimed; a suspended global takes no request.
Granted(conns) ==
    /\ gpu /\ seated
    /\ conns # {} /\ conns \subseteq offered
    /\ \A l \in leases : l \cap conns = {}
Lease(conns) ==
    /\ Granted(conns)
    /\ leases' = leases \cup {conns}
    /\ UNCHANGED <<deviceEnv, uevent, gpu, seated, wanted, scanned, surface, space, offered,
                   kmsHdr, refused>>
LeaseDestroyed(l) ==
    /\ leases' = leases \ {l}
    /\ UNCHANGED <<deviceEnv, uevent, gpu, seated, wanted, scanned, surface, space, offered,
                   kmsHdr, refused>>

\* PauseSession revokes the leases of every device.
MutRevoked == leases
Revoked == {}
SwitchAway ==
    /\ seated /\ aways < MaxAway
    /\ seated' = FALSE
    /\ aways' = aways + 1
    /\ leases' = Revoked
    /\ UNCHANGED <<cable, cables, reconfigs, uevent, gpu, wanted, scanned, surface, space,
                   offered, kmsHdr, refused>>
\* ActivateSession does not scan.
SwitchBack ==
    /\ ~seated
    /\ seated' = TRUE
    /\ UNCHANGED <<deviceEnv, uevent, gpu, wanted, scanned, surface, space, offered, leases,
                   kmsHdr, refused>>

DevicesNext ==
    \/ \E c \in Connectors : \/ \E w \in ModeLists \cup {Unplugged} : Cable(c, w)
                             \/ \E r \in Requests \cup {Auto} : Reconfigure(c, r)
    \/ DeviceChanged
    \/ GpuRemoved \/ GpuAdded
    \/ \E conns \in SUBSET Headsets : Lease(conns)
    \/ \E l \in leases : LeaseDestroyed(l)
    \/ SwitchAway \/ SwitchBack

DevicesSpec == DevicesInit /\ [][DevicesNext]_deviceVars

-----------------------------------------------------------------------------
(* Properties.                                                             *)

\* No phantom output: what the Space and the clients see are the connectors
\* with a working surface, each of them a desktop display of the last scan;
\* a lease holds connectors that no other lease holds, and none while another
\* VT owns the device (connector_connected, connector_disconnected).
NoPhantoms ==
    /\ space = Shown
    /\ \A c \in space : gpu /\ scanned[c] # Unplugged /\ c \notin Headsets
    /\ offered = {c \in Headsets : scanned[c] # Unplugged}
    /\ ~(gpu /\ seated) => leases = {}
    /\ \A k, l \in leases : k # l => k \cap l = {}

\* A display shows the mode that was asked for, or its default when that is
\* not advertised, unless the kernel refused it; a request that stopped being
\* advertised may leave any mode.  Clients are told the current mode and no
\* mode that is neither current nor advertised (apply_output_config).
ModeAsRequested ==
    \A c \in Shown :
        /\ surface[c].mode \in surface[c].announced
        /\ surface[c].announced \subseteq ToSet(surface[c].modes) \cup {surface[c].mode}
        /\ Select(surface[c].modes, wanted[c]) # {} /\ ~refused[c]
                => LET m == surface[c].mode IN
                   /\ wanted[c].size \in {0, m.size}
                   /\ wanted[c].refresh = 0 \/ AbsDiff(m.refresh, wanted[c].refresh) <= 500
                   /\ {m} = Select(surface[c].modes, wanted[c])

DevicesInv == DevicesTypeOK /\ NoPhantoms /\ ModeAsRequested
=============================================================================
