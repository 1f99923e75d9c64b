------------------------------ MODULE MCShell ------------------------------
(***************************************************************************)
(* The two shells side by side: what the SCTK shell keeps for its bar,     *)
(* panel, launcher, recorder panel, tray and wallpaper, and the services   *)
(* of the GTK shell.  Each part has its own state, so a behaviour is one   *)
(* of the part chosen in its initial state and the others stay as they     *)
(* start.                                                                  *)
(***************************************************************************)
EXTENDS Naturals

CONSTANTS
    \* ShellNotifications
    RowLimit, MaxNotices, MaxInbox, MaxSignals,
    \* ShellTray
    Apps, Nobody, MaxLives, MaxRegistrations, MaxTrayQueue,
    \* TrayMenu
    TrayItems, Outputs, Root, Submenus, MaxDepth, MaxFetches, NoMenu,
    \* RecorderPanel
    MaxWindow, X11, MaxProcess, MaxBatches,
    \* ShellMonitors
    Objects, Main, MaxReadings,
    \* VideoWallpaper
    Videos, NoVideo, Broken, MaxGeneration,
    \* ShellLauncher
    Programs, Found, OpenWindows, MaxResults, RowsShown, MaxQuery,
    \* TrayWatcher
    Owners, MaxEntries, MaxAsked, MaxMail, MaxTakeovers,
    \* MediaPosition
    MaxJumps,
    \* AudioControl
    Sinks, Levels, NoSink, MaxEvents, MaxLines,
    \* WifiPanel
    Networks, Unsupported, Adapters, NoArgument, MaxService, MaxPaths, MaxActs

VARIABLES
    part,
    given, inbox, rows, timers, outbox, firstRow, muted, failing, panel, expected, evicted,
    appLife, appAlive, trayListed, lister, registrations, warden, removals, awaited, lost,
    refresher, trayQueue, tray, trayOvertaken,
    menu, fetches, pagesSeen, did,
    open, recording, memory, seenOpen, seenRecording, seenMemory, processes, method, chosen,
    chosenX, chosenP, restored, running,
    held, shownSettings, batches, feedback, at, editing, clicked, overlap,
    service, present, on, phase, reading, told, readings, label, overtaken, crossed,
    unwatched, missed,
    wallpaper, fullscreen, battery, suspended, generation, decoders, frames, shownFrame,
    looked, wallEnded,
    apps, query, selected, requests, started, exit, ended,
    outputs, bars, panels, page, armed, latest, exiting,
    alive, shared, mail, items, hosts, waiting, calls, seen, hostSeen, sequence, takeovers,
    playerLife, track, spot, positionMail, positionCalls, owner, shownPosition, base,
    positionOvertaken, mapped, positionReading, reread, positionPending, readOwner,
    seekOwner, positionMissed,
    level, sink, lines, monitor, retry, debounce, audioReading, again, listing, listAgain,
    listDirty, writing, nextLevel, data, available, sinkList, visible, chosenLevel,
    unseenLevel, unseenSink, events,
    networkManager, lives, adapters, air, radio, conns, wifiCalls, wifiMail, nameOwner, wifi,
    wifiMapped, loading, loadAgain, scheduled, devices, networks, listOn, remaining, scanOn,
    connecting, form, watched, progress, stale, acts

NT == INSTANCE ShellNotifications
TY == INSTANCE ShellTray WITH life <- appLife, alive <- appAlive, listed <- trayListed,
    overtaken <- trayOvertaken
TM == INSTANCE TrayMenu WITH Items <- TrayItems, Closed <- NoMenu
RP == INSTANCE RecorderPanel WITH shown <- shownSettings
SM == INSTANCE ShellMonitors
VW == INSTANCE VideoWallpaper WITH shown <- shownFrame, ended <- wallEnded
LA == INSTANCE ShellLauncher WITH Apps <- Programs, Rows <- RowsShown
SF == INSTANCE ShellSurfaces WITH exit <- exiting
TW == INSTANCE TrayWatcher WITH Apps <- Owners
MP == INSTANCE MediaPosition WITH life <- playerLife, shown <- shownPosition, reading <-
    positionReading, missed <- positionMissed, mail <- positionMail, calls <- positionCalls,
    pending <- positionPending, overtaken <- positionOvertaken
AU == INSTANCE AudioControl WITH None <- NoSink, reading <- audioReading,
    pending <- nextLevel, listed <- sinkList, chosen <- chosenLevel
WP == INSTANCE WifiPanel WITH None <- NoArgument, service <- networkManager, calls <- wifiCalls,
    mail <- wifiMail, owner <- nameOwner, mapped <- wifiMapped, again <- loadAgain,
    listed <- networks

ASSUME ShellAssumption ==
    /\ NT!NoticeAssumption /\ TY!TrayAssumption /\ TM!MenuAssumption /\ RP!PanelAssumption
    /\ SM!MonitorAssumption /\ VW!WallAssumption /\ LA!LauncherAssumption
    /\ TW!TrayWatcherAssumption /\ MP!PositionAssumption /\ AU!AudioAssumption
    /\ WP!WifiAssumption

noticeVars == <<given, inbox, rows, timers, outbox, firstRow, muted, failing, panel, expected,
    evicted>>
trayVars == <<appLife, appAlive, trayListed, lister, registrations, warden, removals, awaited,
    lost, refresher, trayQueue, tray, trayOvertaken>>
menuVars == <<menu, fetches, pagesSeen, did>>
panelVars == <<open, recording, memory, seenOpen, seenRecording, seenMemory, processes, method,
    chosen, chosenX, chosenP, restored, running>>
settingsVars == <<held, shownSettings, batches, feedback, at, editing, clicked, overlap>>
monitorVars == <<service, present, on, phase, reading, told, readings, label, overtaken,
    crossed, unwatched, missed>>
wallVars == <<wallpaper, fullscreen, battery, suspended, generation, decoders, frames,
    shownFrame, looked, wallEnded>>
launcherVars == <<apps, query, selected, requests, started, exit, ended>>
surfaceVars == <<outputs, bars, panels, page, armed, latest, exiting>>
watcherVars == <<alive, shared, mail, items, hosts, waiting, calls, seen, hostSeen, sequence,
    takeovers>>
positionVars == <<playerLife, track, spot, positionMail, positionCalls, owner, shownPosition,
    base, positionOvertaken, mapped, positionReading, reread, positionPending, readOwner,
    seekOwner, positionMissed>>
audioVars == <<level, sink, lines, monitor, retry, debounce, audioReading, again, listing,
    listAgain, listDirty, writing, nextLevel, data, available, sinkList, visible, chosenLevel,
    unseenLevel, unseenSink, events>>
wifiVars == <<networkManager, lives, adapters, air, radio, conns, wifiCalls, wifiMail, nameOwner,
    wifi, wifiMapped, loading, loadAgain, scheduled, devices, networks, listOn, remaining, scanOn,
    connecting, form, watched, progress, stale, acts>>

shellVars == <<part, noticeVars, trayVars, menuVars, panelVars, settingsVars, monitorVars,
              wallVars, launcherVars, surfaceVars, watcherVars,
              positionVars, audioVars, wifiVars>>

In(p) == part = p

\* The parts that do not run start in one of their initial states.
ShellInit ==
    /\ part \in {"notices", "tray", "menu", "recorder", "settings", "monitors", "wallpaper",
                 "launcher", "surfaces", "watcher", "position", "audio",
                 "wifi"}
    /\ NT!NoticesInit /\ TY!TrayInit /\ TM!MenuInit
    /\ RP!PanelInit /\ (In("recorder") \/ (open = {} /\ ~recording /\ memory = 0))
    /\ RP!PanelSettingsInit /\ (In("settings") \/ (held.codec = "h264" /\ ~held.hdr))
    /\ SM!MonitorsInit /\ (In("monitors") \/ (service = "network" /\ on = {}))
    /\ VW!WallInit
    /\ In("wallpaper") \/ (wallpaper = [kind |-> "static", path |-> NoVideo, pause |-> FALSE] /\ ~battery)
    /\ LA!LauncherInit
    /\ SF!SurfacesInit /\ (In("surfaces") \/ latest = (CHOOSE o \in Outputs : TRUE))
    /\ TW!WatcherInit
    /\ MP!PositionInit /\ (In("position") \/ spot = 0)
    /\ AU!AudioInit /\ WP!WifiInit

ShellNext ==
    /\ UNCHANGED part
    /\ IF In("notices") THEN NT!NoticesNext ELSE UNCHANGED noticeVars
    /\ IF In("tray") THEN TY!TrayNext ELSE UNCHANGED trayVars
    /\ IF In("menu") THEN TM!MenuNext ELSE UNCHANGED menuVars
    /\ IF In("recorder") THEN RP!PanelNext ELSE UNCHANGED panelVars
    /\ IF In("settings") THEN RP!PanelSettingsNext ELSE UNCHANGED settingsVars
    /\ IF In("monitors") THEN SM!MonitorsNext ELSE UNCHANGED monitorVars
    /\ IF In("wallpaper") THEN VW!WallNext ELSE UNCHANGED wallVars
    /\ IF In("launcher") THEN LA!LauncherNext ELSE UNCHANGED launcherVars
    /\ IF In("surfaces") THEN SF!SurfacesNext ELSE UNCHANGED surfaceVars
    /\ IF In("watcher") THEN TW!WatcherNext ELSE UNCHANGED watcherVars
    /\ IF In("position") THEN MP!PositionNext ELSE UNCHANGED positionVars
    /\ IF In("audio") THEN AU!AudioNext ELSE UNCHANGED audioVars
    /\ IF In("wifi") THEN WP!WifiNext ELSE UNCHANGED wifiVars

ShellSpec == ShellInit /\ [][ShellNext]_shellVars

-----------------------------------------------------------------------------
(* Properties of the parts, where several belong together.                 *)

\* Each notification the service announced has a row or was closed, each row
\* that expires its timer, and the panel's cursor stays on a row.
NotificationsSound == In("notices") => NT!NoticesInv

\* The tray shows the applications that run, its menu the page asked for, and
\* the watcher lists items whose owner is alive and says so.
TrayShown ==
    /\ In("tray") => TY!TrayInv
    /\ In("menu") => TM!MenuInv
    /\ In("watcher") => TW!WatcherInv

\* What the recorder panel says can be started can be, and an edit changes the
\* setting it was made on.
PanelsSound ==
    /\ In("recorder") => RP!PanelInv
    /\ In("settings") => RP!PanelSettingsInv

\* Labels, the player's position, the volume and the networks catch up with what
\* they show, and the last volume the user gave is the one that stays.
LabelsSettle ==
    /\ In("monitors") => SM!MonitorsInv
    /\ In("position") => MP!PositionInv
    /\ In("audio") => AU!AudioInv
    /\ In("wifi") => WP!WifiInv

\* No redraw is lost, a confirmation is asked for on its page, one decoder runs,
\* and the launcher's selection is a result.
SurfacesSound ==
    /\ In("surfaces") => SF!SurfacesInv
    /\ In("wallpaper") => VW!WallInv
    /\ In("launcher") => LA!LauncherInv

MCPrograms == <<"a", "b", "c", "d">>
=============================================================================
