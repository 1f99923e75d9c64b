---------------------------- MODULE VideoWallpaper ---------------------------
(***************************************************************************)
(* The wallpaper process of the native shell (shell-sctk/src/main.rs): a   *)
(* video is decoded by a thread of its own, stopped by a generation number *)
(* it compares with the one it was started for.  Decoded frames wait in a  *)
(* channel of one; a decoder that finds it full blocks, and then no longer *)
(* looks at the generation.  Playback pauses under a fullscreen window     *)
(* and, if so configured, on battery.                                      *)
(* Left out: the buffers that go back to the decoder, sizes, frame rates.  *)
(***************************************************************************)
EXTENDS Naturals, Sequences, FiniteSets

CONSTANTS
    Videos,             \* paths that decode
    NoVideo,            \* the empty path
    Broken,             \* a path ffprobe or ffmpeg fails on
    MaxGeneration       \* bound: starts and stops of playback

WallAssumption == MaxGeneration \in Nat

VARIABLES
    wallpaper,          \* config.wallpaper: [kind, path, pause]
    fullscreen, battery,\* what the app knows of the snapshot and the supply
    suspended, generation,
    decoders,           \* threads: [generation, path, step]
    frames,             \* the channel
    shown,              \* video_frame: the path it is from, or NoVideo
    looked, ended       \* history: playback was decided on; its decoder gave up

playback == <<wallpaper, fullscreen, battery, suspended, generation, looked>>
wallVars == <<playback, decoders, frames, shown, ended>>

Paths == Videos \cup {NoVideo, Broken}
Wallpapers == [kind : {"video", "static"}, path : Paths, pause : BOOLEAN]

WallTypeOK ==
    /\ wallpaper \in Wallpapers /\ generation \in 0..MaxGeneration
    /\ {fullscreen, battery, suspended, looked, ended} \subseteq BOOLEAN
    /\ decoders \subseteq [generation : 0..MaxGeneration, path : Paths, step : {"probe", "reading", "sending"}]
    /\ frames \in Seq(Paths) /\ Len(frames) <= 1 /\ shown \in Paths

\* spawn_video_wallpaper, which does nothing for an empty path.
Decoder(g, p) == IF p = NoVideo THEN {} ELSE {[generation |-> g, path |-> p, step |-> "probe"]}

WallInit ==
    /\ wallpaper \in Wallpapers
    /\ battery \in BOOLEAN /\ fullscreen = FALSE
    /\ suspended = FALSE /\ generation = 0
    /\ decoders = IF wallpaper.kind = "video" THEN Decoder(0, wallpaper.path) ELSE {}
    /\ frames = <<>> /\ shown = NoVideo
    /\ looked = FALSE /\ ended = (wallpaper.path = NoVideo)

-----------------------------------------------------------------------------
(* The app.  Operators named Mut... are slips of the definition below them *)
(* that the properties must catch; no specification uses them.             *)

Suspends(w, f, b) == f \/ (w.pause /\ b)

\* update_video_wallpaper_playback with the new configuration, windows and
\* supply: nothing to do unless a video starts or stops.
Turns(w, f, b) == w.kind = "video" /\ suspended # Suspends(w, f, b)
MutTurn(w, f, b) ==
    /\ suspended' = IF Turns(w, f, b) THEN ~suspended ELSE suspended
    /\ IF Turns(w, f, b) /\ suspended
       THEN generation' = generation + 1 /\ decoders' = decoders \cup Decoder(generation + 1, w.path) /\ ended' = FALSE
       ELSE UNCHANGED <<generation, decoders, ended>>
Turn(w, f, b) ==
    IF Turns(w, f, b)
    THEN /\ suspended' = ~suspended
         /\ generation' = generation + 1
         /\ decoders' = decoders \cup (IF suspended THEN Decoder(generation + 1, w.path) ELSE {})
         /\ ended' = (suspended /\ w.path = NoVideo)
    ELSE UNCHANGED <<suspended, generation, decoders, ended>>

\* A snapshot, or the timer that reads the supply.
Update(f, b) ==
    /\ generation < MaxGeneration /\ <<f, b>> # <<fullscreen, battery>>
    /\ Turn(wallpaper, f, b)
    /\ fullscreen' = f /\ battery' = b
    /\ looked' = (looked \/ wallpaper.kind = "video")
    /\ UNCHANGED <<wallpaper, frames, shown>>

\* apply_config: playback is turned first, then a changed wallpaper drops the
\* frame and starts over, under a second generation.
Restarts(w) == w.path # wallpaper.path \/ w.kind # wallpaper.kind
MutReplaced(w, s, g) == Decoder(g, w.path)
Replaced(w, s, g) == IF w.kind = "video" /\ ~s THEN Decoder(g, w.path) ELSE {}
ApplyConfig(w) ==
    /\ generation + 1 < MaxGeneration /\ w # wallpaper
    /\ LET turns == Turns(w, fullscreen, battery)
           s == IF turns THEN ~suspended ELSE suspended
           g == generation + 2 IN
       IF Restarts(w)
       THEN /\ suspended' = s /\ shown' = NoVideo
            /\ generation' = IF turns THEN g ELSE g - 1
            /\ decoders' = decoders \cup Replaced(w, s, generation')
                 \cup (IF turns /\ suspended THEN Decoder(g - 1, w.path) ELSE {})
            /\ ended' = (w.path = NoVideo)
       ELSE Turn(w, fullscreen, battery) /\ UNCHANGED shown
    /\ wallpaper' = w /\ looked' = (looked \/ w.kind = "video")
    /\ UNCHANGED <<fullscreen, battery, frames>>

\* The event loop takes a frame, whatever decoder it is from.
Draw ==
    /\ frames # <<>>
    /\ shown' = Head(frames) /\ frames' = <<>>
    /\ UNCHANGED <<playback, decoders, ended>>

-----------------------------------------------------------------------------
(* The decoders.                                                           *)

Becomes(d, rest) == decoders' = (decoders \ {d}) \cup rest
GivesUp(d) ==
    /\ Becomes(d, {}) /\ ended' = (ended \/ d.generation = generation)
    /\ UNCHANGED <<playback, frames, shown>>

Probe(d) ==
    /\ d.step = "probe" /\ d.path # Broken
    /\ Becomes(d, {[d EXCEPT !.step = "reading"]})
    /\ UNCHANGED <<playback, frames, shown, ended>>
\* ffprobe fails, or ffmpeg ends.
Fails(d) == d.step = (IF d.path = Broken THEN "probe" ELSE "reading") /\ GivesUp(d)

\* A frame has been read, and the generation is looked at once more.
Frame(d) ==
    /\ d.step = "reading"
    /\ Becomes(d, IF d.generation = generation THEN {[d EXCEPT !.step = "sending"]} ELSE {})
    /\ UNCHANGED <<playback, frames, shown, ended>>
Send(d) ==
    /\ d.step = "sending" /\ frames = <<>>
    /\ frames' = <<d.path>>
    /\ Becomes(d, {[d EXCEPT !.step = "reading"]})
    /\ UNCHANGED <<playback, shown, ended>>

WallNext ==
    \/ \E f \in BOOLEAN, b \in BOOLEAN : Update(f, b)
    \/ \E w \in Wallpapers : ApplyConfig(w)
    \/ Draw
    \/ \E d \in decoders : Probe(d) \/ Fails(d) \/ Frame(d) \/ Send(d)

WallSpec == WallInit /\ [][WallNext]_wallVars

-----------------------------------------------------------------------------
(* Properties.                                                             *)

Current == {d \in decoders : d.generation = generation}
Plays == wallpaper.kind = "video" /\ ~suspended

\* One decoder answers for the wallpaper that is configured and may play, and
\* none for one that may not, however starts and stops followed each other.
OneDecoder ==
    /\ Cardinality(Current) <= 1
    /\ Current # {} => Plays
    /\ \A d \in Current : d.path = wallpaper.path
    /\ Plays /\ ~ended => Current # {}
    /\ Plays /\ looked => ~Suspends(wallpaper, fullscreen, battery)

\* A decoder of another generation is an earlier one, and no two of this one
\* were started: what makes OneDecoder hold through every start and stop.
WallInv ==
    /\ WallTypeOK
    /\ \A d \in decoders : d.generation <= generation
    /\ \A d, e \in Current : d = e
    /\ OneDecoder
=============================================================================
