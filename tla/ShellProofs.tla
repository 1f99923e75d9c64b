----------------------------- MODULE ShellProofs -----------------------------
(***************************************************************************)
(* Safety of parts of the two shells, for any constants: the surfaces, the *)
(* wallpaper's decoders and the launcher, the recorder panel, the tray     *)
(* with its menu, and the registry of tray items.  Each part's invariant   *)
(* is proved inductive for the steps of its own module; the steps of       *)
(* MCShell are those of one part.                                          *)
(***************************************************************************)
EXTENDS MCShell, Sequences, Retain, FiniteSetTheorems, SequenceTheorems

-----------------------------------------------------------------------------
(* Bars and panels: no redraw is lost.                                     *)

\* A surface that may show what is in L for now.
Within(s, L) == s.lags \subseteq L \/ SF!Due(s)

\* The fields of a surface, and of one drawn or asked for a callback.
LEMMA SurfaceFields ==
    ASSUME NEW s \in SF!Surface
    PROVE  /\ s.there \in BOOLEAN /\ s.configured \in BOOLEAN
           /\ s.pending \in BOOLEAN /\ s.requested \in BOOLEAN
           /\ s.lags \in SUBSET (SF!Measured \cup {"panel"})
  BY DEF SF!Surface

\* Drawing leaves a surface due, whatever it showed.
LEMMA DrawnIsDue ==
    ASSUME NEW s \in SF!Surface
    PROVE  SF!Drawn(s) \in SF!Surface /\ SF!Due(SF!Drawn(s))
  <1>1. CASE s.pending
    <2>1. SF!Drawn(s) = [s EXCEPT !.requested = TRUE]
      BY <1>1 DEF SF!Drawn
    <2>2. TRUE \in BOOLEAN
      OBVIOUS
    <2> QED
      BY <1>1, <2>1, <2>2 DEF SF!Surface, SF!Due
  <1>2. CASE ~s.pending
    <2>1. SF!Drawn(s) = [s EXCEPT !.pending = TRUE, !.requested = FALSE, !.lags = {}]
      BY <1>2 DEF SF!Drawn
    <2>2. TRUE \in BOOLEAN /\ FALSE \in BOOLEAN
      OBVIOUS
    <2> QED
      BY <2>1, <2>2 DEF SF!Surface, SF!Due
  <1> QED
    BY <1>1, <1>2, SurfaceFields

\* A configured surface is due, or has nothing to show.
LEMMA ConfiguredIsDue ==
    ASSUME NEW s \in SF!Surface
    PROVE  SF!Configured(s) \in SF!Surface /\ SF!Due(SF!Configured(s))
  <1>1. [s EXCEPT !.configured = TRUE] \in SF!Surface
    <2>1. TRUE \in BOOLEAN
      OBVIOUS
    <2> QED
      BY <2>1 DEF SF!Surface
  <1> QED
    BY <1>1, DrawnIsDue DEF SF!Configured

\* Marking a surface and redrawing it leaves it due.
LEMMA RedrawnIsDue ==
    ASSUME NEW s \in SF!Surface, NEW what \in SF!Measured \cup {"panel"}
    PROVE  /\ SF!Redrawn(s) \in SF!Surface /\ SF!Due(SF!Redrawn(s))
           /\ SF!Lag(s, what) \in SF!Surface
           /\ SF!Redrawn(SF!Lag(s, what)) \in SF!Surface
           /\ SF!Due(SF!Redrawn(SF!Lag(s, what)))
           /\ SF!Redrawn(s).there = s.there
  <1>1. \A t \in SF!Surface : SF!Redrawn(t) \in SF!Surface /\ SF!Due(SF!Redrawn(t))
    BY DrawnIsDue DEF SF!Redrawn, SF!Due
  <1>2. SF!Lag(s, what) \in SF!Surface
    BY DEF SF!Lag, SF!Surface
  <1>3. SF!Redrawn(s).there = s.there
    BY DEF SF!Redrawn, SF!Drawn, SF!Surface
  <1> QED
    BY <1>1, <1>2, <1>3

\* A callback replaces what it was asked to, and a surface that was due is due.
LEMMA CalledBackKeeps ==
    ASSUME NEW s \in SF!Surface
    PROVE  /\ SF!CalledBack(s) \in SF!Surface
           /\ SF!Due(s) => SF!Due(SF!CalledBack(s))
           /\ \A L : Within(s, L) => Within(SF!CalledBack(s), L)
  <1> DEFINE idle == [s EXCEPT !.pending = FALSE, !.requested = FALSE]
  <1>1. /\ idle \in SF!Surface /\ idle.lags = s.lags /\ idle.configured = s.configured
    <2>1. FALSE \in BOOLEAN
      OBVIOUS
    <2> QED
      BY <2>1 DEF SF!Surface
  <1>2. SF!CalledBack(s) = IF s.requested THEN SF!Drawn(idle) ELSE idle
    BY DEF SF!CalledBack
  <1> HIDE DEF idle
  <1>3. CASE s.requested
    BY <1>1, <1>2, <1>3, DrawnIsDue DEF Within
  <1>4. CASE ~s.requested
    BY <1>1, <1>2, <1>4 DEF Within, SF!Due
  <1> QED
    BY <1>3, <1>4, SurfaceFields

\* Surfaces begin with nothing shown that lags.
LEMMA NewSurfaces ==
    /\ SF!Gone \in SF!Surface /\ SF!New \in SF!Surface
    /\ SF!Due(SF!Gone) /\ SF!Due(SF!New)
  <1>1. TRUE \in BOOLEAN /\ FALSE \in BOOLEAN
    OBVIOUS
  <1>2. SF!Gone \in SF!Surface /\ ~SF!Gone.configured
    BY <1>1 DEF SF!Gone, SF!Surface
  <1>3. SF!New \in SF!Surface /\ SF!New.configured = SF!Gone.configured
    BY <1>1, <1>2 DEF SF!New, SF!Surface
  <1> QED
    BY <1>2, <1>3 DEF SF!Due

\* The first surfaces of the outputs satisfy the invariant.
LEMMA SurfacesStart == SF!SurfacesInit => SF!SurfacesInv
  <1> SUFFICES ASSUME SF!SurfacesInit PROVE SF!SurfacesInv
    OBVIOUS
  <1>1. armed \in BOOLEAN /\ exiting \in BOOLEAN
    BY DEF SF!SurfacesInit
  <1>2. SF!SurfacesTypeOK
    BY <1>1, NewSurfaces DEF SF!SurfacesInit, SF!SurfacesTypeOK, SF!Pages
  <1>3. SF!NoLostRedraw /\ SF!ArmedOnThePage
    BY NewSurfaces DEF SF!SurfacesInit, SF!NoLostRedraw, SF!ArmedOnThePage
  <1> QED
    BY <1>2, <1>3 DEF SF!SurfacesInv

\* What the properties ask of the bars and of the panels, one surface at a time.
BarsWell(f) == \A o \in Outputs : f[o] \in SF!Surface /\ Within(f[o], {"recorder"})
\* A panel that is not due is not the last drawn.
PanelsWell(f, last) == \A o \in Outputs : f[o] \in SF!Surface /\ (SF!Due(f[o]) \/ last # o)

\* The invariant, one fact per surface.
LEMMA SurfacesLaw ==
    SF!SurfacesInv <=>
        /\ outputs \subseteq Outputs /\ latest \in Outputs
        /\ bars \in [Outputs -> SF!Surface] /\ panels \in [Outputs -> SF!Surface]
        /\ page \in SF!Pages /\ armed \in BOOLEAN /\ exiting \in BOOLEAN
        /\ BarsWell(bars) /\ PanelsWell(panels, latest)
        /\ (armed => page = "power")
  BY DEF SF!SurfacesInv, SF!SurfacesTypeOK, SF!NoLostRedraw, SF!ArmedOnThePage, BarsWell,
         PanelsWell, Within

\* The same of the next state.
LEMMA SurfacesLawNext ==
    SF!SurfacesInv' <=>
        /\ outputs' \subseteq Outputs /\ latest' \in Outputs
        /\ bars' \in [Outputs -> SF!Surface] /\ panels' \in [Outputs -> SF!Surface]
        /\ page' \in SF!Pages /\ armed' \in BOOLEAN /\ exiting' \in BOOLEAN
        /\ BarsWell(bars') /\ PanelsWell(panels', latest')
        /\ (armed' => page' = "power")
  BY DEF SF!SurfacesInv, SF!SurfacesTypeOK, SF!NoLostRedraw, SF!ArmedOnThePage, BarsWell,
         PanelsWell, Within

\* Redrawing all of a kind, after marking them or not.
LEMMA RedrawAllWell ==
    ASSUME NEW f \in [Outputs -> SF!Surface], NEW what \in SF!Measured \cup {"panel"}, NEW last
    PROVE  /\ SF!RedrawAll(f) \in [Outputs -> SF!Surface]
           /\ SF!RedrawAll(SF!AllLag(f, what)) \in [Outputs -> SF!Surface]
           /\ BarsWell(SF!RedrawAll(f)) /\ BarsWell(SF!RedrawAll(SF!AllLag(f, what)))
           /\ PanelsWell(SF!RedrawAll(f), last)
           /\ PanelsWell(SF!RedrawAll(SF!AllLag(f, what)), last)
  <1>1. \A o \in Outputs : f[o] \in SF!Surface
    OBVIOUS
  <1>2. \A o \in Outputs :
            /\ SF!RedrawAll(f)[o] = SF!Redrawn(f[o])
            /\ SF!AllLag(f, what)[o] = SF!Lag(f[o], what)
            /\ SF!RedrawAll(SF!AllLag(f, what))[o] = SF!Redrawn(SF!Lag(f[o], what))
    BY DEF SF!RedrawAll, SF!AllLag
  <1>3. /\ SF!RedrawAll(f) \in [Outputs -> SF!Surface]
        /\ SF!RedrawAll(SF!AllLag(f, what)) \in [Outputs -> SF!Surface]
    BY <1>1, RedrawnIsDue DEF SF!RedrawAll, SF!AllLag
  <1> QED
    BY <1>1, <1>2, <1>3, RedrawnIsDue DEF BarsWell, PanelsWell, Within

\* Each event of the shell's loop leaves what lags due for a redraw.
LEMMA SurfacesStep == SF!SurfacesInv /\ [SF!SurfacesNext]_surfaceVars => SF!SurfacesInv'
  <1> SUFFICES ASSUME SF!SurfacesInv, [SF!SurfacesNext]_surfaceVars PROVE SF!SurfacesInv'
    OBVIOUS
  <1>0. /\ outputs \subseteq Outputs /\ latest \in Outputs
        /\ bars \in [Outputs -> SF!Surface] /\ panels \in [Outputs -> SF!Surface]
        /\ page \in SF!Pages /\ armed \in BOOLEAN /\ exiting \in BOOLEAN
        /\ BarsWell(bars) /\ PanelsWell(panels, latest)
        /\ (armed => page = "power")
    BY SurfacesLaw
  <1>a. \A o \in Outputs : bars[o] \in SF!Surface /\ panels[o] \in SF!Surface
    BY <1>0
  <1>b. {"labels", "recorder", "panel"} \subseteq SF!Measured \cup {"panel"}
    BY DEF SF!Measured
  \* One surface replaced by a good one.
  <1>c. ASSUME NEW o \in Outputs, NEW s \in SF!Surface
        PROVE  /\ [bars EXCEPT ![o] = s] \in [Outputs -> SF!Surface]
               /\ [panels EXCEPT ![o] = s] \in [Outputs -> SF!Surface]
               /\ Within(s, {"recorder"}) => BarsWell([bars EXCEPT ![o] = s])
               /\ SF!Due(s) \/ latest # o => PanelsWell([panels EXCEPT ![o] = s], latest)
    BY <1>0, <1>a DEF BarsWell, PanelsWell
  <1>d. \A s \in SF!Surface : SF!Due(s) => Within(s, {"recorder"})
    BY DEF Within
  <1>e. \A b \in BOOLEAN : TRUE
    OBVIOUS
  <1>1. ASSUME NEW o \in Outputs, SF!Configure(o) PROVE SF!SurfacesInv'
    <2>1. UNCHANGED <<outputs, page, armed, latest, exiting>>
      BY <1>1 DEF SF!Configure
    <2>2. \/ bars' = [bars EXCEPT ![o] = SF!Configured(bars[o])] /\ UNCHANGED panels
          \/ panels' = [panels EXCEPT ![o] = SF!Configured(panels[o])] /\ UNCHANGED bars
      BY <1>1 DEF SF!Configure
    <2>3. /\ SF!Configured(bars[o]) \in SF!Surface /\ SF!Due(SF!Configured(bars[o]))
          /\ SF!Configured(panels[o]) \in SF!Surface /\ SF!Due(SF!Configured(panels[o]))
      BY <1>a, ConfiguredIsDue
    <2>4. /\ bars' \in [Outputs -> SF!Surface] /\ panels' \in [Outputs -> SF!Surface]
          /\ BarsWell(bars') /\ PanelsWell(panels', latest)
      <3>1. CASE bars' = [bars EXCEPT ![o] = SF!Configured(bars[o])] /\ UNCHANGED panels
        BY <1>0, <1>c, <1>d, <2>3, <3>1
      <3>2. CASE panels' = [panels EXCEPT ![o] = SF!Configured(panels[o])] /\ UNCHANGED bars
        BY <1>0, <1>c, <1>d, <2>3, <3>2
      <3> QED
        BY <2>2, <3>1, <3>2
    <2> QED
      BY <1>0, <2>1, <2>4, SurfacesLawNext
  <1>2. ASSUME NEW o \in Outputs, SF!Frame(o) PROVE SF!SurfacesInv'
    <2>1. UNCHANGED <<outputs, page, armed, latest, exiting>>
      BY <1>2 DEF SF!Frame
    <2>2. \/ bars' = [bars EXCEPT ![o] = SF!CalledBack(bars[o])] /\ UNCHANGED panels
          \/ panels' = [panels EXCEPT ![o] = SF!CalledBack(panels[o])] /\ UNCHANGED bars
      BY <1>2 DEF SF!Frame
    <2>3. /\ SF!CalledBack(bars[o]) \in SF!Surface /\ Within(SF!CalledBack(bars[o]), {"recorder"})
          /\ SF!CalledBack(panels[o]) \in SF!Surface
          /\ SF!Due(SF!CalledBack(panels[o])) \/ latest # o
      BY <1>0, <1>a, CalledBackKeeps DEF BarsWell, PanelsWell
    <2>4. /\ bars' \in [Outputs -> SF!Surface] /\ panels' \in [Outputs -> SF!Surface]
          /\ BarsWell(bars') /\ PanelsWell(panels', latest)
      <3>1. CASE bars' = [bars EXCEPT ![o] = SF!CalledBack(bars[o])] /\ UNCHANGED panels
        BY <1>0, <1>c, <2>3, <3>1
      <3>2. CASE panels' = [panels EXCEPT ![o] = SF!CalledBack(panels[o])] /\ UNCHANGED bars
        BY <1>0, <1>c, <2>3, <3>2
      <3> QED
        BY <2>2, <3>1, <3>2
    <2> QED
      BY <1>0, <2>1, <2>4, SurfacesLawNext
  <1>3. ASSUME NEW o \in Outputs, SF!NewOutput(o) PROVE SF!SurfacesInv'
    <2>1. /\ outputs' = outputs \cup {o} /\ bars' = [bars EXCEPT ![o] = SF!New]
          /\ UNCHANGED <<panels, page, armed, latest, exiting>>
      BY <1>3 DEF SF!NewOutput
    <2> QED
      BY <1>0, <1>c, <1>d, <2>1, NewSurfaces, SurfacesLawNext
  <1>4. ASSUME NEW o \in Outputs, SF!OutputDestroyed(o) PROVE SF!SurfacesInv'
    <2>1. /\ outputs' = outputs \ {o}
          /\ bars' = [bars EXCEPT ![o] = SF!Gone] /\ panels' = [panels EXCEPT ![o] = SF!Gone]
          /\ UNCHANGED <<page, armed, latest, exiting>>
      BY <1>4 DEF SF!OutputDestroyed
    <2> QED
      BY <1>0, <1>c, <1>d, <2>1, NewSurfaces, SurfacesLawNext
  <1>5. ASSUME NEW o \in Outputs, SF!Closed(o) PROVE SF!SurfacesInv'
    <2>1. /\ \/ bars' = [bars EXCEPT ![o] = SF!Gone] /\ UNCHANGED panels
             \/ panels' = [panels EXCEPT ![o] = SF!Gone] /\ UNCHANGED bars
          /\ UNCHANGED <<outputs, page, armed, latest>>
      BY <1>5 DEF SF!Closed
    <2>2. exiting' \in BOOLEAN
      BY <1>5, Zenon DEF SF!Closed
    <2>3. /\ bars' \in [Outputs -> SF!Surface] /\ panels' \in [Outputs -> SF!Surface]
          /\ BarsWell(bars') /\ PanelsWell(panels', latest)
      <3>1. CASE bars' = [bars EXCEPT ![o] = SF!Gone] /\ UNCHANGED panels
        BY <1>0, <1>c, <1>d, <3>1, NewSurfaces
      <3>2. CASE panels' = [panels EXCEPT ![o] = SF!Gone] /\ UNCHANGED bars
        BY <1>0, <1>c, <1>d, <3>2, NewSurfaces
      <3> QED
        BY <2>1, <3>1, <3>2
    <2> QED
      BY <1>0, <2>1, <2>2, <2>3, SurfacesLawNext
  <1>6. ASSUME SF!LabelChanges PROVE SF!SurfacesInv'
    <2>1. /\ bars' = SF!RedrawAll(SF!AllLag(bars, "labels")) /\ panels' = SF!RedrawAll(panels)
          /\ UNCHANGED <<outputs, page, armed, latest, exiting>>
      BY <1>6 DEF SF!LabelChanges, SF!Labels
    <2> QED
      BY <1>0, <1>b, <2>1, RedrawAllWell, SurfacesLawNext
  <1>7. ASSUME SF!RecorderChanges PROVE SF!SurfacesInv'
    <2>1. /\ bars' = SF!AllLag(bars, "recorder")
          /\ UNCHANGED <<outputs, panels, page, armed, latest, exiting>>
      BY <1>7 DEF SF!RecorderChanges
    <2>2. \A o \in Outputs :
              /\ SF!Lag(bars[o], "recorder") \in SF!Surface
              /\ Within(SF!Lag(bars[o], "recorder"), {"recorder"})
      <3> TAKE o \in Outputs
      <3>1. Within(bars[o], {"recorder"})
        BY <1>0 DEF BarsWell
      <3>2. CASE bars[o].configured
        <4> DEFINE t == [bars[o] EXCEPT !.lags = bars[o].lags \cup {"recorder"}]
        <4>1. SF!Lag(bars[o], "recorder") = t
          BY <3>2 DEF SF!Lag
        <4>2. /\ t \in SF!Surface /\ t.lags = bars[o].lags \cup {"recorder"}
              /\ t.pending = bars[o].pending /\ t.requested = bars[o].requested
          BY <1>a, <1>b DEF SF!Surface
        <4> HIDE DEF t
        <4> QED
          BY <3>1, <3>2, <4>1, <4>2 DEF Within, SF!Due
      <3>3. CASE ~bars[o].configured
        BY <1>a, <3>1, <3>3 DEF SF!Lag
      <3> QED
        BY <3>2, <3>3, Zenon
    <2>3. bars' \in [Outputs -> SF!Surface] /\ BarsWell(bars')
      BY <2>1, <2>2 DEF SF!AllLag, BarsWell
    <2> QED
      BY <1>0, <2>1, <2>3, SurfacesLawNext
  <1>8. ASSUME NEW o \in Outputs, SF!HideControls(o) PROVE SF!SurfacesInv'
    <2>1. /\ page' = "none" /\ armed' = FALSE
          /\ panels' = SF!RedrawAll(SF!AllLag(panels, "panel"))
          /\ UNCHANGED <<outputs, bars, latest, exiting>>
      BY <1>8 DEF SF!HideControls, SF!Hidden
    <2>2. armed' \in BOOLEAN
      BY <2>1
    <2>3. panels' \in [Outputs -> SF!Surface] /\ PanelsWell(panels', latest)
      BY <1>0, <1>b, <2>1, RedrawAllWell
    <2>4. page' \in SF!Pages
      BY <2>1 DEF SF!Pages
    <2> QED
      BY <1>0, <2>1, <2>2, <2>3, <2>4, SurfacesLawNext
  <1>9. ASSUME NEW o \in Outputs, NEW p \in SF!Pages \ {"none"}, SF!ShowControls(o, p)
        PROVE  SF!SurfacesInv'
    <2> DEFINE s == IF SF!AllLag(panels, "panel")[o].there
                    THEN SF!Redrawn(SF!AllLag(panels, "panel")[o]) ELSE SF!New
    <2>1. /\ page' = p /\ armed' = FALSE /\ latest' = o
          /\ panels' = [SF!AllLag(panels, "panel") EXCEPT ![o] = s]
          /\ UNCHANGED <<outputs, bars, exiting>>
      BY <1>9 DEF SF!ShowControls
    <2>2. armed' \in BOOLEAN
      BY <2>1
    <2>3. SF!AllLag(panels, "panel") \in [Outputs -> SF!Surface]
      BY <1>a, <1>b, RedrawnIsDue DEF SF!AllLag
    <2>4. s \in SF!Surface /\ SF!Due(s)
      BY <1>b, <2>3, NewSurfaces, RedrawnIsDue
    <2> HIDE DEF s
    <2>5. panels' \in [Outputs -> SF!Surface] /\ PanelsWell(panels', o)
      BY <2>1, <2>3, <2>4 DEF PanelsWell
    <2> QED
      BY <1>0, <2>1, <2>2, <2>5, SurfacesLawNext
  <1>10. ASSUME NEW o \in Outputs, NEW row \in SF!Rows, SF!PressPower(o, row)
         PROVE  SF!SurfacesInv'
    <2>1. /\ page = "power"
          /\ bars' = SF!RedrawAll(bars)
          /\ \/ panels' = SF!RedrawAll(panels)
             \/ panels' = SF!RedrawAll(SF!AllLag(panels, "panel"))
          /\ UNCHANGED <<outputs, page, latest, exiting>>
      BY <1>10 DEF SF!PressPower
    <2>2. armed' \in BOOLEAN
      <3>1. armed' = IF armed THEN ~SF!Cancels(row) ELSE SF!Arms(row)
        BY <1>10 DEF SF!PressPower
      <3>2. SF!Cancels(row) \in BOOLEAN /\ SF!Arms(row) \in BOOLEAN
        BY DEF SF!Cancels, SF!Arms
      <3> QED
        BY <3>1, <3>2
    <2>3. /\ bars' \in [Outputs -> SF!Surface] /\ BarsWell(bars')
          /\ panels' \in [Outputs -> SF!Surface] /\ PanelsWell(panels', latest)
      BY <1>0, <1>b, <2>1, RedrawAllWell
    <2> QED
      BY <1>0, <2>1, <2>2, <2>3, SurfacesLawNext
  <1>11. CASE UNCHANGED surfaceVars
    BY <1>0, <1>11, SurfacesLawNext DEF surfaceVars
  <1> QED
    BY <1>1, <1>2, <1>3, <1>4, <1>5, <1>6, <1>7, <1>8, <1>9, <1>10, <1>11
       DEF SF!SurfacesNext, SF!PressBar, SF!PowerOff

-----------------------------------------------------------------------------
(* The video wallpaper: one decoder.                                       *)

\* The threads that decode.
Threads == [generation : 0 .. MaxGeneration, path : VW!Paths, step : {"probe", "reading", "sending"}]

\* What OneDecoder asks of the decoders ds when the generation is g, the wallpaper
\* w is suspended or not, and its decoder gave up or not.
Decode(ds, g, w, stopped, quit) ==
    /\ \A d \in ds : d.generation <= g
    /\ \A d, e \in ds : d.generation = g /\ e.generation = g => d = e
    /\ \A d \in ds : d.generation = g => d.path = w.path /\ w.kind = "video" /\ ~stopped
    /\ w.kind = "video" /\ ~stopped /\ ~quit => \E d \in ds : d.generation = g

\* A playback that was decided on is one that may be.
Decided(w, f, b, stopped, decided) ==
    w.kind = "video" /\ ~stopped /\ decided => ~VW!Suspends(w, f, b)

\* A decoder is counted as in any set.
LEMMA SameCount ==
    ASSUME NEW S
    PROVE  VW!Cardinality(S) = Cardinality(S)
  BY DEF VW!Cardinality, Cardinality, VW!IsFiniteSet, IsFiniteSet

\* At most one, counted or compared.
LEMMA AtMostOne ==
    ASSUME NEW S, \A x, y \in S : x = y
    PROVE  Cardinality(S) <= 1
  <1>1. CASE S = {}
    BY <1>1, FS_EmptySet
  <1>2. CASE S # {}
    <2>1. PICK x \in S : TRUE
      BY <1>2
    <2>2. S = {x}
      BY <2>1
    <2> QED
      BY <2>2, FS_Singleton
  <1> QED
    BY <1>1, <1>2

\* The invariant, one fact per thread.
LEMMA WallLaw ==
    VW!WallInv <=>
        /\ VW!WallTypeOK
        /\ Decode(decoders, generation, wallpaper, suspended, wallEnded)
        /\ Decided(wallpaper, fullscreen, battery, suspended, looked)
  <1>1. (\A d, e \in VW!Current : d = e) => VW!Cardinality(VW!Current) <= 1
    BY AtMostOne, SameCount
  <1> QED
    BY <1>1 DEF VW!WallInv, VW!OneDecoder, VW!Current, VW!Plays, Decode, Decided

\* The same of the next state.
LEMMA WallLawNext ==
    VW!WallInv' <=>
        /\ VW!WallTypeOK'
        /\ Decode(decoders', generation', wallpaper', suspended', wallEnded')
        /\ Decided(wallpaper', fullscreen', battery', suspended', looked')
  <1>1. (\A d, e \in VW!Current' : d = e) => VW!Cardinality(VW!Current') <= 1
    BY AtMostOne, SameCount
  <1>2. VW!Cardinality(VW!Current)' = VW!Cardinality(VW!Current')
    BY SameCount DEF VW!Cardinality, VW!IsFiniteSet
  <1> QED
    BY <1>1, <1>2 DEF VW!WallInv, VW!OneDecoder, VW!Current, VW!Plays, VW!Suspends, Decode, Decided

\* The fields of a decoder, at each of its points.
LEMMA DecoderFields ==
    ASSUME NEW g \in 0 .. MaxGeneration, NEW p \in VW!Paths
    PROVE  /\ VW!Decoder(g, p) \subseteq Threads
           /\ \A d \in VW!Decoder(g, p) : d.generation = g /\ d.path = p
           /\ \A d, e \in VW!Decoder(g, p) : d = e
           /\ p # NoVideo => VW!Decoder(g, p) # {}
  <1> DEFINE e == [generation |-> g, path |-> p, step |-> "probe"]
  <1>1. VW!Decoder(g, p) = IF p = NoVideo THEN {} ELSE {e}
    BY DEF VW!Decoder
  <1>2. e \in Threads /\ e.generation = g /\ e.path = p
    BY DEF Threads
  <1> HIDE DEF e
  <1> QED
    BY <1>1, <1>2

\* What is started in a new generation answers for it alone.
LEMMA StartsOver ==
    ASSUME NEW ds, NEW more, NEW g \in Nat, NEW h \in Nat, g < h,
           ds \subseteq Threads, more \subseteq Threads,
           \A d \in ds : d.generation <= g,
           NEW w, NEW stopped, NEW quit, Decode(more, h, w, stopped, quit)
    PROVE  Decode(ds \cup more, h, w, stopped, quit)
  <1>1. \A d \in ds : d.generation \in Nat /\ d.generation <= h /\ d.generation # h
    BY DEF Threads
  <1> QED
    BY <1>1 DEF Decode

\* A turn of the shell's loop keeps what the settings asked of the wallpaper.
LEMMA TurnStep ==
    ASSUME VW!WallInv, NEW w \in VW!Wallpapers, NEW f \in BOOLEAN, NEW b \in BOOLEAN,
           w.kind = wallpaper.kind, w.path = wallpaper.path,
           generation + 1 <= MaxGeneration, VW!Turn(w, f, b), wallpaper' = w,
           fullscreen' = f, battery' = b
    PROVE  /\ suspended' \in BOOLEAN /\ wallEnded' \in BOOLEAN
           /\ generation' \in 0 .. MaxGeneration /\ decoders' \subseteq Threads
           /\ Decode(decoders', generation', w, suspended', wallEnded')
           /\ w.kind = "video" => suspended' = VW!Suspends(w, f, b)
  <1>0. /\ suspended \in BOOLEAN /\ wallEnded \in BOOLEAN /\ generation \in 0 .. MaxGeneration
        /\ decoders \subseteq Threads /\ MaxGeneration \in Nat
        /\ Decode(decoders, generation, wallpaper, suspended, wallEnded)
    BY WallLaw, ShellAssumption DEF VW!WallTypeOK, VW!WallAssumption, Threads
  <1>a. VW!Suspends(w, f, b) \in BOOLEAN
    BY DEF VW!Suspends, VW!Wallpapers
  <1>1. CASE VW!Turns(w, f, b)
    <2> DEFINE h == generation + 1
               more == IF suspended THEN VW!Decoder(h, w.path) ELSE {}
    <2>1. /\ suspended' = ~suspended /\ generation' = h /\ decoders' = decoders \cup more
          /\ w.kind = "video" /\ suspended # VW!Suspends(w, f, b)
      BY <1>1 DEF VW!Turn, VW!Turns
    <2>2. wallEnded' = (suspended /\ w.path = NoVideo)
      BY <1>1 DEF VW!Turn
    <2>3. wallEnded' \in BOOLEAN /\ suspended' \in BOOLEAN
      BY <2>1, <2>2
    <2>4. h \in 0 .. MaxGeneration /\ generation \in Nat /\ h \in Nat /\ generation < h
      BY <1>0
    <2>5. w.path \in VW!Paths
      BY DEF VW!Wallpapers
    <2>11. w.kind = "video"
      BY <2>1
    <2> HIDE DEF h
    <2>6. more \subseteq Threads
      BY <2>4, <2>5, DecoderFields
    <2>7. Decode(more, h, w, ~suspended, wallEnded')
      <3>1. CASE suspended
        <4>1. more = VW!Decoder(h, w.path)
          BY <3>1
        <4>3. ~wallEnded' => w.path # NoVideo
          BY <2>2, <3>1, Zenon
        <4>2. /\ \A d \in more : d.generation = h /\ d.path = w.path
              /\ \A d, e \in more : d = e
              /\ w.path # NoVideo => more # {}
          BY <2>4, <2>5, <4>1, DecoderFields
        <4> HIDE DEF more
        <4> QED
          BY <2>4, <2>11, <3>1, <4>2, <4>3 DEF Decode
      <3>2. CASE ~suspended
        <4>1. more = {}
          BY <3>2
        <4> HIDE DEF more
        <4> QED
          BY <3>2, <4>1 DEF Decode
      <3> QED
        BY <3>1, <3>2
    <2>8. \A d \in decoders : d.generation <= generation
      BY <1>0 DEF Decode
    <2>9. Decode(decoders', h, w, suspended', wallEnded')
      <3> HIDE DEF more
      <3> QED
        BY <1>0, <2>1, <2>4, <2>6, <2>7, <2>8, StartsOver
    <2>10. suspended' = VW!Suspends(w, f, b)
      BY <1>0, <1>a, <2>1
    <2> QED
      BY <1>0, <2>1, <2>3, <2>4, <2>6, <2>9, <2>10
  <1>2. CASE ~VW!Turns(w, f, b)
    <2>1. UNCHANGED <<suspended, generation, decoders, wallEnded>>
      BY <1>2 DEF VW!Turn
    <2>2. w.kind = "video" => suspended = VW!Suspends(w, f, b)
      BY <1>0, <1>2, <1>a DEF VW!Turns
    <2> QED
      BY <1>0, <2>1, <2>2 DEF Decode
  <1> QED
    BY <1>1, <1>2

\* Applying a wallpaper makes every decoder that runs stale but the one it starts.
LEMMA ApplyStep ==
    ASSUME VW!WallInv, NEW w \in VW!Wallpapers, VW!ApplyConfig(w)
    PROVE  VW!WallInv'
  <1>0. /\ suspended \in BOOLEAN /\ wallEnded \in BOOLEAN /\ generation \in 0 .. MaxGeneration
        /\ fullscreen \in BOOLEAN /\ battery \in BOOLEAN /\ looked \in BOOLEAN
        /\ decoders \subseteq Threads /\ MaxGeneration \in Nat
        /\ Decode(decoders, generation, wallpaper, suspended, wallEnded)
        /\ frames \in Seq(VW!Paths) /\ Len(frames) <= 1 /\ shownFrame \in VW!Paths
    BY WallLaw, ShellAssumption DEF VW!WallTypeOK, VW!WallAssumption, Threads
  <1>1. /\ generation + 1 < MaxGeneration
        /\ wallpaper' = w /\ UNCHANGED <<fullscreen, battery, frames>>
    BY DEF VW!ApplyConfig
  <1>2. looked' \in BOOLEAN
    BY DEF VW!ApplyConfig
  <1>3. VW!Suspends(w, fullscreen, battery) \in BOOLEAN
    BY <1>0 DEF VW!Suspends, VW!Wallpapers
  <1>4. w.path \in VW!Paths /\ w.kind \in {"video", "static"}
    BY DEF VW!Wallpapers
  <1>5. /\ suspended' \in BOOLEAN /\ wallEnded' \in BOOLEAN
        /\ generation' \in 0 .. MaxGeneration /\ decoders' \subseteq Threads
        /\ Decode(decoders', generation', w, suspended', wallEnded')
        /\ w.kind = "video" => suspended' = VW!Suspends(w, fullscreen, battery)
        /\ shownFrame' \in VW!Paths
    <2>1. CASE VW!Restarts(w)
      <3> DEFINE turns == VW!Turns(w, fullscreen, battery)
                 s == IF turns THEN ~suspended ELSE suspended
                 g == generation + 2
                 h == generation'
                 old == IF turns /\ suspended THEN VW!Decoder(g - 1, w.path) ELSE {}
                 new == VW!Replaced(w, s, h)
      <3>1. /\ suspended' = s /\ shownFrame' = NoVideo
            /\ h = IF turns THEN g ELSE g - 1
            /\ decoders' = decoders \cup new \cup old
        BY <2>1 DEF VW!ApplyConfig
      <3>2. wallEnded' = (w.path = NoVideo)
        BY <2>1 DEF VW!ApplyConfig
      <3>3. wallEnded' \in BOOLEAN /\ shownFrame' \in VW!Paths
        BY <3>1, <3>2 DEF VW!Paths
      <3>4. turns \in BOOLEAN /\ s \in BOOLEAN
        <4>1. turns \in BOOLEAN
          BY DEF VW!Turns
        <4> HIDE DEF turns
        <4> QED
          BY <1>0, <4>1
      <3>5. w.kind = "video" => s = VW!Suspends(w, fullscreen, battery)
        BY <1>0, <1>3 DEF VW!Turns
      <3> HIDE DEF turns, s
      <3>6. /\ h \in 0 .. MaxGeneration /\ h \in Nat /\ generation \in Nat /\ generation < h
            /\ turns => g - 1 \in 0 .. MaxGeneration /\ g - 1 < h /\ g - 1 \in Nat
        BY <1>0, <1>1, <3>1, <3>4
      <3>7. /\ old \subseteq Threads /\ \A d \in old : d.generation < h
        BY <1>4, <3>6, DecoderFields
      <3> HIDE DEF h
      <3>8. /\ new \subseteq Threads
            /\ \A d \in new : d.generation = h /\ d.path = w.path /\ w.kind = "video" /\ ~s
            /\ \A d, e \in new : d = e
            /\ w.kind = "video" /\ ~s /\ w.path # NoVideo => new # {}
        BY <1>4, <3>6, DecoderFields DEF VW!Replaced
      <3> HIDE DEF new, old
      <3>9. Decode(new \cup old, h, w, s, wallEnded')
        <4>1. \A d \in new \cup old : d.generation = h => d \in new
          BY <3>6, <3>7 DEF Threads
        <4>2. \A d \in new \cup old : d.generation \in Nat /\ d.generation <= h
          BY <3>6, <3>7, <3>8 DEF Threads
        <4> QED
          BY <3>2, <3>8, <4>1, <4>2 DEF Decode
      <3>10. \A d \in decoders : d.generation <= generation
        BY <1>0 DEF Decode
      <3>11. Decode(decoders', h, w, s, wallEnded')
        <4>1. decoders' = decoders \cup (new \cup old) /\ new \cup old \subseteq Threads
          BY <3>1, <3>7, <3>8
        <4> QED
          BY <1>0, <3>6, <3>9, <3>10, <4>1, StartsOver
      <3> QED
        BY <1>0, <3>1, <3>3, <3>4, <3>5, <3>6, <3>7, <3>8, <3>11 DEF h
    <2>2. CASE ~VW!Restarts(w)
      <3>1. /\ VW!Turn(w, fullscreen, battery) /\ UNCHANGED shownFrame
            /\ w.path = wallpaper.path /\ w.kind = wallpaper.kind
        BY <2>2 DEF VW!ApplyConfig, VW!Restarts
      <3> QED
        BY <1>0, <1>1, <3>1, TurnStep
    <2> QED
      BY <2>1, <2>2
  <1>6. VW!WallTypeOK'
    BY <1>0, <1>1, <1>2, <1>5 DEF VW!WallTypeOK, Threads
  <1>7. Decided(wallpaper', fullscreen', battery', suspended', looked')
    BY <1>1, <1>5 DEF Decided
  <1> QED
    BY <1>1, <1>5, <1>6, <1>7, WallLawNext

\* A decoder that goes on, and one that goes.
LEMMA DecoderMoves ==
    ASSUME VW!WallInv, NEW d \in decoders, NEW step \in {"probe", "reading", "sending"},
           decoders' = (decoders \ {d}) \cup {[d EXCEPT !.step = step]}
    PROVE  /\ decoders' \subseteq Threads
           /\ Decode(decoders', generation, wallpaper, suspended, wallEnded)
  <1>0. /\ decoders \subseteq Threads
        /\ Decode(decoders, generation, wallpaper, suspended, wallEnded)
    BY WallLaw DEF VW!WallTypeOK, Threads
  <1> DEFINE e == [d EXCEPT !.step = step]
  <1>1. e \in Threads /\ e.generation = d.generation /\ e.path = d.path
    BY <1>0 DEF Threads
  <1> HIDE DEF e
  <1>2. decoders' = (decoders \ {d}) \cup {e}
    BY DEF e
  <1> QED
    BY <1>0, <1>1, <1>2 DEF Decode

\* What a thread that ends leaves.
LEMMA DecoderGoes ==
    ASSUME VW!WallInv, NEW d \in decoders, NEW quit \in BOOLEAN,
           quit = (wallEnded \/ d.generation = generation) \/ (quit = wallEnded /\ d.generation # generation),
           decoders' = decoders \ {d}
    PROVE  /\ decoders' \subseteq Threads
           /\ Decode(decoders', generation, wallpaper, suspended, quit)
  <1>0. /\ decoders \subseteq Threads /\ wallEnded \in BOOLEAN
        /\ Decode(decoders, generation, wallpaper, suspended, wallEnded)
    BY WallLaw DEF VW!WallTypeOK, Threads
  <1>1. ~quit => ~wallEnded /\ d.generation # generation
    BY <1>0
  <1> QED
    BY <1>0, <1>1 DEF Decode

\* Nothing is decoded before the first wallpaper is applied.
LEMMA WallStart == VW!WallInit => VW!WallInv
  <1> SUFFICES ASSUME VW!WallInit PROVE VW!WallInv
    OBVIOUS
  <1>0. MaxGeneration \in Nat /\ 0 \in 0 .. MaxGeneration
    BY ShellAssumption DEF VW!WallAssumption
  <1>1. /\ wallpaper \in VW!Wallpapers /\ generation = 0
        /\ decoders = IF wallpaper.kind = "video" THEN VW!Decoder(0, wallpaper.path) ELSE {}
        /\ frames = <<>> /\ shownFrame = NoVideo /\ suspended = FALSE /\ looked = FALSE
    BY DEF VW!WallInit
  <1>2. /\ wallEnded = (wallpaper.path = NoVideo) /\ wallEnded \in BOOLEAN
        /\ battery \in BOOLEAN /\ fullscreen \in BOOLEAN /\ suspended \in BOOLEAN /\ looked \in BOOLEAN
    BY DEF VW!WallInit
  <1>3. wallpaper.path \in VW!Paths
    BY <1>1 DEF VW!Wallpapers
  <1>4. decoders \subseteq Threads /\ Decode(decoders, 0, wallpaper, suspended, wallEnded)
    <2>1. CASE wallpaper.kind = "video"
      <3>1. decoders = VW!Decoder(0, wallpaper.path)
        BY <1>1, <2>1
      <3>2. /\ decoders \subseteq Threads
            /\ \A d \in decoders : d.generation = 0 /\ d.path = wallpaper.path
            /\ \A d, e \in decoders : d = e
            /\ wallpaper.path # NoVideo => decoders # {}
        BY <1>0, <1>3, <3>1, DecoderFields
      <3>3. ~wallEnded => wallpaper.path # NoVideo
        BY <1>2, Zenon
      <3>4. ~suspended
        BY <1>1
      <3> QED
        BY <2>1, <3>2, <3>3, <3>4 DEF Decode
    <2>2. CASE wallpaper.kind # "video"
      BY <1>1, <2>2 DEF Decode
    <2> QED
      BY <2>1, <2>2
  <1>5. VW!WallTypeOK
    BY <1>0, <1>1, <1>2, <1>4 DEF VW!WallTypeOK, Threads, VW!Paths
  <1> QED
    BY <1>1, <1>4, <1>5, WallLaw DEF Decided

\* No step of the loop or of a thread leaves two decoders of one generation.
LEMMA WallStep == VW!WallInv /\ [VW!WallNext]_wallVars => VW!WallInv'
  <1> SUFFICES ASSUME VW!WallInv, [VW!WallNext]_wallVars PROVE VW!WallInv'
    OBVIOUS
  <1>0. /\ suspended \in BOOLEAN /\ wallEnded \in BOOLEAN /\ generation \in 0 .. MaxGeneration
        /\ fullscreen \in BOOLEAN /\ battery \in BOOLEAN /\ looked \in BOOLEAN
        /\ decoders \subseteq Threads /\ MaxGeneration \in Nat /\ wallpaper \in VW!Wallpapers
        /\ Decode(decoders, generation, wallpaper, suspended, wallEnded)
        /\ Decided(wallpaper, fullscreen, battery, suspended, looked)
        /\ frames \in Seq(VW!Paths) /\ Len(frames) <= 1 /\ shownFrame \in VW!Paths
    BY WallLaw, ShellAssumption DEF VW!WallTypeOK, VW!WallAssumption, Threads
  <1>1. ASSUME NEW f \in BOOLEAN, NEW b \in BOOLEAN, VW!Update(f, b) PROVE VW!WallInv'
    <2>1. /\ generation < MaxGeneration /\ VW!Turn(wallpaper, f, b)
          /\ fullscreen' = f /\ battery' = b /\ UNCHANGED <<wallpaper, frames, shownFrame>>
      BY <1>1 DEF VW!Update
    <2>2. looked' \in BOOLEAN
      BY <1>1 DEF VW!Update
    <2>3. generation + 1 <= MaxGeneration /\ wallpaper' = wallpaper
      BY <1>0, <2>1
    <2>4. /\ suspended' \in BOOLEAN /\ wallEnded' \in BOOLEAN
          /\ generation' \in 0 .. MaxGeneration /\ decoders' \subseteq Threads
          /\ Decode(decoders', generation', wallpaper, suspended', wallEnded')
          /\ wallpaper.kind = "video" => suspended' = VW!Suspends(wallpaper, f, b)
      BY <1>0, <2>1, <2>3, TurnStep
    <2>5. VW!WallTypeOK'
      BY <1>0, <1>1, <2>1, <2>2, <2>4 DEF VW!WallTypeOK, Threads
    <2> QED
      BY <2>1, <2>4, <2>5, WallLawNext DEF Decided
  <1>2. ASSUME VW!Draw PROVE VW!WallInv'
    <2>1. /\ frames # <<>> /\ shownFrame' = Head(frames) /\ frames' = <<>>
          /\ UNCHANGED <<wallpaper, fullscreen, battery, suspended, generation, looked, decoders, wallEnded>>
      BY <1>2 DEF VW!Draw, VW!playback
    <2>2. shownFrame' \in VW!Paths /\ frames' \in Seq(VW!Paths) /\ Len(frames') <= 1
      BY <1>0, <2>1
    <2>3. VW!WallTypeOK'
      BY <1>0, <2>1, <2>2 DEF VW!WallTypeOK, Threads
    <2> QED
      BY <1>0, <2>1, <2>3, WallLawNext
  <1>3. ASSUME NEW d \in decoders, VW!Probe(d) \/ VW!Send(d) PROVE VW!WallInv'
    <2>1. /\ decoders' = (decoders \ {d}) \cup {[d EXCEPT !.step = "reading"]}
          /\ UNCHANGED <<wallpaper, fullscreen, battery, suspended, generation, looked, shownFrame, wallEnded>>
          /\ frames' = frames \/ frames' = <<d.path>>
      BY <1>3 DEF VW!Probe, VW!Send, VW!Becomes, VW!playback
    <2>2. /\ decoders' \subseteq Threads
          /\ Decode(decoders', generation, wallpaper, suspended, wallEnded)
      BY <2>1, DecoderMoves
    <2>3. frames' \in Seq(VW!Paths) /\ Len(frames') <= 1
      <3>1. d.path \in VW!Paths
        BY <1>0 DEF Threads
      <3>2. <<d.path>> \in Seq(VW!Paths) /\ Len(<<d.path>>) = 1
        BY <3>1
      <3>3. CASE frames' = <<d.path>>
        BY <3>2, <3>3
      <3> QED
        BY <1>0, <2>1, <3>3
    <2>4. VW!WallTypeOK'
      BY <1>0, <2>1, <2>2, <2>3 DEF VW!WallTypeOK, Threads
    <2> QED
      BY <1>0, <2>1, <2>2, <2>4, WallLawNext
  <1>4. ASSUME NEW d \in decoders, VW!Fails(d) \/ VW!Frame(d) PROVE VW!WallInv'
    <2>1. UNCHANGED <<wallpaper, fullscreen, battery, suspended, generation, looked, shownFrame, frames>>
      BY <1>4 DEF VW!Fails, VW!GivesUp, VW!Frame, VW!playback
    <2>2. /\ wallEnded' \in BOOLEAN /\ decoders' \subseteq Threads
          /\ Decode(decoders', generation, wallpaper, suspended, wallEnded')
      <3>1. CASE VW!Fails(d)
        <4>1. decoders' = decoders \ {d}
          BY <3>1 DEF VW!Fails, VW!GivesUp, VW!Becomes
        <4>2. wallEnded' = (wallEnded \/ d.generation = generation)
          BY <3>1 DEF VW!Fails, VW!GivesUp
        <4>3. wallEnded' \in BOOLEAN
          BY <4>2
        <4> QED
          BY <4>1, <4>2, <4>3, DecoderGoes
      <3>2. CASE VW!Frame(d) /\ d.generation = generation
        <4>1. /\ decoders' = (decoders \ {d}) \cup {[d EXCEPT !.step = "sending"]}
              /\ wallEnded' = wallEnded
          BY <3>2 DEF VW!Frame, VW!Becomes
        <4>2. /\ decoders' \subseteq Threads
              /\ Decode(decoders', generation, wallpaper, suspended, wallEnded)
          BY <4>1, DecoderMoves
        <4> QED
          BY <1>0, <4>1, <4>2
      <3>3. CASE VW!Frame(d) /\ d.generation # generation
        <4>1. decoders' = decoders \ {d} /\ wallEnded' = wallEnded
          BY <3>3 DEF VW!Frame, VW!Becomes
        <4> QED
          BY <1>0, <3>3, <4>1, DecoderGoes
      <3> QED
        BY <1>4, <3>1, <3>2, <3>3
    <2>3. VW!WallTypeOK'
      BY <1>0, <2>1, <2>2 DEF VW!WallTypeOK, Threads
    <2> QED
      BY <1>0, <2>1, <2>2, <2>3, WallLawNext
  <1>5. CASE UNCHANGED wallVars
    <2>1. UNCHANGED <<wallpaper, fullscreen, battery, suspended, generation, decoders, frames, shownFrame, looked, wallEnded>>
      BY <1>5 DEF wallVars
    <2>2. VW!WallTypeOK'
      BY <1>0, <2>1 DEF VW!WallTypeOK, Threads
    <2> QED
      BY <1>0, <2>1, <2>2, WallLawNext
  <1> QED
    BY <1>1, <1>2, <1>3, <1>4, <1>5, ApplyStep DEF VW!WallNext

-----------------------------------------------------------------------------
(* The launcher: the selection is a result.                                *)

\* Retain, reached through the launcher's module.
LEMMA SameRetain ==
    ASSUME NEW s, NEW S
    PROVE  LA!Retain(s, S) = Retain(s, S)
  BY DEF LA!Retain, Retain

\* What matches is no longer than what there is.
LEMMA MatchingLength ==
    ASSUME NEW U, NEW list \in Seq(U), NEW term
    PROVE  /\ LA!Matching(list, term) \in Seq(U)
           /\ Len(LA!Matching(list, term)) <= Len(list)
  <1>1. /\ Retain(list, Found) \in Seq(U) /\ Len(Retain(list, Found)) <= Len(list)
    BY RetainFacts DEF Keeps
  <1>2. LA!Matching(list, term) = IF term = <<>> THEN list ELSE Retain(list, Found)
    BY SameRetain DEF LA!Matching
  <1> QED
    BY <1>1, <1>2

\* A list is cut to MaxResults.
LEMMA FirstLength ==
    ASSUME NEW U, NEW list \in Seq(U)
    PROVE  Len(LA!First(list)) \in 0 .. MaxResults /\ LA!First(list) \in Seq(U)
  BY ShellAssumption DEF LA!First, LA!LauncherAssumption

\* Results are few, and there are none exactly when their number is 0.
LEMMA ItemsLength ==
    ASSUME NEW q, NEW installed, installed \in {<<>>, Programs}
    PROVE  /\ Len(LA!Items(q, installed)) \in Nat
           /\ LA!Items(q, installed) = <<>> <=> Len(LA!Items(q, installed)) = 0
           /\ Len(LA!Items(q, installed)) <= IF MaxResults > 2 THEN MaxResults ELSE 2
  <1>0. MaxResults \in Nat \ {0} /\ Programs \in Seq(LA!ToSet(Programs))
    BY ShellAssumption DEF LA!LauncherAssumption
  <1> DEFINE term == LA!Term(q)
             kind == LA!Category(q)
             out == LA!Items(q, installed)
             Few(s) == /\ Len(s) \in Nat /\ (s = <<>> <=> Len(s) = 0)
                       /\ Len(s) <= IF MaxResults > 2 THEN MaxResults ELSE 2
  <1>1. \/ kind = ">" /\ out = IF term = <<>> THEN <<>> ELSE <<"command">>
        \/ kind = "@" /\ out = LA!First(LA!Matching(LA!SnapshotWindows, term))
        \/ kind = ":" /\ out = LA!Matching(LA!Power, term)
        \/ out = LA!First(LA!Matching(installed, term))
    BY DEF LA!Items
  <1>2. installed \in Seq(LA!ToSet(Programs)) /\ LA!SnapshotWindows \in Seq(LA!ToSet(Programs))
    <2>1. <<>> \in Seq(LA!ToSet(Programs))
      OBVIOUS
    <2>2. CASE installed = <<>>
      BY <2>1, <2>2 DEF LA!SnapshotWindows
    <2>3. CASE installed = Programs
      BY <1>0, <2>1, <2>3 DEF LA!SnapshotWindows
    <2> QED
      BY <2>2, <2>3
  <1>3. LA!Power \in Seq({"lock", "quit"}) /\ Len(LA!Power) = 2
    BY DEF LA!Power
  <1> HIDE DEF out, term, kind
  <1>4. ASSUME NEW list \in Seq(LA!ToSet(Programs)) PROVE Few(LA!First(LA!Matching(list, term)))
    <2>1. /\ Len(LA!First(LA!Matching(list, term))) \in 0 .. MaxResults
          /\ LA!First(LA!Matching(list, term)) \in Seq(LA!ToSet(Programs))
      BY MatchingLength, FirstLength
    <2> QED
      BY <1>0, <2>1
  <1>5. Few(LA!Matching(LA!Power, term))
    <2>1. /\ LA!Matching(LA!Power, term) \in Seq({"lock", "quit"})
          /\ Len(LA!Matching(LA!Power, term)) <= 2
      BY <1>3, MatchingLength
    <2> QED
      BY <1>0, <2>1
  <1>6. Few(<<>>) /\ Few(<<"command">>)
    BY <1>0
  <1>7. Few(out)
    <2> HIDE DEF Few
    <2> QED
      BY <1>1, <1>2, <1>4, <1>5, <1>6
  <1> QED
    BY <1>7 DEF out

\* What a query is made of.
Chars == LA!Marks \cup {"x"}

\* The invariant, in terms of the number of results.
LEMMA LauncherLaw ==
    LA!LauncherInv <=>
        /\ apps \in {<<>>, Programs} /\ query \in Seq(Chars) /\ Len(query) <= MaxQuery
        /\ selected \in 0 .. MaxResults
        /\ exit \in BOOLEAN /\ ended \in BOOLEAN
        /\ selected = 0 \/ selected < Len(LA!Items(query, apps))
  <1>1. apps \in {<<>>, Programs} => /\ Len(LA!Items(query, apps)) \in Nat
           /\ LA!Items(query, apps) = <<>> <=> Len(LA!Items(query, apps)) = 0
    BY ItemsLength
  <1>2. MaxResults \in Nat
    BY ShellAssumption DEF LA!LauncherAssumption
  <1> QED
    BY <1>1, <1>2 DEF LA!LauncherInv, LA!LauncherTypeOK, LA!SelectionOnResult, LA!Results, Chars

\* The same of the next state.
LEMMA LauncherLawNext ==
    LA!LauncherInv' <=>
        /\ apps' \in {<<>>, Programs} /\ query' \in Seq(Chars) /\ Len(query') <= MaxQuery
        /\ selected' \in 0 .. MaxResults
        /\ exit' \in BOOLEAN /\ ended' \in BOOLEAN
        /\ selected' = 0 \/ selected' < Len(LA!Items(query', apps'))
  <1>1. apps' \in {<<>>, Programs} => /\ Len(LA!Items(query', apps')) \in Nat
           /\ LA!Items(query', apps') = <<>> <=> Len(LA!Items(query', apps')) = 0
    BY ItemsLength
  <1>2. MaxResults \in Nat
    BY ShellAssumption DEF LA!LauncherAssumption
  <1> QED
    BY <1>1, <1>2 DEF LA!LauncherInv, LA!LauncherTypeOK, LA!SelectionOnResult, LA!Results, Chars

\* An empty query selects a result, or there is none.
LEMMA LauncherStart == LA!LauncherInit => LA!LauncherInv
  <1> SUFFICES ASSUME LA!LauncherInit PROVE LA!LauncherInv
    OBVIOUS
  <1>1. apps = <<>> /\ query = <<>> /\ selected = 0
    BY DEF LA!LauncherInit
  <1>2. exit \in BOOLEAN /\ ended \in BOOLEAN
    BY DEF LA!LauncherInit
  <1>3. MaxResults \in Nat /\ MaxQuery \in Nat
    BY ShellAssumption DEF LA!LauncherAssumption
  <1> QED
    BY <1>1, <1>2, <1>3, LauncherLaw

\* Typing, erasing and choosing a category leave a query of characters.
LEMMA InCategoryType ==
    ASSUME query \in Seq(Chars), NEW c \in LA!Marks \cup {"apps"}
    PROVE  LA!InCategory(c, query) \in Seq(Chars)
  <1>1. LA!Term(query) \in Seq(Chars)
    BY DEF LA!Term, LA!Category, LA!Marks
  <1>2. (IF c = "apps" THEN <<>> ELSE <<c>>) \in Seq(Chars)
    <2>1. c # "apps" => c \in Chars
      BY DEF Chars
    <2>2. c # "apps" => <<c>> \in Seq(Chars)
      BY <2>1
    <2>3. <<>> \in Seq(Chars)
      OBVIOUS
    <2>4. CASE c = "apps"
      BY <2>3, <2>4
    <2>5. CASE c # "apps"
      BY <2>2, <2>5
    <2> QED
      BY <2>4, <2>5
  <1> QED
    BY <1>1, <1>2 DEF LA!InCategory

\* Typing, moving and a new list of applications leave the selection on a result.
LEMMA LauncherStep == LA!LauncherInv /\ [LA!LauncherNext]_launcherVars => LA!LauncherInv'
  <1> SUFFICES ASSUME LA!LauncherInv, [LA!LauncherNext]_launcherVars PROVE LA!LauncherInv'
    OBVIOUS
  <1>0. /\ apps \in {<<>>, Programs} /\ query \in Seq(Chars) /\ Len(query) <= MaxQuery
        /\ selected \in 0 .. MaxResults
        /\ exit \in BOOLEAN /\ ended \in BOOLEAN
        /\ selected = 0 \/ selected < Len(LA!Items(query, apps))
        /\ MaxResults \in Nat \ {0} /\ MaxQuery \in Nat
    BY LauncherLaw, ShellAssumption DEF LA!LauncherAssumption
  <1>2. ASSUME LA!AppsLoaded PROVE LA!LauncherInv'
    <2>1. /\ apps' = Programs /\ UNCHANGED <<query, exit, ended>>
          /\ selected' = LA!Clamped(selected, Len(LA!Items(query, Programs)))
      BY <1>2 DEF LA!AppsLoaded
    <2>2. Len(LA!Items(query, Programs)) \in Nat
      BY ItemsLength
    <2>3. /\ selected' \in 0 .. MaxResults
          /\ selected' = 0 \/ selected' < Len(LA!Items(query, Programs))
      BY <1>0, <2>1, <2>2 DEF LA!Clamped, LA!Least
    <2> QED
      BY <1>0, <2>1, <2>3, LauncherLawNext
  <1>3. ASSUME NEW char \in LA!Marks \cup {"x"}, LA!Type(char) PROVE LA!LauncherInv'
    <2>1. /\ Len(query) < MaxQuery /\ query' = Append(query, char) /\ selected' = 0
          /\ UNCHANGED <<apps, exit, ended>>
      BY <1>3 DEF LA!Type
    <2>2. query' \in Seq(Chars) /\ Len(query') <= MaxQuery
      BY <1>0, <2>1 DEF Chars
    <2> QED
      BY <1>0, <2>1, <2>2, LauncherLawNext
  <1>4. ASSUME LA!Erase PROVE LA!LauncherInv'
    <2>1. /\ query # <<>> /\ query' = LA!Front(query) /\ selected' = 0
          /\ UNCHANGED <<apps, exit, ended>>
      BY <1>4 DEF LA!Erase, LA!AfterErase
    <2>2. query' \in Seq(Chars) /\ Len(query') <= MaxQuery
      BY <1>0, <2>1 DEF LA!Front
    <2> QED
      BY <1>0, <2>1, <2>2, LauncherLawNext
  <1>5. ASSUME NEW c \in LA!Marks \cup {"apps"}, LA!Choose(c) PROVE LA!LauncherInv'
    <2>1. /\ query' = LA!InCategory(c, query) /\ selected' = 0 /\ Len(query') <= MaxQuery
          /\ UNCHANGED <<apps, exit, ended>>
      BY <1>5 DEF LA!Choose
    <2> QED
      BY <1>0, <2>1, InCategoryType, LauncherLawNext
  <1>6. ASSUME LA!MoveUp PROVE LA!LauncherInv'
    <2>1. /\ selected > 0 /\ selected' = selected - 1 /\ UNCHANGED <<apps, query, exit, ended>>
      BY <1>6 DEF LA!MoveUp
    <2>2. Len(LA!Items(query, apps)) \in Nat
      BY <1>0, ItemsLength
    <2> QED
      BY <1>0, <2>1, <2>2, LauncherLawNext
  <1>7. ASSUME LA!MoveDown PROVE LA!LauncherInv'
    <2>1. /\ LA!Items(query, apps) # <<>>
          /\ selected' = LA!Least(selected + 1, Len(LA!Items(query, apps)) - 1)
          /\ UNCHANGED <<apps, query, exit, ended>>
      BY <1>7 DEF LA!MoveDown, LA!Results
    <2>2. /\ Len(LA!Items(query, apps)) \in Nat /\ Len(LA!Items(query, apps)) # 0
          /\ Len(LA!Items(query, apps)) <= IF MaxResults > 2 THEN MaxResults ELSE 2
      BY <1>0, <2>1, ItemsLength
    <2>3. selected' \in 0 .. MaxResults /\ selected' < Len(LA!Items(query, apps))
      BY <1>0, <2>1, <2>2 DEF LA!Least
    <2> QED
      BY <1>0, <2>1, <2>3, LauncherLawNext
  <1>8. ASSUME LA!Return \/ LA!ReturnAgain PROVE LA!LauncherInv'
    <2>1. UNCHANGED <<apps, query, selected, ended>>
      BY <1>8 DEF LA!Return, LA!ReturnAgain
    <2>2. exit' = TRUE \/ exit' = exit
      BY <1>8 DEF LA!Return, LA!ReturnAgain, LA!Activate
    <2>3. exit' \in BOOLEAN
      BY <1>0, <2>2
    <2> QED
      BY <1>0, <2>1, <2>3, LauncherLawNext
  <1>9. ASSUME NEW n \in 0 .. MaxResults, LA!Click(n) PROVE LA!LauncherInv'
    <2>1. n < LA!Visible /\ selected' = n /\ UNCHANGED <<apps, query, ended>>
      BY <1>9 DEF LA!Click
    <2>2. exit' = TRUE \/ exit' = exit
      BY <1>9 DEF LA!Click, LA!Activate
    <2>3. exit' \in BOOLEAN
      BY <1>0, <2>2
    <2>4. Len(LA!Items(query, apps)) \in Nat /\ RowsShown \in Nat
      BY <1>0, ItemsLength, ShellAssumption DEF LA!LauncherAssumption
    <2>5. n < Len(LA!Items(query, apps))
      BY <2>1, <2>4 DEF LA!Visible, LA!Least, LA!Results
    <2> QED
      BY <1>0, <2>1, <2>3, <2>5, LauncherLawNext
  <1>10. ASSUME LA!Escape \/ LA!Request \/ LA!Ends PROVE LA!LauncherInv'
    <2>1. UNCHANGED <<apps, query, selected>>
      BY <1>10 DEF LA!Escape, LA!Request, LA!Ends
    <2>2. exit' \in {TRUE, exit} /\ ended' \in {TRUE, ended}
      BY <1>10 DEF LA!Escape, LA!Request, LA!Ends
    <2>3. exit' \in BOOLEAN /\ ended' \in BOOLEAN
      BY <1>0, <2>2
    <2> QED
      BY <1>0, <2>1, <2>3, LauncherLawNext
  <1>11. CASE UNCHANGED launcherVars
    BY <1>0, <1>11, LauncherLawNext DEF launcherVars
  <1> QED
    BY <1>2, <1>3, <1>4, <1>5, <1>6, <1>7, <1>8, <1>9, <1>10, <1>11 DEF LA!LauncherNext

-----------------------------------------------------------------------------
(* The recorder panel: choosing a source.                                  *)

\* Cardinality, reached through the panel's module.
LEMMA RPCount ==
    ASSUME NEW S
    PROVE  RP!Cardinality(S) = Cardinality(S)
  BY DEF RP!Cardinality, Cardinality, RP!IsFiniteSet, IsFiniteSet

\* A set of windows, or of processes, is finite and no larger than its bound.
LEMMA Counted ==
    ASSUME NEW n \in Nat, NEW S \in SUBSET (1 .. n)
    PROVE  /\ IsFiniteSet(S) /\ RP!Cardinality(S) \in 0 .. n
           /\ S # {} => RP!Cardinality(S) # 0
  <1>1. IsFiniteSet(1 .. n) /\ Cardinality(1 .. n) = n
    BY FS_Interval
  <1>2. IsFiniteSet(S) /\ Cardinality(S) <= n
    BY <1>1, FS_Subset
  <1>3. Cardinality(S) \in Nat /\ (Cardinality(S) = 0 <=> S = {})
    BY <1>2, FS_CardinalityType, FS_EmptySet
  <1>4. RP!Cardinality(S) = Cardinality(S)
    BY RPCount
  <1>5. Cardinality(S) <= n
    BY <1>2
  <1> HIDE DEF RP!Cardinality
  <1>6. Cardinality(S) \in 0 .. n
    BY <1>3, <1>5
  <1> QED
    BY <1>2, <1>3, <1>4, <1>6

\* A member comes after fewer than there are.
LEMMA PositionBelow ==
    ASSUME NEW n \in Nat, NEW S \in SUBSET (1 .. n), NEW w \in S
    PROVE  /\ RP!PositionIn(S, w) \in 0 .. n
           /\ RP!PositionIn(S, w) + 1 <= RP!Cardinality(S)
  <1> DEFINE before == {v \in S : v < w}
  <1>0. w \in Int
    OBVIOUS
  <1>1. before \in SUBSET (1 .. n) /\ before \subseteq S /\ w \notin before
    <2>1. ~(w < w)
      BY <1>0
    <2>2. before \subseteq S
      OBVIOUS
    <2> QED
      BY <2>1, <2>2
  <1>2. IsFiniteSet(S) /\ IsFiniteSet(before)
    BY <1>1, Counted
  <1>3. Cardinality(before) \in Nat /\ Cardinality(S) \in Nat /\ Cardinality(S) <= n
    BY <1>1, Counted, RPCount
  <1>4. before # S
    BY <1>1
  <1> HIDE DEF before
  <1>5. Cardinality(before) < Cardinality(S)
    <2>1. /\ Cardinality(before) <= Cardinality(S)
          /\ Cardinality(before) = Cardinality(S) => before = S
      BY <1>1, <1>2, FS_Subset
    <2> QED
      BY <1>3, <1>4, <2>1
  <1>6. RP!PositionIn(S, w) = Cardinality(before)
    BY RPCount DEF RP!PositionIn, before
  <1> QED
    BY <1>3, <1>5, <1>6, RPCount

\* The smaller of two.
LEMMA MinOfTwo ==
    ASSUME NEW a \in Nat, NEW b \in Nat
    PROVE  RP!Min({a, b}) = IF a <= b THEN a ELSE b
  BY DEF RP!Min

\* An index leads to a member, or to none.
LEMMA NthInSet ==
    ASSUME NEW S, NEW i
    PROVE  RP!Nth(S, i) \in S \cup {0}
  <1> DEFINE there == {w \in S : RP!PositionIn(S, w) = i}
  <1>1. RP!Nth(S, i) = IF there = {} THEN 0 ELSE CHOOSE w \in there : TRUE
    BY DEF RP!Nth, RP!None
  <1>2. there # {} => (CHOOSE w \in there : TRUE) \in there
    OBVIOUS
  <1> HIDE DEF there
  <1>3. there \subseteq S
    BY DEF there
  <1> QED
    BY <1>1, <1>2, <1>3

\* A cursor brought into a list stays in its bounds.
LEMMA ToRangeType ==
    ASSUME NEW n \in Nat, NEW S \in SUBSET (1 .. n), NEW i \in Nat, NEW m \in Nat, i <= m \/ n <= m
    PROVE  RP!ToRange(i, S) \in 0 .. m
  <1> DEFINE last == IF S = {} THEN 0 ELSE RP!Cardinality(S) - 1
  <1>1. last \in 0 .. n
    BY Counted
  <1>2. RP!ToRange(i, S) = RP!Min({i, last})
    BY DEF RP!ToRange
  <1> HIDE DEF last
  <1> QED
    BY <1>1, <1>2, MinOfTwo

\* The panel says it is ready exactly when a start would send something.
LEMMA ReadyLaw ==
    ASSUME seenRecording \in BOOLEAN, method \in {"screen", "xwayland", "inject"}
    PROVE  RP!Blocked <=> RP!StartCommand = <<>>
  <1>1. \A x, y : <<x>> # <<>> /\ <<x, y>> # <<>>
    OBVIOUS
  <1>2. RP!ScreenCommand # <<>>
    BY <1>1 DEF RP!ScreenCommand
  <1>3. CASE seenRecording
    BY <1>1, <1>3 DEF RP!Blocked, RP!StartCommand
  <1>4. CASE ~seenRecording /\ method = "screen"
    BY <1>2, <1>4 DEF RP!Blocked, RP!StartCommand
  <1>5. CASE ~seenRecording /\ method = "xwayland"
    BY <1>1, <1>5 DEF RP!Blocked, RP!StartCommand
  <1>6. CASE ~seenRecording /\ method = "inject"
    BY <1>1, <1>6 DEF RP!Blocked, RP!StartCommand
  <1> QED
    BY <1>3, <1>4, <1>5, <1>6

\* The same of the next state.
LEMMA ReadyLawNext ==
    ASSUME seenRecording' \in BOOLEAN, method' \in {"screen", "xwayland", "inject"}
    PROVE  (RP!Blocked <=> RP!StartCommand = <<>>)'
  <1>1. \A x, y : <<x>> # <<>> /\ <<x, y>> # <<>>
    OBVIOUS
  <1>2. RP!ScreenCommand' # <<>>
    BY <1>1 DEF RP!ScreenCommand
  <1>3. CASE seenRecording'
    BY <1>1, <1>3 DEF RP!Blocked, RP!StartCommand
  <1>4. CASE ~seenRecording' /\ method' = "screen"
    BY <1>2, <1>4 DEF RP!Blocked, RP!StartCommand
  <1>5. CASE ~seenRecording' /\ method' = "xwayland"
    BY <1>1, <1>5 DEF RP!Blocked, RP!StartCommand
  <1>6. CASE ~seenRecording' /\ method' = "inject"
    BY <1>1, <1>6 DEF RP!Blocked, RP!StartCommand
  <1> QED
    BY <1>3, <1>4, <1>5, <1>6

\* The capture methods as a set.
LEMMA MethodSet == RP!ToSet(RP!Methods) = {"screen", "xwayland", "inject"}
  BY DEF RP!ToSet, RP!Methods

\* The panel opens with every cursor at the head of its list.
LEMMA PanelStart == ShellInit => RP!PanelInv
  <1> SUFFICES ASSUME ShellInit PROVE RP!PanelInv
    OBVIOUS
  <1> USE ShellAssumption DEF RP!PanelAssumption
  <1>1. /\ RP!PanelInit
    BY DEF ShellInit
  <1>2. RP!PanelTypeOK
    <2>1. /\ open \in SUBSET (1 .. MaxWindow) /\ memory \in 0 .. MaxWindow /\ processes = {}
          /\ seenOpen = {} /\ seenMemory = 0
          /\ method = "screen" /\ chosen = 0 /\ chosenX = 0 /\ chosenP = 0
      BY <1>1 DEF RP!PanelInit, RP!AllWindows, RP!None
    <2>2. recording \in BOOLEAN /\ seenRecording \in BOOLEAN
      BY <1>1 DEF RP!PanelInit
    <2>3. restored \in BOOLEAN /\ running \in BOOLEAN
      BY <1>1 DEF RP!PanelInit
    <2>4. method \in RP!ToSet(RP!Methods)
      BY <2>1, MethodSet
    <2>5. seenMemory \in 0 .. MaxWindow /\ chosen \in 0 .. MaxWindow /\ chosenX \in 0 .. MaxWindow /\ chosenP \in 0 .. MaxProcess
      BY <2>1
    <2> QED
      BY <2>1, <2>2, <2>3, <2>4, <2>5 DEF RP!PanelTypeOK, RP!AllWindows
  <1>3. RP!Blocked <=> RP!StartCommand = <<>>
    BY <1>2, MethodSet, ReadyLaw DEF RP!PanelTypeOK
  <1>4. RP!Cardinality(seenOpen) \in Nat /\ chosen = 0
    BY <1>1, <1>2, Counted DEF RP!PanelTypeOK, RP!PanelInit, RP!AllWindows
  <1> QED
    BY <1>2, <1>3, <1>4 DEF RP!PanelInv, RP!ReadyMeansStartable

\* The invariant, unfolded.
LEMMA PanelLaw ==
    ASSUME RP!PanelInv
    PROVE  /\ MaxWindow \in Nat /\ MaxProcess \in Nat /\ X11 \subseteq 1 .. MaxWindow
           /\ open \subseteq 1 .. MaxWindow /\ seenOpen \subseteq 1 .. MaxWindow
           /\ recording \in BOOLEAN /\ seenRecording \in BOOLEAN
           /\ memory \in 0 .. MaxWindow /\ seenMemory \in 0 .. MaxWindow
           /\ processes \subseteq 1 .. MaxProcess
           /\ method \in {"screen", "xwayland", "inject"}
           /\ chosen \in 0 .. MaxWindow /\ chosenX \in 0 .. MaxWindow /\ chosenP \in 0 .. MaxProcess
           /\ restored \in BOOLEAN /\ running \in BOOLEAN
           /\ chosen <= RP!Cardinality(seenOpen)
  BY ShellAssumption, MethodSet
     DEF RP!PanelInv, RP!PanelTypeOK, RP!ReadyMeansStartable, RP!PanelAssumption, RP!AllWindows

\* Its types and the bound of the screen's cursor are all a step has to show.
LEMMA PanelLawNext ==
    ASSUME /\ open' \subseteq 1 .. MaxWindow /\ seenOpen' \subseteq 1 .. MaxWindow
           /\ recording' \in BOOLEAN /\ seenRecording' \in BOOLEAN
           /\ memory' \in 0 .. MaxWindow /\ seenMemory' \in 0 .. MaxWindow
           /\ processes' \subseteq 1 .. MaxProcess
           /\ method' \in {"screen", "xwayland", "inject"}
           /\ chosen' \in 0 .. MaxWindow /\ chosenX' \in 0 .. MaxWindow
           /\ chosenP' \in 0 .. MaxProcess
           /\ restored' \in BOOLEAN /\ running' \in BOOLEAN
           /\ chosen' <= RP!Cardinality(seenOpen')
    PROVE  RP!PanelInv'
  <1>1. RP!PanelTypeOK'
    BY MethodSet DEF RP!PanelTypeOK, RP!AllWindows
  <1>2. RP!ReadyMeansStartable'
    BY ReadyLawNext DEF RP!ReadyMeansStartable
  <1> QED
    BY <1>1, <1>2 DEF RP!PanelInv

\* Two cursors that are brought into their lists.
LEMMA BroughtType ==
    ASSUME RP!PanelInv, RP!Brought, seenOpen' \subseteq 1 .. MaxWindow
    PROVE  chosenX' \in 0 .. MaxWindow /\ chosenP' \in 0 .. MaxProcess
  <1>1. /\ seenOpen' \cap X11 \in SUBSET (1 .. MaxWindow) /\ processes \in SUBSET (1 .. MaxProcess)
        /\ chosenX \in Nat /\ chosenX <= MaxWindow /\ chosenP \in Nat /\ chosenP <= MaxProcess
        /\ MaxWindow \in Nat /\ MaxProcess \in Nat
    BY PanelLaw
  <1>2. RP!ToRange(chosenX, seenOpen' \cap X11) \in 0 .. MaxWindow
    BY <1>1, ToRangeType
  <1>3. RP!ToRange(chosenP, processes) \in 0 .. MaxProcess
    BY <1>1, ToRangeType
  <1> QED
    BY <1>2, <1>3 DEF RP!Brought

\* A cursor moved by one stays in its bounds.
LEMMA MovedType ==
    ASSUME NEW n \in Nat, NEW S \in SUBSET (1 .. n), NEW i \in 0 .. n
    PROVE  RP!Down(i, S) \in 0 .. n /\ RP!Up(i, S) \in 0 .. n
  <1>1. RP!Up(i, S) \in 0 .. n
    BY DEF RP!Up
  <1>2. CASE S = {}
    BY <1>1, <1>2 DEF RP!Down
  <1>3. CASE S # {}
    <2>1. RP!Cardinality(S) \in 0 .. n /\ RP!Cardinality(S) # 0
      BY <1>3, Counted
    <2>2. RP!Down(i, S) = RP!Min({i + 1, RP!Cardinality(S) - 1})
      BY <1>3 DEF RP!Down
    <2> DEFINE last == RP!Cardinality(S) - 1
    <2>3. last \in 0 .. n /\ last \in Nat /\ i + 1 \in Nat
      BY <2>1
    <2>4. RP!Down(i, S) = RP!Min({i + 1, last})
      BY <2>2
    <2> HIDE DEF last
    <2>5. RP!Min({i + 1, last}) = IF i + 1 <= last THEN i + 1 ELSE last
      BY <2>3, MinOfTwo
    <2>6. RP!Down(i, S) \in 0 .. n
      BY <2>3, <2>4, <2>5
    <2> QED
      BY <1>1, <2>6
  <1> QED
    BY <1>2, <1>3

\* Snapshots, moves and changes of the world leave each cursor in its bounds.
LEMMA PanelStep == RP!PanelInv /\ [RP!PanelNext]_panelVars => RP!PanelInv'
  <1> SUFFICES ASSUME RP!PanelInv, [RP!PanelNext]_panelVars PROVE RP!PanelInv'
    OBVIOUS
  <1>0. /\ MaxWindow \in Nat /\ MaxProcess \in Nat /\ X11 \subseteq 1 .. MaxWindow
        /\ open \subseteq 1 .. MaxWindow /\ seenOpen \subseteq 1 .. MaxWindow
        /\ recording \in BOOLEAN /\ seenRecording \in BOOLEAN
        /\ memory \in 0 .. MaxWindow /\ seenMemory \in 0 .. MaxWindow
        /\ processes \subseteq 1 .. MaxProcess
        /\ method \in {"screen", "xwayland", "inject"}
        /\ chosen \in 0 .. MaxWindow /\ chosenX \in 0 .. MaxWindow /\ chosenP \in 0 .. MaxProcess
        /\ restored \in BOOLEAN /\ running \in BOOLEAN
        /\ chosen <= RP!Cardinality(seenOpen)
    BY PanelLaw
  <1>1. RP!Cardinality(seenOpen) \in 0 .. MaxWindow /\ RP!Cardinality(open) \in 0 .. MaxWindow
    BY <1>0, Counted
  <1>2. CASE RP!WorldChanges
    <2> USE DEF RP!seen, RP!cursors
    <2>1. /\ UNCHANGED <<seenOpen, seenRecording, seenMemory, memory>>
          /\ UNCHANGED <<method, chosen, chosenX, chosenP, restored, running>>
      BY <1>2 DEF RP!WorldChanges
    <2>2. CASE \E w \in RP!AllWindows : open' = RP!SymDiff(open, {w}) /\ UNCHANGED <<recording, processes>>
      <3>1. open' \subseteq 1 .. MaxWindow /\ UNCHANGED <<recording, processes>>
        BY <1>0, <2>2 DEF RP!SymDiff, RP!AllWindows
      <3> QED
        BY <1>0, <2>1, <3>1, PanelLawNext
    <2>3. CASE \E p \in 1 .. MaxProcess : processes' = RP!SymDiff(processes, {p}) /\ UNCHANGED <<open, recording>>
      <3>1. processes' \subseteq 1 .. MaxProcess /\ UNCHANGED <<recording, open>>
        BY <1>0, <2>3 DEF RP!SymDiff
      <3> QED
        BY <1>0, <2>1, <3>1, PanelLawNext
    <2>4. CASE recording' = ~recording /\ UNCHANGED <<open, processes>>
      <3>1. recording' \in BOOLEAN
        BY <2>4
      <3> QED
        BY <1>0, <2>1, <2>4, <3>1, PanelLawNext
    <2> QED
      BY <1>2, <2>2, <2>3, <2>4 DEF RP!WorldChanges
  <1>3. CASE RP!SnapshotArrives
    <2>1. /\ seenOpen' = open /\ seenRecording' = recording /\ seenMemory' = memory
          /\ UNCHANGED <<open, recording, memory, processes, running>> /\ restored' = TRUE
      BY <1>3 DEF RP!SnapshotArrives, RP!world
    <2>2. /\ method' \in {"screen", "xwayland", "inject"}
          /\ chosen' \in 0 .. MaxWindow /\ chosen' <= RP!Cardinality(seenOpen')
          /\ chosenX' \in 0 .. MaxWindow /\ chosenP' \in 0 .. MaxProcess
      <3> DEFINE count == RP!Cardinality(open)
      <3>1. RP!Cardinality(seenOpen') = count /\ count \in 0 .. MaxWindow
        BY <1>1, <2>1
      <3> HIDE DEF count
      <3>2. /\ RP!Min({chosen, count}) = IF chosen <= count THEN chosen ELSE count
        BY <1>0, <3>1, MinOfTwo
      <3>3. RP!Min({chosen, count}) \in 0 .. MaxWindow /\ RP!Min({chosen, count}) <= count
        BY <1>0, <3>1, <3>2
      <3>4. CASE RP!SnapshotCursor /\ UNCHANGED <<method, chosenX, chosenP>>
        BY <1>0, <3>1, <3>3, <3>4 DEF RP!SnapshotCursor
      <3>5. ASSUME NEW m \in RP!ToSet(RP!Methods), RP!Restore(m)
            PROVE  /\ method' \in {"screen", "xwayland", "inject"}
                   /\ chosen' \in 0 .. MaxWindow /\ chosen' <= RP!Cardinality(seenOpen')
                   /\ chosenX' \in 0 .. MaxWindow /\ chosenP' \in 0 .. MaxProcess
        <4>1. method' \in {"screen", "xwayland", "inject"}
          BY <3>5, MethodSet DEF RP!Restore
        <4>2. chosen' \in 0 .. MaxWindow /\ chosen' <= count
          <5>1. CASE m = "screen" /\ memory \in seenOpen'
            <6>1. chosen' = RP!PositionIn(open, memory) + 1
              BY <2>1, <3>5, <5>1 DEF RP!Restore
            <6>2. /\ RP!PositionIn(open, memory) \in 0 .. MaxWindow
                  /\ RP!PositionIn(open, memory) + 1 <= count
              BY <1>0, <2>1, <5>1, PositionBelow DEF count
            <6> QED
              BY <1>0, <3>1, <6>1, <6>2
          <5>2. CASE ~(m = "screen" /\ memory \in seenOpen')
            <6>1. chosen' = RP!Min({chosen, count})
              BY <3>1, <3>5, <5>2 DEF RP!Restore
            <6> QED
              BY <3>3, <6>1
          <5> QED
            BY <5>1, <5>2
        <4>3. chosenX' \in 0 .. MaxWindow /\ chosenP' \in 0 .. MaxProcess
          <5>1. CASE RP!Brought
            BY <1>0, <2>1, <5>1, BroughtType
          <5>2. CASE /\ memory \in seenOpen' \cap X11
                     /\ chosenX' = RP!PositionIn(seenOpen' \cap X11, memory)
                     /\ chosenP' = RP!ToRange(chosenP, processes)
            <6>1. seenOpen' \cap X11 \in SUBSET (1 .. MaxWindow)
              BY <1>0
            <6>2. chosenX' \in 0 .. MaxWindow
              BY <1>0, <5>2, <6>1, PositionBelow
            <6>3. chosenP' \in 0 .. MaxProcess
              BY <1>0, <5>2, ToRangeType
            <6> QED
              BY <6>2, <6>3
          <5> QED
            BY <3>5, <5>1, <5>2 DEF RP!Restore
        <4> QED
          BY <3>1, <4>1, <4>2, <4>3
      <3> QED
        BY <1>3, <3>4, <3>5 DEF RP!SnapshotArrives
    <2> QED
      BY <1>0, <2>1, <2>2, PanelLawNext
  <1>4. CASE RP!MoveSelection
    <2>1. /\ UNCHANGED <<open, recording, memory, processes, seenOpen, seenRecording, seenMemory>>
          /\ UNCHANGED <<method, restored, running>>
      BY <1>4 DEF RP!MoveSelection, RP!world, RP!seen
    <2>2. CASE /\ chosen' \in {RP!Min({chosen + 1, RP!Cardinality(seenOpen)}),
                               IF chosen = 0 THEN 0 ELSE chosen - 1}
               /\ UNCHANGED <<chosenX, chosenP>>
      <3> DEFINE count == RP!Cardinality(seenOpen)
      <3>1. count \in 0 .. MaxWindow /\ chosen <= count
        BY <1>0, <1>1
      <3>2. chosen' \in {RP!Min({chosen + 1, count}), IF chosen = 0 THEN 0 ELSE chosen - 1}
        BY <2>2
      <3> HIDE DEF count
      <3>3. RP!Min({chosen + 1, count}) = IF chosen + 1 <= count THEN chosen + 1 ELSE count
        BY <1>0, <3>1, MinOfTwo
      <3>4. chosen' \in 0 .. MaxWindow /\ chosen' <= count
        BY <1>0, <3>1, <3>2, <3>3
      <3> QED
        BY <1>0, <2>1, <2>2, <3>4, PanelLawNext DEF count
    <2>3. CASE /\ chosenX' \in {RP!Down(chosenX, seenOpen \cap X11), RP!Up(chosenX, seenOpen \cap X11)}
               /\ UNCHANGED <<chosen, chosenP>>
      <3>1. seenOpen \cap X11 \in SUBSET (1 .. MaxWindow)
        BY <1>0
      <3>2. chosenX' \in 0 .. MaxWindow
        BY <1>0, <2>3, <3>1, MovedType
      <3> QED
        BY <1>0, <2>1, <2>3, <3>2, PanelLawNext
    <2>4. CASE /\ chosenP' \in {RP!Down(chosenP, processes), RP!Up(chosenP, processes)}
               /\ UNCHANGED <<chosen, chosenX>>
      <3>1. chosenP' \in 0 .. MaxProcess
        BY <1>0, <2>4, MovedType
      <3> QED
        BY <1>0, <2>1, <2>4, <3>1, PanelLawNext
    <2> QED
      BY <1>4, <2>2, <2>3, <2>4 DEF RP!MoveSelection
  <1>5. CASE RP!RememberCurrent
    <2>1. /\ UNCHANGED <<open, recording, processes, seenOpen, seenRecording, seenMemory>>
          /\ UNCHANGED <<method, chosen, chosenX, chosenP, restored, running>>
          /\ memory' = RP!ToRemember
      BY <1>5 DEF RP!RememberCurrent, RP!seen, RP!cursors
    <2>2. /\ RP!ToRemember \in seenOpen \cup (seenOpen \cap X11) \cup {0}
      <3>1. CASE method = "screen"
        BY <3>1, NthInSet DEF RP!ToRemember
      <3>2. CASE method # "screen"
        BY <3>2, NthInSet DEF RP!ToRemember, RP!SelectedX
      <3> QED
        BY <3>1, <3>2
    <2>3. memory' \in 0 .. MaxWindow
      BY <1>0, <2>1, <2>2
    <2> QED
      BY <1>0, <2>1, <2>3, PanelLawNext
  <1>6. CASE RP!StartStop
    <2>1. /\ UNCHANGED <<open, memory, processes, seenOpen, seenRecording, seenMemory>>
          /\ UNCHANGED <<method, chosen, chosenX, chosenP, restored>>
          /\ running' = FALSE
      BY <1>6 DEF RP!StartStop, RP!seen, RP!cursors
    <2>2. recording' \in BOOLEAN
      BY <1>0, <1>6 DEF RP!StartStop
    <2> QED
      BY <1>0, <2>1, <2>2, PanelLawNext
  <1>7. ASSUME NEW step \in {1, Len(RP!Methods) - 1}, RP!CycleMethod(step) PROVE RP!PanelInv'
    <2>1. /\ UNCHANGED <<open, recording, memory, processes, seenOpen, seenRecording, seenMemory>>
          /\ UNCHANGED <<chosen, restored, running>> /\ RP!Brought
      BY <1>7 DEF RP!CycleMethod, RP!world
    <2>2. method' \in {"screen", "xwayland", "inject"}
      <3>1. RP!Methods = <<"screen", "xwayland", "inject">> /\ Len(RP!Methods) = 3
        BY DEF RP!Methods
      <3>2. PICK i \in 1 .. 3 : method' = RP!Methods[RP!Around(i, step)]
        BY <1>7, <3>1 DEF RP!CycleMethod
      <3>3. step \in Nat
        BY <3>1
      <3>4. (i - 1 + step) % 3 \in 0 .. 2
        BY <3>3
      <3>5. RP!Around(i, step) \in 1 .. 3
        BY <3>1, <3>4 DEF RP!Around
      <3> QED
        BY <3>1, <3>2, <3>5
    <2>3. chosenX' \in 0 .. MaxWindow /\ chosenP' \in 0 .. MaxProcess
      BY <1>0, <2>1, BroughtType
    <2> QED
      BY <1>0, <2>1, <2>2, <2>3, PanelLawNext
  <1>8. CASE UNCHANGED panelVars
    BY <1>0, <1>8, PanelLawNext DEF panelVars
  <1> QED
    BY <1>2, <1>3, <1>4, <1>5, <1>6, <1>7, <1>8 DEF RP!PanelNext

-----------------------------------------------------------------------------
(* The recorder panel: the settings.                                       *)

\* A command changes its own setting, and a text none of those that are checked.
LEMMA WithFields ==
    ASSUME NEW s \in RP!Settings, NEW c \in RP!Commands
    PROVE  /\ RP!With(s, c) \in RP!Settings
           /\ c.key \in {"target", "path"} =>
                (RP!Allowed(RP!With(s, c)) <=> RP!Allowed(s))
  <1> DEFINE v == c.value
             t == RP!With(s, c)
  <1>1. /\ s = [codec |-> s.codec, hdr |-> s.hdr, target |-> s.target, path |-> s.path]
        /\ s.codec \in RP!Codecs /\ s.hdr \in BOOLEAN
        /\ s.target \in RP!TextRows /\ s.path \in RP!TextRows
    BY DEF RP!Settings
  <1>2. t = [s EXCEPT ![c.key] = v]
    BY DEF RP!With
  <1> HIDE DEF t, v
  <1>3. CASE c.key = "codec"
    <2>1. v \in RP!Codecs
      BY <1>3 DEF RP!Commands, RP!TextRows, v
    <2>2. t = [s EXCEPT !.codec = v]
      BY <1>2, <1>3
    <2> QED
      BY <1>1, <1>3, <2>1, <2>2 DEF RP!Settings, t
  <1>4. CASE c.key = "hdr"
    <2>1. v \in BOOLEAN
      BY <1>4 DEF RP!Commands, RP!TextRows, v
    <2>2. t = [s EXCEPT !.hdr = v]
      BY <1>2, <1>4
    <2> QED
      BY <1>1, <1>4, <2>1, <2>2 DEF RP!Settings, t
  <1>5. CASE c.key = "target"
    <2>1. v \in RP!TextRows
      BY <1>5 DEF RP!Commands, v
    <2>2. t = [s EXCEPT !.target = v]
      BY <1>2, <1>5
    <2>3. t \in RP!Settings /\ t.hdr = s.hdr /\ t.codec = s.codec
      BY <1>1, <2>1, <2>2 DEF RP!Settings
    <2> QED
      BY <2>3 DEF RP!Allowed, t
  <1>6. CASE c.key = "path"
    <2>1. v \in RP!TextRows
      BY <1>6 DEF RP!Commands, v
    <2>2. t = [s EXCEPT !.path = v]
      BY <1>2, <1>6
    <2>3. t \in RP!Settings /\ t.hdr = s.hdr /\ t.codec = s.codec
      BY <1>1, <2>1, <2>2 DEF RP!Settings
    <2> QED
      BY <2>3 DEF RP!Allowed, t
  <1> QED
    BY <1>3, <1>4, <1>5, <1>6 DEF RP!Commands, RP!TextRows

\* An adjustment is one command or two.
LEMMA AdjustmentType ==
    ASSUME NEW row \in {"codec", "hdr"}, shownSettings \in RP!Settings
    PROVE  RP!Adjustment(row) \in Seq(RP!Commands) /\ Len(RP!Adjustment(row)) \in 1 .. 2
  <1>0. shownSettings.codec \in RP!Codecs /\ shownSettings.hdr \in BOOLEAN
    BY DEF RP!Settings
  <1> DEFINE toggle == [key |-> "hdr", value |-> ~shownSettings.hdr]
             off == [key |-> "hdr", value |-> FALSE]
             to == [key |-> "codec", value |-> "h264"]
             from == [key |-> "codec", value |-> "hevc"]
             out == RP!Adjustment(row)
  <1>1. toggle \in RP!Commands /\ off \in RP!Commands /\ to \in RP!Commands /\ from \in RP!Commands
    BY <1>0 DEF RP!Commands, RP!Codecs
  <1>2. \/ out = <<toggle>> \/ out = <<from>>
        \/ out = <<off>> \o <<to>> \/ out = <<>> \o <<to>>
    BY DEF RP!Adjustment
  <1> HIDE DEF toggle, off, to, from, out
  <1>3. /\ <<off>> \in Seq(RP!Commands) /\ <<to>> \in Seq(RP!Commands) /\ <<>> \in Seq(RP!Commands)
        /\ <<toggle>> \in Seq(RP!Commands) /\ <<from>> \in Seq(RP!Commands)
        /\ Len(<<toggle>>) = 1 /\ Len(<<from>>) = 1
    BY <1>1
  <1>4. /\ <<off>> \o <<to>> \in Seq(RP!Commands) /\ Len(<<off>> \o <<to>>) = 2
        /\ <<>> \o <<to>> \in Seq(RP!Commands) /\ Len(<<>> \o <<to>>) = 1
    <2>1. Len(<<off>>) = 1 /\ Len(<<to>>) = 1 /\ Len(<<>>) = 0
      OBVIOUS
    <2>2. \A x, y \in Seq(RP!Commands) : x \o y \in Seq(RP!Commands) /\ Len(x \o y) = Len(x) + Len(y)
      OBVIOUS
    <2>3. /\ <<off>> \o <<to>> \in Seq(RP!Commands) /\ Len(<<off>> \o <<to>>) = Len(<<off>>) + Len(<<to>>)
      BY <1>3, <2>2, Zenon
    <2>4. /\ <<>> \o <<to>> \in Seq(RP!Commands) /\ Len(<<>> \o <<to>>) = Len(<<>>) + Len(<<to>>)
      BY <1>3, <2>2, Zenon
    <2> QED
      BY <2>1, <2>3, <2>4
  <1>5. out \in Seq(RP!Commands) /\ (Len(out) = 1 \/ Len(out) = 2)
    BY <1>2, <1>3, <1>4, Zenon
  <1> QED
    BY <1>5 DEF out

\* A thread that has ended leaves the others in their order.
LEMMA EndedThread ==
    ASSUME NEW U, NEW s \in Seq(U), NEW i \in DOMAIN s
    PROVE  /\ RP!RemoveAt(s, i) \in Seq(U) /\ Len(RP!RemoveAt(s, i)) = Len(s) - 1
           /\ \A k \in DOMAIN RP!RemoveAt(s, i) :
                RP!RemoveAt(s, i)[k] = s[k] \/ (k + 1 \in DOMAIN s /\ RP!RemoveAt(s, i)[k] = s[k + 1])
  <1> DEFINE a == SubSeq(s, 1, i - 1)
             b == SubSeq(s, i + 1, Len(s))
  <1>0. Len(s) \in Nat /\ i \in 1 .. Len(s) /\ \A k \in 1 .. Len(s) : s[k] \in U
    OBVIOUS
  <1>1. a \in Seq(U) /\ Len(a) = i - 1 /\ \A k \in 1 .. (i - 1) : a[k] = s[k]
    BY <1>0
  <1>2. b \in Seq(U) /\ Len(b) = Len(s) - i /\ \A k \in 1 .. (Len(s) - i) : b[k] = s[k + i]
    BY <1>0
  <1>3. RP!RemoveAt(s, i) = a \o b
    BY DEF RP!RemoveAt
  <1> HIDE DEF a, b
  <1>4. a \o b \in Seq(U) /\ Len(a \o b) = Len(s) - 1
    BY <1>0, <1>1, <1>2
  <1>5. ASSUME NEW k \in 1 .. (Len(s) - 1)
        PROVE  (a \o b)[k] = s[k] \/ (k + 1 \in DOMAIN s /\ (a \o b)[k] = s[k + 1])
    <2>1. CASE k <= i - 1
      BY <1>0, <1>1, <1>2, <2>1
    <2>2. CASE ~(k <= i - 1)
      <3>1. (a \o b)[k] = b[k - (i - 1)]
        BY <1>0, <1>1, <1>2, <2>2, SMTT(30)
      <3>2. k - (i - 1) \in 1 .. (Len(s) - i) /\ k - (i - 1) + i = k + 1
        BY <1>0, <2>2
      <3> QED
        BY <1>0, <1>2, <3>1, <3>2, SMTT(30)
    <2> QED
      BY <2>1, <2>2
  <1>6. DOMAIN (a \o b) = 1 .. (Len(s) - 1)
    BY <1>4
  <1> QED
    BY <1>3, <1>4, <1>5, <1>6, Zenon

\* The rows of the settings.
LEMMA RowsLaw ==
    /\ DOMAIN RP!Rows = 1 .. 4
    /\ \A row \in 1 .. 4 : RP!Rows[row] \in {"codec", "hdr"} \cup RP!TextRows
    /\ RP!TextRows \subseteq {"target", "path"}
  BY DEF RP!Rows, RP!TextRows

\* The invariant of the settings, of given values of its variables.
SettingsLawOf(h, sh, bs, fb, row, ed, cl, ov) ==
    /\ h \in RP!Settings /\ sh \in RP!Settings
    /\ bs \in Seq(Seq(RP!Commands)) /\ Len(bs) <= MaxBatches
    /\ fb \in {"none", "saved", "failed"}
    /\ row \in DOMAIN RP!Rows
    /\ ed \in {"none"} \cup RP!TextRows
    /\ cl \in BOOLEAN /\ ov \in BOOLEAN
    /\ RP!Allowed(h)
    /\ \A i \in DOMAIN bs : Len(bs[i]) \in 1 .. 2
    /\ ~ov => \A i \in DOMAIN bs : i = 1 /\ RP!Accepted(bs[i], h)
    /\ ed # "none" /\ ~cl => ed = RP!Rows[row]

\* The invariant of the settings, unfolded.
LEMMA SettingsLaw ==
    RP!PanelSettingsInv <=>
        SettingsLawOf(held, shownSettings, batches, feedback, at, editing, clicked, overlap)
  <1>1. RP!PanelSettingsInv =>
            SettingsLawOf(held, shownSettings, batches, feedback, at, editing, clicked, overlap)
    BY DEF RP!PanelSettingsInv, RP!PanelSettingsTypeOK, RP!OneAccepted, RP!SettingsEdited,
           RP!EditKeepsItsRow, SettingsLawOf
  <1>2. SettingsLawOf(held, shownSettings, batches, feedback, at, editing, clicked, overlap)
            => RP!RejectedOnlyInOverlap
    BY DEF SettingsLawOf, RP!RejectedOnlyInOverlap, RP!Accepted
  <1>3. SettingsLawOf(held, shownSettings, batches, feedback, at, editing, clicked, overlap)
            => RP!PanelSettingsInv
    BY <1>2 DEF RP!PanelSettingsInv, RP!PanelSettingsTypeOK, RP!OneAccepted, RP!SettingsEdited,
           RP!EditKeepsItsRow, SettingsLawOf
  <1> QED
    BY <1>1, <1>3

\* The same of the next state.
LEMMA SettingsLawNext ==
    SettingsLawOf(held', shownSettings', batches', feedback', at', editing', clicked', overlap')
        => RP!PanelSettingsInv'
  <1>1. SettingsLawOf(held', shownSettings', batches', feedback', at', editing', clicked', overlap')
            => RP!RejectedOnlyInOverlap'
    BY DEF SettingsLawOf, RP!RejectedOnlyInOverlap, RP!Accepted
  <1> QED
    BY <1>1 DEF RP!PanelSettingsInv, RP!PanelSettingsTypeOK, RP!OneAccepted, RP!SettingsEdited,
           RP!EditKeepsItsRow, SettingsLawOf

\* What a thread sends next was accepted when it was computed.
LEMMA NextAccepted ==
    ASSUME NEW h \in RP!Settings, NEW commands \in Seq(RP!Commands), Len(commands) \in 1 .. 2
    PROVE  /\ RP!With(h, Head(commands)) \in RP!Settings
           /\ Tail(commands) \in Seq(RP!Commands)
           /\ Tail(commands) # <<>> => Len(Tail(commands)) \in 1 .. 2
           /\ RP!Accepted(commands, h) => RP!Allowed(RP!With(h, Head(commands)))
           /\ RP!Accepted(commands, h) /\ Tail(commands) # <<>>
                => RP!Accepted(Tail(commands), RP!With(h, Head(commands)))
  <1>1. Head(commands) \in RP!Commands /\ Head(commands) = commands[1]
    OBVIOUS
  <1>2. /\ Tail(commands) \in Seq(RP!Commands)
        /\ Tail(commands) # <<>> => /\ Len(commands) = 2 /\ Len(Tail(commands)) = 1
                                    /\ Tail(commands)[1] = commands[2]
    <2>1. Tail(commands) \in Seq(RP!Commands) /\ Len(Tail(commands)) = Len(commands) - 1
      OBVIOUS
    <2>2. CASE Len(commands) = 1
      <3>1. Len(Tail(commands)) = 0
        BY <2>1, <2>2
      <3>a. \A s \in Seq(RP!Commands) : Len(s) = 0 => s = <<>>
        OBVIOUS
      <3>2. Tail(commands) = <<>>
        BY <2>1, <3>1, <3>a, Zenon
      <3> QED
        BY <2>1, <3>2, Zenon
    <2>3. CASE Len(commands) = 2
      <3>1. Tail(commands)[1] = commands[2]
        BY <2>3
      <3>2. Len(Tail(commands)) = 1
        BY <2>1, <2>3
      <3> QED
        BY <2>1, <2>3, <3>1, <3>2, Zenon
    <2>4. Len(commands) = 1 \/ Len(commands) = 2
      OBVIOUS
    <2> QED
      BY <2>2, <2>3, <2>4, Zenon
  <1>3. RP!With(h, Head(commands)) \in RP!Settings
    BY <1>1, WithFields
  <1> QED
    BY <1>1, <1>2, <1>3 DEF RP!Accepted

\* The settings start allowed, with no thread on its way.
LEMMA SettingsStart == ShellInit => RP!PanelSettingsInv
  <1> SUFFICES ASSUME ShellInit PROVE RP!PanelSettingsInv
    OBVIOUS
  <1>1. RP!PanelSettingsInit /\ MaxBatches \in Nat
    BY ShellAssumption DEF ShellInit, RP!PanelAssumption
  <1>2. clicked = FALSE /\ overlap = FALSE
    BY <1>1 DEF RP!PanelSettingsInit
  <1>3. clicked \in BOOLEAN /\ overlap \in BOOLEAN
    BY <1>2
  <1>4. batches = <<>> /\ batches \in Seq(Seq(RP!Commands)) /\ Len(batches) = 0 /\ DOMAIN batches = {}
    BY <1>1 DEF RP!PanelSettingsInit
  <1>5. SettingsLawOf(held, shownSettings, batches, feedback, at, editing, clicked, overlap)
    BY <1>1, <1>3, <1>4, RowsLaw DEF RP!PanelSettingsInit, SettingsLawOf
  <1> QED
    BY <1>5, SettingsLaw

\* Commands that were accepted for what the panel shows are sent.
LEMMA SentBatch ==
    ASSUME RP!PanelSettingsInv, NEW commands \in Seq(RP!Commands), Len(commands) \in 1 .. 2,
           shownSettings = held => RP!Accepted(commands, held), RP!SendCommands(commands),
           UNCHANGED <<held, shownSettings>>
    PROVE  /\ batches' \in Seq(Seq(RP!Commands)) /\ Len(batches') <= MaxBatches
           /\ feedback' \in {"none", "saved", "failed"} /\ overlap' \in BOOLEAN
           /\ \A i \in DOMAIN batches' : Len(batches'[i]) \in 1 .. 2
           /\ ~overlap' => \A i \in DOMAIN batches' : i = 1 /\ RP!Accepted(batches'[i], held')
  <1>1. SettingsLawOf(held, shownSettings, batches, feedback, at, editing, clicked, overlap)
    BY SettingsLaw
  <1>2. /\ batches \in Seq(Seq(RP!Commands)) /\ \A i \in DOMAIN batches : Len(batches[i]) \in 1 .. 2
        /\ overlap \in BOOLEAN /\ MaxBatches \in Nat
    BY <1>1, ShellAssumption DEF SettingsLawOf, RP!PanelAssumption
  <1>3. /\ Len(batches) < MaxBatches /\ batches' = Append(batches, commands)
        /\ overlap' = (overlap \/ batches # <<>> \/ shownSettings # held)
        /\ feedback' = "none"
    BY DEF RP!SendCommands
  <1>4. overlap' \in BOOLEAN
    BY <1>3
  <1>5. /\ batches' \in Seq(Seq(RP!Commands)) /\ Len(batches') = Len(batches) + 1
        /\ \A i \in 1 .. Len(batches) : batches'[i] = batches[i]
        /\ batches'[Len(batches) + 1] = commands
    BY <1>2, <1>3
  <1>6. \A i \in DOMAIN batches' : Len(batches'[i]) \in 1 .. 2
    <2>1. /\ DOMAIN batches' = 1 .. (Len(batches) + 1) /\ DOMAIN batches = 1 .. Len(batches)
          /\ Len(batches) \in Nat
      BY <1>2, <1>5
    <2>2. ASSUME NEW i \in 1 .. (Len(batches) + 1) PROVE Len(batches'[i]) \in 1 .. 2
      <3>1. CASE i \in 1 .. Len(batches)
        BY <1>2, <1>5, <2>1, <3>1
      <3>2. CASE i = Len(batches) + 1
        BY <1>5, <3>2
      <3> QED
        BY <2>1, <3>1, <3>2
    <2> QED
      BY <2>1, <2>2
  <1>7. ~overlap' => batches = <<>> /\ shownSettings = held
    BY <1>3, Zenon
  <1>8. ~overlap' => \A i \in DOMAIN batches' : i = 1 /\ RP!Accepted(batches'[i], held')
    <2>1. SUFFICES ASSUME ~overlap', NEW i \in DOMAIN batches'
                   PROVE  i = 1 /\ RP!Accepted(batches'[i], held')
      OBVIOUS
    <2>2. Len(batches) = 0 /\ held' = held /\ shownSettings = held
      BY <1>7, <2>1
    <2>3. i = 1 /\ batches'[i] = commands
      BY <1>5, <2>1, <2>2
    <2> QED
      BY <2>2, <2>3
  <1> QED
    BY <1>2, <1>3, <1>4, <1>5, <1>6, <1>8

\* A thread's step: what it applied is accepted, and what it has left was.
LEMMA Delivered ==
    ASSUME RP!PanelSettingsInv, NEW i \in DOMAIN batches, RP!Deliver(i)
    PROVE  RP!PanelSettingsInv'
  <1> DEFINE h == RP!With(held, Head(batches[i]))
             rest == Tail(batches[i])
             ok == RP!Allowed(h)
  <1>1. SettingsLawOf(held, shownSettings, batches, feedback, at, editing, clicked, overlap)
    BY SettingsLaw
  <1>2. /\ held \in RP!Settings /\ RP!Allowed(held)
        /\ batches \in Seq(Seq(RP!Commands)) /\ Len(batches) <= MaxBatches /\ MaxBatches \in Nat
        /\ \A k \in DOMAIN batches : Len(batches[k]) \in 1 .. 2
        /\ ~overlap => \A k \in DOMAIN batches : k = 1 /\ RP!Accepted(batches[k], held)
    BY <1>1, ShellAssumption DEF SettingsLawOf, RP!PanelAssumption
  <1>3. batches[i] \in Seq(RP!Commands) /\ Len(batches[i]) \in 1 .. 2
    BY <1>2
  <1>4. /\ h \in RP!Settings /\ rest \in Seq(RP!Commands) /\ (rest # <<>> => Len(rest) \in 1 .. 2)
        /\ RP!Accepted(batches[i], held) => ok
        /\ RP!Accepted(batches[i], held) /\ rest # <<>> => RP!Accepted(rest, h)
    BY <1>2, <1>3, NextAccepted
  <1>5. /\ held' = IF ok THEN h ELSE held
        /\ batches' = IF ok /\ rest # <<>> THEN [batches EXCEPT ![i] = rest]
                                            ELSE RP!RemoveAt(batches, i)
        /\ feedback' = IF ~ok THEN "failed" ELSE IF rest = <<>> THEN "saved" ELSE feedback
        /\ UNCHANGED <<shownSettings, at, editing, clicked, overlap>>
    BY DEF RP!Deliver
  <1>6. feedback' \in {"none", "saved", "failed"}
    BY <1>1, <1>5 DEF SettingsLawOf
  <1>7. held' \in RP!Settings /\ RP!Allowed(held')
    BY <1>2, <1>4, <1>5
  <1> HIDE DEF h, rest
  <1>8. /\ batches' \in Seq(Seq(RP!Commands)) /\ Len(batches') <= MaxBatches
        /\ \A k \in DOMAIN batches' : Len(batches'[k]) \in 1 .. 2
        /\ ~overlap => \A k \in DOMAIN batches' : k = 1 /\ RP!Accepted(batches'[k], held')
    <2>1. CASE ok /\ rest # <<>>
      <3>1. batches' = [batches EXCEPT ![i] = rest] /\ held' = h
        BY <1>5, <2>1
      <3>2. batches' \in Seq(Seq(RP!Commands)) /\ Len(batches') = Len(batches)
            /\ DOMAIN batches' = DOMAIN batches
        BY <1>2, <1>4, <3>1
      <3>3. \A k \in DOMAIN batches : batches'[k] = IF k = i THEN rest ELSE batches[k]
        BY <1>2, <3>1
      <3>4. \A k \in DOMAIN batches' : Len(batches'[k]) \in 1 .. 2
        BY <1>2, <1>4, <2>1, <3>2, <3>3
      <3>5. ~overlap => \A k \in DOMAIN batches' : k = 1 /\ RP!Accepted(batches'[k], held')
        <4>1. ASSUME ~overlap, NEW k \in DOMAIN batches
              PROVE  k = 1 /\ RP!Accepted(batches'[k], held')
          <5>1. k = 1 /\ i = 1 /\ RP!Accepted(batches[i], held)
            BY <1>2, <4>1, Zenon
          <5>2. batches'[k] = rest
            BY <3>3, <4>1, <5>1
          <5> QED
            BY <1>4, <2>1, <3>1, <5>1, <5>2
        <4> QED
          BY <3>2, <4>1
      <3> QED
        BY <1>2, <3>2, <3>4, <3>5
    <2>2. CASE ~(ok /\ rest # <<>>)
      <3>1. batches' = RP!RemoveAt(batches, i)
        BY <1>5, <2>2
      <3>2. /\ batches' \in Seq(Seq(RP!Commands)) /\ Len(batches') = Len(batches) - 1
            /\ \A k \in DOMAIN batches' :
                batches'[k] = batches[k] \/ (k + 1 \in DOMAIN batches /\ batches'[k] = batches[k + 1])
        BY <1>2, <3>1, EndedThread
      <3>3. /\ DOMAIN batches' = 1 .. (Len(batches) - 1) /\ DOMAIN batches = 1 .. Len(batches)
            /\ Len(batches) \in Nat
        BY <1>2, <3>2
      <3>4. \A k \in DOMAIN batches' : k \in DOMAIN batches
        BY <3>3
      <3>5. \A k \in DOMAIN batches' : Len(batches'[k]) \in 1 .. 2
        BY <1>2, <3>2, <3>4
      <3>6. ~overlap => DOMAIN batches' = {}
        <4>1. ASSUME ~overlap PROVE Len(batches) <= 1
          <5>1. \A k \in 1 .. Len(batches) : k = 1
            BY <1>2, <3>3, <4>1
          <5> QED
            BY <3>3, <5>1
        <4> QED
          BY <3>3, <4>1
      <3> QED
        BY <1>2, <3>2, <3>3, <3>5, <3>6
    <2> QED
      BY <2>1, <2>2
  <1>9. SettingsLawOf(held', shownSettings', batches', feedback', at', editing', clicked', overlap')
    <2>1. /\ shownSettings \in RP!Settings /\ at \in DOMAIN RP!Rows
          /\ editing \in {"none"} \cup RP!TextRows
          /\ clicked \in BOOLEAN /\ overlap \in BOOLEAN
          /\ editing # "none" /\ ~clicked => editing = RP!Rows[at]
      BY <1>1 DEF SettingsLawOf
    <2>2. /\ shownSettings' = shownSettings /\ at' = at /\ editing' = editing
          /\ clicked' = clicked /\ overlap' = overlap
      BY <1>5
    <2> QED
      BY <1>6, <1>7, <1>8, <2>1, <2>2 DEF SettingsLawOf
  <1> QED
    BY <1>9, SettingsLawNext

\* No edit, thread or refresh breaks what was accepted.
LEMMA SettingsStep == RP!PanelSettingsInv /\ [RP!PanelSettingsNext]_settingsVars => RP!PanelSettingsInv'
  <1> SUFFICES ASSUME RP!PanelSettingsInv, [RP!PanelSettingsNext]_settingsVars
               PROVE  RP!PanelSettingsInv'
    OBVIOUS
  <1>0. SettingsLawOf(held, shownSettings, batches, feedback, at, editing, clicked, overlap)
    BY SettingsLaw
  <1>2. CASE RP!Adjust
    <2>1. UNCHANGED <<held, shownSettings, at, editing, clicked>>
      BY <1>2 DEF RP!Adjust
    <2>2. RP!Rows[at] \in {"codec", "hdr"}
      BY <1>0, <1>2, RowsLaw DEF RP!Adjust, SettingsLawOf
    <2> DEFINE commands == RP!Adjustment(RP!Rows[at])
    <2>3. commands \in Seq(RP!Commands) /\ Len(commands) \in 1 .. 2
      BY <1>0, <2>2, AdjustmentType DEF SettingsLawOf
    <2> HIDE DEF commands
    <2>4. CASE RP!Accepted(commands, shownSettings) /\ RP!SendCommands(commands)
      <3>1. /\ batches' \in Seq(Seq(RP!Commands)) /\ Len(batches') <= MaxBatches
            /\ feedback' \in {"none", "saved", "failed"} /\ overlap' \in BOOLEAN
            /\ \A i \in DOMAIN batches' : Len(batches'[i]) \in 1 .. 2
            /\ ~overlap' => \A i \in DOMAIN batches' : i = 1 /\ RP!Accepted(batches'[i], held')
        BY <2>1, <2>3, <2>4, SentBatch
      <3> QED
        BY <1>0, <2>1, <3>1, SettingsLawNext DEF SettingsLawOf
    <2>5. CASE feedback' = "failed" /\ UNCHANGED <<batches, overlap>>
      BY <1>0, <2>1, <2>5, SettingsLawNext DEF SettingsLawOf
    <2> QED
      BY <1>2, <2>4, <2>5 DEF RP!Adjust, RP!Acceptable, commands
  <1>3. CASE RP!Refreshed
    <2>1. /\ shownSettings' = held /\ UNCHANGED <<held, batches, feedback, at, editing, clicked>>
          /\ overlap' = (overlap /\ batches # <<>>)
      BY <1>3 DEF RP!Refreshed
    <2>2. overlap' \in BOOLEAN /\ (~overlap' => ~overlap \/ batches = <<>>)
      BY <2>1, Zenon
    <2>3. batches = <<>> => DOMAIN batches = {}
      OBVIOUS
    <2> QED
      BY <1>0, <2>1, <2>2, <2>3, SettingsLawNext DEF SettingsLawOf
  <1>4. CASE RP!KeyRow
    <2>1. at' \in DOMAIN RP!Rows /\ editing' = "none" /\ clicked' = FALSE
      BY <1>4 DEF RP!KeyRow, RP!MoveRow
    <2>2. clicked' \in BOOLEAN /\ UNCHANGED <<held, shownSettings, batches, feedback, overlap>>
      BY <1>4, <2>1 DEF RP!KeyRow
    <2> QED
      BY <1>0, <2>1, <2>2, SettingsLawNext DEF SettingsLawOf
  <1>5. CASE RP!BeginEdit
    <2>1. /\ editing' = RP!Rows[at] /\ RP!Rows[at] \in RP!TextRows /\ clicked' = FALSE
          /\ UNCHANGED <<held, shownSettings, batches, feedback, at, overlap>>
      BY <1>5 DEF RP!BeginEdit
    <2>2. clicked' \in BOOLEAN
      BY <2>1
    <2> QED
      BY <1>0, <2>1, <2>2, SettingsLawNext DEF SettingsLawOf
  <1>6. CASE RP!CancelEdit
    <2>1. /\ editing' = "none" /\ clicked' = FALSE
          /\ UNCHANGED <<held, shownSettings, batches, feedback, at, overlap>>
      BY <1>6 DEF RP!CancelEdit
    <2>2. clicked' \in BOOLEAN
      BY <2>1
    <2> QED
      BY <1>0, <2>1, <2>2, SettingsLawNext DEF SettingsLawOf
  <1>7. CASE RP!Commit
    <2> DEFINE c == [key |-> IF RP!Rows[at] = "target" THEN "target" ELSE "path", value |-> editing]
    <2>1. /\ RP!SendCommands(<<c>>) /\ editing' = "none" /\ editing # "none"
          /\ UNCHANGED <<held, shownSettings, at, clicked>>
      BY <1>7 DEF RP!Commit
    <2>2. c \in RP!Commands /\ c.key \in {"target", "path"}
      BY <1>0, <2>1 DEF SettingsLawOf, RP!Commands, RP!TextRows
    <2> HIDE DEF c
    <2>3. <<c>> \in Seq(RP!Commands) /\ Len(<<c>>) = 1 /\ <<c>>[1] = c
      BY <2>2
    <2>4. RP!Accepted(<<c>>, held)
      <3>1. held \in RP!Settings /\ RP!Allowed(held)
        BY <1>0 DEF SettingsLawOf
      <3>2. RP!Allowed(RP!With(held, c))
        BY <2>2, <3>1, WithFields
      <3> QED
        BY <2>3, <3>2 DEF RP!Accepted
    <2>5. /\ batches' \in Seq(Seq(RP!Commands)) /\ Len(batches') <= MaxBatches
          /\ feedback' \in {"none", "saved", "failed"} /\ overlap' \in BOOLEAN
          /\ \A i \in DOMAIN batches' : Len(batches'[i]) \in 1 .. 2
          /\ ~overlap' => \A i \in DOMAIN batches' : i = 1 /\ RP!Accepted(batches'[i], held')
      <3>1. <<c>> \in Seq(RP!Commands) /\ Len(<<c>>) \in 1 .. 2
        BY <2>3
      <3>2. UNCHANGED <<held, shownSettings>>
        BY <2>1
      <3> QED
        BY <2>1, <2>4, <3>1, <3>2, SentBatch, Zenon
    <2> QED
      BY <1>0, <2>1, <2>5, SettingsLawNext DEF SettingsLawOf
  <1>8. ASSUME NEW row \in DOMAIN RP!Rows, RP!ClickRow(row) PROVE RP!PanelSettingsInv'
    <2>1. /\ at' = row /\ UNCHANGED <<held, shownSettings, batches, feedback, overlap>>
          /\ editing' = IF RP!Rows[row] \in RP!TextRows THEN RP!Rows[row] ELSE editing
          /\ clicked' = (RP!Rows[row] \notin RP!TextRows /\ editing # "none")
      BY <1>8 DEF RP!ClickRow
    <2>2. clicked' \in BOOLEAN /\ (~clicked' => RP!Rows[row] \in RP!TextRows \/ editing = "none")
      BY <2>1, Zenon
    <2> QED
      BY <1>0, <2>1, <2>2, SettingsLawNext DEF SettingsLawOf
  <1>9. ASSUME NEW i \in DOMAIN batches, RP!Deliver(i) PROVE RP!PanelSettingsInv'
    BY <1>9, Delivered
  <1>10. CASE UNCHANGED settingsVars
    BY <1>0, <1>10, SettingsLawNext DEF settingsVars, SettingsLawOf
  <1> QED
    BY <1>2, <1>3, <1>4, <1>5, <1>6, <1>7, <1>8, <1>9, <1>10 DEF RP!PanelSettingsNext

-----------------------------------------------------------------------------
(* The tray: what it lists, and who is watched.                            *)

\* What the invariant says of one application.
Watches(a, isListed, isLister, w, pending, count) ==
    /\ w # "none" <=> isListed /\ ~isLister
    /\ isLister => isListed
    /\ pending + (IF isListed THEN 1 ELSE 0) <= count
Follows(there, lifeNow, w, found, losses) ==
    /\ there => lifeNow > 0
    /\ w \in {"asked", "watching"} => (there /\ found = lifeNow) \/ found \in losses
LastWord(a, queue, here, isListed) ==
    /\ \A i \in DOMAIN queue : TY!LastOf(queue, a, i) => (isListed <=> queue[i][2] # "gone")
    /\ TY!Unsaid(queue, a) => (isListed <=> here # "none")

\* The invariant, one application at a time.
LEMMA TrayLaw ==
    TY!TrayInv <=>
        /\ TY!TrayTypeOK
        /\ \A a \in Apps :
            /\ Watches(a, a \in trayListed, lister = a, warden[a], removals[a], registrations[a])
            /\ Follows(appAlive[a], appLife[a], warden[a], awaited[a], lost[a])
            /\ a \notin trayOvertaken /\ lister # a /\ removals[a] = 0
                => LastWord(a, trayQueue, tray[a], a \in trayListed)
  <1>1. TY!TrayInv <=> /\ TY!TrayTypeOK /\ TY!TrayAgrees /\ TY!ListedIsWatched
                       /\ TY!OwnerFollowed /\ TY!LastWordListed
    BY DEF TY!TrayInv
  <1>2. TY!ListedIsWatched <=> \A a \in Apps :
            Watches(a, a \in trayListed, lister = a, warden[a], removals[a], registrations[a])
    BY DEF TY!ListedIsWatched, Watches
  <1>3. TY!OwnerFollowed <=> \A a \in Apps :
            Follows(appAlive[a], appLife[a], warden[a], awaited[a], lost[a])
    BY DEF TY!OwnerFollowed, Follows, TY!OwnerLost
  <1>4. TY!LastWordListed <=> \A a \in Apps :
            a \notin trayOvertaken /\ lister # a /\ removals[a] = 0
                => LastWord(a, trayQueue, tray[a], a \in trayListed)
    BY DEF TY!LastWordListed, LastWord
  <1>5. ASSUME /\ TY!ListedIsWatched /\ TY!OwnerFollowed /\ TY!LastWordListed
        PROVE  TY!TrayAgrees
    <2> SUFFICES ASSUME NEW a \in Apps, TY!Settled(a), a \notin trayOvertaken
                 PROVE  /\ a \in trayListed <=> tray[a] # "none"
                        /\ a \in trayListed => appAlive[a] /\ awaited[a] = appLife[a]
      BY DEF TY!TrayAgrees
    <2>1. /\ lister # a /\ removals[a] = 0 /\ TY!Unsaid(trayQueue, a)
          /\ warden[a] \in {"none", "watching"} /\ ~(warden[a] = "watching" /\ TY!OwnerLost(a))
      BY DEF TY!Settled
    <2>2. a \in trayListed <=> tray[a] # "none"
      BY <1>5, <2>1 DEF TY!LastWordListed
    <2>3. a \in trayListed => warden[a] = "watching"
      BY <1>5, <2>1 DEF TY!ListedIsWatched
    <2>4. warden[a] = "watching" => appAlive[a] /\ awaited[a] = appLife[a]
      BY <1>5, <2>1 DEF TY!OwnerFollowed
    <2> QED
      BY <2>2, <2>3, <2>4
  <1> QED
    BY <1>1, <1>2, <1>3, <1>4, <1>5

\* Nothing is listed before the first registration.
LEMMA TrayStart == TY!TrayInit => TY!TrayInv
  <1> SUFFICES ASSUME TY!TrayInit PROVE TY!TrayInv
    OBVIOUS
  <1> USE ShellAssumption DEF TY!TrayAssumption
  <1>1. /\ appLife = [a \in Apps |-> 0] /\ appAlive = [a \in Apps |-> FALSE]
        /\ trayListed = {} /\ lister = Nobody /\ registrations = [a \in Apps |-> 0]
        /\ warden = [a \in Apps |-> "none"] /\ awaited = [a \in Apps |-> 0]
        /\ lost = [a \in Apps |-> {}] /\ removals = [a \in Apps |-> 0]
        /\ refresher = [t \in TY!Threads |-> "none"]
        /\ trayQueue = <<>> /\ tray = [a \in Apps |-> "none"]
        /\ trayOvertaken = {}
    BY DEF TY!TrayInit
  <1>2. Nobody \notin Apps /\ MaxLives \in Nat /\ MaxRegistrations \in Nat /\ MaxTrayQueue \in Nat
    BY DEF TY!TrayAssumption
  <1>3. trayQueue \in Seq(Apps \X (TY!Looks \cup {"gone"})) /\ Len(trayQueue) = 0 /\ DOMAIN trayQueue = {}
    BY <1>1
  <1>4. appAlive \in [Apps -> BOOLEAN]
    BY <1>1
  <1>5. TY!TrayTypeOK
    BY <1>1, <1>2, <1>3, <1>4 DEF TY!TrayTypeOK
  <1>6. \A a \in Apps : lister # a /\ ~appAlive[a]
    BY <1>1, <1>2
  <1>7. \A a \in Apps :
            /\ Watches(a, a \in trayListed, lister = a, warden[a], removals[a], registrations[a])
            /\ Follows(appAlive[a], appLife[a], warden[a], awaited[a], lost[a])
            /\ LastWord(a, trayQueue, tray[a], a \in trayListed)
    BY <1>1, <1>3, <1>6 DEF Watches, Follows, LastWord
  <1> QED
    BY <1>5, <1>7, TrayLaw

\* The same of the next state.
LEMMA TrayLawNext ==
    ASSUME TY!TrayTypeOK',
           \A a \in Apps :
            /\ Watches(a, a \in trayListed', lister' = a, warden'[a], removals'[a], registrations'[a])
            /\ Follows(appAlive'[a], appLife'[a], warden'[a], awaited'[a], lost'[a])
            /\ a \notin trayOvertaken' /\ lister' # a /\ removals'[a] = 0
                => LastWord(a, trayQueue', tray'[a], a \in trayListed')
    PROVE  TY!TrayInv'
  <1>1. TY!ListedIsWatched'
    BY DEF TY!ListedIsWatched, Watches
  <1>2. TY!OwnerFollowed'
    BY DEF TY!OwnerFollowed, Follows, TY!OwnerLost
  <1>3. TY!LastWordListed'
    BY DEF TY!LastWordListed, LastWord
  <1>4. TY!TrayAgrees'
    <2> SUFFICES ASSUME NEW a \in Apps, TY!Settled(a)', a \notin trayOvertaken'
                 PROVE  /\ a \in trayListed' <=> tray'[a] # "none"
                        /\ a \in trayListed' => appAlive'[a] /\ awaited'[a] = appLife'[a]
      BY DEF TY!TrayAgrees
    <2>1. /\ lister' # a /\ removals'[a] = 0 /\ TY!Unsaid(trayQueue', a)
          /\ warden'[a] \in {"none", "watching"} /\ ~(warden'[a] = "watching" /\ awaited'[a] \in lost'[a])
      BY DEF TY!Settled, TY!OwnerLost
    <2>2. a \in trayListed' <=> tray'[a] # "none"
      BY <1>3, <2>1 DEF TY!LastWordListed
    <2>3. a \in trayListed' => warden'[a] = "watching"
      BY <1>1, <2>1 DEF TY!ListedIsWatched
    <2>4. warden'[a] = "watching" => appAlive'[a] /\ awaited'[a] = appLife'[a]
      BY <1>2, <2>1 DEF TY!OwnerFollowed, TY!OwnerLost
    <2> QED
      BY <2>2, <2>3, <2>4
  <1> QED
    BY <1>1, <1>2, <1>3, <1>4 DEF TY!TrayInv

\* A message that joins the queue is the last word about its application.
LEMMA Said ==
    ASSUME NEW M, NEW queue \in Seq(M), NEW a, NEW what, NEW b, NEW here, NEW isListed \in BOOLEAN,
           <<a, what>> \in M
    PROVE  /\ b # a /\ LastWord(b, queue, here, isListed)
                => LastWord(b, Append(queue, <<a, what>>), here, isListed)
           /\ (isListed <=> what # "gone") => LastWord(a, Append(queue, <<a, what>>), here, isListed)
  <1> DEFINE n == Len(queue)
             more == Append(queue, <<a, what>>)
  <1>1. /\ n \in Nat /\ DOMAIN queue = 1 .. n /\ DOMAIN more = 1 .. (n + 1)
        /\ \A i \in 1 .. n : more[i] = queue[i]
        /\ more[n + 1] = <<a, what>>
    OBVIOUS
  <1>2. <<a, what>>[1] = a /\ <<a, what>>[2] = what
    OBVIOUS
  <1> HIDE DEF n, more
  <1>3. ASSUME b # a, LastWord(b, queue, here, isListed) PROVE LastWord(b, more, here, isListed)
    <2>1. ASSUME NEW i \in DOMAIN more, TY!LastOf(more, b, i) PROVE isListed <=> more[i][2] # "gone"
      <3>1. i # n + 1
        BY <1>1, <1>2, <1>3, <2>1 DEF TY!LastOf
      <3>2. i \in 1 .. n
        BY <1>1, <3>1
      <3>3. TY!LastOf(queue, b, i)
        BY <1>1, <2>1, <3>2 DEF TY!LastOf
      <3> QED
        BY <1>1, <1>3, <3>2, <3>3 DEF LastWord
    <2>2. TY!Unsaid(more, b) => TY!Unsaid(queue, b)
      BY <1>1 DEF TY!Unsaid
    <2> QED
      BY <1>3, <2>1, <2>2 DEF LastWord
  <1>4. ASSUME isListed <=> what # "gone" PROVE LastWord(a, more, here, isListed)
    <2>1. n + 1 \in DOMAIN more /\ more[n + 1][1] = a /\ more[n + 1][2] = what
      BY <1>1, <1>2
    <2>2. ASSUME NEW i \in DOMAIN more, TY!LastOf(more, a, i) PROVE i = n + 1
      <3>1. ~(n + 1 > i)
        BY <2>1, <2>2 DEF TY!LastOf
      <3> QED
        BY <1>1, <3>1
    <2>3. ~TY!Unsaid(more, a)
      BY <2>1 DEF TY!Unsaid
    <2> QED
      BY <1>4, <2>1, <2>2, <2>3 DEF LastWord
  <1> QED
    BY <1>3, <1>4 DEF more

\* The bar shows what it takes from the queue.
LEMMA Heard ==
    ASSUME NEW M, NEW queue \in Seq(M), queue # <<>>, NEW b, NEW here, NEW isListed \in BOOLEAN,
           LastWord(b, queue, here, isListed),
           NEW next, next = IF Head(queue)[1] # b THEN here
                            ELSE IF Head(queue)[2] = "gone" THEN "none" ELSE Head(queue)[2],
           Head(queue)[2] # "none"
    PROVE  LastWord(b, Tail(queue), next, isListed)
  <1> DEFINE n == Len(queue)
             rest == Tail(queue)
  <1>1. /\ n \in Nat /\ n > 0 /\ DOMAIN queue = 1 .. n /\ DOMAIN rest = 1 .. (n - 1)
        /\ \A i \in 1 .. (n - 1) : rest[i] = queue[i + 1]
        /\ Head(queue) = queue[1]
    OBVIOUS
  <1> HIDE DEF n, rest
  <1>2. ASSUME NEW i \in DOMAIN rest, TY!LastOf(rest, b, i) PROVE isListed <=> rest[i][2] # "gone"
    <2>1. i + 1 \in DOMAIN queue /\ queue[i + 1] = rest[i] /\ i \in Nat
      BY <1>1
    <2>2. ASSUME NEW j \in DOMAIN queue, j > i + 1 PROVE queue[j][1] # b
      <3>1. j - 1 \in DOMAIN rest /\ j - 1 > i /\ rest[j - 1] = queue[j]
        BY <1>1, <2>1, <2>2
      <3> QED
        BY <1>2, <3>1 DEF TY!LastOf
    <2>3. TY!LastOf(queue, b, i + 1)
      BY <1>2, <2>1, <2>2 DEF TY!LastOf
    <2> QED
      BY <2>1, <2>3 DEF LastWord
  <1>3. ASSUME TY!Unsaid(rest, b) PROVE isListed <=> next # "none"
    <2>1. ASSUME NEW j \in DOMAIN queue, j > 1 PROVE queue[j][1] # b
      <3>1. j - 1 \in DOMAIN rest /\ rest[j - 1] = queue[j]
        BY <1>1, <2>1
      <3> QED
        BY <1>3, <3>1 DEF TY!Unsaid
    <2>2. 1 \in DOMAIN queue
      BY <1>1
    <2>3. CASE Head(queue)[1] = b
      <3>1. TY!LastOf(queue, b, 1)
        BY <1>1, <2>1, <2>3 DEF TY!LastOf
      <3>2. isListed <=> queue[1][2] # "gone"
        BY <2>2, <3>1 DEF LastWord
      <3> QED
        BY <1>1, <2>3, <3>2
    <2>4. CASE Head(queue)[1] # b
      <3>1. ASSUME NEW j \in DOMAIN queue PROVE queue[j][1] # b
        BY <1>1, <2>1, <2>4
      <3>2. TY!Unsaid(queue, b)
        BY <3>1 DEF TY!Unsaid
      <3> QED
        BY <2>4, <3>2 DEF LastWord
    <2> QED
      BY <2>3, <2>4
  <1> QED
    BY <1>2, <1>3 DEF LastWord, rest

\* The types, unfolded.
LEMMA TrayTypes ==
    ASSUME TY!TrayTypeOK
    PROVE  /\ Nobody \notin Apps /\ MaxLives \in Nat /\ MaxRegistrations \in Nat
           /\ MaxTrayQueue \in Nat
           /\ appLife \in [Apps -> 0 .. MaxLives] /\ appAlive \in [Apps -> BOOLEAN]
           /\ trayListed \subseteq Apps /\ lister \in Apps \cup {Nobody}
           /\ registrations \in [Apps -> 0 .. MaxRegistrations]
           /\ warden \in [Apps -> {"none", "started", "subscribed", "asked", "watching"}]
           /\ removals \in [Apps -> 0 .. MaxRegistrations]
           /\ awaited \in [Apps -> 0 .. MaxLives]
           /\ lost \in [Apps -> SUBSET (1 .. MaxLives)]
           /\ refresher \in [TY!Threads -> {"none", "idle", "blank", "icon"}]
           /\ trayQueue \in Seq(Apps \X {"blank", "icon", "gone"}) /\ Len(trayQueue) <= MaxTrayQueue
           /\ tray \in [Apps -> {"blank", "icon", "none"}]
           /\ trayOvertaken \subseteq Apps
  <1>1. /\ {"none", "started"} \cup TY!Subscribed = {"none", "started", "subscribed", "asked", "watching"}
        /\ {"none", "idle"} \cup TY!Looks = {"none", "idle", "blank", "icon"}
        /\ TY!Looks \cup {"gone"} = {"blank", "icon", "gone"}
        /\ TY!Looks \cup {"none"} = {"blank", "icon", "none"}
    BY DEF TY!Subscribed, TY!Looks
  <1> QED
    BY <1>1, ShellAssumption DEF TY!TrayTypeOK, TY!TrayAssumption

\* The same of the next state.
LEMMA TrayTypesNext ==
    ASSUME /\ appLife' \in [Apps -> 0 .. MaxLives] /\ appAlive' \in [Apps -> BOOLEAN]
           /\ trayListed' \subseteq Apps /\ lister' \in Apps \cup {Nobody}
           /\ registrations' \in [Apps -> 0 .. MaxRegistrations]
           /\ warden' \in [Apps -> {"none", "started", "subscribed", "asked", "watching"}]
           /\ removals' \in [Apps -> 0 .. MaxRegistrations]
           /\ awaited' \in [Apps -> 0 .. MaxLives]
           /\ lost' \in [Apps -> SUBSET (1 .. MaxLives)]
           /\ refresher' \in [TY!Threads -> {"none", "idle", "blank", "icon"}]
           /\ trayQueue' \in Seq(Apps \X {"blank", "icon", "gone"}) /\ Len(trayQueue') <= MaxTrayQueue
           /\ tray' \in [Apps -> {"blank", "icon", "none"}]
           /\ trayOvertaken' \subseteq Apps
    PROVE  TY!TrayTypeOK'
  <1>1. /\ {"none", "started"} \cup TY!Subscribed = {"none", "started", "subscribed", "asked", "watching"}
        /\ {"none", "idle"} \cup TY!Looks = {"none", "idle", "blank", "icon"}
        /\ TY!Looks \cup {"gone"} = {"blank", "icon", "gone"}
        /\ TY!Looks \cup {"none"} = {"blank", "icon", "none"}
    BY DEF TY!Subscribed, TY!Looks
  <1> QED
    BY <1>1 DEF TY!TrayTypeOK

\* An application starts or ends.
LEMMA AppStep ==
    ASSUME TY!TrayInv, NEW a \in Apps, TY!Start(a) \/ TY!Quit(a)
    PROVE  TY!TrayInv'
  <1>1. /\ Nobody \notin Apps /\ MaxLives \in Nat /\ MaxRegistrations \in Nat /\ MaxTrayQueue \in Nat
        /\ appLife \in [Apps -> 0 .. MaxLives] /\ appAlive \in [Apps -> BOOLEAN]
        /\ trayListed \subseteq Apps /\ lister \in Apps \cup {Nobody}
        /\ registrations \in [Apps -> 0 .. MaxRegistrations]
        /\ warden \in [Apps -> {"none", "started", "subscribed", "asked", "watching"}]
        /\ removals \in [Apps -> 0 .. MaxRegistrations]
        /\ awaited \in [Apps -> 0 .. MaxLives] /\ lost \in [Apps -> SUBSET (1 .. MaxLives)]
        /\ refresher \in [TY!Threads -> {"none", "idle", "blank", "icon"}]
        /\ trayQueue \in Seq(Apps \X {"blank", "icon", "gone"}) /\ Len(trayQueue) <= MaxTrayQueue
        /\ tray \in [Apps -> {"blank", "icon", "none"}] /\ trayOvertaken \subseteq Apps
    BY TrayTypes, TrayLaw
  <1>2. \A b \in Apps :
            /\ Watches(b, b \in trayListed, lister = b, warden[b], removals[b], registrations[b])
            /\ Follows(appAlive[b], appLife[b], warden[b], awaited[b], lost[b])
            /\ b \notin trayOvertaken /\ lister # b /\ removals[b] = 0
                => LastWord(b, trayQueue, tray[b], b \in trayListed)
    BY TrayLaw
  <1>3. /\ UNCHANGED <<trayListed, lister, registrations, warden, removals, awaited>>
        /\ UNCHANGED <<refresher, trayQueue, tray, trayOvertaken>>
    BY DEF TY!Start, TY!Quit, TY!list, TY!watch
  <1>4. /\ appLife' \in [Apps -> 0 .. MaxLives] /\ appAlive' \in [Apps -> BOOLEAN]
        /\ lost' \in [Apps -> SUBSET (1 .. MaxLives)]
        /\ \A b \in Apps : Follows(appAlive'[b], appLife'[b], warden[b], awaited[b], lost'[b])
    <2>1. CASE TY!Start(a)
      <3>1. /\ ~appAlive[a] /\ appLife[a] < MaxLives /\ lost' = lost
            /\ appLife' = [appLife EXCEPT ![a] = @ + 1] /\ appAlive' = [appAlive EXCEPT ![a] = TRUE]
        BY <2>1 DEF TY!Start, TY!watch
      <3>2. appLife' \in [Apps -> 0 .. MaxLives] /\ appAlive' \in [Apps -> BOOLEAN]
        BY <1>1, <3>1, SMTT(30)
      <3>3. ASSUME NEW b \in Apps
            PROVE  Follows(appAlive'[b], appLife'[b], warden[b], awaited[b], lost'[b])
        <4>1. CASE b = a
          <5>1. appLife'[b] > 0 /\ ~appAlive[b]
            BY <1>1, <3>1, <4>1
          <5>2. Follows(appAlive[b], appLife[b], warden[b], awaited[b], lost[b])
            BY <1>2
          <5> QED
            BY <3>1, <5>1, <5>2 DEF Follows
        <4>2. CASE b # a
          <5>1. appLife'[b] = appLife[b] /\ appAlive'[b] = appAlive[b]
            BY <1>1, <3>1, <4>2
          <5> QED
            BY <1>2, <3>1, <5>1
        <4> QED
          BY <4>1, <4>2
      <3> QED
        BY <1>1, <3>1, <3>2, <3>3
    <2>2. CASE TY!Quit(a)
      <3>1. /\ appAlive[a] /\ appAlive' = [appAlive EXCEPT ![a] = FALSE] /\ appLife' = appLife
            /\ lost' = [lost EXCEPT ![a] = IF warden[a] \in TY!Subscribed THEN @ \cup {appLife[a]} ELSE @]
        BY <2>2 DEF TY!Quit
      <3>2. Follows(appAlive[a], appLife[a], warden[a], awaited[a], lost[a])
        BY <1>2
      <3>3. appLife[a] \in 1 .. MaxLives
        BY <1>1, <3>1, <3>2 DEF Follows
      <3>4. lost' \in [Apps -> SUBSET (1 .. MaxLives)] /\ appAlive' \in [Apps -> BOOLEAN]
        BY <1>1, <3>1, <3>3
      <3>5. ASSUME NEW b \in Apps
            PROVE  Follows(appAlive'[b], appLife'[b], warden[b], awaited[b], lost'[b])
        <4>1. CASE b = a
          <5>1. ~appAlive'[a]
            BY <1>1, <3>1
          <5>2. lost'[a] = IF warden[a] \in TY!Subscribed THEN lost[a] \cup {appLife[a]} ELSE lost[a]
            BY <1>1, <3>1
          <5>3. warden[a] \in {"asked", "watching"} => awaited[a] \in lost'[a]
            BY <3>2, <5>2 DEF Follows, TY!Subscribed
          <5> QED
            BY <4>1, <5>1, <5>3 DEF Follows
        <4>2. CASE b # a
          <5>1. lost'[b] = lost[b] /\ appAlive'[b] = appAlive[b]
            BY <1>1, <3>1, <4>2
          <5> QED
            BY <1>2, <3>1, <5>1
        <4> QED
          BY <4>1, <4>2
      <3> QED
        BY <1>1, <3>1, <3>4, <3>5
    <2> QED
      BY <2>1, <2>2
  <1>5. TY!TrayTypeOK'
    BY <1>1, <1>3, <1>4, TrayTypesNext
  <1> QED
    BY <1>2, <1>3, <1>4, <1>5, TrayLawNext

\* An item is listed; its registration is under way.
LEMMA RegisterStep ==
    ASSUME TY!TrayInv, NEW a \in Apps, TY!Register(a)
    PROVE  TY!TrayInv'
  <1>1. /\ Nobody \notin Apps /\ MaxLives \in Nat /\ MaxRegistrations \in Nat /\ MaxTrayQueue \in Nat
        /\ appLife \in [Apps -> 0 .. MaxLives] /\ appAlive \in [Apps -> BOOLEAN]
        /\ trayListed \subseteq Apps /\ lister \in Apps \cup {Nobody}
        /\ registrations \in [Apps -> 0 .. MaxRegistrations]
        /\ warden \in [Apps -> {"none", "started", "subscribed", "asked", "watching"}]
        /\ removals \in [Apps -> 0 .. MaxRegistrations]
        /\ awaited \in [Apps -> 0 .. MaxLives] /\ lost \in [Apps -> SUBSET (1 .. MaxLives)]
        /\ refresher \in [TY!Threads -> {"none", "idle", "blank", "icon"}]
        /\ trayQueue \in Seq(Apps \X {"blank", "icon", "gone"}) /\ Len(trayQueue) <= MaxTrayQueue
        /\ tray \in [Apps -> {"blank", "icon", "none"}] /\ trayOvertaken \subseteq Apps
    BY TrayTypes, TrayLaw
  <1>2. \A b \in Apps :
            /\ Watches(b, b \in trayListed, lister = b, warden[b], removals[b], registrations[b])
            /\ Follows(appAlive[b], appLife[b], warden[b], awaited[b], lost[b])
            /\ b \notin trayOvertaken /\ lister # b /\ removals[b] = 0
                => LastWord(b, trayQueue, tray[b], b \in trayListed)
    BY TrayLaw
  <1>3. /\ UNCHANGED <<appLife, appAlive, warden, removals, awaited, lost>>
        /\ UNCHANGED <<refresher, trayQueue, tray, trayOvertaken>>
        /\ lister = Nobody /\ registrations[a] < MaxRegistrations /\ a \notin trayListed
        /\ trayListed' = trayListed \cup {a} /\ lister' = a
        /\ registrations' = [registrations EXCEPT ![a] = @ + 1]
    BY DEF TY!Register, TY!owners, TY!watch
  <1>4. registrations' \in [Apps -> 0 .. MaxRegistrations]
    BY <1>1, <1>3
  <1>5. TY!TrayTypeOK'
    BY <1>1, <1>3, <1>4, TrayTypesNext
  <1>6. ASSUME NEW b \in Apps
        PROVE  /\ Watches(b, b \in trayListed', lister' = b, warden'[b], removals'[b], registrations'[b])
               /\ Follows(appAlive'[b], appLife'[b], warden'[b], awaited'[b], lost'[b])
               /\ b \notin trayOvertaken' /\ lister' # b /\ removals'[b] = 0
                    => LastWord(b, trayQueue', tray'[b], b \in trayListed')
    <2>1. CASE b = a
      <3>1. registrations'[a] = registrations[a] + 1
        BY <1>1, <1>3
      <3>2. Watches(a, a \in trayListed, lister = a, warden[a], removals[a], registrations[a])
        BY <1>2
      <3>3. Watches(a, a \in trayListed', lister' = a, warden'[a], removals'[a], registrations'[a])
        BY <1>1, <1>3, <3>1, <3>2 DEF Watches
      <3> QED
        BY <1>2, <1>3, <2>1, <3>3
    <2>2. CASE b # a
      <3>1. registrations'[b] = registrations[b] /\ (b \in trayListed' <=> b \in trayListed)
            /\ lister' # b /\ lister # b
        BY <1>1, <1>3, <2>2
      <3>2. Watches(b, b \in trayListed', lister' = b, warden'[b], removals'[b], registrations'[b])
        BY <1>2, <1>3, <3>1 DEF Watches
      <3>3. b \notin trayOvertaken' /\ lister' # b /\ removals'[b] = 0
                    => LastWord(b, trayQueue', tray'[b], b \in trayListed')
        BY <1>2, <1>3, <3>1 DEF LastWord
      <3> QED
        BY <1>2, <1>3, <3>2, <3>3
    <2> QED
      BY <2>1, <2>2
  <1> QED
    BY <1>5, <1>6, TrayLawNext

\* The registration is through: the item's look is sent, and its owner watched.
LEMMA RegisteredStep ==
    ASSUME TY!TrayInv, NEW a \in Apps, TY!Registered(a)
    PROVE  TY!TrayInv'
  <1>1. /\ Nobody \notin Apps /\ MaxLives \in Nat /\ MaxRegistrations \in Nat /\ MaxTrayQueue \in Nat
        /\ appLife \in [Apps -> 0 .. MaxLives] /\ appAlive \in [Apps -> BOOLEAN]
        /\ trayListed \subseteq Apps /\ lister \in Apps \cup {Nobody}
        /\ registrations \in [Apps -> 0 .. MaxRegistrations]
        /\ warden \in [Apps -> {"none", "started", "subscribed", "asked", "watching"}]
        /\ removals \in [Apps -> 0 .. MaxRegistrations]
        /\ awaited \in [Apps -> 0 .. MaxLives] /\ lost \in [Apps -> SUBSET (1 .. MaxLives)]
        /\ refresher \in [TY!Threads -> {"none", "idle", "blank", "icon"}]
        /\ trayQueue \in Seq(Apps \X {"blank", "icon", "gone"}) /\ Len(trayQueue) <= MaxTrayQueue
        /\ tray \in [Apps -> {"blank", "icon", "none"}] /\ trayOvertaken \subseteq Apps
    BY TrayTypes, TrayLaw
  <1>2. \A b \in Apps :
            /\ Watches(b, b \in trayListed, lister = b, warden[b], removals[b], registrations[b])
            /\ Follows(appAlive[b], appLife[b], warden[b], awaited[b], lost[b])
            /\ b \notin trayOvertaken /\ lister # b /\ removals[b] = 0
                => LastWord(b, trayQueue, tray[b], b \in trayListed)
    BY TrayLaw
  <1>3. /\ UNCHANGED <<appLife, appAlive, trayListed, registrations, removals, tray, trayOvertaken>>
        /\ lister = a /\ lister' = Nobody
        /\ Len(trayQueue) < MaxTrayQueue /\ trayQueue' = Append(trayQueue, <<a, TY!Loaded(a)>>)
        /\ warden' = [warden EXCEPT ![a] = "started"]
        /\ lost' = [lost EXCEPT ![a] = {}] /\ awaited' = [awaited EXCEPT ![a] = 0]
        /\ refresher' = [refresher EXCEPT ![<<a, registrations[a]>>] = "idle"]
    BY DEF TY!Registered, TY!owners, TY!Tell
  <1>4. TY!Loaded(a) \in {"blank", "icon"}
    BY DEF TY!Loaded
  <1>5. <<a, TY!Loaded(a)>> \in Apps \X {"blank", "icon", "gone"}
    BY <1>4
  <1>6. trayQueue' \in Seq(Apps \X {"blank", "icon", "gone"}) /\ Len(trayQueue') <= MaxTrayQueue
    BY <1>1, <1>3, <1>5
  <1>7. /\ warden' \in [Apps -> {"none", "started", "subscribed", "asked", "watching"}]
        /\ lost' \in [Apps -> SUBSET (1 .. MaxLives)] /\ awaited' \in [Apps -> 0 .. MaxLives]
        /\ refresher' \in [TY!Threads -> {"none", "idle", "blank", "icon"}]
    <2>1. warden' \in [Apps -> {"none", "started", "subscribed", "asked", "watching"}]
      BY <1>1, <1>3
    <2>2. lost' \in [Apps -> SUBSET (1 .. MaxLives)]
      BY <1>1, <1>3
    <2>3. awaited' \in [Apps -> 0 .. MaxLives]
      BY <1>1, <1>3
    <2>4. refresher' \in [TY!Threads -> {"none", "idle", "blank", "icon"}]
      BY <1>1, <1>3
    <2> QED
      BY <2>1, <2>2, <2>3, <2>4
  <1>8. TY!TrayTypeOK'
    BY <1>1, <1>3, <1>6, <1>7, TrayTypesNext
  <1>9. ASSUME NEW b \in Apps
        PROVE  /\ Watches(b, b \in trayListed', lister' = b, warden'[b], removals'[b], registrations'[b])
               /\ Follows(appAlive'[b], appLife'[b], warden'[b], awaited'[b], lost'[b])
               /\ b \notin trayOvertaken' /\ lister' # b /\ removals'[b] = 0
                    => LastWord(b, trayQueue', tray'[b], b \in trayListed')
    <2>0. Watches(b, b \in trayListed, lister = b, warden[b], removals[b], registrations[b])
      BY <1>2
    <2>1. CASE b = a
      <3>1. warden'[a] = "started" /\ lister' # a
        BY <1>1, <1>3
      <3>2. Watches(b, b \in trayListed', lister' = b, warden'[b], removals'[b], registrations'[b])
        BY <1>3, <2>0, <2>1, <3>1 DEF Watches
      <3>3. Follows(appAlive'[b], appLife'[b], warden'[b], awaited'[b], lost'[b])
        BY <1>2, <1>3, <2>1, <3>1 DEF Follows
      <3>4. b \in trayListed' /\ TY!Loaded(a) # "gone"
        BY <1>3, <1>4, <2>0, <2>1 DEF Watches
      <3>5. LastWord(a, trayQueue', tray'[b], b \in trayListed')
        BY <1>1, <1>3, <1>5, <3>4, Said
      <3> QED
        BY <2>1, <3>2, <3>3, <3>5
    <2>2. CASE b # a
      <3>1. warden'[b] = warden[b] /\ lost'[b] = lost[b] /\ awaited'[b] = awaited[b]
            /\ lister' # b /\ lister # b
        BY <1>1, <1>3, <2>2
      <3>2. Watches(b, b \in trayListed', lister' = b, warden'[b], removals'[b], registrations'[b])
        BY <1>3, <2>0, <3>1 DEF Watches
      <3>3. LastWord(b, trayQueue, tray[b], b \in trayListed)
                => LastWord(b, trayQueue', tray[b], b \in trayListed)
        <4> DEFINE isIn == b \in trayListed
        <4>1. isIn \in BOOLEAN
          OBVIOUS
        <4> HIDE DEF isIn
        <4>2. LastWord(b, trayQueue, tray[b], isIn)
                => LastWord(b, Append(trayQueue, <<a, TY!Loaded(a)>>), tray[b], isIn)
          BY <1>1, <1>5, <2>2, <4>1, Said
        <4> QED
          BY <1>3, <4>2 DEF isIn
      <3> QED
        BY <1>2, <1>3, <3>1, <3>2, <3>3
    <2> QED
      BY <2>1, <2>2
  <1> QED
    BY <1>8, <1>9, TrayLawNext

\* The watcher goes on to its next point, with what it found of the owner.
LEMMA WatchGoesOn ==
    ASSUME TY!TrayInv, NEW a \in Apps, warden[a] # "none",
           NEW point \in {"subscribed", "asked", "watching"}, NEW found \in 0 .. MaxLives,
           point \in {"asked", "watching"} => (appAlive[a] /\ found = appLife[a]) \/ found \in lost[a],
           warden' = [warden EXCEPT ![a] = point], awaited' = [awaited EXCEPT ![a] = found],
           UNCHANGED <<appLife, appAlive, trayListed, lister, registrations, removals, lost>>,
           UNCHANGED <<refresher, trayQueue, tray, trayOvertaken>>
    PROVE  TY!TrayInv'
  <1>1. /\ Nobody \notin Apps /\ MaxLives \in Nat /\ MaxRegistrations \in Nat /\ MaxTrayQueue \in Nat
        /\ appLife \in [Apps -> 0 .. MaxLives] /\ appAlive \in [Apps -> BOOLEAN]
        /\ trayListed \subseteq Apps /\ lister \in Apps \cup {Nobody}
        /\ registrations \in [Apps -> 0 .. MaxRegistrations]
        /\ warden \in [Apps -> {"none", "started", "subscribed", "asked", "watching"}]
        /\ removals \in [Apps -> 0 .. MaxRegistrations]
        /\ awaited \in [Apps -> 0 .. MaxLives] /\ lost \in [Apps -> SUBSET (1 .. MaxLives)]
        /\ refresher \in [TY!Threads -> {"none", "idle", "blank", "icon"}]
        /\ trayQueue \in Seq(Apps \X {"blank", "icon", "gone"}) /\ Len(trayQueue) <= MaxTrayQueue
        /\ tray \in [Apps -> {"blank", "icon", "none"}] /\ trayOvertaken \subseteq Apps
    BY TrayTypes, TrayLaw
  <1>2. \A b \in Apps :
            /\ Watches(b, b \in trayListed, lister = b, warden[b], removals[b], registrations[b])
            /\ Follows(appAlive[b], appLife[b], warden[b], awaited[b], lost[b])
            /\ b \notin trayOvertaken /\ lister # b /\ removals[b] = 0
                => LastWord(b, trayQueue, tray[b], b \in trayListed)
    BY TrayLaw
  <1>3. warden' \in [Apps -> {"none", "started", "subscribed", "asked", "watching"}]
    BY <1>1
  <1>4. awaited' \in [Apps -> 0 .. MaxLives]
    BY <1>1
  <1>5. TY!TrayTypeOK'
    BY <1>1, <1>3, <1>4, TrayTypesNext
  <1>6. ASSUME NEW b \in Apps
        PROVE  /\ Watches(b, b \in trayListed', lister' = b, warden'[b], removals'[b], registrations'[b])
               /\ Follows(appAlive'[b], appLife'[b], warden'[b], awaited'[b], lost'[b])
               /\ b \notin trayOvertaken' /\ lister' # b /\ removals'[b] = 0
                    => LastWord(b, trayQueue', tray'[b], b \in trayListed')
    <2>0. Watches(b, b \in trayListed, lister = b, warden[b], removals[b], registrations[b])
      BY <1>2
    <2>1. CASE b = a
      <3>1. warden'[a] = point /\ awaited'[a] = found
        BY <1>1
      <3>2. Watches(b, b \in trayListed', lister' = b, warden'[b], removals'[b], registrations'[b])
        BY <2>0, <2>1, <3>1 DEF Watches
      <3>3. Follows(appAlive'[b], appLife'[b], warden'[b], awaited'[b], lost'[b])
        BY <1>2, <2>1, <3>1 DEF Follows
      <3> QED
        BY <1>2, <3>2, <3>3
    <2>2. CASE b # a
      <3>1. warden'[b] = warden[b] /\ awaited'[b] = awaited[b]
        BY <1>1, <2>2
      <3> QED
        BY <1>2, <3>1
    <2> QED
      BY <2>1, <2>2
  <1> QED
    BY <1>5, <1>6, TrayLawNext

\* The watcher takes its item off the list, and has a removal to send.
LEMMA UnlistStep ==
    ASSUME TY!TrayInv, NEW a \in Apps, TY!Unlist(a), warden[a] # "none",
           UNCHANGED <<appLife, appAlive, lister, registrations, awaited, lost>>,
           UNCHANGED <<refresher, trayQueue, tray, trayOvertaken>>
    PROVE  TY!TrayInv'
  <1>1. /\ Nobody \notin Apps /\ MaxLives \in Nat /\ MaxRegistrations \in Nat /\ MaxTrayQueue \in Nat
        /\ appLife \in [Apps -> 0 .. MaxLives] /\ appAlive \in [Apps -> BOOLEAN]
        /\ trayListed \subseteq Apps /\ lister \in Apps \cup {Nobody}
        /\ registrations \in [Apps -> 0 .. MaxRegistrations]
        /\ warden \in [Apps -> {"none", "started", "subscribed", "asked", "watching"}]
        /\ removals \in [Apps -> 0 .. MaxRegistrations]
        /\ awaited \in [Apps -> 0 .. MaxLives] /\ lost \in [Apps -> SUBSET (1 .. MaxLives)]
        /\ refresher \in [TY!Threads -> {"none", "idle", "blank", "icon"}]
        /\ trayQueue \in Seq(Apps \X {"blank", "icon", "gone"}) /\ Len(trayQueue) <= MaxTrayQueue
        /\ tray \in [Apps -> {"blank", "icon", "none"}] /\ trayOvertaken \subseteq Apps
    BY TrayTypes, TrayLaw
  <1>2. \A b \in Apps :
            /\ Watches(b, b \in trayListed, lister = b, warden[b], removals[b], registrations[b])
            /\ Follows(appAlive[b], appLife[b], warden[b], awaited[b], lost[b])
            /\ b \notin trayOvertaken /\ lister # b /\ removals[b] = 0
                => LastWord(b, trayQueue, tray[b], b \in trayListed)
    BY TrayLaw
  <1>3. /\ lister = Nobody /\ trayListed' = trayListed \ {a}
        /\ warden' = [warden EXCEPT ![a] = "none"]
        /\ removals' = [removals EXCEPT ![a] = IF a \in trayListed THEN @ + 1 ELSE @]
    BY DEF TY!Unlist
  <1>4. Watches(a, a \in trayListed, lister = a, warden[a], removals[a], registrations[a])
    BY <1>2
  <1>5. a \in trayListed /\ removals[a] + 1 <= registrations[a] /\ registrations[a] <= MaxRegistrations
        /\ removals[a] \in Nat
    BY <1>1, <1>4 DEF Watches
  <1>6. removals' = [removals EXCEPT ![a] = removals[a] + 1]
    BY <1>3, <1>5
  <1>7. removals' \in [Apps -> 0 .. MaxRegistrations]
    BY <1>1, <1>5, <1>6
  <1>8. warden' \in [Apps -> {"none", "started", "subscribed", "asked", "watching"}]
    BY <1>1, <1>3
  <1>9. TY!TrayTypeOK'
    BY <1>1, <1>3, <1>7, <1>8, TrayTypesNext
  <1>10. ASSUME NEW b \in Apps
        PROVE  /\ Watches(b, b \in trayListed', lister' = b, warden'[b], removals'[b], registrations'[b])
               /\ Follows(appAlive'[b], appLife'[b], warden'[b], awaited'[b], lost'[b])
               /\ b \notin trayOvertaken' /\ lister' # b /\ removals'[b] = 0
                    => LastWord(b, trayQueue', tray'[b], b \in trayListed')
    <2>1. CASE b = a
      <3>1. warden'[a] = "none" /\ removals'[a] = removals[a] + 1 /\ a \notin trayListed' /\ lister' # a
        BY <1>1, <1>3, <1>6
      <3>2. Watches(b, b \in trayListed', lister' = b, warden'[b], removals'[b], registrations'[b])
        BY <1>5, <2>1, <3>1 DEF Watches
      <3>3. Follows(appAlive'[b], appLife'[b], warden'[b], awaited'[b], lost'[b])
        BY <1>2, <2>1, <3>1 DEF Follows
      <3>4. removals'[b] # 0
        BY <1>5, <2>1, <3>1
      <3> QED
        BY <3>2, <3>3, <3>4
    <2>2. CASE b # a
      <3>1. warden'[b] = warden[b] /\ removals'[b] = removals[b]
            /\ (b \in trayListed' <=> b \in trayListed)
        BY <1>1, <1>3, <1>6, <2>2
      <3>2. Watches(b, b \in trayListed', lister' = b, warden'[b], removals'[b], registrations'[b])
        BY <1>2, <3>1 DEF Watches
      <3>3. b \notin trayOvertaken' /\ lister' # b /\ removals'[b] = 0
                    => LastWord(b, trayQueue', tray'[b], b \in trayListed')
        BY <1>2, <3>1 DEF LastWord
      <3> QED
        BY <1>2, <3>1, <3>2, <3>3
    <2> QED
      BY <2>1, <2>2
  <1> QED
    BY <1>9, <1>10, TrayLawNext

\* The watcher's thread, at each of its points.
LEMMA WardenStep ==
    ASSUME TY!TrayInv, NEW a \in Apps, TY!Warden(a)
    PROVE  TY!TrayInv'
  <1>1. /\ Nobody \notin Apps /\ MaxLives \in Nat /\ MaxRegistrations \in Nat /\ MaxTrayQueue \in Nat
        /\ appLife \in [Apps -> 0 .. MaxLives] /\ appAlive \in [Apps -> BOOLEAN]
        /\ trayListed \subseteq Apps /\ lister \in Apps \cup {Nobody}
        /\ registrations \in [Apps -> 0 .. MaxRegistrations]
        /\ warden \in [Apps -> {"none", "started", "subscribed", "asked", "watching"}]
        /\ removals \in [Apps -> 0 .. MaxRegistrations]
        /\ awaited \in [Apps -> 0 .. MaxLives] /\ lost \in [Apps -> SUBSET (1 .. MaxLives)]
        /\ refresher \in [TY!Threads -> {"none", "idle", "blank", "icon"}]
        /\ trayQueue \in Seq(Apps \X {"blank", "icon", "gone"}) /\ Len(trayQueue) <= MaxTrayQueue
        /\ tray \in [Apps -> {"blank", "icon", "none"}] /\ trayOvertaken \subseteq Apps
    BY TrayTypes, TrayLaw
  <1>2. \A b \in Apps :
            /\ Watches(b, b \in trayListed, lister = b, warden[b], removals[b], registrations[b])
            /\ Follows(appAlive[b], appLife[b], warden[b], awaited[b], lost[b])
            /\ b \notin trayOvertaken /\ lister # b /\ removals[b] = 0
                => LastWord(b, trayQueue, tray[b], b \in trayListed)
    BY TrayLaw
  <1>3. /\ UNCHANGED <<appLife, appAlive, lister, registrations>>
        /\ UNCHANGED <<refresher, trayQueue, tray, trayOvertaken>>
    BY DEF TY!Warden, TY!owners
  <1>4. CASE TY!WardenSubscribes(a)
    <2>1. /\ warden[a] = "started" /\ warden' = [warden EXCEPT ![a] = "subscribed"]
          /\ UNCHANGED <<awaited, lost, trayListed, removals>>
      BY <1>4 DEF TY!WardenSubscribes
    <2>2. awaited' = [awaited EXCEPT ![a] = awaited[a]] /\ awaited[a] \in 0 .. MaxLives
      BY <1>1, <2>1
    <2> QED
      BY <1>3, <2>1, <2>2, WatchGoesOn
  <1>5. CASE TY!WardenAsks(a)
    <2>1. warden[a] = "subscribed" /\ lost' = lost
      BY <1>5 DEF TY!WardenAsks
    <2>2. CASE appAlive[a]
      <3>1. /\ awaited' = [awaited EXCEPT ![a] = appLife[a]]
            /\ warden' = [warden EXCEPT ![a] = "asked"] /\ UNCHANGED <<trayListed, removals>>
        BY <1>5, <2>2 DEF TY!WardenAsks
      <3>2. appLife[a] \in 0 .. MaxLives
        BY <1>1
      <3> QED
        BY <1>3, <2>1, <2>2, <3>1, <3>2, WatchGoesOn
    <2>3. CASE ~appAlive[a]
      <3>1. TY!Unlist(a) /\ awaited' = awaited
        BY <1>5, <2>3 DEF TY!WardenAsks
      <3> QED
        BY <1>3, <2>1, <3>1, UnlistStep
    <2> QED
      BY <2>2, <2>3
  <1>6. CASE TY!WardenChecks(a)
    <2>1. warden[a] = "asked" /\ lost' = lost /\ awaited' = awaited
      BY <1>6 DEF TY!WardenChecks
    <2>2. CASE appAlive[a] /\ appLife[a] = awaited[a]
      <3>1. warden' = [warden EXCEPT ![a] = "watching"] /\ UNCHANGED <<trayListed, removals>>
        BY <1>6, <2>2 DEF TY!WardenChecks
      <3>2. awaited' = [awaited EXCEPT ![a] = awaited[a]] /\ awaited[a] \in 0 .. MaxLives
        BY <1>1, <2>1
      <3> QED
        BY <1>3, <2>1, <2>2, <3>1, <3>2, WatchGoesOn
    <2>3. CASE ~(appAlive[a] /\ appLife[a] = awaited[a])
      <3>1. TY!Unlist(a)
        BY <1>6, <2>3 DEF TY!WardenChecks
      <3> QED
        BY <1>3, <2>1, <3>1, UnlistStep
    <2> QED
      BY <2>2, <2>3
  <1>7. CASE TY!WardenHears(a)
    <2>1. warden[a] = "watching" /\ TY!Unlist(a) /\ lost' = lost /\ awaited' = awaited
      BY <1>7 DEF TY!WardenHears
    <2> QED
      BY <1>3, <2>1, UnlistStep
  <1> QED
    BY <1>4, <1>5, <1>6, <1>7 DEF TY!Warden

\* A removal is sent.
LEMMA RemovalStep ==
    ASSUME TY!TrayInv, NEW a \in Apps, TY!SendRemoval(a)
    PROVE  TY!TrayInv'
  <1>1. /\ Nobody \notin Apps /\ MaxLives \in Nat /\ MaxRegistrations \in Nat /\ MaxTrayQueue \in Nat
        /\ appLife \in [Apps -> 0 .. MaxLives] /\ appAlive \in [Apps -> BOOLEAN]
        /\ trayListed \subseteq Apps /\ lister \in Apps \cup {Nobody}
        /\ registrations \in [Apps -> 0 .. MaxRegistrations]
        /\ warden \in [Apps -> {"none", "started", "subscribed", "asked", "watching"}]
        /\ removals \in [Apps -> 0 .. MaxRegistrations]
        /\ awaited \in [Apps -> 0 .. MaxLives] /\ lost \in [Apps -> SUBSET (1 .. MaxLives)]
        /\ refresher \in [TY!Threads -> {"none", "idle", "blank", "icon"}]
        /\ trayQueue \in Seq(Apps \X {"blank", "icon", "gone"}) /\ Len(trayQueue) <= MaxTrayQueue
        /\ tray \in [Apps -> {"blank", "icon", "none"}] /\ trayOvertaken \subseteq Apps
    BY TrayTypes, TrayLaw
  <1>2. \A b \in Apps :
            /\ Watches(b, b \in trayListed, lister = b, warden[b], removals[b], registrations[b])
            /\ Follows(appAlive[b], appLife[b], warden[b], awaited[b], lost[b])
            /\ b \notin trayOvertaken /\ lister # b /\ removals[b] = 0
                => LastWord(b, trayQueue, tray[b], b \in trayListed)
    BY TrayLaw
  <1>3. /\ UNCHANGED <<appLife, appAlive, trayListed, lister, registrations, warden, awaited, lost>>
        /\ UNCHANGED <<refresher, tray>>
        /\ removals[a] > 0 /\ removals' = [removals EXCEPT ![a] = @ - 1]
        /\ Len(trayQueue) < MaxTrayQueue /\ trayQueue' = Append(trayQueue, <<a, "gone">>)
        /\ trayOvertaken' = IF a \in trayListed THEN trayOvertaken \cup {a} ELSE trayOvertaken
    BY DEF TY!SendRemoval, TY!owners, TY!list, TY!Tell
  <1>4. <<a, "gone">> \in Apps \X {"blank", "icon", "gone"}
    OBVIOUS
  <1>5. trayQueue' \in Seq(Apps \X {"blank", "icon", "gone"}) /\ Len(trayQueue') <= MaxTrayQueue
    BY <1>1, <1>3, <1>4
  <1>6. removals' \in [Apps -> 0 .. MaxRegistrations] /\ trayOvertaken' \subseteq Apps
    BY <1>1, <1>3, SMTT(30)
  <1>7. TY!TrayTypeOK'
    BY <1>1, <1>3, <1>5, <1>6, TrayTypesNext
  <1>8. ASSUME NEW b \in Apps
        PROVE  /\ Watches(b, b \in trayListed', lister' = b, warden'[b], removals'[b], registrations'[b])
               /\ Follows(appAlive'[b], appLife'[b], warden'[b], awaited'[b], lost'[b])
               /\ b \notin trayOvertaken' /\ lister' # b /\ removals'[b] = 0
                    => LastWord(b, trayQueue', tray'[b], b \in trayListed')
    <2>0. Watches(b, b \in trayListed, lister = b, warden[b], removals[b], registrations[b])
      BY <1>2
    <2> DEFINE isIn == b \in trayListed
    <2>1. isIn \in BOOLEAN
      OBVIOUS
    <2>2. CASE b = a
      <3>1. removals'[a] = removals[a] - 1
        BY <1>1, <1>3
      <3>2. Watches(b, b \in trayListed', lister' = b, warden'[b], removals'[b], registrations'[b])
        <4>1. removals[a] \in Nat /\ registrations[a] \in Nat
          BY <1>1
        <4> QED
          BY <1>3, <2>0, <2>2, <3>1, <4>1 DEF Watches
      <3>3. ASSUME b \notin trayOvertaken' PROVE LastWord(b, trayQueue', tray'[b], b \in trayListed')
        <4>1. isIn <=> "gone" # "gone"
          BY <1>3, <2>2, <3>3
        <4> HIDE DEF isIn
        <4>2. LastWord(a, Append(trayQueue, <<a, "gone">>), tray[b], isIn)
          BY <1>1, <1>4, <2>1, <4>1, Said
        <4> QED
          BY <1>3, <2>2, <4>2 DEF isIn
      <3> QED
        BY <1>2, <1>3, <3>2, <3>3
    <2>3. CASE b # a
      <3>1. removals'[b] = removals[b] /\ (b \in trayOvertaken' <=> b \in trayOvertaken)
        BY <1>1, <1>3, <2>3
      <3> HIDE DEF isIn
      <3>2. LastWord(b, trayQueue, tray[b], isIn)
                => LastWord(b, Append(trayQueue, <<a, "gone">>), tray[b], isIn)
        BY <1>1, <1>4, <2>1, <2>3, Said
      <3>3. Watches(b, b \in trayListed', lister' = b, warden'[b], removals'[b], registrations'[b])
        BY <1>3, <2>0, <3>1
      <3> QED
        BY <1>2, <1>3, <3>1, <3>2, <3>3 DEF isIn
    <2> QED
      BY <2>2, <2>3
  <1> QED
    BY <1>7, <1>8, TrayLawNext

\* A look is read, and sent.
LEMMA RefreshStep ==
    ASSUME TY!TrayInv, NEW t \in TY!Threads, TY!Refresh(t) \/ TY!SendRefresh(t)
    PROVE  TY!TrayInv'
  <1>1. /\ Nobody \notin Apps /\ MaxLives \in Nat /\ MaxRegistrations \in Nat /\ MaxTrayQueue \in Nat
        /\ appLife \in [Apps -> 0 .. MaxLives] /\ appAlive \in [Apps -> BOOLEAN]
        /\ trayListed \subseteq Apps /\ lister \in Apps \cup {Nobody}
        /\ registrations \in [Apps -> 0 .. MaxRegistrations]
        /\ warden \in [Apps -> {"none", "started", "subscribed", "asked", "watching"}]
        /\ removals \in [Apps -> 0 .. MaxRegistrations]
        /\ awaited \in [Apps -> 0 .. MaxLives] /\ lost \in [Apps -> SUBSET (1 .. MaxLives)]
        /\ refresher \in [TY!Threads -> {"none", "idle", "blank", "icon"}]
        /\ trayQueue \in Seq(Apps \X {"blank", "icon", "gone"}) /\ Len(trayQueue) <= MaxTrayQueue
        /\ tray \in [Apps -> {"blank", "icon", "none"}] /\ trayOvertaken \subseteq Apps
    BY TrayTypes, TrayLaw
  <1>2. \A b \in Apps :
            /\ Watches(b, b \in trayListed, lister = b, warden[b], removals[b], registrations[b])
            /\ Follows(appAlive[b], appLife[b], warden[b], awaited[b], lost[b])
            /\ b \notin trayOvertaken /\ lister # b /\ removals[b] = 0
                => LastWord(b, trayQueue, tray[b], b \in trayListed)
    BY TrayLaw
  <1>3. /\ UNCHANGED <<appLife, appAlive, trayListed, lister, registrations, warden, awaited, lost>>
        /\ UNCHANGED <<removals, tray>>
    BY DEF TY!Refresh, TY!SendRefresh, TY!owners, TY!list, TY!watch
  <1>4. CASE TY!Refresh(t)
    <2>1. /\ refresher' = [refresher EXCEPT ![t] = TY!Loaded(t[1])] /\ UNCHANGED <<trayQueue, trayOvertaken>>
      BY <1>4 DEF TY!Refresh
    <2>2. TY!Loaded(t[1]) \in {"blank", "icon"}
      BY DEF TY!Loaded
    <2>3. refresher' \in [TY!Threads -> {"none", "idle", "blank", "icon"}]
      BY <1>1, <2>1, <2>2
    <2>4. TY!TrayTypeOK'
      BY <1>1, <1>3, <2>1, <2>3, TrayTypesNext
    <2> QED
      BY <1>2, <1>3, <2>1, <2>4, TrayLawNext
  <1>5. CASE TY!SendRefresh(t)
    <2> DEFINE a == t[1]
               look == refresher[t]
    <2>1. /\ look \in {"blank", "icon"} /\ refresher' = [refresher EXCEPT ![t] = "idle"]
          /\ Len(trayQueue) < MaxTrayQueue /\ trayQueue' = Append(trayQueue, <<a, look>>)
          /\ trayOvertaken' = IF a \notin trayListed THEN trayOvertaken \cup {a} ELSE trayOvertaken
      BY <1>5 DEF TY!SendRefresh, TY!Tell, TY!Looks
    <2>2. a \in Apps
      BY DEF TY!Threads
    <2> HIDE DEF a, look
    <2>3. <<a, look>> \in Apps \X {"blank", "icon", "gone"}
      BY <2>1, <2>2
    <2>4. trayQueue' \in Seq(Apps \X {"blank", "icon", "gone"}) /\ Len(trayQueue') <= MaxTrayQueue
      BY <1>1, <2>1, <2>3
    <2>5. refresher' \in [TY!Threads -> {"none", "idle", "blank", "icon"}] /\ trayOvertaken' \subseteq Apps
      BY <1>1, <2>1, <2>2
    <2>6. TY!TrayTypeOK'
      BY <1>1, <1>3, <2>4, <2>5, TrayTypesNext
    <2>7. ASSUME NEW b \in Apps
          PROVE  b \notin trayOvertaken' /\ lister' # b /\ removals'[b] = 0
                    => LastWord(b, trayQueue', tray'[b], b \in trayListed')
      <3> DEFINE isIn == b \in trayListed
      <3>1. isIn \in BOOLEAN
        OBVIOUS
      <3>2. CASE b = a
        <4>1. ASSUME b \notin trayOvertaken' PROVE LastWord(b, trayQueue', tray'[b], b \in trayListed')
          <5>1. isIn <=> look # "gone"
            BY <2>1, <3>2, <4>1
          <5> HIDE DEF isIn
          <5>2. LastWord(a, Append(trayQueue, <<a, look>>), tray[b], isIn)
            BY <1>1, <2>3, <3>1, <5>1, Said
          <5> QED
            BY <1>3, <2>1, <3>2, <5>2 DEF isIn
        <4> QED
          BY <4>1
      <3>3. CASE b # a
        <4>1. b \in trayOvertaken' <=> b \in trayOvertaken
          BY <2>1, <3>3
        <4> HIDE DEF isIn
        <4>2. LastWord(b, trayQueue, tray[b], isIn)
                => LastWord(b, Append(trayQueue, <<a, look>>), tray[b], isIn)
          BY <1>1, <2>3, <3>1, <3>3, Said
        <4> QED
          BY <1>2, <1>3, <2>1, <4>1, <4>2 DEF isIn
      <3> QED
        BY <3>2, <3>3
    <2> QED
      BY <1>2, <1>3, <2>6, <2>7, TrayLawNext
  <1> QED
    BY <1>4, <1>5

\* The bar takes a message.
LEMMA HandleTrayStep ==
    ASSUME TY!TrayInv, TY!HandleTray
    PROVE  TY!TrayInv'
  <1>1. /\ Nobody \notin Apps /\ MaxLives \in Nat /\ MaxRegistrations \in Nat /\ MaxTrayQueue \in Nat
        /\ appLife \in [Apps -> 0 .. MaxLives] /\ appAlive \in [Apps -> BOOLEAN]
        /\ trayListed \subseteq Apps /\ lister \in Apps \cup {Nobody}
        /\ registrations \in [Apps -> 0 .. MaxRegistrations]
        /\ warden \in [Apps -> {"none", "started", "subscribed", "asked", "watching"}]
        /\ removals \in [Apps -> 0 .. MaxRegistrations]
        /\ awaited \in [Apps -> 0 .. MaxLives] /\ lost \in [Apps -> SUBSET (1 .. MaxLives)]
        /\ refresher \in [TY!Threads -> {"none", "idle", "blank", "icon"}]
        /\ trayQueue \in Seq(Apps \X {"blank", "icon", "gone"}) /\ Len(trayQueue) <= MaxTrayQueue
        /\ tray \in [Apps -> {"blank", "icon", "none"}] /\ trayOvertaken \subseteq Apps
    BY TrayTypes, TrayLaw
  <1>2. \A b \in Apps :
            /\ Watches(b, b \in trayListed, lister = b, warden[b], removals[b], registrations[b])
            /\ Follows(appAlive[b], appLife[b], warden[b], awaited[b], lost[b])
            /\ b \notin trayOvertaken /\ lister # b /\ removals[b] = 0
                => LastWord(b, trayQueue, tray[b], b \in trayListed)
    BY TrayLaw
  <1> DEFINE head == Head(trayQueue)
             shows == IF head[2] = "gone" THEN "none" ELSE head[2]
  <1>3. /\ UNCHANGED <<appLife, appAlive, trayListed, lister, registrations, warden, awaited, lost>>
        /\ UNCHANGED <<removals, refresher, trayOvertaken>>
        /\ trayQueue # <<>> /\ trayQueue' = Tail(trayQueue)
        /\ tray' = [tray EXCEPT ![head[1]] = shows]
    BY DEF TY!HandleTray, TY!TrayHandle, TY!owners, TY!list, TY!watch
  <1>4. head \in Apps \X {"blank", "icon", "gone"}
    BY <1>1, <1>3
  <1>5. head[1] \in Apps /\ head[2] \in {"blank", "icon", "gone"}
    BY <1>4
  <1>6. shows \in {"blank", "icon", "none"} /\ head[2] # "none"
    BY <1>5
  <1> HIDE DEF head, shows
  <1>7. tray' \in [Apps -> {"blank", "icon", "none"}]
    BY <1>1, <1>3, <1>6
  <1>8. trayQueue' \in Seq(Apps \X {"blank", "icon", "gone"}) /\ Len(trayQueue') <= MaxTrayQueue
    <2>1. trayQueue' \in Seq(Apps \X {"blank", "icon", "gone"}) /\ Len(trayQueue') = Len(trayQueue) - 1
      BY <1>1, <1>3
    <2>2. Len(trayQueue) \in Nat
      BY <1>1
    <2> QED
      BY <1>1, <2>1, <2>2
  <1>9. TY!TrayTypeOK'
    BY <1>1, <1>3, <1>7, <1>8, TrayTypesNext
  <1>10. ASSUME NEW b \in Apps, LastWord(b, trayQueue, tray[b], b \in trayListed)
         PROVE  LastWord(b, trayQueue', tray'[b], b \in trayListed')
    <2> DEFINE isIn == b \in trayListed
               next == tray'[b]
    <2>1. isIn \in BOOLEAN
      OBVIOUS
    <2>2. next = IF head[1] # b THEN tray[b] ELSE shows
      BY <1>1, <1>3
    <2>3. LastWord(b, trayQueue, tray[b], isIn)
      BY <1>10
    <2> HIDE DEF isIn, next
    <2>4. LastWord(b, Tail(trayQueue), next, isIn)
      BY <1>1, <1>3, <1>6, <2>1, <2>2, <2>3, Heard, SMTT(30) DEF head, shows
    <2> QED
      BY <1>3, <2>4 DEF isIn, next
  <1> QED
    BY <1>2, <1>3, <1>9, <1>10, TrayLawNext

\* No step of an application, a thread or the bar breaks what the tray shows.
LEMMA TrayStep == TY!TrayInv /\ [TY!TrayNext]_trayVars => TY!TrayInv'
  <1> SUFFICES ASSUME TY!TrayInv, [TY!TrayNext]_trayVars PROVE TY!TrayInv'
    OBVIOUS
  <1>1. CASE UNCHANGED trayVars
    <2>1. /\ Nobody \notin Apps /\ MaxLives \in Nat /\ MaxRegistrations \in Nat /\ MaxTrayQueue \in Nat
          /\ appLife \in [Apps -> 0 .. MaxLives] /\ appAlive \in [Apps -> BOOLEAN]
          /\ trayListed \subseteq Apps /\ lister \in Apps \cup {Nobody}
          /\ registrations \in [Apps -> 0 .. MaxRegistrations]
          /\ warden \in [Apps -> {"none", "started", "subscribed", "asked", "watching"}]
          /\ removals \in [Apps -> 0 .. MaxRegistrations]
          /\ awaited \in [Apps -> 0 .. MaxLives] /\ lost \in [Apps -> SUBSET (1 .. MaxLives)]
          /\ refresher \in [TY!Threads -> {"none", "idle", "blank", "icon"}]
          /\ trayQueue \in Seq(Apps \X {"blank", "icon", "gone"}) /\ Len(trayQueue) <= MaxTrayQueue
          /\ tray \in [Apps -> {"blank", "icon", "none"}] /\ trayOvertaken \subseteq Apps
      BY TrayTypes, TrayLaw
    <2>2. \A b \in Apps :
              /\ Watches(b, b \in trayListed, lister = b, warden[b], removals[b], registrations[b])
              /\ Follows(appAlive[b], appLife[b], warden[b], awaited[b], lost[b])
              /\ b \notin trayOvertaken /\ lister # b /\ removals[b] = 0
                  => LastWord(b, trayQueue, tray[b], b \in trayListed)
      BY TrayLaw
    <2>3. /\ UNCHANGED <<appLife, appAlive, trayListed, lister, registrations, warden, awaited, lost>>
          /\ UNCHANGED <<removals, refresher, trayQueue, tray, trayOvertaken>>
      BY <1>1 DEF trayVars
    <2>4. TY!TrayTypeOK'
      BY <2>1, <2>3, TrayTypesNext
    <2> QED
      BY <2>2, <2>3, <2>4, TrayLawNext
  <1>2. CASE TY!TrayNext
    BY <1>2, AppStep, RegisterStep, RegisteredStep, WardenStep, RemovalStep, RefreshStep, HandleTrayStep
       DEF TY!TrayNext
  <1> QED
    BY <1>1, <1>2

-----------------------------------------------------------------------------
(* The tray's menu: its rows are the page that is open.                    *)

\* What the invariant says of the menu, and of the menu's surfaces.
MenuRight(m) ==
    m # NoMenu =>
        /\ m \in TM!Menus /\ Len(m.parents) \in 1 .. MaxDepth
        /\ m.rows \in {NoMenu, m.parents[Len(m.parents)]}
PagesRight(m, drawn) ==
    /\ drawn \in [Outputs -> {"none", "small", "menu"}]
    /\ \A o \in Outputs : drawn[o] = "menu" => m # NoMenu /\ m.output = o

\* The invariant, in these terms.
LEMMA MenuLaw ==
    TM!MenuInv <=>
        /\ MenuRight(menu) /\ PagesRight(menu, pagesSeen)
        /\ fetches \subseteq TM!Replies
        /\ did \in {<<>>} \cup (TrayItems \X (TM!Pages \cup {"ContextMenu"}))
  BY DEF TM!MenuInv, TM!MenuTypeOK, TM!RowsAreThePage, TM!Last, MenuRight, PagesRight

\* The same of the next state.
LEMMA MenuLawNext ==
    ASSUME MenuRight(menu'), PagesRight(menu', pagesSeen'),
           fetches' \subseteq TM!Replies,
           did' \in {<<>>} \cup (TrayItems \X (TM!Pages \cup {"ContextMenu"}))
    PROVE  TM!MenuInv'
  BY DEF TM!MenuInv, TM!MenuTypeOK, TM!RowsAreThePage, TM!Last, MenuRight, PagesRight

\* No menu is open at first.
LEMMA MenuStart == TM!MenuInit => TM!MenuInv
  BY MenuLaw DEF TM!MenuInit, MenuRight, PagesRight

\* A menu made of its fields.
LEMMA MenuMade ==
    ASSUME NEW item \in TrayItems, NEW output \in Outputs, NEW parents \in Seq(TM!Pages),
           NEW shows, Len(parents) \in 1 .. MaxDepth,
           shows \in {NoMenu, parents[Len(parents)]}
    PROVE  /\ MenuRight([item |-> item, output |-> output, parents |-> parents, rows |-> shows])
           /\ [item |-> item, output |-> output, parents |-> parents, rows |-> shows] # NoMenu
  <1> DEFINE m == [item |-> item, output |-> output, parents |-> parents, rows |-> shows]
  <1>1. parents[Len(parents)] \in TM!Pages
    OBVIOUS
  <1>2. m \in TM!Menus
    BY <1>1 DEF TM!Menus
  <1>3. m.parents = parents /\ m.rows = shows
    OBVIOUS
  <1> HIDE DEF m
  <1>4. MenuRight(m) /\ m # NoMenu
    BY <1>2, <1>3, ShellAssumption DEF MenuRight, TM!MenuAssumption
  <1> QED
    BY <1>4 DEF m

\* The fields of an open menu.
LEMMA MenuFields ==
    ASSUME menu # NoMenu, MenuRight(menu)
    PROVE  /\ menu.item \in TrayItems /\ menu.output \in Outputs
           /\ menu.parents \in Seq(TM!Pages) /\ Len(menu.parents) \in 1 .. MaxDepth
           /\ menu.parents[Len(menu.parents)] \in TM!Pages
           /\ menu.rows \in {NoMenu, menu.parents[Len(menu.parents)]}
           /\ menu = [item |-> menu.item, output |-> menu.output, parents |-> menu.parents,
                      rows |-> menu.rows]
  <1>1. menu \in TM!Menus /\ Len(menu.parents) \in 1 .. MaxDepth
        /\ menu.rows \in {NoMenu, menu.parents[Len(menu.parents)]}
    BY DEF MenuRight
  <1>2. menu.item \in TrayItems /\ menu.output \in Outputs /\ menu.parents \in Seq(TM!Pages)
        /\ menu = [item |-> menu.item, output |-> menu.output, parents |-> menu.parents,
                   rows |-> menu.rows]
    BY <1>1 DEF TM!Menus
  <1>3. menu.parents[Len(menu.parents)] \in TM!Pages
    BY <1>1, <1>2
  <1> QED
    BY <1>1, <1>2, <1>3

\* A click of the bar closes the pages; a page asked for is one of the menus'.
LEMMA SmallPages ==
    ASSUME NEW m, PagesRight(menu, pagesSeen), pagesSeen' = TM!Small
    PROVE  PagesRight(m, pagesSeen')
  BY DEF PagesRight, TM!Small
\* A page asked for is one of an item's menu.
LEMMA FetchType ==
    ASSUME NEW item \in TrayItems, NEW asked \in TM!Pages, fetches \subseteq TM!Replies,
           TM!Fetch(item, asked)
    PROVE  fetches' \subseteq TM!Replies
  BY DEF TM!Fetch, TM!Replies

\* Pages that come late, are left or are gone back from: what can be clicked is
\* always the page that is open.
LEMMA MenuStep == TM!MenuInv /\ [TM!MenuNext]_menuVars => TM!MenuInv'
  <1> SUFFICES ASSUME TM!MenuInv, [TM!MenuNext]_menuVars PROVE TM!MenuInv'
    OBVIOUS
  <1>0. /\ MenuRight(menu) /\ PagesRight(menu, pagesSeen)
        /\ fetches \subseteq TM!Replies
        /\ did \in {<<>>} \cup (TrayItems \X (TM!Pages \cup {"ContextMenu"}))
    BY MenuLaw
  <1>a. MaxDepth \in Nat \ {0} /\ NoMenu \notin TM!Menus /\ Root \in TM!Pages
        /\ Submenus \subseteq TM!Pages
    BY ShellAssumption DEF TM!MenuAssumption, TM!Pages
  <1>n. TM!Nothing => did' \in {<<>>} \cup (TrayItems \X (TM!Pages \cup {"ContextMenu"}))
    BY DEF TM!Nothing
  <1>c. MenuRight(NoMenu)
    BY DEF MenuRight
  <1>1. ASSUME NEW item \in TrayItems, NEW output \in Outputs, TM!OpenMenu(item, output)
        PROVE  TM!MenuInv'
    <2>1. <<Root>> \in Seq(TM!Pages) /\ Len(<<Root>>) = 1
      BY <1>a
    <2>a. Len(<<Root>>) \in 1 .. MaxDepth /\ NoMenu \in {NoMenu, <<Root>>[Len(<<Root>>)]}
      BY <2>1, <1>a
    <2>b. menu' = [item |-> item, output |-> output, parents |-> <<Root>>, rows |-> NoMenu]
      BY <1>1 DEF TM!OpenMenu
    <2> DEFINE first == <<Root>>
    <2> HIDE DEF first
    <2>2. MenuRight(menu')
      <3>1. first \in Seq(TM!Pages) /\ Len(first) \in 1 .. MaxDepth
            /\ NoMenu \in {NoMenu, first[Len(first)]}
            /\ menu' = [item |-> item, output |-> output, parents |-> first, rows |-> NoMenu]
        BY <2>1, <2>a, <2>b DEF first
      <3> QED
        BY <3>1, MenuMade
    <2>3. fetches' \subseteq TM!Replies
      BY <1>1, <1>a, <1>0, FetchType DEF TM!OpenMenu
    <2>4. PagesRight(menu', pagesSeen')
      BY <1>1, <1>0 DEF TM!OpenMenu, PagesRight, TM!Small
    <2> QED
      BY <1>1, <1>n, <2>2, <2>3, <2>4, MenuLawNext DEF TM!OpenMenu
  <1>2. CASE TM!CloseMenu
    BY <1>2, <1>0, <1>n, <1>c, SmallPages, MenuLawNext DEF TM!CloseMenu
  <1>3. CASE TM!GoBack
    <2> DEFINE n == Len(menu.parents)
               up == SubSeq(menu.parents, 1, n - 1)
    <2>1. menu # NoMenu /\ n > 1 /\ TM!Back /\ TM!Fetch(menu.item, TM!Last(menu'.parents))
          /\ TM!Nothing /\ UNCHANGED pagesSeen
      BY <1>3 DEF TM!GoBack
    <2>2. /\ menu.item \in TrayItems /\ menu.output \in Outputs
          /\ menu.parents \in Seq(TM!Pages) /\ n \in 1 .. MaxDepth
          /\ menu = [item |-> menu.item, output |-> menu.output, parents |-> menu.parents,
                     rows |-> menu.rows]
      BY <2>1, <1>0, MenuFields
    <2>3. up \in Seq(TM!Pages) /\ Len(up) = n - 1 /\ Len(up) \in 1 .. MaxDepth
      BY <2>1, <2>2, <1>a
    <2>4. menu' = [item |-> menu.item, output |-> menu.output, parents |-> up, rows |-> NoMenu]
      BY <2>1, <2>2 DEF TM!Back, TM!Front
    <2>5. menu'.parents = up /\ menu'.output = menu.output /\ up[Len(up)] \in TM!Pages
      BY <2>3, <2>4
    <2>6. MenuRight(menu') /\ menu' # NoMenu
      BY <2>2, <2>3, <2>4, MenuMade
    <2>7. fetches' \subseteq TM!Replies
      BY <2>1, <2>2, <2>5, <1>0, FetchType DEF TM!Last
    <2>9. PagesRight(menu', pagesSeen')
      BY <2>1, <2>5, <2>6, <1>0 DEF PagesRight
    <2> QED
      BY <1>n, <2>1, <2>6, <2>7, <2>9, MenuLawNext
  <1>4. CASE TM!ClickEntry
    <2>1. menu # NoMenu /\ menu.rows # NoMenu /\ did' = <<menu.item, menu.rows>>
          /\ menu' = NoMenu /\ pagesSeen' = TM!Small /\ fetches' = fetches
      BY <1>4 DEF TM!ClickEntry
    <2>2. menu.item \in TrayItems /\ menu.rows \in TM!Pages
      BY <2>1, <1>0, MenuFields
    <2> QED
      BY <2>1, <2>2, <1>0, <1>c, SmallPages, MenuLawNext
  <1>5. ASSUME NEW into \in Submenus, TM!Enter(into) PROVE TM!MenuInv'
    <2> DEFINE below == Append(menu.parents, into)
    <2>1. menu # NoMenu /\ Len(menu.parents) < MaxDepth
          /\ menu' = [menu EXCEPT !.parents = Append(@, into), !.rows = NoMenu]
          /\ TM!Fetch(menu.item, into) /\ TM!Nothing /\ UNCHANGED pagesSeen
      BY <1>5 DEF TM!Enter
    <2>2. /\ menu.item \in TrayItems /\ menu.output \in Outputs
          /\ menu.parents \in Seq(TM!Pages) /\ Len(menu.parents) \in 1 .. MaxDepth
          /\ menu = [item |-> menu.item, output |-> menu.output, parents |-> menu.parents,
                     rows |-> menu.rows]
      BY <2>1, <1>0, MenuFields
    <2>3. into \in TM!Pages /\ below \in Seq(TM!Pages) /\ Len(below) = Len(menu.parents) + 1
          /\ Len(below) \in 1 .. MaxDepth
      BY <2>1, <2>2, <1>a
    <2>4. menu' = [item |-> menu.item, output |-> menu.output, parents |-> below,
                   rows |-> NoMenu]
      BY <2>1, <2>2
    <2>6. MenuRight(menu') /\ menu' # NoMenu /\ menu'.output = menu.output
      BY <2>2, <2>3, <2>4, MenuMade
    <2>7. fetches' \subseteq TM!Replies
      BY <2>1, <2>2, <2>3, <1>0, FetchType
    <2>9. PagesRight(menu', pagesSeen')
      BY <2>1, <2>6, <1>0 DEF PagesRight
    <2> QED
      BY <1>n, <2>1, <2>6, <2>7, <2>9, MenuLawNext
  <1>6. ASSUME NEW reply \in fetches, TM!Loaded(reply) PROVE TM!MenuInv'
    <2>1. fetches' \subseteq TM!Replies
      BY <1>6, <1>0 DEF TM!Loaded
    <2>2. CASE ~TM!Awaited(reply)
      BY <1>6, <1>0, <1>n, <2>1, <2>2, MenuLawNext DEF TM!Loaded
    <2>3. CASE TM!Awaited(reply) /\ reply.found
      <3>1. /\ menu # NoMenu /\ menu.parents[Len(menu.parents)] = reply.page
            /\ menu' = [menu EXCEPT !.rows = reply.page] /\ TM!Nothing
            /\ pagesSeen' = [pagesSeen EXCEPT ![menu.output] = IF @ = "none" THEN @ ELSE "menu"]
        BY <1>6, <2>3 DEF TM!Loaded, TM!Awaited, TM!Last
      <3>2. /\ menu.item \in TrayItems /\ menu.output \in Outputs
            /\ menu.parents \in Seq(TM!Pages) /\ Len(menu.parents) \in 1 .. MaxDepth
            /\ menu = [item |-> menu.item, output |-> menu.output, parents |-> menu.parents,
                       rows |-> menu.rows]
        BY <3>1, <1>0, MenuFields
      <3>3. menu' = [item |-> menu.item, output |-> menu.output, parents |-> menu.parents,
                     rows |-> reply.page]
        BY <3>1, <3>2
      <3>4. MenuRight(menu') /\ menu'.output = menu.output
        BY <3>1, <3>2, <3>3, MenuMade
      <3>5. menu' # NoMenu
        BY <3>1, <3>2, <3>3, <1>a DEF TM!Menus, TM!Pages
      <3>6. PagesRight(menu', pagesSeen')
        BY <3>1, <3>2, <3>4, <3>5, <1>0 DEF PagesRight
      <3> QED
        BY <1>n, <2>1, <3>1, <3>4, <3>6, MenuLawNext
    <2>4. CASE TM!Awaited(reply) /\ ~reply.found
      <3>1. /\ menu # NoMenu /\ menu' = NoMenu /\ pagesSeen' = TM!Small
            /\ did' = <<menu.item, "ContextMenu">>
        BY <1>6, <2>4 DEF TM!Loaded, TM!Awaited
      <3>2. menu.item \in TrayItems
        BY <3>1, <1>0, MenuFields
      <3> QED
        BY <1>0, <1>c, <2>1, <3>1, <3>2, SmallPages, MenuLawNext
    <2> QED
      BY <2>2, <2>3, <2>4
  <1>7. ASSUME NEW output \in Outputs, TM!MenuSurfaceClosed(output) PROVE TM!MenuInv'
    <2>1. pagesSeen' = [pagesSeen EXCEPT ![output] = "none"] /\ TM!Nothing
          /\ menu' = menu /\ fetches' = fetches
      BY <1>7 DEF TM!MenuSurfaceClosed
    <2>2. PagesRight(menu', pagesSeen')
      BY <2>1, <1>0 DEF PagesRight
    <2> QED
      BY <2>1, <2>2, <1>0, <1>n, MenuLawNext
  <1>8. CASE UNCHANGED menuVars
    BY <1>8, <1>0, MenuLawNext DEF menuVars
  <1> QED
    BY <1>1, <1>2, <1>3, <1>4, <1>5, <1>6, <1>7, <1>8 DEF TM!MenuNext

-----------------------------------------------------------------------------
(* The registry of the tray: who is listed owns the name.                  *)

\* What the invariant says, of given values of the variables it reads.
Owns(e, live, sh) ==
    (IF e.service = "own" THEN (IF e.owner \in live THEN e.owner ELSE Nobody) ELSE sh) = e.owner
Warns(c, e) == c.type = "changed" /\ c.old = e.owner /\ TW!GoneWith(e, c)
WarnedIn(m, e, n) == \E i \in 1 .. Len(m) : i > n /\ Warns(m[i], e)
HoldsIn(m, live, sh, e, n) == Owns(e, live, sh) \/ WarnedIn(m, e, n)
AnswerRight(m, c, live, sh, i) ==
    m[i].type = "owner" =>
        /\ m[i].request \in DOMAIN c
        /\ m[i].owner = c[m[i].request].entry.owner
            => HoldsIn(m, live, sh, c[m[i].request].entry, i)
        /\ \A j \in 1 .. Len(m) : m[j].type = "owner" /\ m[j].request = m[i].request => j = i
AskedIn(m) == {i \in 1 .. Len(m) : m[i].type = "register"}

\* The invariant, in these terms.
LEMMA WatcherLaw ==
    ASSUME TW!WatcherInv
    PROVE  /\ TW!WatcherTypeOK /\ TW!SignalsAgree
           /\ \A e \in items \cup hosts : HoldsIn(mail, alive, shared, e, 0)
           /\ \A i \in 1 .. Len(mail) : AnswerRight(mail, calls, alive, shared, i)
           /\ DOMAIN calls \subseteq 1 .. sequence
           /\ sequence + Cardinality(AskedIn(mail)) <= MaxAsked
  <1>1. TW!WatcherTypeOK /\ TW!SignalsAgree /\ TW!ListedIsWarned /\ TW!AnswersHold /\ TW!Numbered
    BY DEF TW!WatcherInv
  <1>2. \A e \in items \cup hosts : HoldsIn(mail, alive, shared, e, 0)
    BY <1>1 DEF TW!ListedIsWarned, TW!Holds, TW!Warned, TW!Owner, HoldsIn, Owns, WarnedIn, Warns
  <1>3. \A i \in 1 .. Len(mail) : AnswerRight(mail, calls, alive, shared, i)
    BY <1>1 DEF TW!AnswersHold, TW!Holds, TW!Warned, TW!Owner, AnswerRight, HoldsIn, Owns, WarnedIn, Warns
  <1>4. DOMAIN calls \subseteq 1 .. sequence /\ sequence + Cardinality(AskedIn(mail)) <= MaxAsked
    BY <1>1 DEF TW!Numbered, TW!Asked, AskedIn, TW!Cardinality, Cardinality, TW!IsFiniteSet, IsFiniteSet
  <1> QED
    BY <1>1, <1>2, <1>3, <1>4

\* The same of the next state; who is listed is owned because it is warned of.
LEMMA WatcherLawNext ==
    ASSUME TW!WatcherTypeOK', TW!SignalsAgree',
           \A e \in items' \cup hosts' : HoldsIn(mail', alive', shared', e, 0),
           \A i \in 1 .. Len(mail') : AnswerRight(mail', calls', alive', shared', i),
           DOMAIN calls' \subseteq 1 .. sequence',
           sequence' + Cardinality(AskedIn(mail')) <= MaxAsked
    PROVE  TW!WatcherInv'
  <1>2. TW!ListedIsWarned'
    BY DEF TW!ListedIsWarned, TW!Holds, TW!Warned, TW!Owner, HoldsIn, Owns, WarnedIn, Warns
  <1>3. TW!AnswersHold'
    BY DEF TW!AnswersHold, TW!Holds, TW!Warned, TW!Owner, AnswerRight, HoldsIn, Owns, WarnedIn, Warns
  <1>4. TW!Numbered'
    BY DEF TW!Numbered, TW!Asked, AskedIn, TW!Cardinality, Cardinality, TW!IsFiniteSet, IsFiniteSet
  <1>5. TW!ListedIsOwned'
    BY DEF TW!ListedIsOwned, TW!Owner, HoldsIn, Owns, WarnedIn, Warns
  <1> QED
    BY <1>2, <1>3, <1>4, <1>5 DEF TW!WatcherInv

\* The types, unfolded.
LEMMA WatcherTypes ==
    ASSUME TW!WatcherTypeOK
    PROVE  /\ Nobody \notin Owners /\ MaxAsked \in Nat /\ MaxTakeovers \in Nat
           /\ alive \subseteq Owners /\ shared \in Owners \cup {Nobody}
           /\ items \subseteq TW!Entry /\ hosts \subseteq TW!Entry /\ seen \subseteq TW!Entry
           /\ DOMAIN waiting \subseteq TW!Requests /\ waiting \in [DOMAIN waiting -> TW!Entry]
           /\ DOMAIN calls \subseteq TW!Requests /\ calls \in [DOMAIN calls -> TW!Call]
           /\ hostSeen \in BOOLEAN /\ sequence \in 0 .. MaxAsked /\ takeovers \in 0 .. MaxTakeovers
           /\ mail \in Seq(TW!Message)
  BY ShellAssumption DEF TW!WatcherTypeOK, TW!Partial, TW!TrayWatcherAssumption
\* The same of the next state.
LEMMA WatcherTypesNext ==
    ASSUME /\ alive' \subseteq Owners /\ shared' \in Owners \cup {Nobody}
           /\ items' \subseteq TW!Entry /\ hosts' \subseteq TW!Entry /\ seen' \subseteq TW!Entry,
           /\ DOMAIN waiting' \subseteq TW!Requests /\ waiting' \in [DOMAIN waiting' -> TW!Entry]
           /\ DOMAIN calls' \subseteq TW!Requests /\ calls' \in [DOMAIN calls' -> TW!Call]
           /\ hostSeen' \in BOOLEAN /\ sequence' \in 0 .. MaxAsked /\ takeovers' \in 0 .. MaxTakeovers
           /\ mail' \in Seq(TW!Message)
    PROVE  TW!WatcherTypeOK'
  BY DEF TW!WatcherTypeOK, TW!Partial

\* The fields of a message of each kind, and of a call.
LEMMA MessageFields ==
    ASSUME NEW m \in TW!Message
    PROVE  /\ m.type \in {"register", "owner", "changed"}
           /\ m.type = "register" => m.call \in TW!Call
           /\ m.type = "owner" => m.request \in TW!Requests /\ m.owner \in Owners \cup {Nobody}
           /\ m.type = "changed" => /\ m.service \in {"own", "shared"}
                                    /\ m.old \in Owners \cup {Nobody}
                                    /\ m.new \in Owners \cup {Nobody}
  BY DEF TW!Message
\* The fields of a call.
LEMMA CallFields ==
    ASSUME NEW c \in TW!Call
    PROVE  /\ c.entry \in TW!Entry /\ c.host \in BOOLEAN
           /\ c.entry.owner \in Owners /\ c.entry.service \in {"own", "shared"}
  BY DEF TW!Call, TW!Entry

\* A longer mail still warns, a shorter one of what its head did not take.
LEMMA WarnedLonger ==
    ASSUME NEW m \in Seq(TW!Message), NEW x \in Seq(TW!Message), NEW e, NEW n \in Nat, n <= Len(m)
    PROVE  /\ WarnedIn(m, e, n) => WarnedIn(m \o x, e, n)
           /\ \A i \in 1 .. Len(x) : Warns(x[i], e) => WarnedIn(m \o x, e, n)
  <1>1. \A i \in 1 .. Len(m) : i \in 1 .. Len(m \o x) /\ (m \o x)[i] = m[i]
    OBVIOUS
  <1>2. \A i \in 1 .. Len(x) :
            Len(m) + i \in 1 .. Len(m \o x) /\ (m \o x)[Len(m) + i] = x[i] /\ Len(m) + i > n
    OBVIOUS
  <1> QED
    BY <1>1, <1>2 DEF WarnedIn
\* A mail without its head still warns of what the head did not take along.
LEMMA WarnedTail ==
    ASSUME NEW m \in Seq(TW!Message), m # <<>>, NEW e, NEW n \in Nat
    PROVE  /\ WarnedIn(m, e, n + 1) => WarnedIn(Tail(m), e, n)
           /\ WarnedIn(m, e, 0) /\ ~Warns(m[1], e) => WarnedIn(Tail(m), e, 0)
  <1>1. \A i \in 1 .. Len(m) : i > 1 =>
            i - 1 \in 1 .. Len(Tail(m)) /\ Tail(m)[i - 1] = m[i]
    OBVIOUS
  <1>2. ASSUME NEW k \in Nat, NEW i \in 1 .. Len(m), i > k + 1, Warns(m[i], e)
        PROVE  WarnedIn(Tail(m), e, k)
    <2>1. i > 1 /\ i - 1 > k
      BY <1>2
    <2>2. i - 1 \in 1 .. Len(Tail(m)) /\ Warns(Tail(m)[i - 1], e)
      BY <1>1, <1>2, <2>1
    <2> QED
      BY <2>1, <2>2 DEF WarnedIn
  <1>3. WarnedIn(m, e, n + 1) => WarnedIn(Tail(m), e, n)
    BY <1>2 DEF WarnedIn
  <1>4. ASSUME WarnedIn(m, e, 0), ~Warns(m[1], e) PROVE WarnedIn(Tail(m), e, 0)
    <2>1. PICK i \in 1 .. Len(m) : i > 0 /\ Warns(m[i], e)
      BY <1>4 DEF WarnedIn
    <2>2. i # 1
      BY <1>4, <2>1
    <2>3. i > 0 + 1 /\ 0 \in Nat
      BY <2>2
    <2> QED
      BY <1>2, <2>1, <2>3
  <1> QED
    BY <1>3, <1>4

\* The registrations of a mail with one more message, and without its head.
LEMMA AskedFinite ==
    ASSUME NEW m \in Seq(TW!Message)
    PROVE  /\ IsFiniteSet(AskedIn(m)) /\ Cardinality(AskedIn(m)) \in Nat
  <1>1. IsFiniteSet(1 .. Len(m))
    BY FS_Interval
  <1>2. IsFiniteSet(AskedIn(m))
    BY <1>1, FS_Subset DEF AskedIn
  <1> QED
    BY <1>2, FS_CardinalityType
\* A message more is a registration more, or none.
LEMMA AskedMore ==
    ASSUME NEW m \in Seq(TW!Message), NEW x \in TW!Message
    PROVE  Cardinality(AskedIn(Append(m, x)))
               = Cardinality(AskedIn(m)) + (IF x.type = "register" THEN 1 ELSE 0)
  <1> DEFINE n == Len(m) + 1
  <1>1. n \notin AskedIn(m) /\ Len(Append(m, x)) = n /\ Append(m, x)[n] = x
        /\ \A i \in 1 .. Len(m) : Append(m, x)[i] = m[i]
    BY DEF AskedIn
  <1>2. \A i : i \in 1 .. n <=> i \in 1 .. Len(m) \/ i = n
    OBVIOUS
  <1> HIDE DEF n
  <1>3. AskedIn(Append(m, x)) = IF x.type = "register" THEN AskedIn(m) \cup {n} ELSE AskedIn(m)
    <2>1. \A i : i \in AskedIn(Append(m, x)) <=> i \in AskedIn(m) \/ (i = n /\ x.type = "register")
      BY <1>1, <1>2 DEF AskedIn
    <2> QED
      BY <2>1
  <1>4. Cardinality(AskedIn(m) \cup {n}) = Cardinality(AskedIn(m)) + 1
    BY <1>1, AskedFinite, FS_AddElement
  <1> QED
    BY <1>3, <1>4, AskedFinite
\* Without its head a mail has no more registrations, one less if that was one.
LEMMA AskedLess ==
    ASSUME NEW m \in Seq(TW!Message), m # <<>>
    PROVE  /\ Cardinality(AskedIn(Tail(m))) <= Cardinality(AskedIn(m))
           /\ m[1].type = "register" =>
                Cardinality(AskedIn(Tail(m))) + 1 <= Cardinality(AskedIn(m))
  <1> DEFINE S == AskedIn(Tail(m))
             T == AskedIn(m) \ {1}
             f == [i \in S |-> i + 1]
  <1>1. Tail(m) \in Seq(TW!Message) /\ \A i \in 1 .. Len(Tail(m)) :
            /\ Tail(m)[i] = m[i + 1] /\ i + 1 \in 1 .. Len(m) /\ i + 1 # 1
    OBVIOUS
  <1>2. IsFiniteSet(AskedIn(m)) /\ IsFiniteSet(T) /\ Cardinality(T) \in Nat
        /\ Cardinality(T) = IF 1 \in AskedIn(m) THEN Cardinality(AskedIn(m)) - 1
                                                ELSE Cardinality(AskedIn(m))
    BY AskedFinite, FS_RemoveElement, FS_CardinalityType
  <1>3. f \in [S -> T]
    BY <1>1 DEF AskedIn
  <1>4. \A i, j \in S : f[i] = f[j] => i = j
    BY DEF AskedIn
  <1>5. f \in Injection(S, T)
    <2> HIDE DEF f, S, T
    <2> QED
      BY <1>3, <1>4 DEF Injection, IsInjective
  <1>6. Cardinality(S) <= Cardinality(T)
    <2> HIDE DEF f, S, T
    <2> QED
      BY <1>2, <1>5, FS_Injection
  <1>7. m[1].type = "register" => 1 \in AskedIn(m)
    BY DEF AskedIn
  <1>8. Cardinality(S) \in Nat /\ Cardinality(AskedIn(m)) \in Nat
    BY <1>1, AskedFinite
  <1> QED
    BY <1>2, <1>6, <1>7, <1>8

\* What the bus adds to the mail: a name that changed hands is warned of, and an
\* answer added is right.
LEMMA MoreMail ==
    ASSUME TW!WatcherInv, NEW x \in Seq(TW!Message), mail' = mail \o x,
           alive' \subseteq Owners, shared' \in Owners \cup {Nobody}, takeovers' \in 0 .. MaxTakeovers,
           UNCHANGED <<items, hosts, waiting, calls, seen, hostSeen, sequence>>,
           \A e \in TW!Entry : Owns(e, alive, shared) =>
               Owns(e, alive', shared') \/ \E i \in 1 .. Len(x) : Warns(x[i], e),
           \A i \in 1 .. Len(x) : x[i].type = "owner" =>
               /\ AnswerRight(mail', calls, alive', shared', Len(mail) + i)
               /\ \A j \in 1 .. Len(mail) : mail[j].type = "owner" => mail[j].request # x[i].request,
           sequence + Cardinality(AskedIn(mail')) <= MaxAsked
    PROVE  TW!WatcherInv'
  <1> USE DEF TW!WatcherInv
  <1>1. /\ items \subseteq TW!Entry /\ hosts \subseteq TW!Entry /\ seen \subseteq TW!Entry
        /\ DOMAIN waiting \subseteq TW!Requests /\ waiting \in [DOMAIN waiting -> TW!Entry]
        /\ DOMAIN calls \subseteq TW!Requests /\ calls \in [DOMAIN calls -> TW!Call]
        /\ hostSeen \in BOOLEAN /\ sequence \in 0 .. MaxAsked
        /\ mail \in Seq(TW!Message)
    BY WatcherLaw, WatcherTypes
  <1> HIDE DEF TW!WatcherInv
  <1>2. TW!WatcherTypeOK'
    <2>1. mail' \in Seq(TW!Message)
      BY <1>1
    <2> QED
      BY <1>1, <2>1, WatcherTypesNext
  <1>3. TW!SignalsAgree'
    BY WatcherLaw DEF TW!SignalsAgree
  <1>4. \A e \in TW!Entry, n \in Nat : n <= Len(mail) /\ HoldsIn(mail, alive, shared, e, n)
            => HoldsIn(mail', alive', shared', e, n)
    BY <1>1, WarnedLonger DEF HoldsIn
  <1>5. \A e \in items \cup hosts : HoldsIn(mail', alive', shared', e, 0)
    <2>1. \A e \in items \cup hosts : e \in TW!Entry /\ HoldsIn(mail, alive, shared, e, 0)
      BY <1>1, WatcherLaw
    <2>2. 0 \in Nat /\ 0 <= Len(mail)
      BY <1>1
    <2> QED
      BY <1>4, <2>1, <2>2
  <1>6. /\ Len(mail') = Len(mail) + Len(x)
        /\ \A i \in 1 .. Len(mail) : mail'[i] = mail[i]
        /\ \A i \in 1 .. Len(x) : mail'[Len(mail) + i] = x[i]
        /\ \A i \in 1 .. Len(mail') : i \in 1 .. Len(mail)
                \/ \E k \in 1 .. Len(x) : i = Len(mail) + k
    <2>1. \A i \in 1 .. Len(mail') : i \notin 1 .. Len(mail)
            => i - Len(mail) \in 1 .. Len(x) /\ i = Len(mail) + (i - Len(mail))
      BY <1>1
    <2> QED
      BY <1>1, <2>1
  <1>7. ASSUME NEW i \in 1 .. Len(mail') PROVE AnswerRight(mail', calls', alive', shared', i)
    <2>1. CASE i \in 1 .. Len(mail)
      <3> SUFFICES ASSUME mail[i].type = "owner"
                   PROVE  AnswerRight(mail', calls', alive', shared', i)
        BY <1>6, <2>1 DEF AnswerRight
      <3> DEFINE r == mail[i].request
      <3>1. /\ r \in DOMAIN calls
            /\ mail[i].owner = calls[r].entry.owner
                => HoldsIn(mail, alive, shared, calls[r].entry, i)
            /\ \A j \in 1 .. Len(mail) : mail[j].type = "owner" /\ mail[j].request = r => j = i
        BY <2>1, WatcherLaw DEF AnswerRight
      <3>2. calls[r].entry \in TW!Entry
        BY <1>1, <3>1, CallFields
      <3>3. i \in Nat /\ i <= Len(mail)
        BY <1>1, <2>1
      <3>4. mail[i].owner = calls[r].entry.owner
                => HoldsIn(mail', alive', shared', calls[r].entry, i)
        BY <1>4, <3>1, <3>2, <3>3
      <3>5. \A j \in 1 .. Len(mail') : mail'[j].type = "owner" /\ mail'[j].request = r => j = i
        BY <1>6, <2>1, <3>1, SMTT(30)
      <3>6. mail'[i] = mail[i] /\ calls' = calls
        BY <1>6, <2>1
      <3> HIDE DEF r
      <3> QED
        BY <3>1, <3>4, <3>5, <3>6 DEF AnswerRight, r
    <2>2. CASE \E k \in 1 .. Len(x) : i = Len(mail) + k
      <3>1. PICK k \in 1 .. Len(x) : i = Len(mail) + k
        BY <2>2
      <3>2. mail'[i] = x[k]
        BY <1>6, <3>1
      <3>3. x[k].type = "owner" => AnswerRight(mail', calls', alive', shared', i)
        BY <3>1
      <3> QED
        BY <3>2, <3>3 DEF AnswerRight
    <2> QED
      BY <1>6, <2>1, <2>2
  <1>8. DOMAIN calls' \subseteq 1 .. sequence' /\ sequence' + Cardinality(AskedIn(mail')) <= MaxAsked
    BY WatcherLaw
  <1> QED
    BY <1>2, <1>3, <1>5, <1>7, <1>8, WatcherLawNext

\* What the watcher takes from the head of its mail.
LEMMA LessMail ==
    ASSUME NEW m \in Seq(TW!Message), m # <<>>, NEW c, NEW d, NEW live, NEW sh,
           \A i \in 1 .. Len(m) : AnswerRight(m, c, live, sh, i),
           \A i \in 1 .. Len(m) : i # 1 /\ m[i].type = "owner" =>
               m[i].request \in DOMAIN d /\ d[m[i].request] = c[m[i].request]
    PROVE  \A i \in 1 .. Len(Tail(m)) : AnswerRight(Tail(m), d, live, sh, i)
  <1> SUFFICES ASSUME NEW i \in 1 .. Len(Tail(m)), Tail(m)[i].type = "owner"
               PROVE  AnswerRight(Tail(m), d, live, sh, i)
    BY DEF AnswerRight
  <1>1. \A j \in 1 .. Len(Tail(m)) :
            Tail(m)[j] = m[j + 1] /\ j + 1 \in 1 .. Len(m) /\ j + 1 # 1
    OBVIOUS
  <1> DEFINE r == Tail(m)[i].request
  <1>2. /\ r \in DOMAIN d /\ d[r] = c[r] /\ Tail(m)[i] = m[i + 1] /\ m[i + 1].type = "owner"
        /\ r = m[i + 1].request
    BY <1>1
  <1>3. /\ m[i + 1].owner = c[r].entry.owner => HoldsIn(m, live, sh, c[r].entry, i + 1)
        /\ \A j \in 1 .. Len(m) : m[j].type = "owner" /\ m[j].request = r => j = i + 1
    BY <1>1, <1>2 DEF AnswerRight
  <1>4. i \in Nat
    OBVIOUS
  <1>5. Tail(m)[i].owner = d[r].entry.owner => HoldsIn(Tail(m), live, sh, d[r].entry, i)
    <2> SUFFICES ASSUME HoldsIn(m, live, sh, d[r].entry, i + 1)
                 PROVE  HoldsIn(Tail(m), live, sh, d[r].entry, i)
      BY <1>2, <1>3
    <2>1. \A e : WarnedIn(m, e, i + 1) => WarnedIn(Tail(m), e, i)
      BY <1>4, WarnedTail
    <2> QED
      BY <2>1 DEF HoldsIn
  <1>6. \A j \in 1 .. Len(Tail(m)) : Tail(m)[j].type = "owner" /\ Tail(m)[j].request = r => j = i
    <2> SUFFICES ASSUME NEW j \in 1 .. Len(Tail(m)), Tail(m)[j].type = "owner", Tail(m)[j].request = r
                 PROVE  j = i
      OBVIOUS
    <2>1. j + 1 = i + 1
      BY <1>1, <1>3
    <2> QED
      BY <2>1
  <1> HIDE DEF r
  <1> QED
    BY <1>2, <1>5, <1>6 DEF AnswerRight, r

\* What is listed and not taken along by the head is still warned of behind it.
LEMMA KeptBehind ==
    ASSUME NEW m \in Seq(TW!Message), m # <<>>, NEW e, NEW live, NEW sh,
           \/ HoldsIn(m, live, sh, e, 0) /\ ~Warns(m[1], e)
           \/ HoldsIn(m, live, sh, e, 1)
    PROVE  HoldsIn(Tail(m), live, sh, e, 0)
  <1>1. /\ WarnedIn(m, e, 0 + 1) => WarnedIn(Tail(m), e, 0)
        /\ WarnedIn(m, e, 0) /\ ~Warns(m[1], e) => WarnedIn(Tail(m), e, 0)
    BY WarnedTail
  <1>2. 0 + 1 = 1
    OBVIOUS
  <1> QED
    BY <1>1, <1>2 DEF HoldsIn

\* What is known of the state before a step.
LEMMA WatcherFacts ==
    ASSUME TW!WatcherInv
    PROVE  /\ Nobody \notin Owners /\ MaxAsked \in Nat /\ MaxTakeovers \in Nat
           /\ alive \subseteq Owners /\ shared \in Owners \cup {Nobody}
           /\ items \subseteq TW!Entry /\ hosts \subseteq TW!Entry /\ seen \subseteq TW!Entry
           /\ DOMAIN waiting \subseteq TW!Requests /\ waiting \in [DOMAIN waiting -> TW!Entry]
           /\ DOMAIN calls \subseteq TW!Requests /\ calls \in [DOMAIN calls -> TW!Call]
           /\ hostSeen \in BOOLEAN /\ sequence \in 0 .. MaxAsked /\ takeovers \in 0 .. MaxTakeovers
           /\ mail \in Seq(TW!Message)
           /\ sequence + Cardinality(AskedIn(mail)) <= MaxAsked
           /\ Cardinality(AskedIn(mail)) \in Nat
  <1>1. TW!WatcherTypeOK /\ sequence + Cardinality(AskedIn(mail)) <= MaxAsked
    BY WatcherLaw
  <1>2. mail \in Seq(TW!Message)
    BY <1>1, WatcherTypes
  <1> QED
    BY <1>1, <1>2, WatcherTypes, AskedFinite

\* A name is taken or released, and the watcher will hear of it.
LEMMA TakeStep ==
    ASSUME TW!WatcherInv, NEW app \in Owners, TW!TakeName(app)
    PROVE  TW!WatcherInv'
  <1> DEFINE c == TW!Changed("shared", shared, shared')
             x == <<c>>
  <1>1. /\ mail \in Seq(TW!Message) /\ shared \in Owners \cup {Nobody} /\ Nobody \notin Owners
        /\ alive \subseteq Owners /\ takeovers \in 0 .. MaxTakeovers /\ MaxTakeovers \in Nat
        /\ sequence + Cardinality(AskedIn(mail)) <= MaxAsked
        /\ Cardinality(AskedIn(mail)) \in Nat
    BY WatcherFacts
  <1>2. /\ takeovers < MaxTakeovers /\ takeovers' = takeovers + 1
        /\ app \in alive /\ shared' = (IF shared = app THEN Nobody ELSE app)
        /\ mail' = Append(mail, c)
        /\ alive' = alive
        /\ UNCHANGED <<items, hosts, waiting, calls, seen, hostSeen, sequence>>
    BY DEF TW!TakeName
  <1>3. shared' \in Owners \cup {Nobody} /\ takeovers' \in 0 .. MaxTakeovers
    BY <1>1, <1>2
  <1>4. c \in TW!Message /\ c.type = "changed" /\ c.service = "shared" /\ c.old = shared
    BY <1>1, <1>3 DEF TW!Message, TW!Changed
  <1> HIDE DEF c
  <1>5. x \in Seq(TW!Message) /\ Len(x) = 1 /\ x[1] = c /\ mail' = mail \o x
        /\ \A i \in 1 .. Len(x) : x[i] = c
    BY <1>1, <1>2, <1>4
  <1>6. \A e \in TW!Entry : Owns(e, alive, shared) => Owns(e, alive', shared') \/ Warns(c, e)
    BY <1>2, <1>4 DEF Owns, Warns, TW!GoneWith, TW!Entry
  <1>7. sequence + Cardinality(AskedIn(mail')) <= MaxAsked
    BY <1>1, <1>2, <1>4, AskedMore
  <1>8. 1 \in 1 .. Len(x)
    BY <1>5
  <1> HIDE DEF x
  <1>9. \A e \in TW!Entry : Owns(e, alive, shared) =>
               Owns(e, alive', shared') \/ \E i \in 1 .. Len(x) : Warns(x[i], e)
    BY <1>5, <1>6, <1>8
  <1>10. \A i \in 1 .. Len(x) : x[i].type # "owner"
    BY <1>4, <1>5
  <1>11. alive' \subseteq Owners
    BY <1>1, <1>2
  <1> QED
    BY <1>2, <1>3, <1>5, <1>7, <1>9, <1>10, <1>11, MoreMail

\* An application goes, and the watcher will hear of its connection.
LEMMA QuitStep ==
    ASSUME TW!WatcherInv, NEW app \in Owners, TW!Quit(app)
    PROVE  TW!WatcherInv'
  <1> DEFINE c == TW!Changed("shared", app, Nobody)
             d == TW!Changed("own", app, Nobody)
             x == (IF shared = app THEN <<c>> ELSE <<>>) \o <<d>>
  <1>1. /\ mail \in Seq(TW!Message) /\ shared \in Owners \cup {Nobody} /\ Nobody \notin Owners
        /\ alive \subseteq Owners /\ takeovers \in 0 .. MaxTakeovers
        /\ sequence + Cardinality(AskedIn(mail)) <= MaxAsked
        /\ Cardinality(AskedIn(mail)) \in Nat
    BY WatcherFacts
  <1>2. /\ app \in alive /\ alive' = alive \ {app}
        /\ shared' = (IF shared = app THEN Nobody ELSE shared)
        /\ mail' = mail \o (IF shared = app THEN <<c>> ELSE <<>>) \o <<d>>
        /\ takeovers' = takeovers
        /\ UNCHANGED <<items, hosts, waiting, calls, seen, hostSeen, sequence>>
    BY DEF TW!Quit
  <1>3. shared' \in Owners \cup {Nobody} /\ alive' \subseteq Owners /\ takeovers' \in 0 .. MaxTakeovers
    BY <1>1, <1>2
  <1>4. /\ c \in TW!Message /\ d \in TW!Message /\ c.type = "changed" /\ d.type = "changed"
        /\ d.service = "own" /\ d.old = app
    BY DEF TW!Message, TW!Changed
  <1> HIDE DEF c, d
  <1>5. /\ x \in Seq(TW!Message) /\ mail' = mail \o x
        /\ \A i \in 1 .. Len(x) : x[i] = c \/ x[i] = d
        /\ \E i \in 1 .. Len(x) : x[i] = d
        /\ mail' = IF shared = app THEN Append(Append(mail, c), d) ELSE Append(mail, d)
    <2>1. CASE shared = app
      <3>0. x = <<c>> \o <<d>> /\ mail' = mail \o <<c>> \o <<d>>
        BY <1>2, <2>1
      <3> DEFINE m == mail \o <<c>>
      <3>1. m = Append(mail, c) /\ m \in Seq(TW!Message) /\ Len(m) = Len(mail) + 1
            /\ m[Len(mail) + 1] = c /\ \A i \in 1 .. Len(mail) : m[i] = mail[i]
        BY <1>1, <1>4
      <3>2. mail' = m \o <<d>>
        BY <3>0
      <3> HIDE DEF m
      <3>3. mail' = Append(m, d) /\ mail' \in Seq(TW!Message) /\ Len(mail') = Len(mail) + 2
            /\ mail'[Len(mail) + 2] = d /\ \A i \in 1 .. Len(mail) + 1 : mail'[i] = m[i]
        BY <3>1, <3>2, <1>1, <1>4
      <3>4. x \in Seq(TW!Message) /\ Len(x) = 2 /\ x[1] = c /\ x[2] = d
        BY <3>0, <1>4
      <3> HIDE DEF x
      <3>5. <<c>> \in Seq(TW!Message) /\ <<d>> \in Seq(TW!Message)
        BY <1>4
      <3>6. mail' = mail \o (<<c>> \o <<d>>)
        BY <1>1, <3>0, <3>5, ConcatAssociative
      <3>7. mail' = mail \o x
        BY <3>0, <3>6
      <3>8. \A i \in 1 .. Len(x) : x[i] = c \/ x[i] = d
        <4>1. \A i \in 1 .. 2 : i = 1 \/ i = 2
          OBVIOUS
        <4> QED
          BY <3>4, <4>1
      <3>9. 2 \in 1 .. Len(x)
        BY <3>4
      <3> QED
        BY <2>1, <3>1, <3>3, <3>4, <3>7, <3>8, <3>9
    <2>2. CASE shared # app
      <3>1. x = <<d>> /\ x \in Seq(TW!Message) /\ mail' = mail \o <<d>>
        BY <1>1, <1>2, <1>4, <2>2
      <3>2. mail' = Append(mail, d)
        BY <1>1, <1>4, <3>1
      <3>3. Len(x) = 1 /\ x[1] = d
        BY <3>1
      <3> HIDE DEF x
      <3>4. \A i \in 1 .. Len(x) : x[i] = c \/ x[i] = d
        BY <3>3
      <3>5. 1 \in 1 .. Len(x)
        BY <3>3
      <3> QED
        BY <2>2, <3>1, <3>2, <3>3, <3>4, <3>5
    <2> QED
      BY <2>1, <2>2
  <1> HIDE DEF x
  <1>6. \A e \in TW!Entry : Owns(e, alive, shared) => Owns(e, alive', shared') \/ Warns(d, e)
    BY <1>1, <1>2, <1>4 DEF Owns, Warns, TW!GoneWith, TW!Entry
  <1>7. sequence + Cardinality(AskedIn(mail')) <= MaxAsked
    <2>1. Append(mail, c) \in Seq(TW!Message)
      BY <1>1, <1>4
    <2>2. Cardinality(AskedIn(Append(mail, c))) = Cardinality(AskedIn(mail))
      BY <1>1, <1>4, AskedMore
    <2>3. Cardinality(AskedIn(Append(mail, d))) = Cardinality(AskedIn(mail))
      BY <1>1, <1>4, AskedMore
    <2>4. Cardinality(AskedIn(Append(Append(mail, c), d))) = Cardinality(AskedIn(Append(mail, c)))
      BY <1>1, <1>4, <2>1, <2>2, AskedMore
    <2> QED
      BY <1>1, <1>5, <2>2, <2>3, <2>4
  <1>9. \A e \in TW!Entry : Owns(e, alive, shared) =>
               Owns(e, alive', shared') \/ \E i \in 1 .. Len(x) : Warns(x[i], e)
    BY <1>5, <1>6
  <1>10. \A i \in 1 .. Len(x) : x[i].type # "owner"
    BY <1>4, <1>5
  <1> QED
    BY <1>2, <1>3, <1>5, <1>7, <1>9, <1>10, MoreMail

\* An application registers.
LEMMA AskStep ==
    ASSUME TW!WatcherInv, NEW app \in Owners, NEW name \in {"own", "shared"}, NEW host \in BOOLEAN,
           TW!Register(app, name, host)
    PROVE  TW!WatcherInv'
  <1> DEFINE c == [type |-> "register",
                   call |-> [entry |-> [service |-> name, owner |-> app], host |-> host]]
             x == <<c>>
  <1>1. /\ mail \in Seq(TW!Message) /\ shared \in Owners \cup {Nobody}
        /\ alive \subseteq Owners /\ takeovers \in 0 .. MaxTakeovers
        /\ sequence \in 0 .. MaxAsked /\ Cardinality(AskedIn(mail)) \in Nat /\ MaxAsked \in Nat
    BY WatcherFacts
  <1>2. /\ sequence + TW!Cardinality(TW!Asked) < MaxAsked /\ mail' = Append(mail, c)
        /\ alive' = alive /\ shared' = shared /\ takeovers' = takeovers
        /\ UNCHANGED <<items, hosts, waiting, calls, seen, hostSeen, sequence>>
    BY DEF TW!Register
  <1>3. sequence + Cardinality(AskedIn(mail)) < MaxAsked
    BY <1>2 DEF TW!Asked, AskedIn, TW!Cardinality, Cardinality, TW!IsFiniteSet, IsFiniteSet
  <1>4. c \in TW!Message /\ c.type = "register"
    BY DEF TW!Message, TW!Call, TW!Entry
  <1> HIDE DEF c
  <1>5. x \in Seq(TW!Message) /\ mail' = mail \o x /\ \A i \in 1 .. Len(x) : x[i] = c
    BY <1>1, <1>2, <1>4
  <1>6. Cardinality(AskedIn(mail')) = Cardinality(AskedIn(mail)) + 1
    BY <1>1, <1>2, <1>4, AskedMore
  <1>7. sequence + Cardinality(AskedIn(mail')) <= MaxAsked
    BY <1>1, <1>3, <1>6
  <1> HIDE DEF x
  <1>8. \A i \in 1 .. Len(x) : x[i].type # "owner"
    BY <1>4, <1>5
  <1>9. /\ alive' \subseteq Owners /\ shared' \in Owners \cup {Nobody}
        /\ takeovers' \in 0 .. MaxTakeovers
    BY <1>1, <1>2
  <1>10. \A e \in TW!Entry : Owns(e, alive, shared) =>
               Owns(e, alive', shared') \/ \E i \in 1 .. Len(x) : Warns(x[i], e)
    BY <1>2
  <1> QED
    BY <1>2, <1>5, <1>7, <1>8, <1>9, <1>10, MoreMail

\* The bus answers, with the owner of that moment.
LEMMA AnswerStep ==
    ASSUME TW!WatcherInv, NEW r \in TW!Requests, TW!Answer(r)
    PROVE  TW!WatcherInv'
  <1> DEFINE e == calls[r].entry
  <1>1. /\ mail \in Seq(TW!Message) /\ shared \in Owners \cup {Nobody} /\ Nobody \notin Owners
        /\ alive \subseteq Owners /\ takeovers \in 0 .. MaxTakeovers
        /\ calls \in [DOMAIN calls -> TW!Call]
        /\ sequence + Cardinality(AskedIn(mail)) <= MaxAsked
        /\ sequence \in 0 .. MaxAsked /\ Cardinality(AskedIn(mail)) \in Nat /\ MaxAsked \in Nat
    BY WatcherFacts
  <1>2. /\ r \in DOMAIN calls
        /\ \A i \in 1 .. Len(mail) : mail[i].type = "owner" => mail[i].request # r
        /\ \E who \in {TW!Owner(e.service, e.owner), Nobody} :
                mail' = Append(mail, [type |-> "owner", request |-> r, owner |-> who])
        /\ alive' = alive /\ shared' = shared /\ takeovers' = takeovers
        /\ UNCHANGED <<items, hosts, waiting, calls, seen, hostSeen, sequence>>
    BY DEF TW!Answer
  <1>3. PICK who \in {TW!Owner(e.service, e.owner), Nobody} :
                mail' = Append(mail, [type |-> "owner", request |-> r, owner |-> who])
    BY <1>2
  <1>4. calls[r] \in TW!Call /\ e.owner \in Owners /\ e.service \in {"own", "shared"}
    BY <1>1, <1>2, CallFields
  <1>5. who \in Owners \cup {Nobody} /\ (who = e.owner => Owns(e, alive, shared))
    BY <1>1, <1>3, <1>4 DEF TW!Owner, Owns
  <1> DEFINE c == [type |-> "owner", request |-> r, owner |-> who]
             x == <<c>>
  <1>6. c \in TW!Message /\ c.type = "owner" /\ c.request = r /\ c.owner = who
    BY <1>5 DEF TW!Message
  <1>7. mail' = Append(mail, c)
    BY <1>3
  <1> HIDE DEF c, e
  <1>8. x \in Seq(TW!Message) /\ Len(x) = 1 /\ mail' = mail \o x /\ \A i \in 1 .. Len(x) : x[i] = c /\ i = 1
    BY <1>1, <1>7, <1>6
  <1>9. /\ Len(mail') = Len(mail) + 1 /\ mail'[Len(mail) + 1] = c
        /\ \A j \in 1 .. Len(mail') : j = Len(mail) + 1 \/ (j \in 1 .. Len(mail) /\ mail'[j] = mail[j])
    BY <1>1, <1>7, <1>6
  <1>10. AnswerRight(mail', calls, alive', shared', Len(mail) + 1)
    <2>1. who = e.owner => HoldsIn(mail', alive', shared', e, Len(mail) + 1)
      BY <1>2, <1>5 DEF HoldsIn
    <2>2. \A j \in 1 .. Len(mail') : mail'[j].type = "owner" /\ mail'[j].request = r => j = Len(mail) + 1
      BY <1>2, <1>9
    <2>3. e = calls[r].entry
      BY DEF e
    <2> QED
      BY <1>2, <1>6, <1>9, <2>1, <2>2, <2>3 DEF AnswerRight
  <1>11. Cardinality(AskedIn(mail')) = Cardinality(AskedIn(mail))
    BY <1>1, <1>7, <1>6, AskedMore
  <1>12. sequence + Cardinality(AskedIn(mail')) <= MaxAsked
    BY <1>1, <1>11
  <1> HIDE DEF x
  <1>13. \A i \in 1 .. Len(x) : x[i].type = "owner" =>
               /\ AnswerRight(mail', calls, alive', shared', Len(mail) + i)
               /\ \A j \in 1 .. Len(mail) : mail[j].type = "owner" => mail[j].request # x[i].request
    BY <1>2, <1>6, <1>8, <1>10
  <1>14. \A f \in TW!Entry : Owns(f, alive, shared) =>
               Owns(f, alive', shared') \/ \E i \in 1 .. Len(x) : Warns(x[i], f)
    BY <1>2
  <1>15. /\ alive' \subseteq Owners /\ shared' \in Owners \cup {Nobody}
        /\ takeovers' \in 0 .. MaxTakeovers
    BY <1>1, <1>2
  <1> QED
    BY <1>2, <1>8, <1>12, <1>13, <1>14, <1>15, MoreMail

\* The head is a message, and the mail without it is mail.
LEMMA HeadOf ==
    ASSUME TW!WatcherInv, NEW kind, TW!Next1(kind)
    PROVE  /\ mail # <<>> /\ 1 \in 1 .. Len(mail) /\ mail[1] \in TW!Message /\ mail[1].type = kind
           /\ mail' = Tail(mail) /\ mail' \in Seq(TW!Message)
           /\ Cardinality(AskedIn(mail')) \in Nat
           /\ Cardinality(AskedIn(mail')) <= Cardinality(AskedIn(mail))
           /\ kind = "register" =>
                Cardinality(AskedIn(mail')) + 1 <= Cardinality(AskedIn(mail))
  <1>1. mail \in Seq(TW!Message)
    BY WatcherFacts
  <1>2. mail # <<>> /\ mail[1].type = kind /\ mail' = Tail(mail)
    BY DEF TW!Next1
  <1>3. 1 \in 1 .. Len(mail) /\ mail[1] \in TW!Message /\ mail' \in Seq(TW!Message)
    BY <1>1, <1>2
  <1> QED
    BY <1>1, <1>2, <1>3, AskedLess, AskedFinite

\* A registration becomes a question to the bus, under a number of its own.
LEMMA CalledStep ==
    ASSUME TW!WatcherInv, TW!Called
    PROVE  TW!WatcherInv'
  <1>1. /\ alive \subseteq Owners /\ shared \in Owners \cup {Nobody} /\ MaxAsked \in Nat
        /\ items \subseteq TW!Entry /\ hosts \subseteq TW!Entry /\ seen \subseteq TW!Entry
        /\ DOMAIN waiting \subseteq TW!Requests /\ waiting \in [DOMAIN waiting -> TW!Entry]
        /\ DOMAIN calls \subseteq TW!Requests /\ calls \in [DOMAIN calls -> TW!Call]
        /\ hostSeen \in BOOLEAN /\ sequence \in 0 .. MaxAsked /\ takeovers \in 0 .. MaxTakeovers
        /\ mail \in Seq(TW!Message)
        /\ sequence + Cardinality(AskedIn(mail)) <= MaxAsked
        /\ Cardinality(AskedIn(mail)) \in Nat
    BY WatcherFacts
  <1>2. /\ TW!SignalsAgree
        /\ \A e \in items \cup hosts : HoldsIn(mail, alive, shared, e, 0)
        /\ \A i \in 1 .. Len(mail) : AnswerRight(mail, calls, alive, shared, i)
        /\ DOMAIN calls \subseteq 1 .. sequence
    BY WatcherLaw
  <1>3. TW!Next1("register")
        /\ UNCHANGED <<alive, shared, items, hosts, seen, hostSeen, takeovers>>
    BY DEF TW!Called
  <1>4. /\ mail # <<>> /\ 1 \in 1 .. Len(mail) /\ mail[1] \in TW!Message /\ mail[1].type = "register"
        /\ mail' = Tail(mail) /\ mail' \in Seq(TW!Message)
        /\ Cardinality(AskedIn(mail')) \in Nat
        /\ Cardinality(AskedIn(mail')) + 1 <= Cardinality(AskedIn(mail))
    BY <1>3, HeadOf
  <1>5. TW!SignalsAgree'
    BY <1>2, <1>3 DEF TW!SignalsAgree
  <1>6. \A e \in items' \cup hosts' : HoldsIn(mail', alive', shared', e, 0)
    <2>1. \A e : ~Warns(mail[1], e)
      BY <1>4 DEF Warns
    <2> QED
      BY <1>1, <1>2, <1>3, <1>4, <2>1, KeptBehind
  <1>7. CASE UNCHANGED <<waiting, calls, sequence>>
    <2>1. TW!WatcherTypeOK'
      BY <1>1, <1>3, <1>4, <1>7, WatcherTypesNext
    <2>2. \A i \in 1 .. Len(mail) : i # 1 /\ mail[i].type = "owner" =>
               mail[i].request \in DOMAIN calls /\ calls[mail[i].request] = calls[mail[i].request]
      BY <1>2 DEF AnswerRight
    <2>3. \A i \in 1 .. Len(mail') : AnswerRight(mail', calls', alive', shared', i)
      BY <1>1, <1>2, <1>3, <1>4, <1>7, <2>2, LessMail
    <2>4. DOMAIN calls' \subseteq 1 .. sequence' /\ sequence' + Cardinality(AskedIn(mail')) <= MaxAsked
      BY <1>1, <1>2, <1>4, <1>7
    <2> QED
      BY <1>5, <1>6, <2>1, <2>3, <2>4, WatcherLawNext
  <1>8. CASE /\ sequence' = sequence + 1
             /\ waiting' = TW!With(waiting, sequence', mail[1].call.entry)
             /\ calls' = TW!With(calls, sequence', mail[1].call)
    <2>1. mail[1].call \in TW!Call /\ mail[1].call.entry \in TW!Entry
      BY <1>4, MessageFields, CallFields
    <2>2. sequence' \in 0 .. MaxAsked /\ sequence' \in TW!Requests
          /\ sequence' + Cardinality(AskedIn(mail')) <= MaxAsked
      BY <1>1, <1>4, <1>8 DEF TW!Requests
    <2> DEFINE q == sequence'
    <2>3. /\ DOMAIN waiting' = DOMAIN waiting \cup {q}
          /\ waiting' \in [DOMAIN waiting' -> TW!Entry]
      BY <1>1, <1>8, <2>1 DEF TW!With
    <2>4. /\ DOMAIN calls' = DOMAIN calls \cup {q}
          /\ calls' \in [DOMAIN calls' -> TW!Call]
          /\ \A r \in DOMAIN calls : r # q => calls'[r] = calls[r]
      BY <1>1, <1>8, <2>1 DEF TW!With
    <2>5. q \notin DOMAIN calls
      BY <1>1, <1>2, <1>8
    <2>6. DOMAIN calls' \subseteq 1 .. sequence'
      BY <1>1, <1>2, <1>8, <2>4
    <2> HIDE DEF q
    <2>7. DOMAIN waiting' \subseteq TW!Requests /\ DOMAIN calls' \subseteq TW!Requests
      BY <1>1, <2>2, <2>3, <2>4 DEF q
    <2>8. TW!WatcherTypeOK'
      BY <1>1, <1>3, <1>4, <2>2, <2>3, <2>4, <2>7, WatcherTypesNext
    <2>9. \A i \in 1 .. Len(mail) : i # 1 /\ mail[i].type = "owner" =>
               mail[i].request \in DOMAIN calls' /\ calls'[mail[i].request] = calls[mail[i].request]
      BY <1>2, <2>4, <2>5 DEF AnswerRight
    <2>10. \A i \in 1 .. Len(mail') : AnswerRight(mail', calls', alive', shared', i)
      BY <1>1, <1>2, <1>3, <1>4, <2>9, LessMail
    <2> QED
      BY <1>5, <1>6, <2>2, <2>6, <2>8, <2>10, WatcherLawNext
  <1> QED
    BY <1>7, <1>8 DEF TW!Called

\* An answer lists who asked, if it is still theirs or the loss is on its way.
LEMMA KnownStep ==
    ASSUME TW!WatcherInv, TW!OwnerKnown
    PROVE  TW!WatcherInv'
  <1> DEFINE r == mail[1].request
             e == calls[r].entry
             good == TW!Valid(r, mail[1].owner)
  <1>1. /\ alive \subseteq Owners /\ shared \in Owners \cup {Nobody} /\ MaxAsked \in Nat
        /\ items \subseteq TW!Entry /\ hosts \subseteq TW!Entry /\ seen \subseteq TW!Entry
        /\ DOMAIN waiting \subseteq TW!Requests /\ waiting \in [DOMAIN waiting -> TW!Entry]
        /\ DOMAIN calls \subseteq TW!Requests /\ calls \in [DOMAIN calls -> TW!Call]
        /\ hostSeen \in BOOLEAN /\ sequence \in 0 .. MaxAsked /\ takeovers \in 0 .. MaxTakeovers
        /\ mail \in Seq(TW!Message)
        /\ sequence + Cardinality(AskedIn(mail)) <= MaxAsked
        /\ Cardinality(AskedIn(mail)) \in Nat
    BY WatcherFacts
  <1>2. /\ TW!SignalsAgree
        /\ \A f \in items \cup hosts : HoldsIn(mail, alive, shared, f, 0)
        /\ \A i \in 1 .. Len(mail) : AnswerRight(mail, calls, alive, shared, i)
        /\ DOMAIN calls \subseteq 1 .. sequence
    BY WatcherLaw
  <1>3. /\ TW!Next1("owner")
        /\ waiting' = TW!Without(waiting, r) /\ calls' = TW!Without(calls, r)
        /\ IF good /\ calls[r].host /\ TW!Takes(hosts, e)
           THEN hosts' = hosts \cup {e} /\ hostSeen' = (hostSeen \/ TW!First(hosts))
           ELSE UNCHANGED <<hosts, hostSeen>>
        /\ IF good /\ ~calls[r].host /\ TW!Takes(items, e)
           THEN items' = items \cup {e} /\ seen' = seen \cup {e}
           ELSE UNCHANGED <<items, seen>>
        /\ UNCHANGED <<alive, shared, sequence, takeovers>>
    BY DEF TW!OwnerKnown
  <1>4. /\ mail # <<>> /\ 1 \in 1 .. Len(mail) /\ mail[1] \in TW!Message /\ mail[1].type = "owner"
        /\ mail' = Tail(mail) /\ mail' \in Seq(TW!Message)
        /\ Cardinality(AskedIn(mail')) \in Nat
        /\ Cardinality(AskedIn(mail')) <= Cardinality(AskedIn(mail))
    BY <1>3, HeadOf
  <1>5. /\ r \in DOMAIN calls
        /\ mail[1].owner = e.owner => HoldsIn(mail, alive, shared, e, 1)
        /\ \A j \in 1 .. Len(mail) : mail[j].type = "owner" /\ mail[j].request = r => j = 1
    BY <1>2, <1>4 DEF AnswerRight
  <1>6. e \in TW!Entry
    BY <1>1, <1>5, CallFields
  <1>7. good => HoldsIn(mail, alive, shared, e, 1)
    BY <1>5 DEF TW!Valid
  <1>8. \A f : ~Warns(mail[1], f)
    BY <1>4 DEF Warns
  <1> HIDE DEF r, e, good
  <1>9. \A f \in items \cup hosts : HoldsIn(mail', alive', shared', f, 0)
    BY <1>1, <1>2, <1>3, <1>4, <1>8, KeptBehind
  <1>10. good => HoldsIn(mail', alive', shared', e, 0)
    BY <1>1, <1>3, <1>4, <1>7, KeptBehind
  <1>11. \A f \in items' \cup hosts' : f \in items \cup hosts \/ (good /\ f = e)
    BY <1>3
  <1>12. \A f \in items' \cup hosts' : HoldsIn(mail', alive', shared', f, 0)
    BY <1>9, <1>10, <1>11
  <1>13. TW!SignalsAgree'
    <2>1. seen = items /\ hostSeen = (hosts # {})
      BY <1>2 DEF TW!SignalsAgree
    <2>2. seen' = items'
      BY <1>3, <2>1
    <2>3. hostSeen' = (hosts' # {})
      <3>1. CASE good /\ calls[r].host /\ TW!Takes(hosts, e)
        <4>1. hosts' = hosts \cup {e} /\ hostSeen' = (hostSeen \/ hosts = {})
          BY <1>3, <3>1 DEF TW!First
        <4> QED
          BY <2>1, <4>1
      <3>2. CASE ~(good /\ calls[r].host /\ TW!Takes(hosts, e))
        BY <1>3, <2>1, <3>2
      <3> QED
        BY <3>1, <3>2
    <2> QED
      BY <2>2, <2>3 DEF TW!SignalsAgree
  <1>14. items' \subseteq TW!Entry /\ seen' \subseteq TW!Entry
    BY <1>1, <1>3, <1>6
  <1>15. hosts' \subseteq TW!Entry
    BY <1>1, <1>3, <1>6
  <1>16. hostSeen' \in BOOLEAN
    BY <1>13 DEF TW!SignalsAgree
  <1>17. /\ DOMAIN waiting' \subseteq TW!Requests /\ waiting' \in [DOMAIN waiting' -> TW!Entry]
    BY <1>1, <1>3 DEF TW!Without
  <1>18. /\ DOMAIN calls' = DOMAIN calls \ {r} /\ calls' \in [DOMAIN calls' -> TW!Call]
         /\ \A q \in DOMAIN calls : q # r => calls'[q] = calls[q]
    BY <1>1, <1>3 DEF TW!Without
  <1>19. DOMAIN calls' \subseteq TW!Requests /\ DOMAIN calls' \subseteq 1 .. sequence'
    BY <1>1, <1>2, <1>3, <1>18
  <1>20. alive' \subseteq Owners /\ shared' \in Owners \cup {Nobody} /\ sequence' \in 0 .. MaxAsked
         /\ takeovers' \in 0 .. MaxTakeovers /\ mail' \in Seq(TW!Message)
    BY <1>1, <1>3, <1>4
  <1>21. TW!WatcherTypeOK'
    BY <1>14, <1>15, <1>16, <1>17, <1>18, <1>19, <1>20, WatcherTypesNext
  <1>22. \A i \in 1 .. Len(mail) : i # 1 /\ mail[i].type = "owner" =>
               mail[i].request \in DOMAIN calls' /\ calls'[mail[i].request] = calls[mail[i].request]
    <2> SUFFICES ASSUME NEW i \in 1 .. Len(mail), i # 1, mail[i].type = "owner"
                 PROVE  mail[i].request \in DOMAIN calls' /\ calls'[mail[i].request] = calls[mail[i].request]
      OBVIOUS
    <2>1. mail[i].request \in DOMAIN calls
      BY <1>2 DEF AnswerRight
    <2>2. mail[i].request # r
      BY <1>5
    <2> QED
      BY <1>18, <2>1, <2>2
  <1>23. \A i \in 1 .. Len(mail') : AnswerRight(mail', calls', alive', shared', i)
    BY <1>1, <1>2, <1>3, <1>4, <1>22, LessMail
  <1>24. sequence' + Cardinality(AskedIn(mail')) <= MaxAsked
    BY <1>1, <1>3, <1>4
  <1> QED
    BY <1>12, <1>13, <1>19, <1>21, <1>23, <1>24, WatcherLawNext

\* A name that changed hands takes along all that was registered under it.
LEMMA ChangedStep ==
    ASSUME TW!WatcherInv, TW!OwnerChanged
    PROVE  TW!WatcherInv'
  <1> DEFINE c == mail[1]
             Left(set) == {e \in set : ~TW!GoneWith(e, c)}
  <1>1. /\ alive \subseteq Owners /\ shared \in Owners \cup {Nobody} /\ MaxAsked \in Nat
        /\ items \subseteq TW!Entry /\ hosts \subseteq TW!Entry /\ seen \subseteq TW!Entry
        /\ DOMAIN waiting \subseteq TW!Requests /\ waiting \in [DOMAIN waiting -> TW!Entry]
        /\ DOMAIN calls \subseteq TW!Requests /\ calls \in [DOMAIN calls -> TW!Call]
        /\ hostSeen \in BOOLEAN /\ sequence \in 0 .. MaxAsked /\ takeovers \in 0 .. MaxTakeovers
        /\ mail \in Seq(TW!Message) /\ Nobody \notin Owners
        /\ sequence + Cardinality(AskedIn(mail)) <= MaxAsked
        /\ Cardinality(AskedIn(mail)) \in Nat
    BY WatcherFacts
  <1>2. /\ TW!SignalsAgree
        /\ \A f \in items \cup hosts : HoldsIn(mail, alive, shared, f, 0)
        /\ \A i \in 1 .. Len(mail) : AnswerRight(mail, calls, alive, shared, i)
        /\ DOMAIN calls \subseteq 1 .. sequence
    BY WatcherLaw
  <1>3. /\ TW!Next1("changed")
        /\ IF c.old = Nobody THEN UNCHANGED <<waiting, items, hosts, seen, hostSeen>>
           ELSE /\ waiting' = [r \in {x \in DOMAIN waiting : ~TW!GoneWith(waiting[x], c)} |-> waiting[r]]
                /\ items' = Left(items) /\ seen' = seen \ (items \ Left(items))
                /\ hosts' = Left(hosts)
                /\ hostSeen' = (hostSeen /\ ~TW!Lost(hosts, hosts'))
        /\ UNCHANGED <<alive, shared, calls, sequence, takeovers>>
    BY DEF TW!OwnerChanged
  <1>4. /\ mail # <<>> /\ 1 \in 1 .. Len(mail) /\ c \in TW!Message /\ c.type = "changed"
        /\ mail' = Tail(mail) /\ mail' \in Seq(TW!Message)
        /\ Cardinality(AskedIn(mail')) \in Nat
        /\ Cardinality(AskedIn(mail')) <= Cardinality(AskedIn(mail))
    BY <1>3, HeadOf
  <1>5. \A f \in items' \cup hosts' : f \in items \cup hosts /\ ~Warns(c, f)
    <2>1. CASE c.old = Nobody
      <3>1. \A f \in TW!Entry : f.owner # Nobody
        BY <1>1 DEF TW!Entry
      <3>2. items' = items /\ hosts' = hosts
        BY <1>3, <2>1
      <3> QED
        BY <1>1, <2>1, <3>1, <3>2 DEF Warns
    <2>2. CASE c.old # Nobody
      BY <1>3, <2>2 DEF Warns
    <2> QED
      BY <2>1, <2>2
  <1>6. \A f \in items' \cup hosts' : HoldsIn(mail', alive', shared', f, 0)
    <2> HIDE DEF c
    <2>1. \A f : HoldsIn(mail, alive, shared, f, 0) /\ ~Warns(mail[1], f)
            => HoldsIn(mail', alive', shared', f, 0)
      BY <1>1, <1>3, <1>4, KeptBehind
    <2> QED
      BY <1>2, <1>5, <2>1 DEF c
  <1>7. seen = items /\ hostSeen = (hosts # {})
    BY <1>2 DEF TW!SignalsAgree
  <1>8. TW!SignalsAgree'
    <2>1. CASE c.old = Nobody
      <3>1. items' = items /\ hosts' = hosts /\ seen' = seen /\ hostSeen' = hostSeen
        BY <1>3, <2>1
      <3> QED
        BY <1>7, <3>1 DEF TW!SignalsAgree
    <2>2. CASE c.old # Nobody
      <3>1. items' = Left(items) /\ seen' = seen \ (items \ Left(items)) /\ hosts' = Left(hosts)
        BY <1>3, <2>2
      <3>2. hostSeen' = (hostSeen /\ ~(hosts # {} /\ hosts' = {}))
        BY <1>3, <2>2 DEF TW!Lost
      <3>3. seen' = items'
        BY <1>7, <3>1
      <3>4. hosts' \subseteq hosts
        BY <3>1
      <3> HIDE DEF Left
      <3>5. hostSeen' = (hosts' # {})
        BY <1>7, <3>2, <3>4
      <3> QED
        BY <3>3, <3>5 DEF TW!SignalsAgree
    <2> QED
      BY <2>1, <2>2
  <1>9. items' \subseteq TW!Entry /\ hosts' \subseteq TW!Entry
    BY <1>1, <1>5
  <1>10. seen' \subseteq TW!Entry /\ hostSeen' \in BOOLEAN
    BY <1>8, <1>9 DEF TW!SignalsAgree
  <1>11. DOMAIN waiting' \subseteq TW!Requests /\ waiting' \in [DOMAIN waiting' -> TW!Entry]
    BY <1>1, <1>3
  <1>12. /\ alive' \subseteq Owners /\ shared' \in Owners \cup {Nobody} /\ sequence' \in 0 .. MaxAsked
         /\ takeovers' \in 0 .. MaxTakeovers /\ mail' \in Seq(TW!Message)
         /\ DOMAIN calls' \subseteq TW!Requests /\ calls' \in [DOMAIN calls' -> TW!Call]
    BY <1>1, <1>3, <1>4
  <1>13. TW!WatcherTypeOK'
    BY <1>9, <1>10, <1>11, <1>12, WatcherTypesNext
  <1>14. \A i \in 1 .. Len(mail) : i # 1 /\ mail[i].type = "owner" =>
               mail[i].request \in DOMAIN calls /\ calls[mail[i].request] = calls[mail[i].request]
    BY <1>2 DEF AnswerRight
  <1>15. \A i \in 1 .. Len(mail') : AnswerRight(mail', calls', alive', shared', i)
    BY <1>1, <1>2, <1>3, <1>4, <1>14, LessMail
  <1>16. DOMAIN calls' \subseteq 1 .. sequence' /\ sequence' + Cardinality(AskedIn(mail')) <= MaxAsked
    BY <1>1, <1>2, <1>3, <1>4
  <1> QED
    BY <1>6, <1>8, <1>13, <1>15, <1>16, WatcherLawNext

\* An empty registry lists nothing and waits for nothing.
LEMMA WatcherStart == TW!WatcherInit => TW!WatcherInv
  <1> SUFFICES ASSUME TW!WatcherInit PROVE TW!WatcherInv
    OBVIOUS
  <1>1. /\ alive = Owners /\ shared = Nobody /\ mail = <<>>
        /\ items = {} /\ hosts = {} /\ waiting = <<>> /\ calls = <<>>
        /\ seen = {} /\ hostSeen = FALSE /\ sequence = 0 /\ takeovers = 0
    BY DEF TW!WatcherInit
  <1>2. MaxAsked \in Nat /\ MaxTakeovers \in Nat
    BY ShellAssumption DEF TW!TrayWatcherAssumption
  <1>3. DOMAIN waiting = {} /\ DOMAIN calls = {} /\ waiting \in [{} -> TW!Entry]
        /\ calls \in [{} -> TW!Call]
    BY <1>1
  <1>4. waiting \in TW!Partial(TW!Requests, TW!Entry) /\ calls \in TW!Partial(TW!Requests, TW!Call)
    BY <1>3 DEF TW!Partial
  <1>5. mail \in Seq(TW!Message) /\ Len(mail) = 0
    BY <1>1
  <1>6. TW!WatcherTypeOK
    <2>1. alive \subseteq Owners /\ shared \in Owners \cup {Nobody} /\ hostSeen \in BOOLEAN
      BY <1>1
    <2>2. items \subseteq TW!Entry /\ hosts \subseteq TW!Entry /\ seen \subseteq TW!Entry
      BY <1>1
    <2>3. sequence \in 0 .. MaxAsked /\ takeovers \in 0 .. MaxTakeovers
      BY <1>1, <1>2
    <2> QED
      BY <1>4, <1>5, <2>1, <2>2, <2>3 DEF TW!WatcherTypeOK
  <1>7. TW!Asked = {}
    BY <1>5 DEF TW!Asked
  <1>8. TW!Cardinality({}) = 0
    BY FS_EmptySet DEF TW!Cardinality, Cardinality, TW!IsFiniteSet, IsFiniteSet
  <1>9. TW!Numbered
    BY <1>1, <1>2, <1>3, <1>7, <1>8 DEF TW!Numbered
  <1>10. TW!AnswersHold
    BY <1>5 DEF TW!AnswersHold
  <1> QED
    BY <1>1, <1>6, <1>9, <1>10 DEF TW!WatcherInv, TW!ListedIsOwned, TW!ListedIsWarned, TW!SignalsAgree

\* No order of registrations, answers and changes of owner breaks the registry.
LEMMA WatcherStep == TW!WatcherInv /\ [TW!WatcherNext]_watcherVars => TW!WatcherInv'
  <1> SUFFICES ASSUME TW!WatcherInv, [TW!WatcherNext]_watcherVars PROVE TW!WatcherInv'
    OBVIOUS
  <1>1. CASE UNCHANGED watcherVars
    BY <1>1 DEF watcherVars, TW!WatcherInv, TW!WatcherTypeOK, TW!ListedIsOwned, TW!SignalsAgree,
         TW!ListedIsWarned, TW!AnswersHold, TW!Numbered, TW!Holds, TW!Warned, TW!Owner, TW!Asked
  <1>2. CASE TW!WatcherNext
    BY <1>2, TakeStep, QuitStep, AskStep, AnswerStep, CalledStep, KnownStep, ChangedStep
       DEF TW!WatcherNext
  <1> QED
    BY <1>1, <1>2

-----------------------------------------------------------------------------
(* The parts together.                                                     *)

\* Each part starts right, whichever is the one that runs.
LEMMA ShellStarts == ShellInit => SurfacesSound /\ PanelsSound /\ TrayShown
  <1> SUFFICES ASSUME ShellInit PROVE SurfacesSound /\ PanelsSound /\ TrayShown
    OBVIOUS
  <1>1. SF!SurfacesInit /\ VW!WallInit /\ LA!LauncherInit
    BY DEF ShellInit
  <1>2. SurfacesSound
    BY <1>1, SurfacesStart, WallStart, LauncherStart DEF SurfacesSound
  <1>3. PanelsSound
    BY PanelStart, SettingsStart DEF PanelsSound
  <1>4. TY!TrayInit /\ TM!MenuInit /\ TW!WatcherInit
    BY DEF ShellInit
  <1>5. TrayShown
    BY <1>4, TrayStart, MenuStart, WatcherStart DEF TrayShown
  <1> QED
    BY <1>2, <1>3, <1>5

\* A step is one of the part that runs; its invariant is kept by that part.
LEMMA SurfacesKept == SurfacesSound /\ [ShellNext]_shellVars => SurfacesSound'
  <1> SUFFICES ASSUME SurfacesSound, [ShellNext]_shellVars PROVE SurfacesSound'
    OBVIOUS
  <1>1. /\ part' = part
        /\ In("surfaces") => [SF!SurfacesNext]_surfaceVars
        /\ In("wallpaper") => [VW!WallNext]_wallVars
        /\ In("launcher") => [LA!LauncherNext]_launcherVars
    BY DEF ShellNext, shellVars
  <1> QED
    BY <1>1, SurfacesStep, WallStep, LauncherStep DEF SurfacesSound, In

\* The same of the two halves of the recorder panel.
LEMMA PanelsKept == PanelsSound /\ [ShellNext]_shellVars => PanelsSound'
  <1> SUFFICES ASSUME PanelsSound, [ShellNext]_shellVars PROVE PanelsSound'
    OBVIOUS
  <1>1. /\ part' = part
        /\ In("recorder") => [RP!PanelNext]_panelVars
        /\ In("settings") => [RP!PanelSettingsNext]_settingsVars
    BY DEF ShellNext, shellVars
  <1> QED
    BY <1>1, PanelStep, SettingsStep DEF PanelsSound, In

\* The same of the tray, its menu and its registry.
LEMMA TrayKept == TrayShown /\ [ShellNext]_shellVars => TrayShown'
  <1> SUFFICES ASSUME TrayShown, [ShellNext]_shellVars PROVE TrayShown'
    OBVIOUS
  <1>1. /\ part' = part
        /\ In("tray") => [TY!TrayNext]_trayVars
        /\ In("menu") => [TM!MenuNext]_menuVars
        /\ In("watcher") => [TW!WatcherNext]_watcherVars
    BY DEF ShellNext, shellVars
  <1> QED
    BY <1>1, TrayStep, MenuStep, WatcherStep DEF TrayShown, In

\* No redraw of a bar or a panel is lost, a confirmation is asked for on its
\* page, one decoder of the wallpaper's generation runs, and the launcher's
\* selection is a result (shell-sctk/src/main.rs).
THEOREM SurfacesStaySound == ShellSpec => []SurfacesSound
  <1> QED
    BY ShellStarts, SurfacesKept, PTL DEF ShellSpec

\* What the recorder panel says can be started can be, an edit changes the
\* setting it was made on, and a command is refused only when it was computed
\* while others were on their way (shell-sctk/src/main.rs).
THEOREM PanelsStaySound == ShellSpec => []PanelsSound
  <1> QED
    BY ShellStarts, PanelsKept, PTL DEF ShellSpec

\* The tray shows what is listed once the threads have said so and watches each
\* owner, the menu's rows are those of the page that is open, and the registry
\* lists nobody whose name is lost without a word of it on its way
\* (shell-sctk/src/main.rs; shell/src/tray_watcher.rs).
THEOREM TrayStaysShown == ShellSpec => []TrayShown
  <1> QED
    BY ShellStarts, TrayKept, PTL DEF ShellSpec
=============================================================================
