--------------------------- MODULE DesktopProofs ----------------------------
(***************************************************************************)
(* Safety of the parts of the compositor that MCDesktop checks, for any    *)
(* constants: the settings, screen copies, the control socket's path, the  *)
(* floating geometry, keys, grabs and workspaces.  Each part is proved     *)
(* inductive on its own; every step of the desktop is a step of each part  *)
(* or leaves it alone, so the invariants carry over to DesktopSpec.        *)
(***************************************************************************)
EXTENDS MCDesktop, TLAPS, FiniteSetTheorems

-----------------------------------------------------------------------------
(* Settings.                                                               *)

\* What Config::load yields of valid files is valid.
LEMMA LoadedIsValid ==
    ASSUME SettingsTypeOK
    PROVE  /\ DefaultConfig \in Files
           /\ file # Bad => Base \in Files
           /\ Loads => Loaded \in Files /\ Loaded.rest = Base.rest
           /\ AtStart \in Files
           /\ Loads => AtStart.rest = Base.rest
  <1>1. DefaultConfig \in Files
    BY SettingsAssumption DEF DefaultConfig, Files
  <1>2. file # Bad => Base \in Files
    BY <1>1 DEF SettingsTypeOK, Base
  <1>3. Loads => Loaded \in Files /\ Loaded.rest = Base.rest
    <2> SUFFICES ASSUME Loads PROVE Loaded \in Files /\ Loaded.rest = Base.rest
      OBVIOUS
    <2>1. Base \in Files
      BY <1>2 DEF Loads
    <2>2. overlay = NoFile \/ overlay \in Values
      BY DEF Loads, SettingsTypeOK
    <2> HIDE DEF Base
    <2> QED
      BY <2>1, <2>2 DEF Loaded, Files
  <1> QED
    BY <1>1, <1>2, <1>3 DEF AtStart

LEMMA SettingsStart == SettingsInit => SettingsInv
  <1> SUFFICES ASSUME SettingsInit PROVE SettingsInv
    OBVIOUS
  <1> USE DEF SettingsInit
  <1>1. DefaultConfig \in Files
    BY SettingsAssumption DEF DefaultConfig, Files
  <1>2. file # Bad => Base \in Files /\ Loaded = Base
    BY <1>1 DEF Base, Loaded
  <1>3. config \in Files /\ (Loads => config = Base)
    <2> HIDE DEF Base, Loaded, DefaultConfig, Files
    <2> QED
      BY <1>1, <1>2, SettingsAssumption DEF AtStart, Loads
  <1>4. SettingsTypeOK
    <2>1. reloads \in 0 .. 2 /\ edits \in 0 .. MaxEdits /\ sets \in 0 .. MaxSets
          /\ restarts \in 0 .. MaxRestarts /\ configLocks \in 0 .. MaxConfigLocks
      BY SettingsAssumption
    <2> HIDE DEF AtStart
    <2> QED
      BY <1>3, <2>1 DEF SettingsTypeOK
  <1>5. AcceptedSurvives /\ SettledMatchesFile /\ WrittenIsWhole
    <2> HIDE DEF AtStart, Base
    <2> QED
      BY <1>3, SettingsAssumption DEF AcceptedSurvives, SettledMatchesFile, WrittenIsWhole, Loads
  <1> QED
    BY <1>4, <1>5 DEF SettingsInv

\* One step per edit, command, step of a write, and crash.
LEMMA SettingsStep == SettingsInv /\ [SettingsNext]_settingsVars => SettingsInv'
  <1> SUFFICES ASSUME SettingsInv, [SettingsNext]_settingsVars PROVE SettingsInv'
    OBVIOUS
  <1> USE SettingsAssumption DEF SettingsInv, SettingsTypeOK, AcceptedSurvives, SettledMatchesFile,
          WrittenIsWhole, bounds
  <1>0. /\ DefaultConfig \in Files
        /\ file # Bad => Base \in Files
        /\ Loads => Loaded \in Files /\ Loaded.rest = Base.rest
        /\ AtStart \in Files
        /\ Loads => AtStart.rest = Base.rest
    BY LoadedIsValid
  <1>1. ASSUME NEW v \in Values PROVE [config EXCEPT !.recorder = v] \in Files
        /\ [config EXCEPT !.recorder = v].rest = config.rest
        /\ [config EXCEPT !.recorder = v].recorder = v
    BY DEF Files
  <1>2. ASSUME NEW f \in Files \cup {Bad}, EditFile(f) PROVE SettingsInv'
    <2>1. reloads' \in 1 .. 2 /\ edits' \in 0 .. MaxEdits
      BY <1>2 DEF EditFile, Notified
    <2> QED
      BY <1>2, <2>1 DEF EditFile
  <1>3. CASE DamageOverlay
    <2>1. edits' \in 0 .. MaxEdits
      BY <1>3 DEF DamageOverlay
    <2>2. Base' = Base
      BY <1>3 DEF DamageOverlay, Base
    <2> HIDE DEF Base
    <2> QED
      BY <1>3, <2>1, <2>2 DEF DamageOverlay
  <1>4. CASE ConfigLock
    <2>1. configLocks' \in 0 .. MaxConfigLocks
      BY <1>4 DEF ConfigLock
    <2>2. Base' = Base
      BY <1>4 DEF ConfigLock, Base
    <2> QED
      BY <1>4, <2>1, <2>2 DEF ConfigLock
  <1>5. CASE Reload
    <2>1. reloads' \in 0 .. 2
      BY <1>5 DEF Reload
    <2>2. Base' = Base
      BY <1>5 DEF Reload, Base
    <2>3. Loads => file # Bad
      BY DEF Loads
    <2> QED
      BY <1>0, <1>5, <2>1, <2>2, <2>3 DEF Reload
  <1>6. ASSUME NEW v \in Values, Set(v) PROVE SettingsInv'
    <2>1. sets' \in 0 .. MaxSets
      BY <1>6 DEF Set
    <2>2. Base' = Base
      BY <1>6 DEF Set, Base
    <2>3. config' \in Files /\ config'.rest = config.rest
      BY <1>1, <1>6 DEF Set
    <2> QED
      BY <1>6, <2>1, <2>2, <2>3 DEF Set
  <1>7. CASE WriteTemporary
    <2>1. config.recorder \in Values
      BY DEF Files
    <2>2. Base' = Base
      BY <1>7 DEF WriteTemporary, Base
    <2> QED
      BY <1>7, <2>1, <2>2 DEF WriteTemporary
  <1>8. CASE Rename
    <2>1. Base' = Base
      BY <1>8 DEF Rename, Base
    <2> QED
      BY <1>8, <2>1 DEF Rename
  <1>9. CASE WriteFails
    <2>1. Base' = Base
      BY <1>9 DEF WriteFails, Base
    <2> QED
      BY <1>9, <2>1 DEF WriteFails
  <1>10. CASE SettingsReset
    <2>1. Base' = Base
      BY <1>10 DEF SettingsReset, Base
    <2>2. config' \in Files /\ config'.rest = config.rest
      <3>1. CASE file = Bad
        BY <1>10, <3>1 DEF SettingsReset
      <3>2. CASE file # Bad
        <4>1. Base.recorder \in Values
          BY <1>0, <3>2 DEF Files
        <4> QED
          BY <1>1, <1>10, <3>2, <4>1 DEF SettingsReset
      <3> QED
        BY <3>1, <3>2
    <2> QED
      BY <1>10, <2>1, <2>2 DEF SettingsReset
  <1>11. CASE Restart
    <2>1. restarts' \in 0 .. MaxRestarts
      BY <1>11 DEF Restart
    <2>2. Base' = Base
      BY <1>11 DEF Restart, Base
    <2>3. Loads => file # Bad
      BY DEF Loads
    <2>4. config' \in Files /\ (Loads => config'.rest = Base.rest) /\ missed' = ~Loads
      BY <1>0, <1>11 DEF Restart
    <2>5. SettledMatchesFile'
      BY <1>11, <2>2, <2>3, <2>4 DEF Restart
    <2>6. missed' \in BOOLEAN
      BY <1>11 DEF Restart, Loads
    <2>7. /\ writing' = "no" /\ reloads' \in 0 .. 2 /\ configLocked' = FALSE
          /\ UNCHANGED <<file, overlay, temporary, promised, edits, sets, configLocks>>
      BY <1>11 DEF Restart
    <2>8. SettingsTypeOK'
      BY <2>1, <2>4, <2>6, <2>7
    <2> QED
      BY <2>5, <2>7, <2>8
  <1>12. CASE UNCHANGED settingsVars
    <2>1. Base' = Base
      BY <1>12 DEF settingsVars, Base
    <2> QED
      BY <1>12, <2>1 DEF settingsVars
  <1> QED
    BY <1>2, <1>3, <1>4, <1>5, <1>6, <1>7, <1>8, <1>9, <1>10, <1>11, <1>12 DEF SettingsNext

-----------------------------------------------------------------------------
(* Screen copies.                                                          *)

LEMMA CopyStart == CopyInit => CopyInv
  <1> SUFFICES ASSUME CopyInit PROVE CopyInv
    OBVIOUS
  <1>1. Known = {} /\ ToSet(waiting) = {}
    BY DEF CopyInit, Known, ToSet
  <1>2. {f \in Known : Holds(f)} = {}
    BY <1>1
  <1>3. Cardinality({f \in Known : Holds(f)}) <= MaxWaiting
    BY <1>2, FS_EmptySet, ScreencopyAssumption
  <1>4. CopyTypeOK
    <2>1. frames = << >> /\ waiting = << >> /\ hides \in 0 .. MaxHides /\ 0 <= MaxFrames
      BY ScreencopyAssumption DEF CopyInit
    <2>2. << >> \in Seq(FrameData) /\ << >> \in Seq(FrameIds) /\ Len(<< >>) = 0
      OBVIOUS
    <2> QED
      BY <2>1, <2>2 DEF CopyInit, CopyTypeOK
  <1>5. Once(waiting)
    BY DEF CopyInit, Once
  <1> QED
    BY <1>1, <1>3, <1>4, <1>5 DEF CopyInv, BuffersComeBack

\* A frame object whose buffer is where its answer and its use say.
FrameFine(d) ==
    /\ d \in FrameData
    /\ d.answer \in {"ready", "error"} => d.buffer = "released"
    /\ ~d.used => d.buffer = "unused"

\* A destroyed frame holds no buffer.
LEMMA DestroyedIsFine ==
    ASSUME NEW d, FrameFine(d)
    PROVE  /\ FrameFine(Destroyed(d))
           /\ ~Destroyed(d).alive /\ Destroyed(d).buffer # "held"
  BY DEF FrameFine, Destroyed, FrameData, BufferStates

\* Nor does one that was answered.
LEMMA AnsweredIsFine ==
    ASSUME NEW d, FrameFine(d), NEW answer \in Outcomes
    PROVE  /\ d.used => FrameFine(Answered(d, answer))
           /\ FrameFine(Answered([d EXCEPT !.used = TRUE], answer))
           /\ Answered(d, answer).buffer # "held"
           /\ Answered(d, answer).alive = d.alive
           /\ Answered([d EXCEPT !.used = TRUE], answer).buffer # "held"
           /\ Answered([d EXCEPT !.used = TRUE], answer).alive = d.alive
  BY DEF FrameFine, Answered, FrameData, BufferStates

\* post_error touches the frames of one client only to destroy them.
LEMMA KillFacts ==
    ASSUME NEW fs \in Seq(FrameData), NEW dead,
           \A f \in DOMAIN fs : FrameFine(fs[f])
    PROVE  /\ Kill(fs, dead) \in Seq(FrameData) /\ Len(Kill(fs, dead)) = Len(fs)
           /\ \A f \in DOMAIN fs :
                /\ FrameFine(Kill(fs, dead)[f])
                /\ \/ Kill(fs, dead)[f] = fs[f]
                   \/ ~Kill(fs, dead)[f].alive /\ Kill(fs, dead)[f].buffer # "held"
  <1>1. \A f \in DOMAIN fs : Kill(fs, dead)[f] = fs[f] \/ Kill(fs, dead)[f] = Destroyed(fs[f])
    BY DEF Kill
  <1>2. \A f \in DOMAIN fs : FrameFine(Destroyed(fs[f])) /\ ~Destroyed(fs[f]).alive
                             /\ Destroyed(fs[f]).buffer # "held"
    BY DestroyedIsFine
  <1>3. \A f \in DOMAIN fs : Kill(fs, dead)[f] \in FrameData
    BY <1>1, <1>2 DEF FrameFine
  <1>4. Len(fs) \in Nat /\ DOMAIN fs = 1 .. Len(fs) /\ DOMAIN Kill(fs, dead) = 1 .. Len(fs)
    BY DEF Kill
  <1>5. Kill(fs, dead) \in [1 .. Len(fs) -> FrameData]
    BY <1>3, <1>4 DEF Kill
  <1>6. Kill(fs, dead) \in Seq(FrameData) /\ Len(Kill(fs, dead)) = Len(fs)
    <2> DEFINE k == Kill(fs, dead)
    <2>1. k \in [1 .. Len(fs) -> FrameData]
      BY <1>5
    <2> HIDE DEF k
    <2>2. k \in Seq(FrameData) /\ Len(k) = Len(fs)
      BY <1>4, <2>1
    <2> QED
      BY <2>2 DEF k
  <1> QED
    BY <1>1, <1>2, <1>6

\* The elements of a queue are no more than its length.
LEMMA QueueSize ==
    ASSUME NEW U, NEW s \in Seq(U)
    PROVE  IsFiniteSet(ToSet(s)) /\ Cardinality(ToSet(s)) <= Len(s) /\ Cardinality(ToSet(s)) \in Nat
  <1>1. Len(s) \in Nat /\ DOMAIN s = 1 .. Len(s)
    OBVIOUS
  <1>2. s \in [1 .. Len(s) -> ToSet(s)]
    BY <1>1 DEF ToSet
  <1>3. s \in Surjection(1 .. Len(s), ToSet(s))
    BY <1>1, <1>2 DEF ToSet, Surjection
  <1>4. IsFiniteSet(1 .. Len(s)) /\ Cardinality(1 .. Len(s)) = Len(s)
    BY <1>1, FS_Interval
  <1>5. IsFiniteSet(ToSet(s)) /\ Cardinality(ToSet(s)) <= Len(s)
    BY <1>3, <1>4, FS_Surjection
  <1> QED
    BY <1>5, FS_CardinalityType

\* The frames the compositor holds a buffer of.
HeldFrames == {f \in Known : Holds(f)}

\* A step that takes no buffer keeps the invariant.
LEMMA NoBufferTaken ==
    ASSUME CopyInv,
           frames' \in Seq(FrameData), Len(frames') = Len(frames),
           \A f \in Known : FrameFine(frames'[f]),
           \A f \in Known : frames'[f].buffer = "held" => frames[f].buffer = "held",
           \A f \in Known : frames'[f].buffer = "held"
                                <=> frames'[f].alive /\ f \in ToSet(waiting'),
           waiting' \in Seq(FrameIds), Once(waiting'), ToSet(waiting') \subseteq Known,
           copyLocked' \in BOOLEAN, copyActive' \in BOOLEAN, copyMapped' \in BOOLEAN,
           copyRedraw' \in BOOLEAN, captured' \in [CopyClients -> BOOLEAN],
           hides' \in 0 .. MaxHides
    PROVE  CopyInv'
  <1>1. Known' = Known /\ Len(frames') <= MaxFrames
    BY DEF CopyInv, CopyTypeOK, Known
  <1>2. HeldFrames' \subseteq HeldFrames
    BY <1>1 DEF HeldFrames, Holds
  <1>3. IsFiniteSet(HeldFrames) /\ Cardinality(HeldFrames) <= MaxWaiting
    <2>1. HeldFrames \subseteq ToSet(waiting)
      BY DEF HeldFrames, CopyInv, BuffersComeBack
    <2>2. IsFiniteSet(ToSet(waiting))
      BY QueueSize DEF CopyInv, CopyTypeOK
    <2> QED
      BY <2>1, <2>2, FS_Subset DEF HeldFrames, CopyInv, BuffersComeBack
  <1>4. Cardinality(HeldFrames') <= MaxWaiting
    <2>1. /\ IsFiniteSet(HeldFrames')
          /\ Cardinality(HeldFrames') <= Cardinality(HeldFrames)
      BY <1>2, <1>3, FS_Subset
    <2>2. Cardinality(HeldFrames') \in Nat /\ Cardinality(HeldFrames) \in Nat
      BY <1>3, <2>1, FS_CardinalityType
    <2> QED
      BY <1>3, <2>1, <2>2, ScreencopyAssumption
  <1>5. CopyTypeOK'
    BY <1>1 DEF CopyTypeOK
  <1>6. BuffersComeBack'
    BY <1>1, <1>4 DEF BuffersComeBack, Holds, HeldFrames, FrameFine
  <1> QED
    BY <1>1, <1>5, <1>6 DEF CopyInv, FrameFine

\* What the invariant says of single frames.
LEMMA FramesFine ==
    ASSUME CopyInv
    PROVE  /\ frames \in Seq(FrameData) /\ Len(frames) \in Nat /\ Known = 1 .. Len(frames)
           /\ \A f \in Known : FrameFine(frames[f])
           /\ \A f \in Known : frames[f].buffer = "held"
                                    <=> frames[f].alive /\ f \in ToSet(waiting)
           /\ waiting \in Seq(FrameIds) /\ Once(waiting) /\ ToSet(waiting) \subseteq Known
  BY DEF CopyInv, CopyTypeOK, BuffersComeBack, Holds, Known, FrameFine

\* A queue that kept its live frames holds each buffer it held.
LEMMA LiveFacts ==
    ASSUME CopyInv
    PROVE  /\ LiveWaiting \in Seq(FrameIds) /\ Once(LiveWaiting)
           /\ ToSet(LiveWaiting) = {f \in ToSet(waiting) : frames[f].alive}
  <1> DEFINE S == {f \in Known : frames[f].alive}
             r == Retain(waiting, S)
  <1>1. waiting \in Seq(FrameIds) /\ Once(waiting) /\ ToSet(waiting) \subseteq Known
    BY FramesFine
  <1>2. r \in Seq(FrameIds) /\ Keeps(waiting, S, Len(waiting), r)
    BY <1>1, RetainFacts
  <1>3. LiveWaiting = r
    BY DEF LiveWaiting
  <1> HIDE DEF r, S
  <1>4. DOMAIN r = 1 .. Len(r) /\ DOMAIN waiting = 1 .. Len(waiting)
    BY <1>1, <1>2
  <1>5. ToSet(r) = ToSet(waiting) \cap S
    <2>1. ASSUME NEW i \in DOMAIN r PROVE r[i] \in ToSet(waiting) \cap S
      BY <1>2, <1>4 DEF Keeps, ToSet
    <2>2. ASSUME NEW x \in ToSet(waiting) \cap S PROVE \E i \in DOMAIN r : r[i] = x
      <3>1. PICK i \in 1 .. Len(waiting) : x = waiting[i] /\ waiting[i] \in S
        BY <1>4 DEF ToSet
      <3> QED
        BY <1>2, <1>4, <3>1 DEF Keeps
    <2> QED
      BY <2>1, <2>2 DEF ToSet
  <1> QED
    BY <1>1, <1>2, <1>3, <1>5 DEF Keeps, S

\* create_frame adds a frame that nothing waits for.
LEMMA CreateFrameStep ==
    ASSUME CopyInv, NEW c \in CopyClients, CreateFrame(c)
    PROVE  CopyInv'
  <1> DEFINE n == Len(frames) + 1
             d == [client |-> c, alive |-> TRUE, output |-> CopyShown,
                   initial |-> ~captured[c], used |-> FALSE, buffer |-> "unused",
                   answer |-> IF CopyShown THEN "offered" ELSE "failed"]
  <1>b. /\ frames \in Seq(FrameData) /\ Len(frames) \in Nat /\ Known = 1 .. Len(frames)
        /\ \A f \in Known : FrameFine(frames[f])
        /\ \A f \in Known : frames[f].buffer = "held" <=> frames[f].alive /\ f \in ToSet(waiting)
        /\ waiting \in Seq(FrameIds) /\ Once(waiting) /\ ToSet(waiting) \subseteq Known
    BY FramesFine
  <1>1. FrameFine(d) /\ d.buffer = "unused" /\ d \in FrameData
    <2>1. CopyShown \in BOOLEAN /\ captured[c] \in BOOLEAN
      BY DEF CopyInv, CopyTypeOK, CopyShown
    <2> HIDE DEF CopyShown
    <2> QED
      BY <2>1 DEF FrameFine, FrameData, BufferStates, Outcomes
  <1>2. frames' = Append(frames, d) /\ waiting' = waiting /\ Len(frames) < MaxFrames
    BY DEF CreateFrame
  <1> HIDE DEF d
  <1>3. /\ frames' \in Seq(FrameData) /\ Len(frames') = n /\ Known' = 1 .. n
        /\ \A f \in Known : frames'[f] = frames[f]
        /\ frames'[n] = d
        /\ Known' = Known \cup {n} /\ n \notin Known
    BY <1>b, <1>1, <1>2 DEF Known
  <1>4. n \notin ToSet(waiting)
    BY <1>b, <1>3
  <1>5. \A f \in Known' : FrameFine(frames'[f])
    BY <1>b, <1>1, <1>3
  <1>6. \A f \in Known' : frames'[f].buffer = "held"
                            <=> frames'[f].alive /\ f \in ToSet(waiting')
    BY <1>b, <1>1, <1>2, <1>3, <1>4
  <1>7. HeldFrames' = HeldFrames
    BY <1>1, <1>3 DEF HeldFrames, Holds
  <1>8. CopyTypeOK'
    <2>1. captured' \in [CopyClients -> BOOLEAN] /\ Len(frames') <= MaxFrames
      BY <1>2, <1>3, <1>b, ScreencopyAssumption DEF CopyInv, CopyTypeOK, CreateFrame
    <2> QED
      BY <1>3, <1>b, <2>1 DEF CopyInv, CopyTypeOK, CreateFrame
  <1>9. BuffersComeBack'
    BY <1>b, <1>2, <1>5, <1>6, <1>7 DEF BuffersComeBack, Holds, HeldFrames, FrameFine, CopyInv
  <1> QED
    BY <1>b, <1>2, <1>3, <1>5, <1>8, <1>9 DEF CopyInv, FrameFine

\* A frame that is answered as soon as it is used.
AnsweredFrames(f, answer) ==
    [frames EXCEPT ![f] = Answered([@ EXCEPT !.used = TRUE], answer)]

LEMMA AnsweredAtOnce ==
    ASSUME CopyInv, NEW f \in Known, frames[f].alive, ~frames[f].used, NEW answer \in Outcomes,
           NEW done, done = AnsweredFrames(f, answer)
    PROVE  /\ done \in Seq(FrameData) /\ Len(done) = Len(frames) /\ DOMAIN done = Known
           /\ \A g \in Known : FrameFine(done[g])
           /\ \A g \in Known : done[g].buffer = "held" <=> done[g].alive /\ g \in ToSet(waiting)
           /\ \A g \in Known : done[g].buffer = "held" => frames[g].buffer = "held"
           /\ f \notin ToSet(waiting)
           /\ \A g \in Known : done[g].alive = frames[g].alive
  <1>b. /\ frames \in Seq(FrameData) /\ Len(frames) \in Nat /\ Known = 1 .. Len(frames)
        /\ \A g \in Known : FrameFine(frames[g])
        /\ \A g \in Known : frames[g].buffer = "held" <=> frames[g].alive /\ g \in ToSet(waiting)
    BY FramesFine
  <1> DEFINE e == Answered([frames[f] EXCEPT !.used = TRUE], answer)
  <1>1. FrameFine(e) /\ e.buffer # "held" /\ e.alive = frames[f].alive
    BY <1>b, AnsweredIsFine
  <1>2. frames[f].buffer = "unused"
    BY <1>b DEF FrameFine
  <1> HIDE DEF e
  <1>3. /\ done \in Seq(FrameData) /\ Len(done) = Len(frames)
        /\ DOMAIN done = Known
        /\ \A g \in Known : done[g] = IF g = f THEN e ELSE frames[g]
    BY <1>b, <1>1 DEF e, FrameFine, AnsweredFrames
  <1> QED
    BY <1>b, <1>1, <1>2, <1>3

LEMMA CopyNowStep ==
    ASSUME CopyInv, NEW f \in FrameIds, NEW d \in BOOLEAN, CopyNow(f, d)
    PROVE  CopyInv'
  <1>1. /\ f \in Known /\ frames[f].alive /\ ~frames[f].used
        /\ UNCHANGED <<copyLocked, copyActive, copyMapped, copyRedraw, captured, waiting, hides>>
    BY DEF CopyNow
  <1>2. PICK answer, done :
            /\ answer \in Outcomes
            /\ done = AnsweredFrames(f, answer)
            /\ frames' = IF answer = "error" THEN Kill(done, {frames[f].client}) ELSE done
    <2>1. \A a \in CopyAnswers(frames[f]) : a \in Outcomes
      BY DEF CopyAnswers, Outcomes
    <2> QED
      BY <2>1, Zenon DEF CopyNow, AnsweredFrames
  <1>3. /\ done \in Seq(FrameData) /\ Len(done) = Len(frames) /\ DOMAIN done = Known
        /\ \A g \in Known : FrameFine(done[g])
        /\ \A g \in Known : done[g].buffer = "held" <=> done[g].alive /\ g \in ToSet(waiting)
        /\ \A g \in Known : done[g].buffer = "held" => frames[g].buffer = "held"
    BY <1>1, <1>2, AnsweredAtOnce
  <1>4. /\ frames' \in Seq(FrameData) /\ Len(frames') = Len(frames)
        /\ \A g \in Known : FrameFine(frames'[g])
        /\ \A g \in Known : frames'[g].buffer = "held" <=> frames'[g].alive /\ g \in ToSet(waiting)
        /\ \A g \in Known : frames'[g].buffer = "held" => frames[g].buffer = "held"
    <2>1. CASE answer = "error"
      BY <1>2, <1>3, <2>1, KillFacts
    <2>2. CASE answer # "error"
      BY <1>2, <1>3, <2>2
    <2> QED
      BY <2>1, <2>2
  <1> QED
    BY <1>1, <1>4, FramesFine, NoBufferTaken DEF CopyInv, CopyTypeOK

LEMMA CopyWithDamageStep ==
    ASSUME CopyInv, NEW f \in FrameIds, CopyWithDamage(f)
    PROVE  CopyInv'
  <1>b. /\ frames \in Seq(FrameData) /\ Len(frames) \in Nat /\ Known = 1 .. Len(frames)
        /\ \A g \in Known : FrameFine(frames[g])
        /\ \A g \in Known : frames[g].buffer = "held" <=> frames[g].alive /\ g \in ToSet(waiting)
        /\ waiting \in Seq(FrameIds) /\ Once(waiting) /\ ToSet(waiting) \subseteq Known
    BY FramesFine
  <1>l. /\ LiveWaiting \in Seq(FrameIds) /\ Once(LiveWaiting)
        /\ ToSet(LiveWaiting) = {g \in ToSet(waiting) : frames[g].alive}
    BY LiveFacts
  <1>1. /\ f \in Known /\ frames[f].alive /\ ~frames[f].used
        /\ UNCHANGED <<copyLocked, copyActive, copyMapped, copyRedraw, captured, hides>>
    BY DEF CopyWithDamage
  <1>2. CASE Len(LiveWaiting) >= MaxWaiting
    <2>1. frames' = AnsweredFrames(f, "failed") /\ waiting' = LiveWaiting
      BY <1>2, Zenon DEF CopyWithDamage, AnsweredFrames
    <2>2. /\ frames' \in Seq(FrameData) /\ Len(frames') = Len(frames)
          /\ \A g \in Known : FrameFine(frames'[g])
          /\ \A g \in Known : frames'[g].buffer = "held" <=> frames'[g].alive /\ g \in ToSet(waiting)
          /\ \A g \in Known : frames'[g].buffer = "held" => frames[g].buffer = "held"
          /\ \A g \in Known : frames'[g].alive = frames[g].alive
      BY <1>1, <2>1, AnsweredAtOnce DEF Outcomes
    <2>3. \A g \in Known : frames'[g].buffer = "held"
                                <=> frames'[g].alive /\ g \in ToSet(waiting')
      BY <1>l, <2>1, <2>2
    <2> QED
      BY <1>b, <1>l, <1>1, <2>1, <2>2, <2>3, NoBufferTaken DEF CopyInv, CopyTypeOK
  <1>3. CASE Len(LiveWaiting) < MaxWaiting
    <2> DEFINE e == [frames[f] EXCEPT !.used = TRUE, !.buffer = "held"]
    <2>1. /\ frames' = [frames EXCEPT ![f].used = TRUE, ![f].buffer = "held"]
          /\ waiting' = Append(LiveWaiting, f)
      <3>1. ~(Len(LiveWaiting) >= MaxWaiting)
        BY <1>3, <1>l, ScreencopyAssumption
      <3> QED
        BY <3>1, Zenon DEF CopyWithDamage
    <2>2. f \notin ToSet(waiting) /\ frames[f].answer \notin {"ready", "error"}
      BY <1>b, <1>1 DEF FrameFine
    <2>3. e \in FrameData /\ FrameFine(e) /\ e.buffer = "held" /\ e.alive
      BY <1>b, <1>1, <2>2 DEF FrameFine, FrameData, BufferStates
    <2>4. /\ frames' \in Seq(FrameData) /\ Len(frames') = Len(frames) /\ Known' = Known
          /\ \A g \in Known : frames'[g] = IF g = f THEN e ELSE frames[g]
      <3>1. frames' = [frames EXCEPT ![f] = e]
        BY <2>1
      <3> HIDE DEF e
      <3> QED
        BY <1>b, <1>1, <2>3, <3>1 DEF Known
    <2> HIDE DEF e
    <2>5. /\ waiting' \in Seq(FrameIds) /\ Len(waiting') = Len(LiveWaiting) + 1
          /\ Len(LiveWaiting) \in Nat
          /\ \A i \in 1 .. Len(LiveWaiting) : waiting'[i] = LiveWaiting[i]
          /\ waiting'[Len(LiveWaiting) + 1] = f
          /\ DOMAIN waiting' = 1 .. Len(LiveWaiting) + 1 /\ DOMAIN LiveWaiting = 1 .. Len(LiveWaiting)
      BY <1>l, <2>1
    <2>6. ToSet(waiting') = ToSet(LiveWaiting) \cup {f}
      <3>1. \A i \in DOMAIN waiting' : i \in DOMAIN LiveWaiting \/ i = Len(LiveWaiting) + 1
        BY <2>5
      <3>2. \A i \in DOMAIN LiveWaiting : i \in DOMAIN waiting'
        BY <2>5
      <3>3. Len(LiveWaiting) + 1 \in DOMAIN waiting'
        BY <2>5
      <3> QED
        BY <2>5, <3>1, <3>2, <3>3 DEF ToSet
    <2>7. Once(waiting')
      <3>1. \A i \in 1 .. Len(LiveWaiting) : LiveWaiting[i] # f
        BY <1>l, <2>2, <2>5 DEF ToSet
      <3>2. \A i \in 1 .. Len(waiting') : i \in 1 .. Len(LiveWaiting) \/ i = Len(LiveWaiting) + 1
        BY <2>5
      <3> QED
        BY <1>l, <2>5, <3>1, <3>2 DEF Once
    <2>8. \A g \in Known : frames'[g].buffer = "held"
                                <=> frames'[g].alive /\ g \in ToSet(waiting')
      BY <1>b, <1>l, <2>2, <2>3, <2>4, <2>6
    <2>9. Cardinality(HeldFrames') <= MaxWaiting
      <3>1. HeldFrames' \subseteq ToSet(waiting')
        BY <2>4, <2>8 DEF HeldFrames, Holds
      <3>2. /\ IsFiniteSet(ToSet(waiting')) /\ Cardinality(ToSet(waiting')) <= Len(waiting')
            /\ Cardinality(ToSet(waiting')) \in Nat
        BY <2>5, QueueSize
      <3>3. IsFiniteSet(HeldFrames') /\ Cardinality(HeldFrames') <= Cardinality(ToSet(waiting'))
        BY <3>1, <3>2, FS_Subset
      <3>4. Cardinality(HeldFrames') \in Nat
        BY <3>3, FS_CardinalityType
      <3> QED
        BY <1>3, <2>5, <3>2, <3>3, <3>4, ScreencopyAssumption
    <2>10. CopyTypeOK'
      BY <1>1, <2>4, <2>5 DEF CopyInv, CopyTypeOK
    <2>11. \A g \in Known : FrameFine(frames'[g])
      BY <1>b, <2>3, <2>4
    <2>12. BuffersComeBack'
      BY <2>4, <2>7, <2>8, <2>9, <2>11 DEF BuffersComeBack, Holds, HeldFrames, FrameFine
    <2>13. ToSet(waiting') \subseteq Known'
      BY <1>b, <1>l, <1>1, <2>4, <2>6
    <2> QED
      BY <2>4, <2>10, <2>11, <2>12, <2>13 DEF CopyInv, FrameFine
  <1> QED
    BY <1>2, <1>3, <1>l, ScreencopyAssumption

\* Frames that are only destroyed, or killed.
LEMMA OnlyDestroyed ==
    ASSUME CopyInv, frames' \in Seq(FrameData), Len(frames') = Len(frames),
           \A f \in Known : /\ FrameFine(frames'[f])
                            /\ \/ frames'[f] = frames[f]
                               \/ ~frames'[f].alive /\ frames'[f].buffer # "held",
           UNCHANGED <<copyLocked, copyActive, copyMapped, copyRedraw, captured, waiting, hides>>
    PROVE  CopyInv'
  <1>1. \A f \in Known : frames'[f].buffer = "held" => frames[f].buffer = "held"
    OBVIOUS
  <1>2. \A f \in Known : frames'[f].buffer = "held"
                            <=> frames'[f].alive /\ f \in ToSet(waiting')
    BY FramesFine
  <1> QED
    BY <1>1, <1>2, FramesFine, NoBufferTaken DEF CopyInv, CopyTypeOK

LEMMA ProcessPendingStep ==
    ASSUME CopyInv, ProcessPending
    PROVE  CopyInv'
  <1> DEFINE due == {f \in ToSet(waiting) : frames[f].alive /\ Holds(f)}
  <1>b. /\ frames \in Seq(FrameData) /\ Len(frames) \in Nat /\ Known = 1 .. Len(frames)
        /\ \A g \in Known : FrameFine(frames[g])
        /\ \A g \in Known : frames[g].buffer = "held" <=> frames[g].alive /\ g \in ToSet(waiting)
        /\ waiting \in Seq(FrameIds) /\ Once(waiting) /\ ToSet(waiting) \subseteq Known
    BY FramesFine
  <1>1. /\ copyRedraw' = FALSE /\ waiting' = << >>
        /\ UNCHANGED <<copyLocked, copyActive, copyMapped, captured, hides>>
    BY DEF ProcessPending
  <1>2. PICK answer, done, dead :
            /\ answer \in [due -> Outcomes]
            /\ done = [f \in Known |-> IF f \in due THEN Answered(frames[f], answer[f])
                                                ELSE frames[f]]
            /\ frames' = Kill(done, dead)
    BY Zenon DEF ProcessPending
  <1>3. \A f \in Known : f \in due <=> frames[f].buffer = "held"
    BY <1>b DEF Holds
  <1> HIDE DEF due
  <1>4. \A f \in Known : FrameFine(done[f]) /\ done[f].buffer # "held"
    <2> SUFFICES ASSUME NEW f \in Known PROVE FrameFine(done[f]) /\ done[f].buffer # "held"
      OBVIOUS
    <2>1. CASE f \in due
      <3>1. frames[f].used /\ answer[f] \in Outcomes
        BY <1>2, <1>3, <1>b, <2>1 DEF FrameFine
      <3>2. done[f] = Answered(frames[f], answer[f])
        BY <1>2, <2>1
      <3> QED
        BY <1>b, <3>1, <3>2, AnsweredIsFine
    <2>2. CASE f \notin due
      BY <1>b, <1>2, <1>3, <2>2
    <2> QED
      BY <2>1, <2>2
  <1>5. done \in Seq(FrameData) /\ Len(done) = Len(frames) /\ DOMAIN done = Known
    <2>1. done \in [1 .. Len(frames) -> FrameData] /\ DOMAIN done = Known
      <3>1. \A f \in Known : done[f] \in FrameData
        BY <1>4 DEF FrameFine
      <3> QED
        BY <1>2, <1>b, <3>1
    <2> QED
      BY <1>b, <2>1
  <1>6. /\ frames' \in Seq(FrameData) /\ Len(frames') = Len(frames)
        /\ \A f \in Known : FrameFine(frames'[f]) /\ frames'[f].buffer # "held"
    BY <1>2, <1>4, <1>5, KillFacts
  <1>7. ToSet(waiting') = {} /\ Once(waiting') /\ waiting' \in Seq(FrameIds)
    BY <1>1 DEF ToSet, Once
  <1> QED
    BY <1>1, <1>6, <1>7, NoBufferTaken DEF CopyInv, CopyTypeOK

\* One step per request and event.
LEMMA CopyStep == CopyInv /\ [CopyNext]_copyVars => CopyInv'
  <1> SUFFICES ASSUME CopyInv, [CopyNext]_copyVars PROVE CopyInv'
    OBVIOUS
  <1>b. /\ frames \in Seq(FrameData) /\ Known = 1 .. Len(frames) /\ DOMAIN frames = Known
        /\ \A g \in Known : FrameFine(frames[g])
        /\ \A f \in Known : frames[f].buffer = "held" <=> frames[f].alive /\ f \in ToSet(waiting)
        /\ waiting \in Seq(FrameIds) /\ Once(waiting) /\ ToSet(waiting) \subseteq Known
    BY FramesFine DEF Known
  \* Nothing happens to frames or the queue.
  <1>u. ASSUME UNCHANGED <<frames, waiting, captured>>, copyLocked' \in BOOLEAN,
               copyActive' \in BOOLEAN, copyMapped' \in BOOLEAN, copyRedraw' \in BOOLEAN,
               hides' \in 0 .. MaxHides
        PROVE  CopyInv'
    BY <1>b, <1>u, NoBufferTaken DEF CopyInv, CopyTypeOK
  <1>1. ASSUME NEW c \in CopyClients, CreateFrame(c) PROVE CopyInv'
    BY <1>1, CreateFrameStep
  <1>2. ASSUME NEW f \in FrameIds, NEW d \in BOOLEAN, CopyNow(f, d) PROVE CopyInv'
    BY <1>2, CopyNowStep
  <1>3. ASSUME NEW f \in FrameIds, CopyWithDamage(f) PROVE CopyInv'
    BY <1>3, CopyWithDamageStep
  <1>4. ASSUME NEW f \in FrameIds, CopyAgain(f) PROVE CopyInv'
    <2>1. PICK dead : frames' = Kill(frames, dead)
      BY <1>4 DEF CopyAgain
    <2>2. /\ frames' \in Seq(FrameData) /\ Len(frames') = Len(frames)
          /\ \A g \in Known : /\ FrameFine(frames'[g])
                              /\ \/ frames'[g] = frames[g]
                                 \/ ~frames'[g].alive /\ frames'[g].buffer # "held"
      BY <1>b, <2>1, KillFacts
    <2> QED
      BY <1>4, <2>2, OnlyDestroyed DEF CopyAgain
  <1>5. ASSUME NEW f \in FrameIds, DestroyFrame(f) PROVE CopyInv'
    <2> DEFINE e == Destroyed(frames[f])
    <2>1. f \in Known /\ frames' = [frames EXCEPT ![f] = e]
      BY <1>5 DEF DestroyFrame
    <2>2. FrameFine(e) /\ ~e.alive /\ e.buffer # "held"
      BY <1>b, <2>1, DestroyedIsFine
    <2> HIDE DEF e
    <2>3. /\ frames' \in Seq(FrameData) /\ Len(frames') = Len(frames)
          /\ \A g \in Known : frames'[g] = IF g = f THEN e ELSE frames[g]
      BY <1>b, <2>1, <2>2 DEF FrameFine
    <2> QED
      BY <1>b, <1>5, <2>2, <2>3, OnlyDestroyed DEF DestroyFrame
  <1>6. CASE ProcessPending
    BY <1>6, ProcessPendingStep
  <1>7. CASE DesktopDamage
    BY <1>7, <1>u DEF DesktopDamage, CopyInv, CopyTypeOK
  <1>8. CASE CopyLock
    <2>1. hides' \in 0 .. MaxHides
      BY <1>8, ScreencopyAssumption DEF CopyLock, CopyInv, CopyTypeOK
    <2> QED
      BY <1>8, <1>u, <2>1 DEF CopyLock, CopyInv, CopyTypeOK
  <1>9. CASE CopySwitch
    <2>1. hides' \in 0 .. MaxHides
      BY <1>9, ScreencopyAssumption DEF CopySwitch, CopyInv, CopyTypeOK
    <2>2. copyRedraw' \in BOOLEAN
      BY <1>9 DEF CopySwitch, CopyInv, CopyTypeOK
    <2> QED
      BY <1>9, <1>u, <2>1, <2>2 DEF CopySwitch, CopyInv, CopyTypeOK
  <1>10. CASE CopyUnplug
    <2>1. hides' \in 0 .. MaxHides
      BY <1>10, ScreencopyAssumption DEF CopyUnplug, CopyInv, CopyTypeOK
    <2> QED
      BY <1>10, <1>u, <2>1 DEF CopyUnplug, CopyInv, CopyTypeOK
  <1>11. CASE UNCHANGED copyVars
    BY <1>11, <1>u DEF copyVars, CopyInv, CopyTypeOK
  <1> QED
    BY <1>1, <1>2, <1>3, <1>4, <1>5, <1>6, <1>7, <1>8, <1>9, <1>10, <1>11 DEF CopyNext

\* Nothing is copied of a desktop that is hidden or locked.
CopyHides ==
    \A f \in Known : frames'[f].answer = "ready" /\ frames[f].answer # "ready"
        => ~copyLocked /\ copyActive /\ copyMapped

\* Destroying an object answers nothing.
LEMMA KillAnswers ==
    ASSUME NEW fs, NEW dead, NEW f \in DOMAIN fs, fs[f] \in FrameData
    PROVE  Kill(fs, dead)[f].answer = fs[f].answer
  <1>1. Kill(fs, dead)[f] = fs[f] \/ Kill(fs, dead)[f] = Destroyed(fs[f])
    BY DEF Kill
  <1>2. Destroyed(fs[f]).answer = fs[f].answer
    BY DEF Destroyed, FrameData
  <1> QED
    BY <1>1, <1>2

LEMMA CopyHidesStep == CopyInv /\ [CopyNext]_copyVars => CopyHides
  <1> SUFFICES ASSUME CopyInv, [CopyNext]_copyVars, NEW f \in Known,
                      frames'[f].answer = "ready", frames[f].answer # "ready"
               PROVE  CopyShown
    BY DEF CopyHides, CopyShown
  <1>b. /\ frames \in Seq(FrameData) /\ Known = 1 .. Len(frames) /\ DOMAIN frames = Known
        /\ \A g \in Known : FrameFine(frames[g]) /\ frames[g] \in FrameData
    BY FramesFine DEF Known, FrameFine
  <1>k. frames' # frames
    OBVIOUS
  <1>1. ASSUME NEW c \in CopyClients, CreateFrame(c) PROVE FALSE
    <2>1. frames'[f] = frames[f]
      BY <1>b, <1>1 DEF CreateFrame
    <2> QED
      BY <2>1
  <1>2. ASSUME NEW g \in FrameIds, NEW d \in BOOLEAN, CopyNow(g, d) PROVE CopyShown
    <2>1. PICK answer, done :
              /\ answer \in CopyAnswers(frames[g])
              /\ done = AnsweredFrames(g, answer)
              /\ frames' = IF answer = "error" THEN Kill(done, {frames[g].client}) ELSE done
      BY <1>2, Zenon DEF CopyNow, AnsweredFrames
    <2>2. g \in Known /\ frames[g].alive /\ ~frames[g].used /\ answer \in Outcomes
      BY <1>2, <2>1 DEF CopyNow, CopyAnswers, Outcomes
    <2>3. DOMAIN done = Known /\ done[f] \in FrameData
      BY <2>1, <2>2, AnsweredAtOnce DEF FrameFine
    <2>4. frames'[f].answer = done[f].answer
      BY <2>1, <2>3, KillAnswers
    <2>5. f = g /\ done[g].answer = answer
      <3> DEFINE e == Answered([frames[g] EXCEPT !.used = TRUE], answer)
      <3>1. e.answer = answer
        BY <1>b, <2>2 DEF Answered, FrameData
      <3> HIDE DEF e
      <3>2. done = [frames EXCEPT ![g] = e]
        BY <2>1 DEF AnsweredFrames, e
      <3> QED
        BY <1>b, <2>2, <2>4, <3>1, <3>2
    <2> QED
      BY <2>1, <2>4, <2>5 DEF CopyAnswers
  <1>3. ASSUME NEW g \in FrameIds, CopyWithDamage(g) PROVE FALSE
    <2>1. g \in Known
      BY <1>3 DEF CopyWithDamage
    <2>2. CASE frames' = [frames EXCEPT ![g].used = TRUE, ![g].buffer = "held"]
      <3>1. frames'[f].answer = frames[f].answer
        BY <1>b, <2>1, <2>2 DEF FrameData
      <3> QED
        BY <3>1
    <2>3. CASE frames' = AnsweredFrames(g, "failed")
      <3> DEFINE e == Answered([frames[g] EXCEPT !.used = TRUE], "failed")
      <3>1. e.answer = "failed"
        BY <1>b, <2>1 DEF Answered, FrameData
      <3> HIDE DEF e
      <3>2. frames' = [frames EXCEPT ![g] = e]
        BY <2>3 DEF AnsweredFrames, e
      <3> QED
        BY <1>b, <2>1, <3>1, <3>2
    <2> QED
      BY <1>3, <2>2, <2>3, Zenon DEF CopyWithDamage, AnsweredFrames
  <1>4. ASSUME NEW g \in FrameIds, CopyAgain(g) PROVE FALSE
    BY <1>4, <1>b, KillAnswers DEF CopyAgain
  <1>5. ASSUME NEW g \in FrameIds, DestroyFrame(g) PROVE FALSE
    <2> DEFINE e == Destroyed(frames[g])
    <2>1. g \in Known /\ frames' = [frames EXCEPT ![g] = e]
      BY <1>5 DEF DestroyFrame
    <2>2. e.answer = frames[g].answer
      BY <1>b, <2>1 DEF Destroyed, FrameData
    <2> HIDE DEF e
    <2> QED
      BY <1>b, <2>1, <2>2
  <1>6. ASSUME ProcessPending PROVE CopyShown
    <2> DEFINE due == {g \in ToSet(waiting) : frames[g].alive /\ Holds(g)}
    <2>1. PICK answer, done, dead :
              /\ answer \in [due -> Outcomes]
              /\ \A g \in due : answer[g] \in CopyAnswers(frames[g])
              /\ done = [g \in Known |-> IF g \in due THEN Answered(frames[g], answer[g])
                                                  ELSE frames[g]]
              /\ frames' = Kill(done, dead)
      BY <1>6, Zenon DEF ProcessPending
    <2> HIDE DEF due
    <2>2. DOMAIN done = Known /\ done[f] = IF f \in due THEN Answered(frames[f], answer[f])
                                                        ELSE frames[f]
      BY <2>1
    <2>3. f \in due => answer[f] \in Outcomes
      BY <2>1
    <2>4. done[f] \in FrameData
      BY <1>b, <2>2, <2>3 DEF Answered, FrameData, BufferStates
    <2>5. done[f].answer = "ready"
      BY <2>1, <2>2, <2>4, KillAnswers
    <2>6. f \in due /\ answer[f] = "ready"
      BY <1>b, <2>2, <2>5 DEF Answered, FrameData
    <2> QED
      BY <2>1, <2>6 DEF CopyAnswers
  <1> QED
    BY <1>k, <1>1, <1>2, <1>3, <1>4, <1>5, <1>6
    DEF CopyNext, DesktopDamage, CopyLock, CopySwitch, CopyUnplug, copyVars

-----------------------------------------------------------------------------
(* The socket's path.                                                      *)

LEMMA SocketStart == SocketInit => SocketInv
  BY SocketAssumption DEF SocketInit, SocketInv, SocketTypeOK, OwnsSocket, Starting, Sockets

LEMMA SocketStep ==
    ASSUME ~Overlap, SocketInv, [SocketNext]_socketVars
    PROVE  SocketInv'
<1> USE SocketAssumption DEF Goto, Starting, Sockets, SocketTypeOK, OwnsSocket, SocketInv
<1>1. ASSUME NEW c \in Compositors, Launch(c) PROVE SocketInv'
  BY <1>1 DEF Launch
<1>2. ASSUME NEW c \in Compositors, Stat(c) PROVE SocketInv'
  BY <1>2 DEF Stat
<1>3. ASSUME NEW c \in Compositors, Connect(c) PROVE SocketInv'
  BY <1>3 DEF Connect, Answers
<1>4. ASSUME NEW c \in Compositors, RemoveStale(c) PROVE SocketInv'
  BY <1>4 DEF RemoveStale
<1>5. ASSUME NEW c \in Compositors, Bind(c) PROVE SocketInv'
  BY <1>5 DEF Bind
<1>6. ASSUME NEW c \in Compositors, End(c) PROVE SocketInv'
  BY <1>6 DEF End
<1>7. CASE UNCHANGED socketVars
  BY <1>7 DEF socketVars
<1> QED
  BY <1>1, <1>2, <1>3, <1>4, <1>5, <1>6, <1>7 DEF SocketNext

-----------------------------------------------------------------------------
(* Floating geometry.                                                      *)

\* i32::clamp stays within its limits, and does not panic when they are in order.
LEMMA ClampedWithin ==
    ASSUME NEW v \in Int, NEW lo \in Int, NEW hi \in Int, lo <= hi
    PROVE  Clamped(v, lo, hi) \in lo .. hi
  BY DEF Clamped

\* What max(1) gives, which keeps the limits of every clamp in order.
LEMMA AtLeastOne ==
    ASSUME NEW n \in Int
    PROVE  Greater(n, 1) \in Int /\ Greater(n, 1) >= 1 /\ Greater(n, 1) \div 2 \in Int
  BY DEF Greater

\* floating_rect repairs any rect for any area.
LEMMA FloatingRectFits ==
    ASSUME NEW a \in Rect, NEW saved \in Rect
    PROVE  FloatingRect(a, saved) \in Rect /\ Inside(FloatingRect(a, saved), a)
  <1> DEFINE fw == FloatWidth(a, saved)
             fh == FloatHeight(a, saved)
             fx == FloatX(a, saved)
             fy == FloatY(a, saved)
  <1>1. /\ a.x \in Int /\ a.y \in Int /\ a.w \in Int /\ a.h \in Int
        /\ saved.x \in Int /\ saved.y \in Int /\ saved.w \in Int /\ saved.h \in Int
    BY DEF Rect
  <1>2. /\ Greater(a.w, 1) \in Int /\ Greater(a.w, 1) >= 1 /\ Greater(a.w, 1) \div 2 \in Int
        /\ Greater(a.h, 1) \in Int /\ Greater(a.h, 1) >= 1 /\ Greater(a.h, 1) \div 2 \in Int
    BY <1>1, AtLeastOne
  <1>3. fw \in 1 .. Greater(a.w, 1)
    <2> DEFINE asked == IF saved = None THEN Greater(a.w, 1) \div 2 ELSE saved.w
               most == Greater(a.w, 1)
    <2>1. asked \in Int
      BY <1>1, <1>2
    <2>2. fw = Clamped(asked, 1, most)
      BY DEF FloatWidth
    <2>3. most \in Int /\ 1 <= most
      BY <1>2
    <2> HIDE DEF asked, most, fw
    <2>4. fw \in 1 .. most
      BY <2>1, <2>2, <2>3, ClampedWithin
    <2> QED
      BY <2>4 DEF most
  <1>4. fh \in 1 .. Greater(a.h, 1)
    <2> DEFINE asked == IF saved = None THEN Greater(a.h, 1) \div 2 ELSE saved.h
               most == Greater(a.h, 1)
    <2>1. asked \in Int
      BY <1>1, <1>2
    <2>2. fh = Clamped(asked, 1, most)
      BY DEF FloatHeight
    <2>3. most \in Int /\ 1 <= most
      BY <1>2
    <2> HIDE DEF asked, most, fh
    <2>4. fh \in 1 .. most
      BY <2>1, <2>2, <2>3, ClampedWithin
    <2> QED
      BY <2>4 DEF most
  <1>5. fx \in a.x .. (a.x + Greater(a.w, 1) - fw)
    <2> DEFINE asked == IF saved = None THEN a.x + (Greater(a.w, 1) - fw) \div 2 ELSE saved.x
               last == a.x + Greater(a.w, 1) - fw
    <2>1. fx = Clamped(asked, a.x, last)
      BY DEF FloatX
    <2> HIDE DEF fw, fx
    <2>2. (Greater(a.w, 1) - fw) \div 2 \in Int
      BY <1>2, <1>3
    <2>3. asked \in Int
      BY <1>1, <2>2
    <2>4. last \in Int /\ a.x <= last
      BY <1>1, <1>2, <1>3
    <2> HIDE DEF asked
    <2>5. fx \in a.x .. last
      BY <1>1, <2>1, <2>3, <2>4, ClampedWithin
    <2> QED
      BY <2>5
  <1>6. fy \in a.y .. (a.y + Greater(a.h, 1) - fh)
    <2> DEFINE asked == IF saved = None THEN a.y + (Greater(a.h, 1) - fh) \div 2 ELSE saved.y
               last == a.y + Greater(a.h, 1) - fh
    <2>1. fy = Clamped(asked, a.y, last)
      BY DEF FloatY
    <2> HIDE DEF fh, fy
    <2>2. (Greater(a.h, 1) - fh) \div 2 \in Int
      BY <1>2, <1>4
    <2>3. asked \in Int
      BY <1>1, <2>2
    <2>4. last \in Int /\ a.y <= last
      BY <1>1, <1>2, <1>4
    <2> HIDE DEF asked
    <2>5. fy \in a.y .. last
      BY <1>1, <2>1, <2>3, <2>4, ClampedWithin
    <2> QED
      BY <2>5
  <1> HIDE DEF fw, fh, fx, fy
  <1>7. FloatingRect(a, saved) = [x |-> fx, y |-> fy, w |-> fw, h |-> fh]
    BY DEF FloatingRect, fw, fh, fx, fy
  <1>8. [x |-> fx, y |-> fy, w |-> fw, h |-> fh] \in Rect
    BY <1>1, <1>2, <1>3, <1>4, <1>5, <1>6 DEF Rect
  <1>9. Inside([x |-> fx, y |-> fy, w |-> fw, h |-> fh], a)
    BY <1>1, <1>2, <1>3, <1>4, <1>5, <1>6 DEF Inside
  <1> QED
    BY <1>7, <1>8, <1>9

\* The tiled part of the state has no say in where a floating window is.
FloatInv == area \in Rect /\ float \in Rect /\ FloatInside

\* The initial rect is floating_rect's too.
LEMMA FloatInvInit == LayoutInit => FloatInv
  <1> SUFFICES ASSUME LayoutInit PROVE FloatInv
    OBVIOUS
  <1>1. area \in Rect
    BY LayoutAssumption DEF LayoutInit, Rect
  <1>2. None \in Rect
    BY DEF None, Rect
  <1> QED
    BY <1>1, <1>2, FloatingRectFits DEF LayoutInit, FloatInv, FloatInside

\* One step per command that moves the area or the window.
LEMMA FloatInvNext == FloatInv /\ [LayoutNext]_layoutVars => FloatInv'
  <1> SUFFICES ASSUME FloatInv, [LayoutNext]_layoutVars PROVE FloatInv'
    OBVIOUS
  <1> USE DEF FloatInv
  <1>a. ASSUME UNCHANGED <<area, float>> PROVE FloatInv'
    BY <1>a DEF FloatInside
  <1>1. ASSUME NEW n \in 0 .. MaxTiles, TileWindow(n) PROVE FloatInv'
    BY <1>1, <1>a DEF TileWindow
  <1>2. CASE SetLayout
    BY <1>2, <1>a DEF SetLayout
  <1>3. ASSUME NEW r \in Ratios, SetRatio(r) PROVE FloatInv'
    BY <1>3, <1>a DEF SetRatio
  <1>4. ASSUME NEW w \in Widths, NEW h \in Heights, NEW g \in Gaps, Reconfigure(w, h, g)
        PROVE  FloatInv'
    <2>1. area' \in Rect
      <3>1. w \in Int /\ h \in Int
        BY LayoutAssumption
      <3>2. area' = [x |-> area.x, y |-> area.y, w |-> w, h |-> h]
        BY <1>4 DEF Reconfigure, Rect
      <3> QED
        BY <3>1, <3>2 DEF Rect
    <2>2. float' = FloatingRect(area', float)
      BY <1>4 DEF Reconfigure
    <2> QED
      BY <2>1, <2>2, FloatingRectFits DEF FloatInside
  <1>5. ASSUME NEW q \in FloatRects, Grab(q) PROVE FloatInv'
    <2>1. q \in Rect
      BY LayoutAssumption DEF Rect
    <2>2. area' = area /\ float' = FloatingRect(area, q)
      BY <1>5 DEF Grab
    <2> QED
      BY <2>1, <2>2, FloatingRectFits DEF FloatInside
  <1>6. CASE UNCHANGED layoutVars
    BY <1>6, <1>a DEF layoutVars
  <1> QED
    BY <1>1, <1>2, <1>3, <1>4, <1>5, <1>6 DEF LayoutNext

-----------------------------------------------------------------------------
(* Keys.                                                                   *)

LEMMA KeysStart == KY!KeysInit => KY!KeysInv
  BY DEF KY!KeysInit, KY!KeysInv, KY!KeysTypeOK

\* What a press and a release do to the tap while the desktop sees the keys.
LEMMA DesktopKeys ==
    ASSUME KY!KeysInv, NEW k \in KY!Keyboard
    PROVE  /\ KY!DesktopPress(k) =>
                /\ forwarded' \subseteq KY!Keyboard /\ suppressed' \subseteq KY!Symbols
                /\ tapPending' \in BOOLEAN /\ tapUsed' \in BOOLEAN /\ clean' \in BOOLEAN
                /\ ran' \in {"nothing", "shortcut"}
                /\ tapPending' /\ ~tapUsed' => clean'
           /\ KY!DesktopRelease(k) =>
                /\ forwarded' \subseteq KY!Keyboard /\ suppressed' \subseteq KY!Symbols
                /\ tapPending' \in BOOLEAN /\ tapUsed' \in BOOLEAN /\ clean' \in BOOLEAN
                /\ ran' \in {"nothing", "launcher"} /\ (ran' = "launcher" => clean)
                /\ tapPending' /\ ~tapUsed' => clean'
  <1> USE DEF KY!KeysInv, KY!KeysTypeOK
  <1>1. ASSUME NEW down PROVE KY!Symbol(k, down) \in KY!Symbols
    BY DEF KY!Symbol, KY!Symbols
  <1>2. KY!PlainRelease(k) =>
            /\ forwarded' \subseteq KY!Keyboard /\ suppressed' \subseteq KY!Symbols
            /\ ran' = "nothing"
    BY DEF KY!PlainRelease, KY!Intercept, KY!ForwardRelease
  <1>3. ASSUME KY!DesktopPress(k)
        PROVE  /\ forwarded' \subseteq KY!Keyboard /\ suppressed' \subseteq KY!Symbols
               /\ tapPending' \in BOOLEAN /\ tapUsed' \in BOOLEAN /\ clean' \in BOOLEAN
               /\ ran' \in {"nothing", "shortcut"}
               /\ tapPending' /\ ~tapUsed' => clean'
    <2>1. /\ tapPending' = (IF k = KY!Super THEN ~inhibited ELSE tapPending)
          /\ tapUsed' = (k # KY!Super /\ (tapPending \/ tapUsed))
          /\ clean' = (k = KY!Super /\ ~inhibited)
      BY <1>3 DEF KY!DesktopPress, KY!TapAfterPress
    <2>2. /\ forwarded' \subseteq KY!Keyboard /\ suppressed' \subseteq KY!Symbols
          /\ ran' \in {"nothing", "shortcut"}
      BY <1>1, <1>3 DEF KY!DesktopPress, KY!Intercept, KY!ForwardPress
    <2> QED
      BY <2>1, <2>2
  <1>4. ASSUME KY!DesktopRelease(k)
        PROVE  /\ forwarded' \subseteq KY!Keyboard /\ suppressed' \subseteq KY!Symbols
               /\ tapPending' \in BOOLEAN /\ tapUsed' \in BOOLEAN /\ clean' \in BOOLEAN
               /\ ran' \in {"nothing", "launcher"} /\ (ran' = "launcher" => clean)
               /\ tapPending' /\ ~tapUsed' => clean'
    <2>1. CASE k = KY!Super /\ tapPending
      <3>1. /\ tapPending' = FALSE /\ tapUsed' = FALSE /\ clean' = FALSE
            /\ suppressed' = suppressed
            /\ IF tapUsed THEN KY!ForwardRelease(k) ELSE KY!Intercept("launcher")
        BY <1>4, <2>1 DEF KY!DesktopRelease
      <3>2. forwarded' \subseteq KY!Keyboard /\ ran' \in {"nothing", "launcher"}
            /\ (ran' = "launcher" => ~tapUsed)
        BY <3>1 DEF KY!Intercept, KY!ForwardRelease
      <3> QED
        BY <2>1, <3>1, <3>2
    <2>2. CASE ~(k = KY!Super /\ tapPending)
      <3>1. /\ KY!PlainRelease(k)
            /\ tapPending' = tapPending /\ tapUsed' = tapUsed /\ clean' = clean
        BY <1>4, <2>2 DEF KY!DesktopRelease, KY!tap
      <3> QED
        BY <1>2, <3>1
    <2> QED
      BY <2>1, <2>2
  <1> QED
    BY <1>3, <1>4

\* One step per key event and per change around the keyboard.
LEMMA KeysStep ==
    ASSUME KY!KeysInv, KY!KeysNext \/ UNCHANGED keysVars
    PROVE  KY!KeysInv' /\ (KY!TapStep \/ UNCHANGED keysVars)
  <1> USE DEF KY!KeysInv, KY!KeysTypeOK, KY!TapStep, KY!keyState, KY!tap
  <1>1. ASSUME NEW k \in KY!Keyboard, KY!Press(k) PROVE KY!KeysInv' /\ KY!TapStep
    <2>1. CASE keysLocked
      BY <1>1, <2>1 DEF KY!Press, KY!LockedPress, KY!ForwardPress
    <2>2. CASE ~keysLocked /\ exclusive
      BY <1>1, <2>2 DEF KY!Press, KY!ExclusivePress, KY!ForwardPress
    <2>3. CASE ~keysLocked /\ ~exclusive
      BY <1>1, <2>3, DesktopKeys DEF KY!Press
    <2> QED
      BY <2>1, <2>2, <2>3
  <1>2. ASSUME NEW k \in KY!Keyboard, KY!Release(k) PROVE KY!KeysInv' /\ KY!TapStep
    <2>1. CASE keysLocked
      BY <1>2, <2>1 DEF KY!Release, KY!LockedRelease, KY!PlainRelease, KY!ForwardRelease, KY!Intercept
    <2>2. CASE ~keysLocked /\ exclusive
      BY <1>2, <2>2 DEF KY!Release, KY!ExclusiveRelease, KY!ForwardRelease
    <2>3. CASE ~keysLocked /\ ~exclusive
      BY <1>2, <2>3, DesktopKeys DEF KY!Release
    <2> QED
      BY <2>1, <2>2, <2>3
  <1>3. CASE KY!KeysLock
    BY <1>3 DEF KY!KeysLock
  <1>4. CASE KY!KeysUnlock
    BY <1>4 DEF KY!KeysUnlock
  <1>5. CASE KY!Around
    BY <1>5 DEF KY!Around
  <1>6. CASE UNCHANGED keysVars
    BY <1>6 DEF keysVars
  <1> QED
    BY <1>1, <1>2, <1>3, <1>4, <1>5, <1>6 DEF KY!KeysNext

-----------------------------------------------------------------------------
(* Grabs.                                                                  *)

\* GrabsInv, device by device and window by window.
Resizing(g) == g.kind = "resize" /\ g.win \in living \ shared => resizeState[g.win] = "resizing"
AckFine(w) ==
    /\ resizeState[w] = "finalAck" =>
            \A i, j \in 1 .. Len(wire[w]) : i < j /\ wire[w][i].late => wire[w][j].late
    /\ resizeState[w] = "commit" => w \notin ackedResizing
    /\ resizeState[w] \in {"finalAck", "commit"} => w \notin resizingSet
    /\ resizeState[w] = "finalAck" =>
            \A i \in 1 .. Len(wire[w]) : wire[w][i].late => ~wire[w][i].resizing
    /\ resizeState[w] = "commit" => \A i \in 1 .. Len(wire[w]) : ~wire[w][i].resizing
GrabsParts ==
    /\ GR!GrabsTypeOK
    /\ Resizing(pointerGrab) /\ Resizing(touchGrab)
    /\ pointerGrab.kind = "resize" /\ touchGrab.kind = "resize" /\ pointerGrab.win = touchGrab.win
            => pointerGrab.win \in shared
    /\ \A w \in living \ shared : AckFine(w)

LEMMA GrabsInvParts == GR!GrabsInv => GrabsParts
  <1> SUFFICES ASSUME GR!GrabsInv PROVE GrabsParts
    OBVIOUS
  <1>1. \A w \in living \ shared : DOMAIN wire[w] = 1 .. Len(wire[w])
    BY DEF GR!GrabsInv, GR!GrabsTypeOK
  <1>2. Resizing(pointerGrab) /\ Resizing(touchGrab)
    <2>1. GR!GrabOf("pointer") = pointerGrab /\ GR!GrabOf("touch") = touchGrab
      BY DEF GR!GrabOf
    <2> QED
      BY <2>1 DEF GR!GrabsInv, GR!GrabIsResizing, Resizing
  <1>3. ASSUME NEW w \in living \ shared PROVE AckFine(w)
    BY <1>1 DEF GR!GrabsInv, GR!GrabIsResizing, AckFine
  <1> QED
    BY <1>2, <1>3 DEF GrabsParts, GR!GrabsInv

LEMMA GrabsPartsInv == GrabsParts => GR!GrabsInv
  <1> SUFFICES ASSUME GrabsParts PROVE GR!GrabsInv
    OBVIOUS
  <1>1. \A w \in living \ shared : DOMAIN wire[w] = 1 .. Len(wire[w])
    BY DEF GrabsParts, GR!GrabsTypeOK
  <1>2. \A dev \in {"pointer", "touch"} : Resizing(GR!GrabOf(dev))
    BY DEF GrabsParts, GR!GrabOf
  <1>3. GR!GrabIsResizing
    BY <1>1, <1>2 DEF GrabsParts, GR!GrabIsResizing, AckFine, Resizing
  <1> QED
    BY <1>1, <1>3 DEF GrabsParts, GR!GrabsInv, AckFine

LEMMA GrabsStart == GR!GrabsInit => GrabsParts
  <1> SUFFICES ASSUME GR!GrabsInit PROVE GrabsParts
    OBVIOUS
  <1>1. turns \in 0 .. MaxTurns
    BY DesktopAssumption DEF GR!GrabsInit, GR!GrabsAssumption
  <1>2. GR!NoGrab \in GR!Grab /\ GR!NoGrab.kind = "none"
    BY DEF GR!NoGrab, GR!Grab
  <1>3. wire \in [Dragged -> Seq(GR!Configure)] /\ \A w \in Dragged : Len(wire[w]) <= MaxConfigures
    BY DesktopAssumption DEF GR!GrabsInit, GR!GrabsAssumption
  <1> QED
    BY <1>1, <1>2, <1>3 DEF GR!GrabsInit, GrabsParts, GR!GrabsTypeOK, Resizing, AckFine

\* What a client has not acknowledged yet, when it acknowledges the i-th.
LEMMA LaterConfigures ==
    ASSUME NEW U, NEW s \in Seq(U), NEW i \in 1 .. Len(s)
    PROVE  /\ SubSeq(s, i + 1, Len(s)) \in Seq(U)
           /\ Len(SubSeq(s, i + 1, Len(s))) = Len(s) - i
           /\ \A k \in 1 .. Len(s) - i : SubSeq(s, i + 1, Len(s))[k] = s[k + i]
  OBVIOUS

\* A step that neither starts nor ends a resize, nor sends anything.
LEMMA CalmGrabs ==
    ASSUME GrabsParts, pointerGrab' \in GR!Grab, touchGrab' \in GR!Grab,
           pointerGrab' = pointerGrab \/ pointerGrab'.kind # "resize",
           touchGrab' = touchGrab \/ touchGrab'.kind # "resize",
           UNCHANGED <<resizeState, resizingSet, lastSent, wire, ackedResizing, shared>>,
           living' \subseteq living, inSpace' \subseteq Dragged, shown' \subseteq Dragged,
           covering' \subseteq Dragged, grabsLocked' \in BOOLEAN, crashed' = crashed,
           turns' \in 0 .. MaxTurns
    PROVE  GrabsParts'
  <1>1. GR!GrabsTypeOK'
    BY DEF GrabsParts, GR!GrabsTypeOK
  <1>2. Resizing(pointerGrab)' /\ Resizing(touchGrab)'
    BY DEF GrabsParts, Resizing
  <1>3. \A w \in living' \ shared' : AckFine(w)'
    BY DEF GrabsParts, AckFine
  <1> QED
    BY <1>1, <1>2, <1>3 DEF GrabsParts

\* A device that starts a resize while the other resizes the window is recorded.
LEMMA ResizeStarted ==
    ASSUME GrabsParts, NEW dev \in {"pointer", "touch"}, NEW w \in Dragged, NEW corner \in BOOLEAN,
           GR!StartResize(dev, w, corner)
    PROVE  GrabsParts'
  <1> DEFINE g == [kind |-> "resize", win |-> w, corner |-> corner]
  <1>1. g \in GR!Grab /\ g.kind = "resize" /\ g.win = w
    BY DEF GR!Grab
  <1>2. /\ resizeState' = [resizeState EXCEPT ![w] = "resizing"]
        /\ UNCHANGED <<inSpace, living, shown, covering, grabsLocked, turns, resizingSet,
                       lastSent, wire, ackedResizing, crashed>>
        /\ shared \subseteq shared' /\ shared' \subseteq shared \cup {w}
    BY DEF GR!StartResize, GR!place, GR!client
  <1>3. /\ resizeState' \in [Dragged -> {"not", "resizing", "finalAck", "commit"}]
        /\ resizeState'[w] = "resizing"
        /\ \A v \in Dragged \ {w} : resizeState'[v] = resizeState[v]
        /\ living \subseteq Dragged
    BY <1>2 DEF GrabsParts, GR!GrabsTypeOK
  <1> HIDE DEF g
  <1>4. \/ /\ dev = "pointer" /\ pointerGrab' = g /\ touchGrab' = touchGrab
           /\ touchGrab.kind = "resize" /\ touchGrab.win = w => w \in shared'
        \/ /\ dev = "touch" /\ touchGrab' = g /\ pointerGrab' = pointerGrab
           /\ pointerGrab.kind = "resize" /\ pointerGrab.win = w => w \in shared'
    BY DEF GR!StartResize, GR!SetGrab, GR!Other, GR!GrabOf, g
  <1>5. GR!GrabsTypeOK'
    BY <1>1, <1>2, <1>3, <1>4 DEF GrabsParts, GR!GrabsTypeOK
  <1>6. Resizing(pointerGrab)' /\ Resizing(touchGrab)'
    BY <1>1, <1>2, <1>3, <1>4 DEF GrabsParts, Resizing
  <1>7. pointerGrab'.kind = "resize" /\ touchGrab'.kind = "resize"
            /\ pointerGrab'.win = touchGrab'.win => pointerGrab'.win \in shared'
    BY <1>1, <1>4
  <1>8. \A v \in living' \ shared' : AckFine(v)'
    <2> SUFFICES ASSUME NEW v \in living' \ shared' PROVE AckFine(v)'
      OBVIOUS
    <2>1. CASE v = w
      BY <1>3, <2>1 DEF AckFine
    <2>2. CASE v # w
      <3>1. v \in living \ shared /\ v \in Dragged
        BY <1>2, <1>3
      <3>2. resizeState'[v] = resizeState[v]
        BY <1>3, <3>1, <2>2
      <3> QED
        BY <1>2, <3>1, <3>2 DEF AckFine, GrabsParts
    <2> QED
      BY <2>1, <2>2
  <1> QED
    BY <1>5, <1>6, <1>7, <1>8 DEF GrabsParts

\* What is sent after the button came up does not ask for a resize.
LEMMA ConfigureSent ==
    ASSUME GrabsParts, NEW w \in living, NEW cfg \in GR!Configure, GR!Send(w, cfg),
           cfg.late = (resizeState[w] = "finalAck"),
           w \notin shared /\ resizeState[w] \in {"finalAck", "commit"} => ~cfg.resizing,
           w \notin shared /\ resizeState[w] \in {"finalAck", "commit"} => resizingSet' = resizingSet,
           resizingSet' \subseteq resizingSet \cup {w},
           UNCHANGED <<pointerGrab, touchGrab, inSpace, living, shown, covering, grabsLocked, turns,
                       resizeState, crashed, shared>>
    PROVE  GrabsParts'
  <1>1. /\ Len(wire[w]) < MaxConfigures /\ w \in Dragged /\ living \subseteq Dragged
        /\ wire' = [wire EXCEPT ![w] = Append(@, cfg)]
        /\ lastSent' = IF cfg.resizing THEN lastSent \cup {w} ELSE lastSent \ {w}
        /\ ackedResizing' = ackedResizing
    BY DEF GR!Send, GrabsParts, GR!GrabsTypeOK
  <1>2. /\ wire[w] \in Seq(GR!Configure) /\ Len(wire[w]) \in Nat
        /\ wire \in [Dragged -> Seq(GR!Configure)]
    BY <1>1 DEF GrabsParts, GR!GrabsTypeOK
  <1> DEFINE new == Append(wire[w], cfg)
             n == Len(wire[w])
  <1>3. /\ new \in Seq(GR!Configure) /\ Len(new) = n + 1
        /\ \A i \in 1 .. n : new[i] = wire[w][i]
        /\ new[n + 1] = cfg
        /\ \A i \in 1 .. n + 1 : i \in 1 .. n \/ i = n + 1
    BY <1>2
  <1> HIDE DEF new
  <1>4. wire'[w] = new /\ \A v \in Dragged \ {w} : wire'[v] = wire[v]
    BY <1>1, <1>2 DEF new
  <1>5. wire' \in [Dragged -> Seq(GR!Configure)] /\ \A v \in Dragged : Len(wire'[v]) <= MaxConfigures
    <2>1. MaxConfigures \in Nat
      BY DesktopAssumption DEF GR!GrabsAssumption
    <2>2. wire' \in [Dragged -> Seq(GR!Configure)]
      BY <1>1, <1>2, <1>3 DEF new
    <2>3. \A v \in Dragged : Len(wire[v]) <= MaxConfigures
      BY DEF GrabsParts, GR!GrabsTypeOK
    <2> QED
      BY <1>1, <1>2, <1>3, <1>4, <2>1, <2>2, <2>3
  <1>6. GR!GrabsTypeOK'
    BY <1>1, <1>5 DEF GrabsParts, GR!GrabsTypeOK
  <1>7. Resizing(pointerGrab)' /\ Resizing(touchGrab)'
    BY DEF GrabsParts, Resizing
  <1>8. ASSUME NEW v \in living' \ shared' PROVE AckFine(v)'
    <2>1. v \in living \ shared /\ v \in Dragged /\ AckFine(v)
      BY <1>1 DEF GrabsParts
    <2>2. CASE v # w
      BY <1>1, <1>4, <2>1, <2>2 DEF AckFine
    <2>3. CASE v = w /\ resizeState[w] \in {"finalAck", "commit"}
      <3>1. ~cfg.resizing /\ w \notin resizingSet /\ resizingSet' = resizingSet
        BY <2>1, <2>3 DEF AckFine
      <3>2. CASE resizeState[w] = "finalAck"
        <4>1. \A i \in 1 .. n + 1 : new[i].late => ~new[i].resizing
          BY <1>2, <1>3, <2>1, <2>3, <3>1, <3>2 DEF AckFine
        <4>2. \A i, j \in 1 .. n + 1 : i < j /\ new[i].late => new[j].late
          <5> SUFFICES ASSUME NEW i \in 1 .. n + 1, NEW j \in 1 .. n + 1, i < j, new[i].late
                       PROVE  new[j].late
            OBVIOUS
          <5>1. CASE j = n + 1
            BY <1>3, <3>2, <5>1
          <5>2. CASE j \in 1 .. n
            <6>1. i \in 1 .. n
              BY <1>2, <5>2
            <6> QED
              BY <1>3, <2>1, <2>3, <3>2, <5>2, <6>1 DEF AckFine
          <5> QED
            BY <1>3, <5>1, <5>2
        <4>3. resizeState'[v] = "finalAck" /\ wire'[v] = new /\ v \notin resizingSet'
          BY <1>4, <2>3, <3>1, <3>2
        <4> QED
          BY <1>3, <4>1, <4>2, <4>3 DEF AckFine
      <3>3. CASE resizeState[w] = "commit"
        BY <1>1, <1>2, <1>3, <1>4, <2>1, <2>3, <3>1, <3>3 DEF AckFine
      <3> QED
        BY <2>3, <3>2, <3>3
    <2>4. CASE v = w /\ resizeState[w] \notin {"finalAck", "commit"}
      BY <2>4 DEF AckFine
    <2> QED
      BY <2>2, <2>3, <2>4
  <1> QED
    BY <1>6, <1>7, <1>8 DEF GrabsParts

\* The release of a resize: what it sends is late, what came before is not.
LEMMA ResizeEnded ==
    ASSUME GrabsParts, NEW dev \in {"pointer", "touch"}, NEW g, g = GR!GrabOf(dev),
           g.kind = "resize", g.win \in living, GR!SetGrab(dev, GR!NoGrab), GR!EndResize(g),
           crashed = "no",
           UNCHANGED <<inSpace, living, shown, covering, grabsLocked, turns, shared>>
    PROVE  GrabsParts'
  <1> DEFINE w == g.win
             n == Len(wire[w])
             new == wire'[w]
  <1>1. /\ w \in living /\ w \in Dragged /\ living \subseteq Dragged
        /\ g \in GR!Grab /\ Resizing(g)
    BY DEF GrabsParts, GR!GrabsTypeOK, GR!GrabOf
  <1>2. /\ wire[w] \in Seq(GR!Configure) /\ n \in Nat /\ n <= MaxConfigures
        /\ wire \in [Dragged -> Seq(GR!Configure)] /\ DOMAIN wire[w] = 1 .. n
        /\ \A v \in Dragged : Len(wire[v]) <= MaxConfigures
        /\ MaxConfigures \in Nat
    BY <1>1, DesktopAssumption DEF GrabsParts, GR!GrabsTypeOK, GR!GrabsAssumption
  <1> DEFINE old == GR!Retired(wire[w])
  <1>3. /\ old \in Seq(GR!Configure) /\ Len(old) = n
        /\ \A i \in 1 .. n : ~old[i].late
    <2>1. \A i \in 1 .. n : [wire[w][i] EXCEPT !.late = FALSE] \in GR!Configure
                            /\ ~[wire[w][i] EXCEPT !.late = FALSE].late
      <3>1. \A i \in 1 .. n : wire[w][i] \in GR!Configure
        BY <1>2
      <3> QED
        BY <3>1 DEF GR!Configure
    <2>2. old = [i \in 1 .. n |-> [wire[w][i] EXCEPT !.late = FALSE]]
      BY <1>2 DEF GR!Retired
    <2>3. old \in [1 .. n -> GR!Configure] /\ \A i \in 1 .. n : ~old[i].late
      BY <2>1, <2>2
    <2> HIDE DEF old, n
    <2> QED
      BY <1>2, <2>3
  <1> HIDE DEF w, old, n, new
  <1>4. /\ wire' = [wire EXCEPT ![w] = new] /\ new \in Seq(GR!Configure) /\ Len(new) <= MaxConfigures
        /\ \A i \in 1 .. Len(new) : new[i].late => i = Len(new) /\ ~new[i].resizing
        /\ lastSent' \subseteq lastSent
    <2> DEFINE last == [resizing |-> FALSE, late |-> TRUE]
    <2>1. CASE /\ n < MaxConfigures
               /\ wire' = [wire EXCEPT ![w] = Append(old, last)]
               /\ lastSent' = lastSent \ {w}
      <3>1. last \in GR!Configure /\ ~last.resizing
        BY DEF GR!Configure
      <3> HIDE DEF last
      <3>2. new = Append(old, last)
        BY <1>1, <1>2, <2>1 DEF new, w
      <3> QED
        BY <1>2, <1>3, <2>1, <3>1, <3>2
    <2>2. CASE wire' = [wire EXCEPT ![w] = old] /\ lastSent' = lastSent
      <3>1. new = old
        BY <1>1, <1>2, <2>2 DEF new, w
      <3> QED
        BY <1>2, <1>3, <2>2, <3>1
    <2> QED
      BY <2>1, <2>2 DEF GR!EndResize, w, old, n
  <1>5. /\ wire'[w] = new /\ \A v \in Dragged \ {w} : wire'[v] = wire[v]
        /\ wire' \in [Dragged -> Seq(GR!Configure)] /\ \A v \in Dragged : Len(wire'[v]) <= MaxConfigures
    BY <1>1, <1>2, <1>4 DEF w
  <1>6. /\ resizingSet' = resizingSet \ {w} /\ ackedResizing' = ackedResizing
        /\ crashed' \in {"no", "element_location", "resize_state"}
        /\ resizeState' = IF crashed' = "no" THEN [resizeState EXCEPT ![w] = "finalAck"]
                          ELSE resizeState
        /\ crashed' = "no" => resizeState[w] = "resizing"
    BY DEF GR!EndResize, w
  <1>7. GR!NoGrab \in GR!Grab /\ GR!NoGrab.kind = "none"
    BY DEF GR!NoGrab, GR!Grab
  <1>8. \/ pointerGrab' = GR!NoGrab /\ touchGrab' = touchGrab /\ dev = "pointer"
        \/ touchGrab' = GR!NoGrab /\ pointerGrab' = pointerGrab /\ dev = "touch"
    BY DEF GR!SetGrab
  <1>9. /\ resizeState' \in [Dragged -> {"not", "resizing", "finalAck", "commit"}]
        /\ \A v \in Dragged \ {w} : resizeState'[v] = resizeState[v]
        /\ resizeState'[w] \in {"finalAck", resizeState[w]}
    BY <1>1, <1>6 DEF GrabsParts, GR!GrabsTypeOK, w
  <1>10. GR!GrabsTypeOK'
    BY <1>4, <1>5, <1>6, <1>7, <1>8, <1>9 DEF GrabsParts, GR!GrabsTypeOK
  <1>11. Resizing(pointerGrab)' /\ Resizing(touchGrab)'
    <2>1. ASSUME NEW h, h.win \in living \ shared, Resizing(h), h.kind = "resize", h.win # w
          PROVE  resizeState'[h.win] = "resizing"
      BY <1>1, <1>9, <2>1 DEF Resizing
    <2>2. CASE dev = "pointer"
      <3>1. touchGrab.kind = "resize" /\ touchGrab.win \in living \ shared => touchGrab.win # w
        BY <2>2 DEF GrabsParts, GR!GrabOf, w
      <3> QED
        BY <1>7, <1>8, <2>1, <2>2, <3>1 DEF GrabsParts, Resizing
    <2>3. CASE dev = "touch"
      <3>1. pointerGrab.kind = "resize" /\ pointerGrab.win \in living \ shared => pointerGrab.win # w
        BY <2>3 DEF GrabsParts, GR!GrabOf, w
      <3> QED
        BY <1>7, <1>8, <2>1, <2>3, <3>1 DEF GrabsParts, Resizing
    <2> QED
      BY <2>2, <2>3
  <1>12. ASSUME NEW v \in living' \ shared' PROVE AckFine(v)'
    <2>1. v \in living \ shared /\ v \in Dragged /\ AckFine(v)
      BY <1>1 DEF GrabsParts
    <2>2. CASE v # w
      BY <1>5, <1>6, <1>9, <2>1, <2>2 DEF AckFine
    <2>3. CASE v = w
      <3>1. resizeState[w] = "resizing" /\ w \notin resizingSet'
        BY <1>1, <1>6, <2>1, <2>3 DEF Resizing, w
      <3>2. resizeState'[w] \in {"finalAck", "resizing"}
        BY <1>9, <3>1
      <3>3. Len(new) \in Nat
        BY <1>4
      <3>4. \A i, j \in 1 .. Len(new) : i < j /\ new[i].late => new[j].late
        BY <1>4, <3>3
      <3> QED
        BY <1>4, <1>5, <2>3, <3>1, <3>2, <3>4 DEF AckFine
    <2> QED
      BY <2>2, <2>3
  <1> QED
    BY <1>7, <1>8, <1>10, <1>11, <1>12 DEF GrabsParts

\* An acknowledgement of something late is the end of the resize.
LEMMA ConfigureAcknowledged ==
    ASSUME GrabsParts, NEW w \in Dragged, GR!Ack(w)
    PROVE  GrabsParts'
  <1>1. PICK i \in DOMAIN wire[w] :
            /\ wire' = [wire EXCEPT ![w] = SubSeq(@, i + 1, Len(@))]
            /\ ackedResizing' = IF wire[w][i].resizing THEN ackedResizing \cup {w}
                                ELSE ackedResizing \ {w}
            /\ resizeState' = [resizeState EXCEPT ![w] =
                    IF @ = "finalAck" /\ wire[w][i].late /\ w \in ackedResizing THEN "commit" ELSE @]
    BY Zenon DEF GR!Ack
  <1>2. /\ w \in living /\ living \subseteq Dragged
        /\ UNCHANGED <<pointerGrab, touchGrab, inSpace, living, shown, covering, grabsLocked,
                       turns, resizingSet, lastSent, crashed, shared>>
    BY DEF GR!Ack, GrabsParts, GR!GrabsTypeOK, GR!place
  <1> DEFINE s == wire[w]
             rest == SubSeq(s, i + 1, Len(s))
             n == Len(s) - i
             next == IF resizeState[w] = "finalAck" /\ s[i].late /\ w \in ackedResizing THEN "commit"
                     ELSE resizeState[w]
  <1>3. /\ s \in Seq(GR!Configure) /\ DOMAIN s = 1 .. Len(s) /\ i \in 1 .. Len(s)
        /\ wire \in [Dragged -> Seq(GR!Configure)] /\ Len(s) \in Nat
        /\ resizeState \in [Dragged -> {"not", "resizing", "finalAck", "commit"}]
        /\ MaxConfigures \in Nat
        /\ \A v \in Dragged : Len(wire[v]) <= MaxConfigures
    BY <1>2, DesktopAssumption DEF GrabsParts, GR!GrabsTypeOK, GR!GrabsAssumption
  <1>4. /\ rest \in Seq(GR!Configure) /\ Len(rest) = n
        /\ \A k \in 1 .. n : rest[k] = s[k + i] /\ k + i \in 1 .. Len(s) /\ i < k + i
    BY <1>3, LaterConfigures
  <1>5. wire' = [wire EXCEPT ![w] = rest] /\ resizeState' = [resizeState EXCEPT ![w] = next]
    BY <1>1
  <1> HIDE DEF s, rest, n, next
  <1>6. /\ wire'[w] = rest /\ \A v \in Dragged \ {w} : wire'[v] = wire[v]
        /\ wire' \in [Dragged -> Seq(GR!Configure)]
    BY <1>3, <1>4, <1>5
  <1>7. /\ resizeState'[w] = next /\ \A v \in Dragged \ {w} : resizeState'[v] = resizeState[v]
        /\ resizeState' \in [Dragged -> {"not", "resizing", "finalAck", "commit"}]
    BY <1>3, <1>5 DEF next
  <1>8. \A v \in Dragged : Len(wire'[v]) <= MaxConfigures
    <2>1. Len(rest) <= MaxConfigures
      BY <1>3, <1>4 DEF n, s
    <2> QED
      BY <1>3, <1>6, <2>1
  <1>9. ackedResizing' \subseteq Dragged
    BY <1>1 DEF GrabsParts, GR!GrabsTypeOK
  <1>10. GR!GrabsTypeOK'
    BY <1>2, <1>6, <1>7, <1>8, <1>9 DEF GrabsParts, GR!GrabsTypeOK
  <1>11. resizeState[w] = "resizing" => resizeState'[w] = "resizing"
    BY <1>7 DEF next
  <1>12. Resizing(pointerGrab)' /\ Resizing(touchGrab)'
    BY <1>2, <1>7, <1>11 DEF GrabsParts, Resizing
  <1>13. ASSUME NEW v \in living' \ shared' PROVE AckFine(v)'
    <2>1. v \in living \ shared /\ v \in Dragged /\ AckFine(v)
      BY <1>2 DEF GrabsParts
    <2>2. CASE v # w
      BY <1>1, <1>2, <1>6, <1>7, <2>1, <2>2 DEF AckFine
    <2>3. CASE v = w
      <3>1. resizeState[w] = "finalAck" =>
                /\ \A k \in 1 .. n : rest[k].late => ~rest[k].resizing
                /\ \A j, k \in 1 .. n : j < k /\ rest[j].late => rest[k].late
                /\ s[i].late => ~s[i].resizing /\ \A k \in 1 .. n : rest[k].late
        <4> SUFFICES ASSUME resizeState[w] = "finalAck"
                     PROVE  /\ \A k \in 1 .. n : rest[k].late => ~rest[k].resizing
                            /\ \A j, k \in 1 .. n : j < k /\ rest[j].late => rest[k].late
                            /\ s[i].late => ~s[i].resizing /\ \A k \in 1 .. n : rest[k].late
          OBVIOUS
        <4>1. /\ \A a, b \in 1 .. Len(s) : a < b /\ s[a].late => s[b].late
              /\ \A a \in 1 .. Len(s) : s[a].late => ~s[a].resizing
          BY <2>1, <2>3 DEF AckFine, s
        <4>2. n \in Nat /\ \A j, k \in 1 .. n : j < k => j + i < k + i
          BY <1>3 DEF n
        <4>3. \A k \in 1 .. n : rest[k].late => ~rest[k].resizing
          BY <1>4, <4>1
        <4>4. ASSUME NEW j \in 1 .. n, NEW k \in 1 .. n, j < k, rest[j].late
              PROVE  rest[k].late
          <5>1. /\ rest[j] = s[j + i] /\ j + i \in 1 .. Len(s)
                /\ rest[k] = s[k + i] /\ k + i \in 1 .. Len(s)
            BY <1>4
          <5>2. j + i < k + i /\ s[j + i].late
            BY <4>2, <4>4, <5>1
          <5> QED
            BY <4>1, <5>1, <5>2
        <4>5. s[i].late => ~s[i].resizing /\ \A k \in 1 .. n : rest[k].late
          <5>1. i \in 1 .. Len(s)
            BY <1>3 DEF s
          <5> QED
            BY <1>4, <4>1, <5>1
        <4> QED
          BY <4>3, <4>4, <4>5
      <3>2. resizeState[w] = "commit" =>
                /\ \A k \in 1 .. n : ~rest[k].resizing
                /\ ~s[i].resizing
        BY <1>3, <1>4, <2>1, <2>3 DEF AckFine, s
      <3>3. resizeState[w] \in {"finalAck", "commit"} => w \notin resizingSet'
        BY <1>2, <2>1, <2>3 DEF AckFine
      <3>4. CASE next = "commit"
        <4>1. /\ ~s[i].resizing /\ \A k \in 1 .. n : ~rest[k].resizing
              /\ resizeState[w] \in {"finalAck", "commit"}
          BY <3>1, <3>2, <3>4 DEF next
        <4>2. w \notin ackedResizing'
          BY <1>1, <4>1 DEF s
        <4> QED
          BY <1>4, <1>6, <1>7, <2>3, <3>3, <3>4, <4>1, <4>2 DEF AckFine
      <3>5. CASE next = "finalAck"
        <4>1. resizeState[w] = "finalAck"
          BY <3>5 DEF next
        <4> QED
          BY <1>4, <1>6, <1>7, <2>3, <3>1, <3>3, <3>5, <4>1 DEF AckFine
      <3>6. CASE next \notin {"commit", "finalAck"}
        BY <1>7, <2>3, <3>6 DEF AckFine
      <3> QED
        BY <3>4, <3>5, <3>6
    <2> QED
      BY <2>2, <2>3
  <1> QED
    BY <1>2, <1>10, <1>12, <1>13 DEF GrabsParts

\* One step per event, request, command and configure.
LEMMA GrabsStep ==
    ASSUME GrabsParts, GR!GrabsNext \/ UNCHANGED grabsVars
    PROVE  GrabsParts'
  <1>b. /\ pointerGrab \in GR!Grab /\ touchGrab \in GR!Grab
        /\ inSpace \subseteq Dragged /\ living \subseteq Dragged /\ shown \subseteq Dragged
        /\ covering \subseteq Dragged /\ grabsLocked \in BOOLEAN
        /\ turns \in 0 .. MaxTurns /\ resizingSet \subseteq Dragged
        /\ \A dev \in {"pointer", "touch"} : GR!GrabOf(dev) \in GR!Grab /\ Resizing(GR!GrabOf(dev))
    BY DEF GrabsParts, GR!GrabsTypeOK, GR!GrabOf
  <1> USE DEF GR!place, GR!client
  \* One device lets go or takes hold without a resize; the rest stays.
  <1>c. ASSUME NEW dev \in {"pointer", "touch"}, NEW g \in GR!Grab, g.kind # "resize",
               GR!SetGrab(dev, g),
               UNCHANGED <<inSpace, living, shown, covering, grabsLocked, turns, resizeState,
                           resizingSet, lastSent, wire, ackedResizing, crashed, shared>>
        PROVE  GrabsParts'
    BY <1>b, <1>c, CalmGrabs DEF GR!SetGrab
  <1>n. GR!NoGrab \in GR!Grab /\ GR!NoGrab.kind = "none"
    BY DEF GR!NoGrab, GR!Grab
  <1>m. ASSUME NEW dev \in {"pointer", "touch"}, NEW w \in Dragged, GR!StartMove(dev, w)
        PROVE  GrabsParts'
    <2> DEFINE g == [kind |-> "move", win |-> w, corner |-> FALSE]
    <2>1. g \in GR!Grab /\ g.kind # "resize"
      BY DEF GR!Grab
    <2>2. GR!SetGrab(dev, g)
      BY <1>m DEF GR!StartMove
    <2> HIDE DEF g
    <2> QED
      BY <1>c, <1>m, <2>1, <2>2 DEF GR!StartMove
  <1>1. ASSUME NEW w \in Dragged, NEW dev \in {"pointer", "touch"}, GR!Down(dev, w)
        PROVE  GrabsParts'
    <2> DEFINE g == [kind |-> "click", win |-> w, corner |-> FALSE]
    <2>1. g \in GR!Grab /\ g.kind # "resize"
      BY DEF GR!Grab
    <2>2. GR!SetGrab(dev, g)
      BY <1>1 DEF GR!Down
    <2> HIDE DEF g
    <2> QED
      BY <1>1, <1>c, <2>1, <2>2 DEF GR!Down
  <1>2. ASSUME NEW w \in Dragged, GR!BeginMouseAction(w) PROVE GrabsParts'
    BY <1>2, <1>m, ResizeStarted DEF GR!BeginMouseAction
  <1>3. ASSUME NEW dev \in {"pointer", "touch"}, GR!MoveRequest(dev) PROVE GrabsParts'
    BY <1>3, <1>b, <1>m DEF GR!MoveRequest
  <1>4. ASSUME NEW dev \in {"pointer", "touch"}, NEW corner \in BOOLEAN,
               GR!ResizeRequest(dev, corner)
        PROVE  GrabsParts'
    <2>1. GR!GrabOf(dev).win \in Dragged
      BY <1>4, <1>b DEF GR!ResizeRequest
    <2> QED
      BY <1>4, <2>1, ResizeStarted DEF GR!ResizeRequest
  <1>5. ASSUME NEW dev \in {"pointer", "touch"}, GR!Drag(dev) PROVE GrabsParts'
    <2> DEFINE g == GR!GrabOf(dev)
    <2>0. g \in GR!Grab /\ Resizing(g)
          /\ UNCHANGED <<living, shown, covering, grabsLocked, turns, resizeState, crashed, shared>>
      BY <1>5, <1>b DEF GR!Drag
    <2>1. CASE /\ g.kind = "move" /\ inSpace' = inSpace \cup {g.win}
               /\ UNCHANGED <<pointerGrab, touchGrab, resizingSet, lastSent, wire, ackedResizing>>
      <3>1. g.win \in Dragged
        BY <2>0, <2>1 DEF GR!Grab, GR!NoGrab
      <3> QED
        BY <1>b, <2>0, <2>1, <3>1, CalmGrabs
    <2>2. CASE /\ GR!SetGrab(dev, GR!NoGrab)
               /\ UNCHANGED <<inSpace, resizingSet, lastSent, wire, ackedResizing>>
      BY <1>c, <1>n, <2>0, <2>2
    <2>3. CASE /\ g.kind = "resize" /\ g.win \in living
               /\ resizingSet' = resizingSet \cup {g.win}
               /\ GR!Send(g.win, [resizing |-> TRUE, late |-> resizeState[g.win] = "finalAck"])
               /\ UNCHANGED <<pointerGrab, touchGrab, inSpace>>
      <3> DEFINE cfg == [resizing |-> TRUE, late |-> resizeState[g.win] = "finalAck"]
      <3>1. cfg \in GR!Configure /\ cfg.late = (resizeState[g.win] = "finalAck")
        BY DEF GR!Configure
      <3>2. g.win \notin shared => resizeState[g.win] = "resizing"
        BY <2>0, <2>3 DEF Resizing
      <3>3. GR!Send(g.win, cfg)
        BY <2>3
      <3> HIDE DEF cfg, g
      <3> QED
        BY <2>0, <2>3, <3>1, <3>2, <3>3, ConfigureSent
    <2> QED
      BY <1>5, <2>1, <2>2, <2>3 DEF GR!Drag
  <1>6. ASSUME NEW dev \in {"pointer", "touch"}, GR!Up(dev) PROVE GrabsParts'
    <2> DEFINE g == GR!GrabOf(dev)
    <2>0. /\ GR!SetGrab(dev, GR!NoGrab) /\ crashed = "no"
          /\ UNCHANGED <<inSpace, living, shown, covering, grabsLocked, turns, shared>>
          /\ IF g.kind = "resize" /\ g.win \in living THEN GR!EndResize(g)
             ELSE UNCHANGED <<resizeState, resizingSet, lastSent, wire, ackedResizing, crashed>>
      BY <1>6 DEF GR!Up, GR!Running
    <2>1. CASE g.kind = "resize" /\ g.win \in living
      <3>1. GR!EndResize(g) /\ g = GR!GrabOf(dev)
        BY <2>0, <2>1
      <3> HIDE DEF g
      <3> QED
        BY <2>0, <2>1, <3>1, ResizeEnded
    <2>2. CASE ~(g.kind = "resize" /\ g.win \in living)
      BY <1>c, <1>n, <2>0, <2>2
    <2> QED
      BY <2>1, <2>2
  <1>7. CASE GR!TouchCancel
    BY <1>7, <1>c, <1>n DEF GR!TouchCancel
  <1>8. ASSUME NEW w \in Dragged, GR!PolicyConfigure(w) PROVE GrabsParts'
    <2> DEFINE cfg == [resizing |-> w \in resizingSet, late |-> resizeState[w] = "finalAck"]
    <2>1. /\ cfg \in GR!Configure /\ cfg.late = (resizeState[w] = "finalAck")
          /\ cfg.resizing = (w \in resizingSet)
      BY DEF GR!Configure
    <2>2. GR!Send(w, cfg) /\ w \in living
      BY <1>8 DEF GR!PolicyConfigure
    <2> HIDE DEF cfg
    <2>3. w \notin shared /\ resizeState[w] \in {"finalAck", "commit"} => ~cfg.resizing
      BY <2>1, <2>2 DEF GrabsParts, AckFine
    <2>4. UNCHANGED <<pointerGrab, touchGrab, inSpace, living, shown, covering, grabsLocked, turns,
                      resizeState, resizingSet, crashed, shared>>
      BY <1>8 DEF GR!PolicyConfigure
    <2> QED
      BY <2>1, <2>2, <2>3, <2>4, ConfigureSent
  <1>9. ASSUME NEW w \in Dragged, GR!Ack(w) PROVE GrabsParts'
    BY <1>9, ConfigureAcknowledged
  <1>10. ASSUME NEW w \in Dragged, GR!Commit(w) PROVE GrabsParts'
    <2>1. /\ resizeState[w] = "commit" /\ resizeState' = [resizeState EXCEPT ![w] = "not"]
          /\ UNCHANGED <<pointerGrab, touchGrab, inSpace, living, shown, covering, grabsLocked, turns,
                         resizingSet, lastSent, wire, ackedResizing, crashed, shared>>
      BY <1>10 DEF GR!Commit
    <2>2. /\ resizeState' \in [Dragged -> {"not", "resizing", "finalAck", "commit"}]
          /\ \A v \in Dragged : resizeState'[v] = IF v = w THEN "not" ELSE resizeState[v]
      BY <2>1 DEF GrabsParts, GR!GrabsTypeOK
    <2>3. GR!GrabsTypeOK'
      BY <2>1, <2>2 DEF GrabsParts, GR!GrabsTypeOK
    <2>4. Resizing(pointerGrab)' /\ Resizing(touchGrab)'
      BY <1>b, <2>1, <2>2 DEF GrabsParts, Resizing
    <2>5. \A v \in living' \ shared' : AckFine(v)'
      BY <1>b, <2>1, <2>2 DEF GrabsParts, AckFine
    <2> QED
      BY <2>1, <2>3, <2>4, <2>5 DEF GrabsParts
  <1>11. ASSUME GR!Turn PROVE turns' \in 0 .. MaxTurns
    BY <1>11, <1>b, DesktopAssumption DEF GR!Turn, GR!GrabsAssumption
  <1>12. ASSUME NEW w \in Dragged, GR!SwitchTo(w) PROVE GrabsParts'
    BY <1>12, <1>b, <1>11, CalmGrabs DEF GR!SwitchTo, GR!SymDiff
  <1>13. ASSUME NEW w \in Dragged, GR!GoFullscreen(w) PROVE GrabsParts'
    BY <1>13, <1>b, <1>11, CalmGrabs DEF GR!GoFullscreen, GR!SymDiff
  <1>14. ASSUME NEW w \in Dragged, GR!CloseWindow(w) PROVE GrabsParts'
    BY <1>14, <1>b, <1>11, CalmGrabs DEF GR!CloseWindow
  <1>15. CASE GR!GrabsLock
    BY <1>15, <1>b, <1>n, <1>11, CalmGrabs DEF GR!GrabsLock
  <1>16. CASE GR!GrabsUnlock
    BY <1>16, <1>b, CalmGrabs DEF GR!GrabsUnlock
  <1>17. CASE GR!EndTurn
    BY <1>17, <1>b, CalmGrabs DEF GR!EndTurn
  <1>18. CASE UNCHANGED grabsVars
    BY <1>18, <1>b, CalmGrabs DEF grabsVars
  <1> QED
    BY <1>1, <1>2, <1>3, <1>4, <1>5, <1>6, <1>7, <1>8, <1>9, <1>10, <1>12, <1>13, <1>14, <1>15,
       <1>16, <1>17, <1>18
    DEF GR!GrabsNext

-----------------------------------------------------------------------------
(* Pointer and focus.                                                      *)

Surfaces == Windows \cup Layers

\* What the hit tests have in common: the first that hits decides.
LEMMA FirstHit ==
    ASSUME NEW a, NEW b, NEW c, NEW d
    PROVE  PT!FirstOf(<<a, b, c, d>>) =
                IF a # {} THEN CHOOSE t \in a : TRUE
                ELSE IF b # {} THEN CHOOSE t \in b : TRUE
                ELSE IF c # {} THEN CHOOSE t \in c : TRUE
                ELSE IF d # {} THEN CHOOSE t \in d : TRUE
                ELSE NoTarget
  <1> DEFINE hits == <<a, b, c, d>>
             found == {i \in DOMAIN hits : hits[i] # {}}
             first == CHOOSE i \in found : \A j \in found : i <= j
  <1>1. /\ DOMAIN hits = 1 .. 4
        /\ hits[1] = a /\ hits[2] = b /\ hits[3] = c /\ hits[4] = d
    OBVIOUS
  <1>2. PT!FirstOf(hits) = IF found = {} THEN NoTarget ELSE CHOOSE t \in hits[first] : TRUE
    BY DEF PT!FirstOf
  <1> HIDE DEF hits
  <1>3. found \subseteq 1 .. 4
    BY <1>1
  <1>4. ASSUME NEW k \in found, \A j \in found : k <= j PROVE first = k
    <2>1. \A i \in found : (\A j \in found : i <= j) => i = k
      BY <1>3, <1>4
    <2> QED
      BY <1>4, <2>1
  <1> HIDE DEF first
  <1>5. CASE a # {}
    BY <1>1, <1>2, <1>3, <1>4, <1>5 DEF hits
  <1>6. CASE a = {} /\ b # {}
    <2>1. 2 \in found /\ \A j \in found : 2 <= j
      BY <1>1, <1>6
    <2> QED
      BY <1>1, <1>2, <1>4, <1>6, <2>1 DEF hits
  <1>7. CASE a = {} /\ b = {} /\ c # {}
    <2>1. 3 \in found /\ \A j \in found : 3 <= j
      BY <1>1, <1>7
    <2> QED
      BY <1>1, <1>2, <1>4, <1>7, <2>1 DEF hits
  <1>8. CASE a = {} /\ b = {} /\ c = {} /\ d # {}
    <2>1. 4 \in found /\ \A j \in found : 4 <= j
      BY <1>1, <1>8
    <2> QED
      BY <1>1, <1>2, <1>4, <1>8, <2>1 DEF hits
  <1>9. CASE a = {} /\ b = {} /\ c = {} /\ d = {}
    <2>1. found = {}
      BY <1>1, <1>9
    <2> QED
      BY <1>2, <1>9, <2>1 DEF hits
  <1> QED
    BY <1>5, <1>6, <1>7, <1>8, <1>9

\* The sets the hit tests look in hold surfaces.
LEMMA HitsAreSurfaces ==
    ASSUME PT!PointingTypeOK, NEW p
    PROVE  /\ PT!FullAt(p) \subseteq Surfaces /\ PT!WindowAt(p) \subseteq Surfaces
           /\ PT!Upper(p) \subseteq Layers /\ PT!Lower(p) \subseteq Layers
  BY DesktopAssumption
  DEF PT!PointingTypeOK, PT!FullAt, PT!WindowAt, PT!Upper, PT!Lower, PT!LayerUnder, PT!LayerAt, Surfaces

\* Both hit tests yield targets.
LEMMA TargetTypes ==
    ASSUME PT!PointingTypeOK, NEW p
    PROVE  /\ PT!SurfaceUnder(p) \in PT!Targets
           /\ PT!KeyboardTarget(p) \in Surfaces \cup {NoTarget}
  <1> DEFINE u == PT!Upper(p)
             w == PT!WindowAt(p)
             l == PT!Lower(p)
             f == PT!FullAt(p)
  <1>1. f \subseteq Surfaces /\ w \subseteq Surfaces /\ u \subseteq Surfaces /\ l \subseteq Surfaces
    BY HitsAreSurfaces DEF Surfaces
  <1>2. PT!SurfaceUnder(p) \in {LockScreen, NoTarget, PT!FirstOf(<<f, u, w, l>>)}
    BY DEF PT!SurfaceUnder
  <1>3. PT!KeyboardTarget(p) = PT!FirstOf(<<f, u \cap TakesKeys, w, l \cap TakesKeys>>)
    BY DEF PT!KeyboardTarget
  <1> HIDE DEF u, w, l, f
  <1>4. PT!FirstOf(<<f, u, w, l>>) \in Surfaces \cup {NoTarget}
    BY <1>1, FirstHit
  <1>5. PT!FirstOf(<<f, u \cap TakesKeys, w, l \cap TakesKeys>>) \in Surfaces \cup {NoTarget}
    <2>1. u \cap TakesKeys \subseteq Surfaces /\ l \cap TakesKeys \subseteq Surfaces
      BY <1>1
    <2> QED
      BY <1>1, <2>1, FirstHit
  <1> QED
    BY <1>2, <1>3, <1>4, <1>5 DEF PT!Targets, Surfaces

\* The uppermost layer surface is one surface.
LEMMA OneLayer ==
    ASSUME NEW over, NEW under, NEW p
    PROVE  \/ PT!LayerUnder(over, under, p) = {}
           \/ \E l : PT!LayerUnder(over, under, p) = {l}
  BY DEF PT!LayerUnder

\* The two hit tests agree where the keyboard is not refused.
LEMMA TestsAgree ==
    ASSUME PT!PointingTypeOK, ~locked, NEW p,
           PT!SurfaceUnder(p) \notin {NoTarget} \cup (Layers \ TakesKeys)
    PROVE  PT!KeyboardTarget(p) = PT!SurfaceUnder(p) /\ PT!SurfaceUnder(p) # NoTarget
  <1> DEFINE u == PT!Upper(p)
             w == PT!WindowAt(p)
             l == PT!Lower(p)
             f == PT!FullAt(p)
  <1>1. u \subseteq Layers /\ l \subseteq Layers
    BY HitsAreSurfaces
  <1>2. PT!SurfaceUnder(p) = PT!FirstOf(<<f, u, w, l>>)
    BY DEF PT!SurfaceUnder
  <1>3. PT!KeyboardTarget(p) = PT!FirstOf(<<f, u \cap TakesKeys, w, l \cap TakesKeys>>)
    BY DEF PT!KeyboardTarget
  <1>4. (u = {} \/ \E x : u = {x}) /\ (l = {} \/ \E x : l = {x})
    BY OneLayer DEF PT!Upper, PT!Lower
  <1> HIDE DEF u, w, l, f
  <1>5. PT!SurfaceUnder(p) = IF f # {} THEN CHOOSE t \in f : TRUE
                             ELSE IF u # {} THEN CHOOSE t \in u : TRUE
                             ELSE IF w # {} THEN CHOOSE t \in w : TRUE
                             ELSE IF l # {} THEN CHOOSE t \in l : TRUE
                             ELSE NoTarget
    BY <1>2, FirstHit
  <1> DEFINE uk == u \cap TakesKeys
             lk == l \cap TakesKeys
  <1>6. PT!KeyboardTarget(p) = IF f # {} THEN CHOOSE t \in f : TRUE
                               ELSE IF uk # {} THEN CHOOSE t \in uk : TRUE
                               ELSE IF w # {} THEN CHOOSE t \in w : TRUE
                               ELSE IF lk # {} THEN CHOOSE t \in lk : TRUE
                               ELSE NoTarget
    <2> HIDE DEF uk, lk
    <2> QED
      BY <1>3, FirstHit DEF uk, lk
  <1>7. f = {} => uk = u
    <2>1. CASE u = {}
      BY <2>1
    <2>2. ASSUME f = {}, NEW x, u = {x} PROVE uk = u
      <3>1. (CHOOSE t \in u : TRUE) = x
        BY <2>2
      <3> QED
        BY <1>1, <1>5, <2>2, <3>1
    <2> QED
      BY <1>4, <2>1, <2>2
  <1>8. f = {} /\ u = {} /\ w = {} => lk = l
    <2>1. CASE l = {}
      BY <2>1
    <2>2. ASSUME f = {}, u = {}, w = {}, NEW x, l = {x} PROVE lk = l
      <3>1. (CHOOSE t \in l : TRUE) = x
        BY <2>2
      <3> QED
        BY <1>1, <1>5, <2>2, <3>1
    <2> QED
      BY <1>4, <2>1, <2>2
  <1> HIDE DEF uk, lk
  <1>9. PT!KeyboardTarget(p) = PT!SurfaceUnder(p)
    <2>1. CASE f # {}
      BY <1>5, <1>6, <2>1
    <2>2. CASE f = {} /\ u # {}
      BY <1>5, <1>6, <1>7, <2>2
    <2>3. CASE f = {} /\ u = {} /\ w # {}
      BY <1>5, <1>6, <1>7, <2>3
    <2>4. CASE f = {} /\ u = {} /\ w = {}
      BY <1>5, <1>6, <1>7, <1>8, <2>4
    <2> QED
      BY <2>1, <2>2, <2>3, <2>4
  <1> QED
    BY <1>9

\* The instance's operators are the library's.
LEMMA SameOperators ==
    ASSUME NEW s, NEW S
    PROVE  /\ PT!Retain(s, S) = Retain(s, S)
           /\ PT!ToSet(s) = ToSet(s)
           /\ PT!IsFiniteSet(S) <=> IsFiniteSet(S)
           /\ PT!Cardinality(S) = Cardinality(S)
  <1>1. PT!Retain(s, S) = Retain(s, S)
    BY DEF PT!Retain, Retain
  <1>2. PT!ToSet(s) = ToSet(s)
    BY DEF PT!ToSet, ToSet
  <1>3. (PT!IsFiniteSet(S) <=> IsFiniteSet(S)) /\ PT!Cardinality(S) = Cardinality(S)
    BY DEF PT!IsFiniteSet, IsFiniteSet, PT!Cardinality, Cardinality
  <1> QED
    BY <1>1, <1>2, <1>3

\* What is kept of the stack, and what is put on top of it.
LEMMA StackKept ==
    ASSUME PT!PointingTypeOK, NEW S
    PROVE  /\ Retain(stack, S) \in Seq(Windows) /\ PT!IsInjective(Retain(stack, S))
           /\ ToSet(Retain(stack, S)) \subseteq ToSet(stack) \cap S
  <1> DEFINE r == Retain(stack, S)
  <1>1. stack \in Seq(Windows) /\ Once(stack) /\ DOMAIN stack = 1 .. Len(stack)
    BY DEF PT!PointingTypeOK, PT!IsInjective, Once
  <1>2. r \in Seq(Windows) /\ Keeps(stack, S, Len(stack), r)
    BY <1>1, RetainFacts
  <1> HIDE DEF r
  <1>3. DOMAIN r = 1 .. Len(r)
    BY <1>2
  <1>4. PT!IsInjective(r)
    BY <1>1, <1>2, <1>3 DEF Keeps, Once, PT!IsInjective
  <1>5. ToSet(r) \subseteq ToSet(stack) \cap S
    BY <1>1, <1>2, <1>3 DEF Keeps, ToSet
  <1> QED
    BY <1>2, <1>4, <1>5 DEF r

LEMMA OnTop ==
    ASSUME NEW r \in Seq(Windows), PT!IsInjective(r), NEW t \in Seq(Windows), PT!IsInjective(t),
           ToSet(r) \cap ToSet(t) = {}
    PROVE  r \o t \in Seq(Windows) /\ PT!IsInjective(r \o t)
  <1> DEFINE c == r \o t
  <1>1. /\ c \in Seq(Windows) /\ Len(c) = Len(r) + Len(t) /\ Len(r) \in Nat /\ Len(t) \in Nat
        /\ DOMAIN c = 1 .. Len(r) + Len(t) /\ DOMAIN r = 1 .. Len(r) /\ DOMAIN t = 1 .. Len(t)
        /\ \A i \in 1 .. Len(r) : c[i] = r[i]
        /\ \A i \in 1 .. Len(t) : c[Len(r) + i] = t[i]
    OBVIOUS
  <1>2. \A i \in DOMAIN r, j \in DOMAIN t : r[i] # t[j]
    BY DEF ToSet
  <1>3. \A i \in DOMAIN c : \/ i \in DOMAIN r /\ c[i] = r[i]
                            \/ /\ i - Len(r) \in DOMAIN t /\ c[i] = t[i - Len(r)]
                               /\ i = Len(r) + (i - Len(r))
    <2> SUFFICES ASSUME NEW i \in DOMAIN c, i \notin DOMAIN r
                 PROVE  /\ i - Len(r) \in DOMAIN t /\ c[i] = t[i - Len(r)]
                        /\ i = Len(r) + (i - Len(r))
      BY <1>1
    <2>1. i - Len(r) \in DOMAIN t /\ i = Len(r) + (i - Len(r))
      BY <1>1
    <2> HIDE DEF c
    <2> QED
      BY <1>1, <2>1
  <1> HIDE DEF c
  <1>4. ASSUME NEW i \in DOMAIN c, NEW j \in DOMAIN c, c[i] = c[j] PROVE i = j
    <2>1. CASE i \in DOMAIN r /\ c[i] = r[i] /\ j \in DOMAIN r /\ c[j] = r[j]
      BY <1>4, <2>1 DEF PT!IsInjective
    <2>2. CASE /\ i - Len(r) \in DOMAIN t /\ c[i] = t[i - Len(r)] /\ i = Len(r) + (i - Len(r))
               /\ j - Len(r) \in DOMAIN t /\ c[j] = t[j - Len(r)] /\ j = Len(r) + (j - Len(r))
      <3>1. i - Len(r) = j - Len(r)
        BY <1>4, <2>2 DEF PT!IsInjective
      <3> QED
        BY <1>1, <2>2, <3>1
    <2> QED
      BY <1>2, <1>3, <1>4, <2>1, <2>2
  <1> QED
    BY <1>1, <1>4 DEF PT!IsInjective, c

\* Newly mapped windows in some order.
LEMMA NewWindows ==
    ASSUME NEW S \in SUBSET Windows
    PROVE  /\ PT!SetToSeq(S) \in Seq(Windows) /\ PT!IsInjective(PT!SetToSeq(S))
           /\ ToSet(PT!SetToSeq(S)) \subseteq S
  <1> DEFINE n == Cardinality(S)
             f == PT!SetToSeq(S)
  <1>1. IsFiniteSet(S)
    BY DesktopAssumption, SameOperators, FS_Subset DEF PT!PointingAssumption
  <1>2. n \in Nat /\ ExistsBijection(1 .. n, S)
    BY <1>1, FS_CardinalityType
  <1>3. \E g \in [1 .. n -> S] : PT!IsInjective(g)
    <2>1. PICK g \in [1 .. n -> S] : \A a, b \in 1 .. n : g[a] = g[b] => a = b
      BY <1>2 DEF ExistsBijection, Bijection, Injection, IsInjective
    <2>2. DOMAIN g = 1 .. n
      OBVIOUS
    <2>3. PT!IsInjective(g)
      BY <2>1, <2>2 DEF PT!IsInjective
    <2> QED
      BY <2>3
  <1>4. f = CHOOSE g \in [1 .. n -> S] : PT!IsInjective(g)
    BY SameOperators DEF PT!SetToSeq
  <1> HIDE DEF f, n
  <1>5. f \in [1 .. n -> S] /\ PT!IsInjective(f)
    BY <1>3, <1>4
  <1>6. f \in Seq(Windows)
    BY <1>2, <1>5
  <1>7. ToSet(f) \subseteq S
    BY <1>5 DEF ToSet
  <1> QED
    BY <1>5, <1>6, <1>7 DEF f

\* A press raises a window of the stack.
LEMMA RaisedType ==
    ASSUME PT!PointingTypeOK, NEW p, NEW grabbed
    PROVE  PT!Raised(p, grabbed) \in Seq(Windows) /\ PT!IsInjective(PT!Raised(p, grabbed))
  <1> DEFINE t == PT!KeyboardTarget(p)
             r == Retain(stack, Windows \ {t})
  <1>0. \/ PT!Raised(p, grabbed) = stack
        \/ t \in ToSet(stack) /\ PT!Raised(p, grabbed) = Append(r, t)
    BY SameOperators DEF PT!Raised
  <1>1. CASE PT!Raised(p, grabbed) = stack
    BY <1>1 DEF PT!PointingTypeOK
  <1>2. CASE t \in ToSet(stack) /\ PT!Raised(p, grabbed) = Append(r, t)
    <2>1. t \in Windows
      BY <1>2 DEF PT!PointingTypeOK, ToSet
    <2>2. /\ r \in Seq(Windows) /\ PT!IsInjective(r)
          /\ ToSet(r) \subseteq ToSet(stack) \cap (Windows \ {t})
      BY StackKept
    <2> HIDE DEF r, t
    <2>3. <<t>> \in Seq(Windows) /\ PT!IsInjective(<<t>>) /\ ToSet(<<t>>) = {t}
      BY <2>1 DEF PT!IsInjective, ToSet
    <2>4. Append(r, t) = r \o <<t>>
      BY <2>1, <2>2
    <2> QED
      BY <1>2, <2>2, <2>3, <2>4, OnTop
  <1> QED
    BY <1>0, <1>1, <1>2

LEMMA PointingStart == PT!PointingInit => PT!PointingInv
  <1> SUFFICES ASSUME PT!PointingInit PROVE PT!PointingInv
    OBVIOUS
  <1>1. stack \in Seq(Windows) /\ PT!IsInjective(stack)
    BY NewWindows DEF PT!PointingInit
  <1>2. shuffles \in 0 .. MaxShuffles
    BY DesktopAssumption DEF PT!PointingInit, PT!PointingAssumption
  <1> QED
    BY <1>1, <1>2 DEF PT!PointingInit, PT!PointingInv, PT!PointingTypeOK, PT!Targets

\* The types of the focus, wherever it goes.
LEMMA FocusTypes ==
    ASSUME PT!PointingTypeOK, NEW p, NEW grabbed
    PROVE  PT!FocusAfter(p, grabbed) \in PT!Targets
  BY TargetTypes DEF PT!FocusAfter, PT!Targets, Surfaces, PT!PointingTypeOK

LEMMA EnterTypes ==
    ASSUME PT!PointingTypeOK, NEW target \in PT!Targets, NEW base \in SUBSET Windows,
           PT!Enter(target, base)
    PROVE  /\ ptrFocus' \in PT!Targets /\ constrained' \subseteq Windows
           /\ grab = "none" => ptrFocus' = target
  BY DEF PT!Enter, PT!PointingTypeOK

\* The end of a turn, which looks for what has come under the pointer.
LEMMA TurnEnds ==
    ASSUME PT!PointingInv, PT!MaintainDesktop
    PROVE  PT!PointingInv'
  <1> DEFINE kept == Retain(stack, wanted)
             new == wanted \ ToSet(stack)
             under == PT!SurfaceUnder(loc)'
  <1>1. PT!PointingTypeOK
    BY DEF PT!PointingInv
  <1>2. /\ stack' = kept \o PT!SetToSeq(new)
        /\ full' = IF wanted \cap wantsFull = {} THEN NoTarget
                   ELSE CHOOSE w \in wanted \cap wantsFull : TRUE
        /\ UNCHANGED <<wanted, wantsFull, layers, locked, lockUp, onVt, follow, loc, grab,
                       touchFocus, shuffles>>
        /\ idled' = TRUE
    BY SameOperators DEF PT!MaintainDesktop, PT!session
  <1>3. stack' \in Seq(Windows) /\ PT!IsInjective(stack')
    <2>1. kept \in Seq(Windows) /\ PT!IsInjective(kept) /\ ToSet(kept) \subseteq ToSet(stack)
      BY <1>1, StackKept
    <2>2. new \in SUBSET Windows
      BY <1>1 DEF PT!PointingTypeOK
    <2>3. /\ PT!SetToSeq(new) \in Seq(Windows) /\ PT!IsInjective(PT!SetToSeq(new))
          /\ ToSet(PT!SetToSeq(new)) \subseteq new
      BY <2>2, NewWindows
    <2> DEFINE t == PT!SetToSeq(new)
    <2> HIDE DEF kept, t
    <2>4. ToSet(kept) \cap ToSet(t) = {}
      BY <2>1, <2>3 DEF t
    <2> QED
      BY <1>2, <2>1, <2>3, <2>4, OnTop DEF t
  <1>4. full' \in Windows \cup {NoTarget}
    BY <1>1, <1>2 DEF PT!PointingTypeOK
  <1>5. kbFocus' \in PT!Targets
    <2>1. kbFocus' \in {kbFocus, NoTarget, stack'[Len(stack')]}
          /\ (stack' = << >> => kbFocus' \in {kbFocus, NoTarget})
      BY DEF PT!MaintainDesktop
    <2>2. stack' # << >> => stack'[Len(stack')] \in Windows
      BY <1>3
    <2> QED
      BY <1>1, <2>1, <2>2 DEF PT!PointingTypeOK, PT!Targets
  <1>6. under \in PT!Targets
    <2>1. under \in {LockScreen, NoTarget, PT!FirstOf(<<PT!FullAt(loc), PT!Upper(loc),
                                            PT!WindowAt(loc), PT!Lower(loc)>>)'}
      BY DEF PT!SurfaceUnder
    <2> DEFINE a == PT!FullAt(loc)'
               b == PT!Upper(loc)'
               c == PT!WindowAt(loc)'
               d == PT!Lower(loc)'
    <2>2. a \subseteq Surfaces /\ b \subseteq Surfaces /\ c \subseteq Surfaces /\ d \subseteq Surfaces
      BY <1>1, <1>2, <1>4 DEF PT!PointingTypeOK, PT!FullAt, PT!WindowAt, PT!Upper, PT!Lower,
         PT!LayerUnder, PT!LayerAt, Surfaces
    <2>3. PT!FirstOf(<<PT!FullAt(loc), PT!Upper(loc), PT!WindowAt(loc), PT!Lower(loc)>>)'
              = PT!FirstOf(<<a, b, c, d>>)
      BY DEF PT!FirstOf
    <2> HIDE DEF a, b, c, d
    <2>4. PT!FirstOf(<<a, b, c, d>>) \in Surfaces \cup {NoTarget}
      BY <2>2, FirstHit
    <2> QED
      BY <2>1, <2>3, <2>4 DEF PT!Targets, Surfaces
  <1>7. IF onVt /\ ~locked /\ grab = "none" THEN PT!Enter(under, constrained)
        ELSE UNCHANGED <<ptrFocus, constrained>>
    BY DEF PT!MaintainDesktop, PT!Refocus
  <1> HIDE DEF under
  <1>8. /\ ptrFocus' \in PT!Targets /\ constrained' \subseteq Windows
        /\ onVt /\ ~locked /\ grab = "none" => ptrFocus' = under
    <2>1. constrained \in SUBSET Windows
      BY <1>1 DEF PT!PointingTypeOK
    <2> QED
      BY <1>1, <1>6, <1>7, <2>1, EnterTypes DEF PT!PointingTypeOK
  <1>9. PT!PointingTypeOK'
    BY <1>1, <1>2, <1>3, <1>4, <1>5, <1>8 DEF PT!PointingTypeOK
  <1>10. idled' /\ onVt' /\ ~locked' /\ grab' = "none" => ptrFocus' = PT!SurfaceUnder(loc)'
    BY <1>2, <1>8 DEF under
  <1> QED
    BY <1>9, <1>10 DEF PT!PointingInv

\* One step per event, request, command and turn.
LEMMA PointingStep ==
    ASSUME PT!PointingInv, PT!PointingNext \/ UNCHANGED pointingVars
    PROVE  PT!PointingInv'
  <1>1. PT!PointingTypeOK
    BY DEF PT!PointingInv
  <1>t. /\ \A p : PT!SurfaceUnder(p) \in PT!Targets
        /\ \A p, grabbed : PT!FocusAfter(p, grabbed) \in PT!Targets
        /\ \A p, grabbed : /\ PT!Raised(p, grabbed) \in Seq(Windows)
                           /\ PT!IsInjective(PT!Raised(p, grabbed))
        /\ NoTarget \in PT!Targets /\ LockScreen \in PT!Targets
    BY <1>1, TargetTypes, FocusTypes, RaisedType DEF PT!Targets
  <1> USE DEF PT!scene, PT!session
  <1>2. ASSUME PT!PointingTypeOK', idled' = FALSE PROVE PT!PointingInv'
    BY <1>2 DEF PT!PointingInv
  <1>3. ASSUME NEW p \in Spots, PT!PointerMove(p) PROVE PT!PointingInv'
    <2> DEFINE after == constrained \cup {w \in Windows : w = PT!SurfaceUnder(p) /\ Asks[w] # "none"}
    <2>1. after \in SUBSET Windows
      BY <1>1 DEF PT!PointingTypeOK
    <2>2. /\ idled' = FALSE
          /\ UNCHANGED <<wanted, wantsFull, stack, layers, full, locked, lockUp, onVt, follow, grab,
                         touchFocus, shuffles>>
          /\ \/ UNCHANGED <<loc, ptrFocus, kbFocus, constrained>>
             \/ loc' = p /\ PT!Enter(PT!SurfaceUnder(loc), after) /\ PT!Follow(p)
      BY <1>3 DEF PT!PointerMove
    <2> HIDE DEF after
    <2>3. CASE UNCHANGED <<loc, ptrFocus, kbFocus, constrained>>
      BY <1>1, <1>2, <2>2, <2>3 DEF PT!PointingTypeOK
    <2>4. CASE loc' = p /\ PT!Enter(PT!SurfaceUnder(loc), after) /\ PT!Follow(p)
      <3>1. ptrFocus' \in PT!Targets /\ constrained' \subseteq Windows
        BY <1>1, <1>t, <2>1, <2>4, EnterTypes
      <3>2. kbFocus' \in PT!Targets
        BY <1>1, <1>t, <2>4 DEF PT!Follow, PT!PointingTypeOK
      <3> QED
        BY <1>1, <1>2, <2>2, <2>4, <3>1, <3>2 DEF PT!PointingTypeOK
    <2> QED
      BY <2>2, <2>3, <2>4
  <1>4. ASSUME NEW p \in Spots, NEW tool \in BOOLEAN, PT!PointerMoveAbsolute(p, tool)
        PROVE  PT!PointingInv'
    <2>1. constrained \in SUBSET Windows
      BY <1>1 DEF PT!PointingTypeOK
    <2>2. ptrFocus' \in PT!Targets /\ constrained' \subseteq Windows
      BY <1>1, <1>4, <1>t, <2>1, EnterTypes DEF PT!PointerMoveAbsolute
    <2>3. kbFocus' \in PT!Targets
      BY <1>1, <1>4, <1>t DEF PT!PointerMoveAbsolute, PT!Follow, PT!PointingTypeOK
    <2> QED
      BY <1>1, <1>2, <1>4, <2>2, <2>3 DEF PT!PointerMoveAbsolute, PT!PointingTypeOK
  <1>5. ASSUME NEW modifier \in BOOLEAN, PT!ButtonPress(modifier) PROVE PT!PointingInv'
    <2>1. /\ kbFocus' \in PT!Targets /\ stack' \in Seq(Windows) /\ PT!IsInjective(stack')
          /\ idled' = FALSE
          /\ UNCHANGED <<wanted, wantsFull, layers, full, locked, lockUp, onVt, follow, loc,
                         touchFocus, shuffles>>
      BY <1>5, <1>t DEF PT!ButtonPress
    <2>2. /\ grab' \in {"none", "click", "action"} /\ ptrFocus' \in PT!Targets
          /\ constrained' \subseteq Windows
      BY <1>1, <1>5, <1>t DEF PT!ButtonPress, PT!PointingTypeOK
    <2> QED
      BY <1>1, <1>2, <2>1, <2>2 DEF PT!PointingTypeOK
  <1>6. CASE PT!ButtonRelease
    BY <1>1, <1>2, <1>6 DEF PT!ButtonRelease, PT!PointingTypeOK
  <1>7. CASE PT!TipDown
    BY <1>1, <1>2, <1>7, <1>t DEF PT!TipDown, PT!PointingTypeOK
  <1>8. ASSUME NEW p \in Spots, PT!TouchDown(p) PROVE PT!PointingInv'
    BY <1>1, <1>2, <1>8, <1>t DEF PT!TouchDown, PT!PointingTypeOK
  <1>9. CASE PT!TouchUp
    BY <1>1, <1>2, <1>9, <1>t DEF PT!TouchUp, PT!PointingTypeOK
  <1>s. ASSUME PT!Shuffled PROVE shuffles' \in 0 .. MaxShuffles /\ idled' = FALSE
    BY <1>1, <1>s, DesktopAssumption DEF PT!Shuffled, PT!PointingTypeOK, PT!PointingAssumption
  <1>10. ASSUME NEW w \in Windows, PT!SwitchWorkspace(w) PROVE PT!PointingInv'
    BY <1>1, <1>2, <1>10, <1>s DEF PT!SwitchWorkspace, PT!SymDiff, PT!Untouched, PT!PointingTypeOK
  <1>11. ASSUME NEW w \in Windows, PT!Fullscreen(w) PROVE PT!PointingInv'
    BY <1>1, <1>2, <1>11, <1>s DEF PT!Fullscreen, PT!Untouched, PT!PointingTypeOK
  <1>12. ASSUME NEW w \in Windows, PT!Unfullscreen(w) PROVE PT!PointingInv'
    BY <1>1, <1>2, <1>12, <1>s DEF PT!Unfullscreen, PT!Untouched, PT!PointingTypeOK
  <1>13. ASSUME NEW l \in Layers, PT!MapLayer(l) PROVE PT!PointingInv'
    BY <1>1, <1>2, <1>13, <1>s DEF PT!MapLayer, PT!SymDiff, PT!Untouched, PT!PointingTypeOK
  <1>14. CASE PT!PointingLock
    BY <1>1, <1>2, <1>14, <1>s, <1>t DEF PT!PointingLock, PT!PointingTypeOK
  <1>15. CASE PT!NewLockSurface
    BY <1>1, <1>2, <1>15, <1>t DEF PT!NewLockSurface, PT!PointingTypeOK
  <1>16. CASE PT!PointingUnlock
    BY <1>1, <1>2, <1>16 DEF PT!PointingUnlock, PT!PointingTypeOK
  <1>17. CASE PT!SwitchVt
    BY <1>1, <1>2, <1>17, <1>s DEF PT!SwitchVt, PT!PointingTypeOK
  <1>18. CASE PT!MaintainDesktop
    BY <1>18, TurnEnds
  <1>19. CASE UNCHANGED pointingVars
    <2>1. PT!PointingTypeOK'
      BY <1>1, <1>19 DEF pointingVars, PT!PointingTypeOK
    <2>2. PT!SurfaceUnder(loc)' = PT!SurfaceUnder(loc)
      BY <1>19 DEF pointingVars, PT!SurfaceUnder, PT!FirstOf, PT!FullAt, PT!Upper, PT!Lower, PT!WindowAt,
         PT!LayerUnder, PT!LayerAt
    <2> QED
      BY <1>19, <2>1, <2>2 DEF pointingVars, PT!PointingInv
  <1> QED
    BY <1>3, <1>4, <1>5, <1>6, <1>7, <1>8, <1>9, <1>10, <1>11, <1>12, <1>13, <1>14, <1>15, <1>16,
       <1>17, <1>18, <1>19
    DEF PT!PointingNext

\* A press that opens a turn finds the pointer's focus under it.
LEMMA ClickStepAgrees == PT!PointingInv => PT!ClickStep
  <1> SUFFICES ASSUME PT!PointingInv, NEW modifier \in BOOLEAN, PT!ButtonPress(modifier),
                      idled, onVt, ~locked, ~PT!Grabbed,
                      ptrFocus \notin {NoTarget} \cup (Layers \ TakesKeys)
               PROVE  kbFocus' = ptrFocus
    BY DEF PT!ClickStep
  <1>1. ptrFocus = PT!SurfaceUnder(loc) /\ PT!PointingTypeOK
    BY DEF PT!PointingInv, PT!Grabbed
  <1>2. PT!KeyboardTarget(loc) = ptrFocus /\ ptrFocus # NoTarget
    BY <1>1, TestsAgree
  <1>3. kbFocus' = PT!FocusAfter(loc, PT!Grabbed)
    BY DEF PT!ButtonPress
  <1> QED
    BY <1>2, <1>3 DEF PT!FocusAfter

-----------------------------------------------------------------------------
(* The workspaces.                                                         *)

\* A set of numbers has a least one.
LEMMA LeastOf ==
    ASSUME NEW S, S \subseteq Nat, S # {}
    PROVE  Min(S) \in S /\ \A y \in S : Min(S) <= y
  <1> DEFINE R == OpToRel(<, Nat)
  <1>1. IsWellFoundedOn(R, Nat)
    BY NatLessThanWellFounded
  <1>2. PICK x \in S : \A y \in S : ~ (<<y, x>> \in R)
    <2> HIDE DEF R
    <2> QED
      BY <1>1, WFMin, Zenon
  <1>3. ASSUME NEW y \in S PROVE x <= y
    <2>1. x \in Nat /\ y \in Nat
      OBVIOUS
    <2>2. y < x => <<y, x>> \in R
      BY <2>1 DEF OpToRel
    <2> HIDE DEF R
    <2> QED
      BY <1>2, <2>1, <2>2
  <1> QED
    BY <1>3 DEF Min

\* A set of positions has a last one.
LEMMA LastOf ==
    ASSUME NEW n \in Nat, NEW S, S \subseteq 1 .. n, S # {}
    PROVE  Max(S) \in S
  <1> DEFINE T == {n - x : x \in S}
  <1>1. \A x \in S : x \in Nat /\ n - x \in Nat
    OBVIOUS
  <1>2. T \subseteq Nat /\ T # {}
    BY <1>1
  <1>3. Min(T) \in T /\ \A y \in T : Min(T) <= y
    <2> HIDE DEF T
    <2> QED
      BY <1>2, LeastOf
  <1>4. PICK x \in S : Min(T) = n - x
    BY <1>3
  <1>5. ASSUME NEW y \in S PROVE x >= y
    <2>1. n - y \in T
      OBVIOUS
    <2>2. n - x <= n - y
      <3> HIDE DEF T
      <3> QED
        BY <1>3, <1>4, <2>1
    <2>3. x \in Nat /\ y \in Nat
      BY <1>1
    <2> HIDE DEF T
    <2> QED
      BY <2>2, <2>3
  <1> QED
    BY <1>5 DEF Max

\* A workspace for a new output: a free one, while there is one.
LEMMA FreeSpace ==
    ASSUME NEW sh, sh \in [DOMAIN sh -> 1 .. AllSpaces]
    PROVE  /\ FirstFree(sh) \in 1 .. AllSpaces
           /\ FirstFree(sh) \in Range(sh) => 1 .. AllSpaces \subseteq Range(sh)
  <1> DEFINE free == (1 .. AllSpaces) \ Range(sh)
  <1>1. AllSpaces \in Nat /\ 1 \in 1 .. AllSpaces /\ free \subseteq Nat
    BY WorkspaceAssumption
  <1>2. free # {} => Min(free) \in free
    <2> HIDE DEF free
    <2> QED
      BY <1>1, LeastOf
  <1> QED
    BY <1>1, <1>2 DEF FirstFree

\* As many outputs as there are workspaces show different ones.
LEMMA FewerThanSpaces ==
    ASSUME NEW sh, sh \in [DOMAIN sh -> 1 .. AllSpaces], IsFiniteSet(Outputs), Cardinality(Outputs) <= AllSpaces,
           DOMAIN sh \subseteq Outputs, DOMAIN sh # Outputs
    PROVE  ~ (1 .. AllSpaces \subseteq Range(sh))
  <1>1. AllSpaces \in Nat
    BY WorkspaceAssumption
  <1>2. IsFiniteSet(DOMAIN sh) /\ Cardinality(DOMAIN sh) < AllSpaces /\ Cardinality(DOMAIN sh) \in Nat
    <2>1. IsFiniteSet(DOMAIN sh) /\ Cardinality(DOMAIN sh) <= Cardinality(Outputs)
          /\ Cardinality(DOMAIN sh) # Cardinality(Outputs)
      BY FS_Subset
    <2>2. Cardinality(DOMAIN sh) \in Nat /\ Cardinality(Outputs) \in Nat
      BY <2>1, FS_CardinalityType
    <2> QED
      BY <1>1, <2>1, <2>2
  <1>3. sh \in Surjection(DOMAIN sh, Range(sh))
    BY DEF Surjection, Range
  <1>4. IsFiniteSet(Range(sh)) /\ Cardinality(Range(sh)) <= Cardinality(DOMAIN sh)
    BY <1>2, <1>3, FS_Surjection
  <1>5. Cardinality(1 .. AllSpaces) = AllSpaces
    BY <1>1, FS_Interval
  <1>6. 1 .. AllSpaces \subseteq Range(sh) => Cardinality(1 .. AllSpaces) <= Cardinality(Range(sh))
    BY <1>4, FS_Subset
  <1>7. Cardinality(Range(sh)) \in Nat
    BY <1>4, FS_CardinalityType
  <1> QED
    BY <1>1, <1>2, <1>4, <1>5, <1>6, <1>7

\* What the outputs show after one of them was given a workspace.
Shown(sh) == DOMAIN sh \subseteq OutNames /\ sh \in [DOMAIN sh -> 1 .. AllSpaces]
LEMMA ShowingLaw ==
    ASSUME NEW sh, Shown(sh), NEW out \in OutNames, NEW n \in 1 .. AllSpaces
    PROVE  /\ Shown(Showing(sh, out, n)) /\ DOMAIN Showing(sh, out, n) = DOMAIN sh \cup {out}
           /\ Showing(sh, out, n)[out] = n
           /\ \A o \in DOMAIN sh : o # out => Showing(sh, out, n)[o] = sh[o]
  BY DEF Shown, Showing

\* The equation of Assigned after n outputs.
AssignStep(sh, g, n) ==
    IF n = 0 THEN Restrict(sh, DOMAIN sh \cap Mapped) ELSE Given(g[n - 1], mapped[n])
LEMMA AssignedDef ==
    ASSUME Len(mapped) \in Nat, NEW sh
    PROVE  \E g : /\ g = [n \in 0 .. Len(mapped) |-> AssignStep(sh, g, n)]
                  /\ Assigned(sh) = g[Len(mapped)]
  <1> DEFINE Good(n, g) == g = [i \in 0 .. n |-> AssignStep(sh, g, i)]
             N == {n \in Nat : \E g : Good(n, g)}
  <1>1. 0 \in N
    <2> DEFINE g == [i \in 0 .. 0 |-> Restrict(sh, DOMAIN sh \cap Mapped)]
    <2>1. \A i \in 0 .. 0 : AssignStep(sh, g, i) = Restrict(sh, DOMAIN sh \cap Mapped)
      BY DEF AssignStep
    <2>2. Good(0, g)
      BY <2>1
    <2> HIDE DEF g, Good
    <2> QED
      BY <2>2
  <1>2. ASSUME NEW n \in Nat, n \in N PROVE n + 1 \in N
    <2>1. PICK g : Good(n, g)
      BY <1>2
    <2> DEFINE last == Given(g[n], mapped[n + 1])
               h == [i \in 0 .. n + 1 |-> IF i = n + 1 THEN last ELSE g[i]]
    <2>2. /\ \A i \in 0 .. n : h[i] = g[i] /\ i # n + 1 /\ i \in 0 .. n + 1
          /\ \A i \in 0 .. n + 1 : i = n + 1 \/ i \in 0 .. n
          /\ n + 1 # 0 /\ (n + 1) - 1 = n /\ n \in 0 .. n
      OBVIOUS
    <2>3. ASSUME NEW i \in 0 .. n + 1
          PROVE  (IF i = n + 1 THEN last ELSE g[i]) = AssignStep(sh, h, i)
      <3>1. CASE i = n + 1
        <4>1. h[n] = g[n]
          BY <2>2
        <4> HIDE DEF h
        <4> QED
          BY <2>2, <3>1, <4>1 DEF AssignStep
      <3>2. CASE i \in 0 .. n
        <4>1. g[i] = AssignStep(sh, g, i)
          BY <2>1, <3>2
        <4>2. i # 0 => i - 1 \in 0 .. n /\ h[i - 1] = g[i - 1]
          BY <3>2, <2>2
        <4> HIDE DEF h
        <4> QED
          BY <2>2, <3>2, <4>1, <4>2 DEF AssignStep
      <3> QED
        BY <2>2, <3>1, <3>2
    <2>4. h = [i \in 0 .. n + 1 |-> AssignStep(sh, h, i)]
      BY <2>3
    <2> HIDE DEF h
    <2> QED
      BY <2>4
  <1>3. Nat \subseteq N
    <2> HIDE DEF N
    <2> QED
      BY <1>1, <1>2, SetInduction
  <1>4. PICK g : Good(Len(mapped), g)
    BY <1>3
  <1> QED
    BY <1>4 DEF Assigned, AssignStep

\* Different outputs show different workspaces.
ShowApart(sh, D) == \A o, q \in D : sh[o] = sh[q] => o = q

\* One more output.
LEMMA GivenLaw ==
    ASSUME NEW s, Shown(s), NEW out \in Outputs
    PROVE  /\ Shown(Given(s, out)) /\ DOMAIN Given(s, out) = DOMAIN s \cup {out}
           /\ \A o \in DOMAIN s : Given(s, out)[o] = s[o]
           /\ IsFiniteSet(Outputs) /\ Cardinality(Outputs) <= AllSpaces /\ DOMAIN s \subseteq Outputs /\ ShowApart(s, DOMAIN s)
                => ShowApart(Given(s, out), DOMAIN Given(s, out))
  <1>1. out \in OutNames
    BY DEF OutNames
  <1>2. CASE out \in DOMAIN s
    <2>1. Given(s, out) = s /\ DOMAIN s = DOMAIN s \cup {out}
      BY <1>2 DEF Given
    <2> QED
      BY <2>1
  <1>3. CASE out \notin DOMAIN s
    <2> DEFINE n == FirstFree(s)
               t == Showing(s, out, n)
    <2>1. Given(s, out) = t
      BY <1>3 DEF Given
    <2>2. n \in 1 .. AllSpaces /\ (n \in Range(s) => 1 .. AllSpaces \subseteq Range(s))
      BY FreeSpace DEF Shown
    <2> HIDE DEF n
    <2>3. /\ Shown(t) /\ DOMAIN t = DOMAIN s \cup {out} /\ t[out] = n
          /\ \A o \in DOMAIN s : o # out => t[o] = s[o]
      BY <1>1, <2>2, ShowingLaw
    <2> HIDE DEF t
    <2>4. ASSUME IsFiniteSet(Outputs), Cardinality(Outputs) <= AllSpaces, DOMAIN s \subseteq Outputs, ShowApart(s, DOMAIN s)
          PROVE  ShowApart(t, DOMAIN t)
      <3>1. n \notin Range(s)
        BY <1>3, <2>2, <2>4, FewerThanSpaces DEF Shown
      <3>2. \A o \in DOMAIN s : s[o] # n
        BY <3>1 DEF Range
      <3> QED
        BY <1>3, <2>3, <2>4, <3>2 DEF ShowApart
    <2> QED
      BY <1>3, <2>1, <2>3, <2>4
  <1> QED
    BY <1>2, <1>3

\* Every output of the space shows a workspace, those that did the same one,
\* and none shows another's that was not shared before.
LEMMA AssignedFacts ==
    ASSUME mapped \in Seq(Outputs), NEW sh, Shown(sh)
    PROVE  /\ Shown(Assigned(sh)) /\ DOMAIN Assigned(sh) = Mapped
           /\ \A o \in DOMAIN sh \cap Mapped : Assigned(sh)[o] = sh[o]
           /\ IsFiniteSet(Outputs) /\ Cardinality(Outputs) <= AllSpaces /\ ShowApart(sh, DOMAIN sh \cap Mapped)
                => ShowApart(Assigned(sh), Mapped)
  <1> DEFINE L == Len(mapped)
             D == DOMAIN sh \cap Mapped
             Roomy == IsFiniteSet(Outputs) /\ Cardinality(Outputs) <= AllSpaces /\ ShowApart(sh, D)
  <1>0. /\ L \in Nat /\ \A i \in 1 .. L : mapped[i] \in Outputs
        /\ Mapped = {mapped[i] : i \in 1 .. L} /\ Mapped \subseteq Outputs
    BY DEF Mapped, Range
  <1>1. PICK g : (\A n \in 0 .. L : g[n] = AssignStep(sh, g, n)) /\ Assigned(sh) = g[L]
    <2>1. PICK g : g = [n \in 0 .. L |-> AssignStep(sh, g, n)] /\ Assigned(sh) = g[L]
      BY <1>0, AssignedDef
    <2>2. \A n \in 0 .. L : g[n] = AssignStep(sh, g, n)
      BY <2>1, Zenon
    <2> QED
      BY <2>1, <2>2
  <1> DEFINE Fact(n) == /\ Shown(g[n]) /\ DOMAIN g[n] = D \cup {mapped[i] : i \in 1 .. n}
                        /\ \A o \in D : g[n][o] = sh[o]
                        /\ Roomy => ShowApart(g[n], DOMAIN g[n])
             N == {n \in Nat : n <= L => Fact(n)}
  <1>2. 0 \in N
    <2>1. g[0] = [o \in D |-> sh[o]]
      BY <1>0, <1>1 DEF AssignStep, Restrict
    <2>2. {mapped[i] : i \in 1 .. 0} = {}
      OBVIOUS
    <2>3. Fact(0)
      BY <2>1, <2>2 DEF Shown, ShowApart
    <2> HIDE DEF Fact
    <2> QED
      BY <2>3
  <1>3. ASSUME NEW n \in Nat, n \in N PROVE n + 1 \in N
    <2> SUFFICES ASSUME n + 1 <= L PROVE Fact(n + 1)
      <3> HIDE DEF Fact
      <3> QED
        OBVIOUS
    <2>1. n + 1 \in 0 .. L /\ n + 1 \in 1 .. L /\ n + 1 # 0 /\ (n + 1) - 1 = n /\ n <= L
      BY <1>0
    <2>2. Fact(n)
      <3> HIDE DEF Fact
      <3> QED
        BY <1>3, <2>1
    <2>3. g[n + 1] = Given(g[n], mapped[n + 1])
      <3>1. g[n + 1] = AssignStep(sh, g, n + 1)
        BY <1>1, <2>1
      <3> QED
        BY <2>1, <3>1 DEF AssignStep
    <2>4. mapped[n + 1] \in Outputs
      BY <1>0, <2>1
    <2>5. {mapped[i] : i \in 1 .. n + 1} = {mapped[i] : i \in 1 .. n} \cup {mapped[n + 1]}
      <3>1. \A i \in 1 .. n + 1 : i \in 1 .. n \/ i = n + 1
        OBVIOUS
      <3>2. \A i \in 1 .. n : i \in 1 .. n + 1
        OBVIOUS
      <3>3. n + 1 \in 1 .. n + 1
        OBVIOUS
      <3> QED
        BY <3>1, <3>2, <3>3
    <2>6. DOMAIN g[n] \subseteq Outputs
      <3>1. \A i \in 1 .. n : i \in 1 .. L
        BY <1>0, <2>1
      <3> QED
        BY <1>0, <2>2, <3>1
    <2> DEFINE t == Given(g[n], mapped[n + 1])
    <2>7. /\ Shown(t) /\ DOMAIN t = DOMAIN g[n] \cup {mapped[n + 1]}
          /\ \A o \in DOMAIN g[n] : t[o] = g[n][o]
          /\ Roomy => ShowApart(t, DOMAIN t)
      BY <2>2, <2>4, <2>6, GivenLaw
    <2> HIDE DEF t
    <2>8. Fact(n + 1)
      <3>1. g[n + 1] = t
        BY <2>3 DEF t
      <3>2. \A o \in D : t[o] = sh[o]
        BY <2>2, <2>7
      <3>3. DOMAIN t = D \cup {mapped[i] : i \in 1 .. n + 1}
        BY <2>2, <2>5, <2>7
      <3> QED
        BY <2>7, <3>1, <3>2, <3>3
    <2> QED
      BY <2>8
  <1>4. Nat \subseteq N
    <2> HIDE DEF N
    <2> QED
      BY <1>2, <1>3, SetInduction
  <1>5. Fact(L)
    <2> HIDE DEF Fact
    <2> QED
      BY <1>0, <1>4
  <1> QED
    BY <1>0, <1>1, <1>5

\* The positions of the windows.
LEMMA WindowsTyped ==
    ASSUME WsTypeOK
    PROVE  /\ windows \in Seq(Managed) /\ DOMAIN windows = 1 .. Len(windows) /\ Len(windows) \in Nat
           /\ \A i \in DOMAIN windows : windows[i] \in Managed
           /\ mapped \in Seq(Outputs) /\ Len(mapped) \in Nat /\ Mapped \subseteq Outputs
           /\ mapped = <<>> <=> Mapped = {}
           /\ mapped # <<>> => mapped[1] \in Mapped
           /\ Shown(shows) /\ alive \subseteq WindowIds /\ placed \subseteq WindowIds
           /\ focus \in WindowIds \cup {Layer, NoFocus}
           /\ NoOutput \notin Mapped
  <1>1. windows \in Seq(Managed) /\ mapped \in Seq(Outputs)
    BY DEF WsTypeOK
  <1>2. /\ DOMAIN windows = 1 .. Len(windows) /\ Len(windows) \in Nat
        /\ \A i \in DOMAIN windows : windows[i] \in Managed
    BY <1>1
  <1>3. /\ Len(mapped) \in Nat /\ DOMAIN mapped = 1 .. Len(mapped) /\ \A i \in 1 .. Len(mapped) : mapped[i] \in Outputs
        /\ mapped = <<>> <=> Len(mapped) = 0
    BY <1>1
  <1>4. /\ Mapped \subseteq Outputs
        /\ mapped # <<>> => mapped[1] \in Mapped
        /\ mapped = <<>> <=> Mapped = {}
    <2>1. Mapped = {mapped[i] : i \in 1 .. Len(mapped)}
      BY <1>3 DEF Mapped, Range
    <2>2. mapped # <<>> => 1 \in 1 .. Len(mapped)
      BY <1>3
    <2>3. mapped = <<>> => 1 .. Len(mapped) = {}
      BY <1>3
    <2> QED
      BY <1>3, <2>1, <2>2, <2>3
  <1>5. Shown(shows) /\ alive \subseteq WindowIds /\ placed \subseteq WindowIds /\ focus \in WindowIds \cup {Layer, NoFocus}
    BY DEF WsTypeOK, Shown
  <1>6. NoOutput \notin Mapped
    BY <1>4, WorkspaceAssumption
  <1> QED
    BY <1>1, <1>2, <1>3, <1>4, <1>5, <1>6

\* The windows that live stay, in their order, each on an output there is.
LEMMA KeptFacts ==
    ASSUME WsTypeOK, Adopted
    PROVE  /\ Kept \in Seq(Managed) /\ Ids(Kept) = Ids(windows) \cap alive
           /\ \A i, j \in DOMAIN Kept : Kept[i].id = Kept[j].id => i = j
           /\ \A i \in DOMAIN Kept : Kept[i].out \in Mapped \/ (mapped = <<>> /\ Kept[i].out = NoOutput)
           /\ /\ Ids(windows) \subseteq alive
              /\ \A i \in DOMAIN windows : windows[i].out \in Mapped \/ (mapped = <<>> /\ windows[i].out = NoOutput)
              => Kept = windows
  <1> DEFINE S == {w \in Managed : w.id \in alive}
             live == Retain(windows, S)
             first == IF mapped = <<>> THEN NoOutput ELSE mapped[1]
             n == Len(windows)
             At(w) == IF w.out \in Mapped THEN w ELSE [w EXCEPT !.out = first]
  <1>1. /\ windows \in Seq(Managed) /\ DOMAIN windows = 1 .. n /\ n \in Nat
        /\ \A i \in 1 .. n : windows[i] \in Managed
        /\ \A i, j \in 1 .. n : windows[i].id = windows[j].id => i = j
    BY WindowsTyped DEF Adopted
  <1>2. live \in Seq(Managed) /\ Keeps(windows, S, n, live)
    <2> HIDE DEF S
    <2> QED
      BY <1>1, RetainFacts
  <1>3. /\ live \in Seq(Managed) /\ Len(live) \in Nat /\ DOMAIN live = 1 .. Len(live)
        /\ \A k \in 1 .. Len(live) : live[k] \in Managed /\ live[k] \in S /\ \E i \in 1 .. n : windows[i] = live[k]
        /\ \A i \in 1 .. n : windows[i] \in S => \E k \in 1 .. Len(live) : live[k] = windows[i]
        /\ \A k, l \in 1 .. Len(live) : live[k] = live[l] => k = l
    <2>1. Once(windows)
      BY <1>1 DEF Once
    <2> HIDE DEF S, live
    <2>2. live \in Seq(Managed) /\ Len(live) \in Nat /\ DOMAIN live = 1 .. Len(live)
      BY <1>2
    <2>3. \A k \in 1 .. Len(live) : live[k] \in Managed
      BY <2>2
    <2>4. /\ \A k \in 1 .. Len(live) : live[k] \in S /\ \E i \in 1 .. n : windows[i] = live[k]
          /\ \A i \in 1 .. n : windows[i] \in S => \E k \in 1 .. Len(live) : live[k] = windows[i]
          /\ Once(live)
      BY <1>2, <2>1 DEF Keeps
    <2> QED
      BY <2>2, <2>3, <2>4 DEF Once
  <1>4. first \in OutNames /\ (first \in Mapped \/ (mapped = <<>> /\ first = NoOutput))
    BY WindowsTyped DEF OutNames
  <1> HIDE DEF first
  <1>5. \A w \in Managed : At(w) \in Managed /\ At(w).id = w.id /\ (At(w).out \in Mapped \/ (mapped = <<>> /\ At(w).out = NoOutput))
    BY <1>4 DEF Managed
  <1>6. Kept = [i \in 1 .. Len(live) |-> At(live[i])]
    BY <1>3 DEF Kept, first
  <1>7. /\ Kept \in Seq(Managed) /\ DOMAIN Kept = 1 .. Len(live)
        /\ \A i \in 1 .. Len(live) : Kept[i] = At(live[i]) /\ Kept[i].id = live[i].id
                                     /\ (Kept[i].out \in Mapped \/ (mapped = <<>> /\ Kept[i].out = NoOutput))
    <2> HIDE DEF live, At
    <2> QED
      BY <1>3, <1>5, <1>6
  <1>8. \A w \in Managed : w \in S <=> w.id \in alive
    OBVIOUS
  <1>9. Ids(Kept) = Ids(windows) \cap alive
    <2> HIDE DEF S, live, At
    <2>1. ASSUME NEW k \in 1 .. Len(live) PROVE live[k].id \in alive /\ \E i \in 1 .. n : windows[i].id = live[k].id
      BY <1>3, <1>8
    <2>2. ASSUME NEW i \in 1 .. n, windows[i].id \in alive PROVE \E k \in 1 .. Len(live) : live[k].id = windows[i].id
      BY <1>1, <1>3, <1>8, <2>2
    <2>3. Ids(Kept) = {live[k].id : k \in 1 .. Len(live)}
      <3>1. Ids(Kept) = {Kept[k].id : k \in 1 .. Len(live)}
        BY <1>7 DEF Ids
      <3> QED
        BY <1>7, <3>1
    <2>4. Ids(windows) = {windows[i].id : i \in 1 .. n}
      BY <1>1 DEF Ids
    <2>5. ASSUME NEW x PROVE x \in Ids(Kept) <=> x \in Ids(windows) /\ x \in alive
      <3>1. x \in Ids(Kept) => x \in Ids(windows) /\ x \in alive
        BY <2>1, <2>3, <2>4
      <3>2. x \in Ids(windows) /\ x \in alive => x \in Ids(Kept)
        BY <2>2, <2>3, <2>4
      <3> QED
        BY <3>1, <3>2
    <2> QED
      BY <2>5
  <1>10. ASSUME NEW i \in 1 .. Len(live), NEW j \in 1 .. Len(live), live[i].id = live[j].id PROVE i = j
    <2> HIDE DEF S, live, At
    <2>1. live[i] = live[j]
      BY <1>1, <1>3, <1>10
    <2> QED
      BY <1>3, <2>1
  <1>11. ASSUME Ids(windows) \subseteq alive,
                \A i \in DOMAIN windows : windows[i].out \in Mapped \/ (mapped = <<>> /\ windows[i].out = NoOutput)
         PROVE  Kept = windows
    <2>1. \A i \in 1 .. n : windows[i] \in S
      BY <1>1, <1>8, <1>11 DEF Ids
    <2>2. live = windows
      <3> HIDE DEF S
      <3> QED
        BY <1>1, <2>1, RetainAll
    <2>3. ASSUME NEW i \in 1 .. n PROVE At(windows[i]) = windows[i]
      <3>1. CASE windows[i].out \in Mapped
        BY <3>1
      <3>2. CASE mapped = <<>> /\ windows[i].out = NoOutput
        <4>1. first = NoOutput
          BY <3>2 DEF first
        <4> QED
          BY <1>1, <3>2, <4>1 DEF Managed
      <3> QED
        BY <1>1, <1>11, <3>1, <3>2
    <2> HIDE DEF live, At
    <2> QED
      BY <1>1, <1>6, <2>2, <2>3
  <1> QED
    <2> HIDE DEF live, At
    <2> QED
      BY <1>7, <1>9, <1>10, <1>11

\* Each of the ids has one place.
LEMMA ByIdFacts ==
    ASSUME NEW ids, ids \subseteq Nat, IsFiniteSet(ids)
    PROVE  /\ ById(ids) \in Seq(ids) /\ DOMAIN ById(ids) = 1 .. Cardinality(ids) /\ Cardinality(ids) \in Nat
           /\ \A i \in 1 .. Cardinality(ids) : ById(ids)[i] \in ids
           /\ \A id \in ids : \E i \in 1 .. Cardinality(ids) : ById(ids)[i] = id
           /\ \A i, j \in 1 .. Cardinality(ids) : ById(ids)[i] = ById(ids)[j] => i = j
  <1> DEFINE n == Cardinality(ids)
             Below(x) == {other \in ids : other < x}
             rank(x) == Cardinality(Below(x))
             place == [x \in ids |-> rank(x) + 1]
  <1>1. n \in Nat /\ IsFiniteSet(1 .. n) /\ Cardinality(1 .. n) = n
    BY FS_CardinalityType, FS_Interval
  <1>2. ASSUME NEW x \in ids PROVE IsFiniteSet(Below(x)) /\ rank(x) \in Nat /\ rank(x) + 1 \in 1 .. n
    <2>1. Below(x) \subseteq ids /\ x \notin Below(x)
      OBVIOUS
    <2> HIDE DEF Below
    <2>2. IsFiniteSet(Below(x)) /\ rank(x) <= n /\ rank(x) # n
      BY <2>1, FS_Subset
    <2>3. rank(x) \in Nat
      BY <2>2, FS_CardinalityType
    <2> HIDE DEF rank
    <2> QED
      BY <1>1, <2>2, <2>3
  <1>3. ASSUME NEW x \in ids, NEW y \in ids, x < y PROVE rank(x) # rank(y)
    <2>0. /\ x \in Nat /\ y \in Nat /\ ~(x < x)
          /\ \A z \in ids : z < x => z < y
      <3>1. x \in Nat /\ y \in Nat /\ \A z \in ids : z \in Nat
        OBVIOUS
      <3> QED
        BY <1>3, <3>1
    <2>1. Below(x) \subseteq Below(y) /\ x \in Below(y) /\ x \notin Below(x)
      BY <1>3, <2>0
    <2>2. IsFiniteSet(Below(y))
      BY <1>2
    <2> HIDE DEF Below
    <2> QED
      BY <2>1, <2>2, FS_Subset
  <1>4. ASSUME NEW x \in ids, NEW y \in ids, rank(x) = rank(y) PROVE x = y
    <2>1. x \in Nat /\ y \in Nat
      OBVIOUS
    <2>2. x < y \/ y < x \/ x = y
      BY <2>1
    <2> HIDE DEF rank
    <2> QED
      BY <1>3, <1>4, <2>2
  <1> HIDE DEF rank, Below
  <1>5. place \in Injection(ids, 1 .. n)
    <2>1. place \in [ids -> 1 .. n]
      BY <1>2
    <2>2. ASSUME NEW x \in ids, NEW y \in ids, place[x] = place[y] PROVE x = y
      <3>1. rank(x) \in Nat /\ rank(y) \in Nat /\ rank(x) + 1 = rank(y) + 1
        BY <1>2, <2>2
      <3>2. rank(x) = rank(y)
        BY <3>1
      <3> QED
        BY <1>4, <3>2
    <2> HIDE DEF place
    <2> QED
      BY <2>1, <2>2 DEF Injection, IsInjective
  <1>6. place \in Surjection(ids, 1 .. n)
    <2> HIDE DEF place
    <2> QED
      BY <1>1, <1>5, FS_Injection
  <1>7. ASSUME NEW i \in 1 .. n PROVE \E x \in ids : rank(x) = i - 1
    <2>1. PICK x \in ids : place[x] = i
      <3> HIDE DEF place
      <3> QED
        BY <1>6 DEF Surjection
    <2>2. rank(x) \in Nat /\ rank(x) + 1 = i
      BY <1>2, <2>1
    <2> QED
      BY <1>1, <2>2
  <1>8. ById(ids) = [i \in 1 .. n |-> CHOOSE id \in ids : rank(id) = i - 1]
    BY DEF ById, rank, Below
  <1>9. \A i \in 1 .. n : ById(ids)[i] \in ids /\ rank(ById(ids)[i]) = i - 1
    BY <1>7, <1>8
  <1>10. DOMAIN ById(ids) = 1 .. n /\ ById(ids) \in [1 .. n -> ids]
    BY <1>8, <1>9
  <1>11. \A x \in ids : ById(ids)[rank(x) + 1] = x
    <2> TAKE x \in ids
    <2>0. rank(x) \in Nat /\ rank(x) + 1 \in 1 .. n
      BY <1>2
    <2>1. rank(x) + 1 \in 1 .. n /\ (rank(x) + 1) - 1 = rank(x)
      <3> HIDE DEF n
      <3> QED
        BY <2>0
    <2> QED
      BY <1>4, <1>9, <2>1
  <1>12. \A i, j \in 1 .. n : ById(ids)[i] = ById(ids)[j] => i = j
    <2> TAKE i, j \in 1 .. n
    <2>1. ById(ids)[i] = ById(ids)[j] => i - 1 = j - 1
      BY <1>9
    <2> QED
      BY <1>1, <2>1
  <1>13. ById(ids) \in Seq(ids)
    BY <1>1, <1>10
  <1>14. \A x \in ids : \E i \in 1 .. n : ById(ids)[i] = x
    BY <1>2, <1>11
  <1> QED
    BY <1>1, <1>9, <1>10, <1>12, <1>13, <1>14

\* The output of the focused window, or the one under the pointer.
LEMMA ActiveFacts ==
    ASSUME WsTypeOK, NEW wins \in Seq(Managed), NEW p \in Pointers,
           \A i, j \in DOMAIN wins : wins[i].id = wins[j].id => i = j
    PROVE  /\ \A id \in Ids(wins) : IndexOf(wins, id) \in DOMAIN wins /\ wins[IndexOf(wins, id)].id = id
           /\ ActiveOutput(wins, p) \in OutNames
           /\ (\A i \in DOMAIN wins : wins[i].out \in Mapped \/ (mapped = <<>> /\ wins[i].out = NoOutput))
                 => LET out == ActiveOutput(wins, p) IN out \in Mapped \/ (mapped = <<>> /\ out = NoOutput)
  <1>1. DOMAIN wins = 1 .. Len(wins) /\ Len(wins) \in Nat /\ \A i \in DOMAIN wins : wins[i] \in Managed
    OBVIOUS
  <1>2. ASSUME NEW id \in Ids(wins) PROVE IndexOf(wins, id) \in DOMAIN wins /\ wins[IndexOf(wins, id)].id = id
    <2>1. PICK i \in DOMAIN wins : wins[i].id = id
      BY DEF Ids
    <2>2. \A j \in 1 .. i - 1 : wins[j].id # id
      <3> TAKE j \in 1 .. i - 1
      <3>1. j \in DOMAIN wins /\ j # i
        BY <1>1
      <3> QED
        BY <2>1, <3>1
    <2> QED
      BY <2>1, <2>2 DEF IndexOf
  <1>3. p \in OutNames /\ (p \in Mapped \/ (mapped = <<>> /\ p = NoOutput))
    BY WindowsTyped DEF Pointers, OutNames
  <1>4. CASE focus \in Ids(wins)
    <2>1. ActiveOutput(wins, p) = wins[IndexOf(wins, focus)].out /\ IndexOf(wins, focus) \in DOMAIN wins
      BY <1>2, <1>4 DEF ActiveOutput
    <2>2. wins[IndexOf(wins, focus)].out \in OutNames
      BY <1>1, <2>1 DEF Managed
    <2> QED
      BY <1>2, <2>1, <2>2
  <1>5. CASE focus \notin Ids(wins)
    BY <1>2, <1>3, <1>5 DEF ActiveOutput
  <1> QED
    BY <1>4, <1>5

\* A window that is new.
LEMMA NewFacts ==
    ASSUME NEW id \in WindowIds, NEW sh, Shown(sh), NEW act \in OutNames
    PROVE  /\ NewWindow(id, sh, act) \in Managed /\ NewWindow(id, sh, act).id = id
           /\ NewWindow(id, sh, act).out \in Mapped \cup {act}
  <1>1. /\ RuleWs[id] \in 0 .. NumSpaces /\ RuleOut[id] \in OutNames
        /\ 1 \in 1 .. AllSpaces /\ (RuleWs[id] # 0 => RuleWs[id] \in 1 .. AllSpaces)
    BY WorkspaceAssumption DEF OutNames
  <1> DEFINE out == IF RuleOut[id] \in Mapped THEN RuleOut[id] ELSE act
             ws == IF RuleWs[id] # 0 THEN RuleWs[id] ELSE IF out \in DOMAIN sh THEN sh[out] ELSE 1
  <1>2. NewWindow(id, sh, act) = [id |-> id, ws |-> ws, out |-> out, scratch |-> FALSE]
    BY DEF NewWindow
  <1>3. out \in OutNames /\ out \in Mapped \cup {act}
    BY <1>1
  <1> HIDE DEF out
  <1>4. ws \in 1 .. AllSpaces
    BY <1>1 DEF Shown
  <1> HIDE DEF ws
  <1>5. FALSE \in BOOLEAN
    OBVIOUS
  <1> QED
    BY <1>2, <1>3, <1>4, <1>5 DEF Managed

\* Two sequences, one behind the other.
LEMMA JoinedLaw ==
    ASSUME NEW T, NEW a \in Seq(T), NEW b \in Seq(T)
    PROVE  /\ a \o b \in Seq(T) /\ DOMAIN (a \o b) = 1 .. Len(a) + Len(b)
           /\ \A i \in 1 .. Len(a) : i \in 1 .. Len(a) + Len(b) /\ (a \o b)[i] = a[i]
           /\ \A j \in 1 .. Len(b) : Len(a) + j \in 1 .. Len(a) + Len(b) /\ (a \o b)[Len(a) + j] = b[j]
           /\ \A i \in 1 .. Len(a) + Len(b) : i \in 1 .. Len(a) \/ \E j \in 1 .. Len(b) : i = Len(a) + j
  <1>1. Len(a) \in Nat /\ Len(b) \in Nat /\ a \o b \in Seq(T) /\ Len(a \o b) = Len(a) + Len(b)
        /\ DOMAIN (a \o b) = 1 .. Len(a \o b)
    OBVIOUS
  <1>2. ASSUME NEW i \in 1 .. Len(a) + Len(b), i \notin 1 .. Len(a) PROVE \E j \in 1 .. Len(b) : i = Len(a) + j
    <2>1. i - Len(a) \in 1 .. Len(b) /\ i = Len(a) + (i - Len(a))
      BY <1>1, <1>2
    <2> QED
      BY <2>1
  <1>3. \A i \in 1 .. Len(a) : i \in 1 .. Len(a) + Len(b) /\ (a \o b)[i] = a[i]
    BY <1>1
  <1>4. \A j \in 1 .. Len(b) : Len(a) + j \in 1 .. Len(a) + Len(b) /\ (a \o b)[Len(a) + j] = b[j]
    BY <1>1
  <1> QED
    BY <1>1, <1>2, <1>3, <1>4

\* The windows maintain_desktop leaves: those that live, each once.
Adoptees == (placed \cap alive) \ Ids(windows)
LEMMA AdoptedFacts ==
    ASSUME WsTypeOK, Adopted, NEW s, Shown(s), NEW act \in OutNames, act \in Mapped \/ (mapped = <<>> /\ act = NoOutput)
    PROVE  LET fresh == ById(Adoptees)
               all == Kept \o [i \in DOMAIN fresh |-> NewWindow(fresh[i], s, act)]
           IN  /\ all \in Seq(Managed) /\ Ids(all) = alive
               /\ \A i, j \in DOMAIN all : all[i].id = all[j].id => i = j
               /\ \A i \in DOMAIN all : all[i].out \in Mapped \/ (mapped = <<>> /\ all[i].out = NoOutput)
               /\ Adoptees = {} => all = Kept
  <1> DEFINE fresh == ById(Adoptees)
             new == [i \in DOMAIN fresh |-> NewWindow(fresh[i], s, act)]
             all == Kept \o new
             n == Cardinality(Adoptees)
             Here(w) == w.out \in Mapped \/ (mapped = <<>> /\ w.out = NoOutput)
  <1>1. Adoptees \subseteq WindowIds /\ Adoptees \subseteq Nat /\ IsFiniteSet(Adoptees)
    <2>1. Adoptees \subseteq WindowIds /\ Adoptees \subseteq placed /\ IsFiniteSet(placed)
      BY WindowsTyped DEF Adoptees, Adopted
    <2> QED
      BY <2>1, FS_Subset, WorkspaceAssumption
  <1>2. /\ DOMAIN fresh = 1 .. n /\ n \in Nat
        /\ \A i \in 1 .. n : fresh[i] \in Adoptees /\ fresh[i] \in WindowIds
        /\ \A id \in Adoptees : \E i \in 1 .. n : fresh[i] = id
        /\ \A i, j \in 1 .. n : fresh[i] = fresh[j] => i = j
    BY <1>1, ByIdFacts
  <1> HIDE DEF fresh, n
  <1>3. \A i \in 1 .. n : new[i] \in Managed /\ new[i].id = fresh[i] /\ Here(new[i])
    <2> TAKE i \in 1 .. n
    <2>1. new[i] = NewWindow(fresh[i], s, act) /\ fresh[i] \in WindowIds
      BY <1>2
    <2> HIDE DEF new
    <2> QED
      BY <2>1, NewFacts
  <1>4. new \in Seq(Managed) /\ Len(new) = n
    <2>1. new \in [1 .. n -> Managed]
      BY <1>2, <1>3
    <2> HIDE DEF new
    <2> QED
      BY <1>2, <2>1
  <1> DEFINE k == Len(Kept)
  <1>5. /\ Kept \in Seq(Managed) /\ DOMAIN Kept = 1 .. k /\ k \in Nat /\ Ids(Kept) = Ids(windows) \cap alive
        /\ \A i, j \in 1 .. k : Kept[i].id = Kept[j].id => i = j
        /\ \A i \in 1 .. k : Here(Kept[i])
    BY KeptFacts
  <1> HIDE DEF new, Here
  <1>6. /\ all \in Seq(Managed) /\ DOMAIN all = 1 .. k + n
        /\ \A i \in 1 .. k : i \in 1 .. k + n /\ all[i] = Kept[i]
        /\ \A j \in 1 .. n : k + j \in 1 .. k + n /\ all[k + j] = new[j]
        /\ \A i \in 1 .. k + n : i \in 1 .. k \/ \E j \in 1 .. n : i = k + j
    <2>1. /\ all \in Seq(Managed) /\ DOMAIN all = 1 .. k + Len(new)
          /\ \A i \in 1 .. k : i \in 1 .. k + Len(new) /\ all[i] = Kept[i]
          /\ \A j \in 1 .. Len(new) : k + j \in 1 .. k + Len(new) /\ all[k + j] = new[j]
          /\ \A i \in 1 .. k + Len(new) : i \in 1 .. k \/ \E j \in 1 .. Len(new) : i = k + j
      <3>1. Kept \in Seq(Managed) /\ new \in Seq(Managed)
        BY <1>4, <1>5
      <3> QED
        BY <3>1, JoinedLaw, Zenon
    <2> QED
      BY <1>4, <2>1
  <1> HIDE DEF all, k
  <1>7. Ids(Kept) = {Kept[i].id : i \in 1 .. k} /\ Ids(all) = {all[i].id : i \in 1 .. k + n}
    BY <1>5, <1>6 DEF Ids
  <1>8. ASSUME NEW x PROVE x \in Ids(all) <=> x \in Ids(Kept) \/ x \in Adoptees
    <2>1. x \in Ids(all) => x \in Ids(Kept) \/ x \in Adoptees
      BY <1>2, <1>3, <1>6, <1>7
    <2>2. x \in Ids(Kept) => x \in Ids(all)
      BY <1>6, <1>7
    <2>3. x \in Adoptees => x \in Ids(all)
      BY <1>2, <1>3, <1>6, <1>7
    <2> QED
      BY <2>1, <2>2, <2>3
  <1>9. Ids(all) = alive
    BY <1>5, <1>8 DEF Adoptees, Adopted
  <1>10. \A i \in 1 .. k, j \in 1 .. n : Kept[i].id # new[j].id
    BY <1>2, <1>3, <1>5, <1>7 DEF Adoptees
  <1>11. ASSUME NEW i \in 1 .. k + n, NEW j \in 1 .. k + n, all[i].id = all[j].id PROVE i = j
    <2>1. CASE i \in 1 .. k /\ j \in 1 .. k
      BY <1>5, <1>6, <1>11, <2>1
    <2>2. CASE i \notin 1 .. k /\ j \notin 1 .. k
      BY <1>2, <1>3, <1>6, <1>11, <2>2
    <2>3. CASE i \in 1 .. k <=> j \notin 1 .. k
      BY <1>6, <1>10, <1>11, <2>3
    <2> QED
      BY <2>1, <2>2, <2>3
  <1>12. \A i \in 1 .. k + n : Here(all[i])
    BY <1>3, <1>5, <1>6
  <1>13. Adoptees = {} => all = Kept
    <2> SUFFICES ASSUME Adoptees = {} PROVE all = Kept
      OBVIOUS
    <2>1. n = 0
      BY FS_EmptySet DEF n
    <2>2. new = <<>>
      BY <1>4, <2>1
    <2> QED
      BY <1>5, <2>2 DEF all
  <1> QED
    BY <1>6, <1>9, <1>11, <1>12, <1>13 DEF all, new, fresh, Here

\* The windows that are visible, by their ids.
OnScreen(wins, sh) == {wins[i].id : i \in {j \in DOMAIN wins : Visible(wins[j], sh)}}
LEMMA OnScreenLaw ==
    ASSUME NEW wins \in Seq(Managed), NEW sh, \A i, j \in DOMAIN wins : wins[i].id = wins[j].id => i = j
    PROVE  /\ OnScreen(wins, sh) \subseteq Ids(wins) /\ IsFiniteSet(OnScreen(wins, sh))
           /\ Ids(wins) \subseteq WindowIds
           /\ \A i \in DOMAIN wins : wins[i].scratch => wins[i].id \notin OnScreen(wins, sh)
           /\ Refocus(wins, OnScreen(wins, sh)) \in OnScreen(wins, sh) \cup {Layer, NoFocus}
           /\ Refocus(wins, OnScreen(wins, sh)) = NoFocus => OnScreen(wins, sh) = {}
  <1>1. DOMAIN wins = 1 .. Len(wins) /\ Len(wins) \in Nat /\ \A i \in DOMAIN wins : wins[i] \in Managed
    OBVIOUS
  <1>2. Ids(wins) \subseteq WindowIds
    BY <1>1 DEF Ids, Managed
  <1>3. OnScreen(wins, sh) \subseteq Ids(wins)
    BY DEF OnScreen, Ids
  <1>4. IsFiniteSet(Ids(wins))
    <2> DEFINE f == [i \in 1 .. Len(wins) |-> wins[i].id]
    <2>1. f \in Surjection(1 .. Len(wins), Ids(wins))
      <3>1. Ids(wins) = {wins[i].id : i \in 1 .. Len(wins)}
        BY <1>1 DEF Ids
      <3> QED
        BY <3>1 DEF Surjection
    <2>2. IsFiniteSet(1 .. Len(wins))
      BY <1>1, FS_Interval
    <2> HIDE DEF f
    <2> QED
      BY <2>1, <2>2, FS_Surjection
  <1>5. IsFiniteSet(OnScreen(wins, sh))
    BY <1>3, <1>4, FS_Subset
  <1>6. ASSUME NEW i \in DOMAIN wins, wins[i].scratch, wins[i].id \in OnScreen(wins, sh) PROVE FALSE
    <2>1. PICK j \in DOMAIN wins : Visible(wins[j], sh) /\ wins[j].id = wins[i].id
      BY <1>6 DEF OnScreen
    <2>2. j = i
      BY <2>1
    <2> QED
      BY <1>6, <2>1, <2>2 DEF Visible
  <1> DEFINE pl == OnScreen(wins, sh)
             on == {i \in DOMAIN wins : wins[i].id \in pl}
  <1>7. on # {} => Max(on) \in on
    <2> HIDE DEF pl
    <2>1. on \subseteq 1 .. Len(wins)
      BY <1>1
    <2> HIDE DEF on
    <2> QED
      BY <1>1, <2>1, LastOf
  <1>8. on = {} => pl = {}
    BY <1>3 DEF Ids
  <1> HIDE DEF pl
  <1>9. on # {} => wins[Max(on)].id \in pl
    BY <1>7
  <1>10. NoFocus \notin pl /\ Layer # NoFocus
    BY <1>2, <1>3, WorkspaceAssumption DEF pl
  <1>11. Refocus(wins, pl) = IF focus = Layer \/ (focus \in Ids(wins) /\ focus \in pl) THEN focus
                             ELSE IF on = {} THEN NoFocus ELSE wins[Max(on)].id
    BY DEF Refocus
  <1> HIDE DEF on
  <1>12. Refocus(wins, pl) \in pl \cup {Layer, NoFocus} /\ (Refocus(wins, pl) = NoFocus => pl = {})
    BY <1>8, <1>9, <1>10, <1>11
  <1> QED
    BY <1>2, <1>3, <1>5, <1>6, <1>12 DEF pl

\* What maintain_desktop leaves.
LEMMA MaintainedFacts ==
    ASSUME WsTypeOK, Adopted, NEW sh, Shown(sh), NEW p \in Pointers
    PROVE  LET m == Maintained(sh, p)
           IN  /\ m = [shows |-> Assigned(sh), windows |-> m.windows, placed |-> OnScreen(m.windows, m.shows),
                       focus |-> Refocus(m.windows, m.placed)]
               /\ m.windows \in Seq(Managed) /\ Ids(m.windows) = alive
               /\ \A i, j \in DOMAIN m.windows : m.windows[i].id = m.windows[j].id => i = j
               /\ \A i \in DOMAIN m.windows :
                      m.windows[i].out \in Mapped \/ (mapped = <<>> /\ m.windows[i].out = NoOutput)
               /\ Adoptees = {} => m.windows = Kept
  <1> DEFINE s == Assigned(sh)
             fresh == ById(Adoptees)
             act == ActiveOutput(Kept, p)
             all == Kept \o [i \in DOMAIN fresh |-> NewWindow(fresh[i], s, act)]
  <1>1. Maintained(sh, p) = [shows |-> s, windows |-> all, placed |-> OnScreen(all, s), focus |-> Refocus(all, OnScreen(all, s))]
    BY DEF Maintained, OnScreen, Adoptees
  <1>2. Shown(s)
    BY WindowsTyped, AssignedFacts
  <1>3. act \in OutNames /\ (act \in Mapped \/ (mapped = <<>> /\ act = NoOutput))
    BY KeptFacts, ActiveFacts
  <1> HIDE DEF s, act
  <1>4. /\ all \in Seq(Managed) /\ Ids(all) = alive
        /\ \A i, j \in DOMAIN all : all[i].id = all[j].id => i = j
        /\ \A i \in DOMAIN all : all[i].out \in Mapped \/ (mapped = <<>> /\ all[i].out = NoOutput)
        /\ Adoptees = {} => all = Kept
    BY <1>2, <1>3, AdoptedFacts
  <1> HIDE DEF all
  <1> QED
    BY <1>1, <1>4 DEF s

\* At rest there is nothing left to do.
LEMMA StableAtRest ==
    WsTypeOK /\ Adopted /\ AtRest /\ NoWindowLost /\ FocusShown => MaintainStable
  <1> SUFFICES ASSUME WsTypeOK, Adopted, AtRest, NoWindowLost, FocusShown, settled, NEW p \in Pointers
               PROVE  Maintained(shows, p)
                        = [shows |-> shows, windows |-> windows, placed |-> placed, focus |-> focus]
    BY DEF MaintainStable
  <1>1. /\ Shown(shows) /\ DOMAIN shows = Mapped /\ Ids(windows) = alive /\ placed = OnScreen(windows, shows)
        /\ \A i \in DOMAIN windows : windows[i].out \in Mapped \/ (mapped = <<>> /\ windows[i].out = NoOutput)
    BY WindowsTyped DEF AtRest, NoWindowLost, OnScreen
  <1>2. Assigned(shows) = shows
    <2>1. /\ Shown(Assigned(shows)) /\ DOMAIN Assigned(shows) = Mapped
          /\ \A o \in Mapped : Assigned(shows)[o] = shows[o]
      BY <1>1, WindowsTyped, AssignedFacts
    <2> QED
      BY <1>1, <2>1 DEF Shown
  <1>3. Kept = windows
    BY <1>1, KeptFacts
  <1>4. Adoptees = {}
    BY <1>1 DEF Adoptees
  <1> DEFINE m == Maintained(shows, p)
  <1>5. m.windows = windows /\ m = [shows |-> shows, windows |-> windows, placed |-> OnScreen(windows, shows),
                                    focus |-> Refocus(windows, OnScreen(windows, shows))]
    <2>1. /\ m = [shows |-> Assigned(shows), windows |-> m.windows, placed |-> OnScreen(m.windows, m.shows),
                  focus |-> Refocus(m.windows, m.placed)]
          /\ Adoptees = {} => m.windows = Kept
      BY <1>1, MaintainedFacts
    <2> HIDE DEF m
    <2>2. m.windows = windows
      BY <1>3, <1>4, <2>1
    <2>3. m.shows = shows
      BY <1>2, <2>1
    <2>4. m.placed = OnScreen(windows, shows)
      BY <2>1, <2>2, <2>3
    <2> QED
      BY <1>2, <2>1, <2>2, <2>3, <2>4
  <1>6. Refocus(windows, placed) = focus
    <2>1. focus \in placed \cup {Layer, NoFocus} /\ (focus = NoFocus => placed = {})
      BY DEF FocusShown
    <2>2. placed \subseteq Ids(windows)
      BY <1>1, WindowsTyped, OnScreenLaw DEF Adopted
    <2>3. CASE focus = NoFocus /\ focus # Layer
      BY <2>1, <2>3 DEF Refocus
    <2>4. CASE focus = Layer \/ focus \in placed
      BY <2>2, <2>4 DEF Refocus
    <2> QED
      BY <2>1, <2>3, <2>4
  <1> QED
    BY <1>1, <1>5, <1>6

\* The invariant is what it says without MaintainStable.
WsCore == WsTypeOK /\ Adopted /\ AtRest /\ NoWindowLost /\ FocusShown
LEMMA WsInvCore == WsInv <=> WsCore
  BY StableAtRest DEF WsInv, WsCore
LEMMA WsInvCoreNext == WsInv' <=> WsCore'
  BY WsInvCore, PTL

\* It holds at the start.
LEMMA WsStart == WsInit => WsInv
  <1> SUFFICES ASSUME WsInit PROVE WsCore
    BY WsInvCore
  <1>1. /\ mapped = <<>> /\ shows = <<>> /\ windows = <<>> /\ alive = {} /\ placed = {} /\ focus = NoFocus
        /\ settled = TRUE /\ panicked = "no"
    BY DEF WsInit
  <1>2. DOMAIN windows = {} /\ DOMAIN mapped = {} /\ DOMAIN shows = {} /\ windows \in Seq(Managed) /\ mapped \in Seq(Outputs)
        /\ shows \in [{} -> 1 .. AllSpaces]
    BY <1>1
  <1>3. IsInjective(mapped)
    BY <1>2 DEF IsInjective
  <1>4. WsTypeOK
    BY <1>1, <1>2, <1>3 DEF WsTypeOK
  <1>5. Adopted
    BY <1>1, <1>2, FS_EmptySet DEF Adopted, Ids
  <1>6. AtRest
    BY <1>1, <1>2 DEF AtRest, Mapped, Range
  <1>7. NoWindowLost /\ FocusShown
    BY <1>1, <1>2 DEF NoWindowLost, FocusShown, Ids
  <1> QED
    BY <1>4, <1>5, <1>6, <1>7 DEF WsCore

\* maintain_desktop establishes it from what the handlers preserve.
LEMMA MaintainStep ==
    ASSUME WsTypeOK, Adopted, Maintain
    PROVE  WsCore'
  <1>1. PICK p \in Pointers : /\ shows' = Maintained(shows, p).shows /\ windows' = Maintained(shows, p).windows
                              /\ placed' = Maintained(shows, p).placed /\ focus' = Maintained(shows, p).focus
    BY DEF Maintain
  <1>2. settled' = TRUE /\ panicked = "no" /\ UNCHANGED <<mapped, alive, panicked>>
    BY DEF Maintain
  <1>3. /\ shows' = Assigned(shows) /\ placed' = OnScreen(windows', shows') /\ focus' = Refocus(windows', placed')
        /\ windows' \in Seq(Managed) /\ Ids(windows') = alive
        /\ \A i, j \in DOMAIN windows' : windows'[i].id = windows'[j].id => i = j
        /\ \A i \in DOMAIN windows' : windows'[i].out \in Mapped \/ (mapped = <<>> /\ windows'[i].out = NoOutput)
    <2> DEFINE m == Maintained(shows, p)
    <2>1. /\ m = [shows |-> Assigned(shows), windows |-> m.windows, placed |-> OnScreen(m.windows, m.shows),
                  focus |-> Refocus(m.windows, m.placed)]
          /\ m.windows \in Seq(Managed) /\ Ids(m.windows) = alive
          /\ \A i, j \in DOMAIN m.windows : m.windows[i].id = m.windows[j].id => i = j
          /\ \A i \in DOMAIN m.windows : m.windows[i].out \in Mapped \/ (mapped = <<>> /\ m.windows[i].out = NoOutput)
      BY WindowsTyped, MaintainedFacts
    <2>2. shows' = m.shows /\ windows' = m.windows /\ placed' = m.placed /\ focus' = m.focus
      BY <1>1
    <2> HIDE DEF m
    <2>3. m.shows = Assigned(shows)
      BY <2>1
    <2>4. m.placed = OnScreen(m.windows, m.shows)
      BY <2>1
    <2>5. m.focus = Refocus(m.windows, m.placed)
      BY <2>1
    <2> QED
      BY <2>1, <2>2, <2>3, <2>4, <2>5
  <1>4. Shown(shows') /\ DOMAIN shows' = Mapped
    BY <1>3, WindowsTyped, AssignedFacts
  <1>5. /\ placed' \subseteq Ids(windows') /\ IsFiniteSet(placed') /\ Ids(windows') \subseteq WindowIds
        /\ \A i \in DOMAIN windows' : windows'[i].scratch => windows'[i].id \notin placed'
        /\ focus' \in placed' \cup {Layer, NoFocus} /\ (focus' = NoFocus => placed' = {})
    BY <1>3, OnScreenLaw
  <1>6. Mapped' = Mapped /\ Ids(windows)' = Ids(windows')
    BY <1>2 DEF Mapped, Ids
  <1>7. WsTypeOK'
    BY <1>2, <1>3, <1>4, <1>5 DEF WsTypeOK, Shown
  <1>8. Adopted'
    BY <1>2, <1>3, <1>5, <1>6 DEF Adopted
  <1>9. AtRest'
    <2>1. placed' = {windows'[i].id : i \in {j \in DOMAIN windows' : Visible(windows'[j], shows')}}
      BY <1>3 DEF OnScreen
    <2>2. (\A i \in DOMAIN windows : windows[i].out \in Mapped \/ (mapped = <<>> /\ windows[i].out = NoOutput))'
      BY <1>2, <1>3, <1>6
    <2>3. (DOMAIN shows = Mapped)'
      BY <1>4, <1>6
    <2> QED
      BY <2>1, <2>2, <2>3 DEF AtRest, Visible
  <1>10. NoWindowLost'
    BY <1>2, <1>3, <1>6 DEF NoWindowLost
  <1>11. FocusShown'
    BY <1>5 DEF FocusShown
  <1> QED
    BY <1>7, <1>8, <1>9, <1>10, <1>11 DEF WsCore

\* A handler leaves maintenance due, so only what it works from is in question.
LEMMA HandlerStep ==
    ASSUME settled' = FALSE, WsTypeOK', Adopted'
    PROVE  WsCore'
  BY DEF WsCore, AtRest, NoWindowLost, FocusShown

\* Handlers that change windows in place.
LEMMA InPlace ==
    ASSUME WsTypeOK, Adopted, settled' = FALSE, windows' \in Seq(Managed), DOMAIN windows' = DOMAIN windows,
           \A i \in DOMAIN windows : windows'[i].id = windows[i].id,
           Shown(shows'), UNCHANGED <<mapped, alive, placed, focus, panicked>>
    PROVE  WsCore'
  <1>1. WsTypeOK'
    BY DEF WsTypeOK, Shown
  <1>2. Ids(windows)' = Ids(windows)
    BY DEF Ids
  <1>3. Adopted'
    BY <1>2 DEF Adopted
  <1> QED
    BY <1>1, <1>3, HandlerStep

\* Outputs come and go.
LEMMA PlugStep ==
    ASSUME WsTypeOK, Adopted, NEW o \in Outputs, Plug(o)
    PROVE  WsCore'
  <1>1. /\ o \notin Mapped /\ mapped' = Append(mapped, o) /\ settled' = FALSE
        /\ UNCHANGED <<shows, windows, alive, placed, focus, panicked>>
    BY DEF Plug, Handler
  <1>2. mapped \in Seq(Outputs) /\ DOMAIN mapped = 1 .. Len(mapped) /\ Len(mapped) \in Nat
    BY WindowsTyped
  <1>3. mapped' \in Seq(Outputs) /\ IsInjective(mapped')
    <2>1. \A i \in 1 .. Len(mapped) : mapped[i] # o
      BY <1>1, <1>2 DEF Mapped, Range
    <2>2. \A i, j \in 1 .. Len(mapped) : mapped[i] = mapped[j] => i = j
      BY <1>2 DEF WsTypeOK, IsInjective
    <2>3. /\ mapped' \in Seq(Outputs) /\ DOMAIN mapped' = 1 .. Len(mapped) + 1
          /\ \A i \in 1 .. Len(mapped) : mapped'[i] = mapped[i]
          /\ mapped'[Len(mapped) + 1] = o
          /\ \A i \in 1 .. Len(mapped) + 1 : i \in 1 .. Len(mapped) \/ i = Len(mapped) + 1
      BY <1>1, <1>2
    <2> QED
      BY <2>1, <2>2, <2>3 DEF IsInjective
  <1>4. WsTypeOK'
    BY <1>1, <1>3 DEF WsTypeOK
  <1>5. Adopted'
    BY <1>1 DEF Adopted, Ids
  <1> QED
    BY <1>1, <1>4, <1>5, HandlerStep
LEMMA UnplugStep ==
    ASSUME WsTypeOK, Adopted, NEW o \in Outputs, Unplug(o)
    PROVE  WsCore'
  <1>1. /\ mapped' = Retain(mapped, Outputs \ {o}) /\ settled' = FALSE
        /\ UNCHANGED <<shows, windows, alive, placed, focus, panicked>>
    BY DEF Unplug, Handler
  <1>2. mapped \in Seq(Outputs) /\ DOMAIN mapped = 1 .. Len(mapped)
    BY WindowsTyped
  <1>3. mapped' \in Seq(Outputs) /\ Keeps(mapped, Outputs \ {o}, Len(mapped), mapped')
    BY <1>1, <1>2, RetainFacts
  <1>4. IsInjective(mapped')
    <2>1. Once(mapped)
      BY <1>2 DEF WsTypeOK, IsInjective, Once
    <2>2. Once(mapped')
      BY <1>3, <2>1 DEF Keeps
    <2>3. DOMAIN mapped' = 1 .. Len(mapped')
      BY <1>3
    <2> QED
      BY <2>2, <2>3 DEF Once, IsInjective
  <1>5. WsTypeOK'
    BY <1>1, <1>3, <1>4 DEF WsTypeOK
  <1>6. Adopted'
    BY <1>1 DEF Adopted, Ids
  <1> QED
    BY <1>1, <1>5, <1>6, HandlerStep

\* Clients come and go, and the focus moves.
LEMMA ClientsStep ==
    ASSUME WsTypeOK, Adopted,
           \/ \E id \in WindowIds : Open(id) \/ Close(id) \/ FullscreenRequest(id)
           \/ \E f \in WindowIds \cup {Layer, NoFocus} : FocusAt(f)
    PROVE  WsCore'
  <1>1. ASSUME NEW id \in WindowIds, Open(id) PROVE WsCore'
    <2>1. /\ alive' = alive \cup {id} /\ placed' = placed \cup {id} /\ settled' = FALSE
          /\ UNCHANGED <<mapped, shows, windows, focus, panicked>>
      BY <1>1 DEF Open, Handler
    <2>2. WsTypeOK'
      BY <2>1 DEF WsTypeOK
    <2>3. Adopted'
      BY <2>1, FS_AddElement DEF Adopted, Ids
    <2> QED
      BY <2>1, <2>2, <2>3, HandlerStep
  <1>2. ASSUME NEW id \in WindowIds, Close(id) PROVE WsCore'
    <2>1. alive' = alive \ {id} /\ settled' = FALSE /\ UNCHANGED <<mapped, shows, windows, placed, focus, panicked>>
      BY <1>2 DEF Close, Handler
    <2>2. WsTypeOK'
      BY <2>1 DEF WsTypeOK
    <2>3. Adopted'
      BY <2>1 DEF Adopted, Ids
    <2> QED
      BY <2>1, <2>2, <2>3, HandlerStep
  <1>3. ASSUME NEW id \in WindowIds, FullscreenRequest(id) PROVE WsCore'
    <2>1. /\ panicked' \in {"no", "index", "unwrap"} /\ settled' = FALSE
          /\ UNCHANGED <<mapped, shows, windows, alive, placed, focus>>
      BY <1>3 DEF FullscreenRequest, Handler
    <2>2. WsTypeOK'
      BY <2>1 DEF WsTypeOK
    <2>3. Adopted'
      BY <2>1 DEF Adopted, Ids
    <2> QED
      BY <2>1, <2>2, <2>3, HandlerStep
  <1>4. ASSUME NEW f \in WindowIds \cup {Layer, NoFocus}, FocusAt(f) PROVE WsCore'
    <2>1. focus' = f /\ settled' = FALSE /\ UNCHANGED <<mapped, shows, windows, alive, placed, panicked>>
      BY <1>4 DEF FocusAt, Handler
    <2>2. WsTypeOK'
      BY <2>1 DEF WsTypeOK
    <2>3. Adopted'
      BY <2>1 DEF Adopted, Ids
    <2> QED
      BY <2>1, <2>2, <2>3, HandlerStep
  <1> QED
    BY <1>1, <1>2, <1>3, <1>4

\* Changing the place of a window keeps it a window.
LEMMA MovedWindow ==
    ASSUME NEW w \in Managed, NEW n \in 1 .. AllSpaces, NEW out \in OutNames
    PROVE  /\ [w EXCEPT !.out = out] \in Managed /\ [w EXCEPT !.out = out].id = w.id
           /\ [w EXCEPT !.ws = n, !.out = out] \in Managed /\ [w EXCEPT !.ws = n, !.out = out].id = w.id
  BY DEF Managed

\* workspace N [OUTPUT].
LEMMA WorkspaceStep ==
    ASSUME WsTypeOK, Adopted, WorkspaceCmd
    PROVE  WsCore'
  <1>1. PICK n \in 1 .. NumSpaces, out \in {ActiveOutput(windows, p) : p \in Pointers} \cup DOMAIN shows : Workspace(n, out)
    BY DEF WorkspaceCmd
  <1>2. settled' = FALSE /\ SelectWorkspace(n, out) /\ UNCHANGED <<mapped, alive, placed, focus, panicked>>
    BY <1>1 DEF Workspace, Handler
  <1>3. out \in OutNames /\ n \in 1 .. AllSpaces
    <2>1. n \in 1 .. AllSpaces
      BY WorkspaceAssumption
    <2>2. \A p \in Pointers : ActiveOutput(windows, p) \in OutNames
      BY WindowsTyped, ActiveFacts DEF Adopted
    <2>3. DOMAIN shows \subseteq OutNames
      BY WindowsTyped DEF Shown
    <2> QED
      BY <2>1, <2>2, <2>3
  <1> DEFINE previous == IF out \in DOMAIN shows THEN shows[out] ELSE 1
             others == {o \in DOMAIN shows \ {out} : shows[o] = n}
             swap == others # {}
             sh(other) == IF swap THEN Showing(shows, other, previous) ELSE shows
             moved(w, other) == IF w.ws = n THEN [w EXCEPT !.out = out]
                                ELSE IF swap /\ w.ws = previous THEN [w EXCEPT !.out = other] ELSE w
  <1>4. PICK other \in IF swap THEN others ELSE {NoOutput} :
            /\ shows' = Showing(sh(other), out, n)
            /\ windows' = [i \in DOMAIN windows |-> moved(windows[i], other)]
    BY <1>2 DEF SelectWorkspace
  <1>5. other \in OutNames /\ previous \in 1 .. AllSpaces
    <2>1. DOMAIN shows \subseteq OutNames /\ NoOutput \in OutNames
      BY WindowsTyped DEF Shown, OutNames
    <2>2. previous \in 1 .. AllSpaces
      BY WindowsTyped, WorkspaceAssumption DEF Shown
    <2> QED
      BY <2>1, <2>2
  <1>6. Shown(shows')
    <2>1. Shown(sh(other))
      BY <1>5, WindowsTyped, ShowingLaw
    <2> QED
      BY <1>3, <1>4, <2>1, ShowingLaw
  <1>7. \A w \in Managed : moved(w, other) \in Managed /\ moved(w, other).id = w.id
    BY <1>3, <1>5, MovedWindow
  <1> HIDE DEF moved
  <1>8. /\ windows' \in Seq(Managed) /\ DOMAIN windows' = DOMAIN windows
        /\ \A i \in DOMAIN windows : windows'[i].id = windows[i].id
    BY <1>4, <1>7, WindowsTyped
  <1> QED
    BY <1>2, <1>6, <1>8, InPlace

\* One window is changed.
LEMMA OneChanged ==
    ASSUME WsTypeOK, Adopted, settled' = FALSE, NEW i \in DOMAIN windows, NEW w \in Managed, w.id = windows[i].id,
           windows' = [windows EXCEPT ![i] = w],
           UNCHANGED <<mapped, shows, alive, placed, focus, panicked>>
    PROVE  WsCore'
  <1>1. /\ windows \in Seq(Managed) /\ DOMAIN windows = 1 .. Len(windows)
        /\ \A j \in DOMAIN windows : windows[j] \in Managed
        /\ Shown(shows)
    BY WindowsTyped
  <1>2. /\ windows' \in Seq(Managed) /\ DOMAIN windows' = DOMAIN windows
        /\ \A j \in DOMAIN windows : windows'[j].id = windows[j].id
    BY <1>1
  <1> QED
    BY <1>1, <1>2, InPlace

\* send N and the scratchpad.
LEMMA SendStep ==
    ASSUME WsTypeOK, Adopted, NEW n \in 1 .. NumSpaces, Send(n)
    PROVE  WsCore'
  <1> DEFINE i == IndexOf(windows, focus)
             owners == {o \in DOMAIN shows : shows[o] = n}
  <1>1. /\ settled' = FALSE /\ focus \in Ids(windows) /\ UNCHANGED <<mapped, shows, alive, placed, focus, panicked>>
        /\ \E owner \in IF owners # {} THEN owners ELSE {windows[i].out} :
              windows' = [windows EXCEPT ![i] = [@ EXCEPT !.ws = n, !.out = owner]]
    BY DEF Send, Handler
  <1>2. i \in DOMAIN windows /\ windows[i] \in Managed /\ windows[i].out \in OutNames /\ n \in 1 .. AllSpaces
    <2>1. Pointers # {}
      BY WindowsTyped DEF Pointers
    <2>2. i \in DOMAIN windows
      BY <1>1, <2>1, WindowsTyped, ActiveFacts DEF Adopted
    <2> QED
      BY <2>2, WindowsTyped, WorkspaceAssumption DEF Managed
  <1> HIDE DEF i
  <1>3. PICK owner \in IF owners # {} THEN owners ELSE {windows[i].out} :
            windows' = [windows EXCEPT ![i] = [windows[i] EXCEPT !.ws = n, !.out = owner]]
    BY <1>1, <1>2
  <1>4. owner \in OutNames
    BY <1>2, WindowsTyped DEF Shown
  <1>5. PICK w \in Managed : w = windows[i]
    BY <1>2
  <1>6. [w EXCEPT !.ws = n, !.out = owner] \in Managed /\ [w EXCEPT !.ws = n, !.out = owner].id = w.id
    BY <1>2, <1>4, MovedWindow
  <1> QED
    BY <1>1, <1>2, <1>3, <1>5, <1>6, OneChanged
LEMMA ScratchSendStep ==
    ASSUME WsTypeOK, Adopted, ScratchSend
    PROVE  WsCore'
  <1> DEFINE i == IndexOf(windows, focus)
  <1>1. /\ settled' = FALSE /\ focus \in Ids(windows) /\ UNCHANGED <<mapped, shows, alive, placed, focus, panicked>>
        /\ windows' = [windows EXCEPT ![i] = [@ EXCEPT !.scratch = TRUE]]
    BY DEF ScratchSend, Handler
  <1>2. i \in DOMAIN windows /\ windows[i] \in Managed
    <2>1. Pointers # {}
      BY WindowsTyped DEF Pointers
    <2>2. i \in DOMAIN windows
      BY <1>1, <2>1, WindowsTyped, ActiveFacts DEF Adopted
    <2> QED
      BY <2>2, WindowsTyped
  <1> HIDE DEF i
  <1>3. windows' = [windows EXCEPT ![i] = [windows[i] EXCEPT !.scratch = TRUE]]
    BY <1>1, <1>2
  <1>4. [windows[i] EXCEPT !.scratch = TRUE] \in Managed /\ [windows[i] EXCEPT !.scratch = TRUE].id = windows[i].id
    <2>1. TRUE \in BOOLEAN
      OBVIOUS
    <2> QED
      BY <1>2, <2>1 DEF Managed
  <1> QED
    BY <1>1, <1>2, <1>3, <1>4, OneChanged
LEMMA ScratchShowStep ==
    ASSUME WsTypeOK, Adopted, ScratchShow
    PROVE  WsCore'
  <1>1. PICK i \in DOMAIN windows, out \in {ActiveOutput(windows, p) : p \in Pointers} :
            LET n == IF out \in DOMAIN shows THEN shows[out] ELSE 1
            IN  windows' = [windows EXCEPT ![i] = [@ EXCEPT !.scratch = FALSE, !.ws = n, !.out = out]]
    BY DEF ScratchShow
  <1>2. settled' = FALSE /\ UNCHANGED <<mapped, shows, alive, placed, focus, panicked>>
    BY DEF ScratchShow, Handler
  <1>3. out \in OutNames /\ windows[i] \in Managed
    BY WindowsTyped, ActiveFacts DEF Adopted
  <1> DEFINE n == IF out \in DOMAIN shows THEN shows[out] ELSE 1
  <1>4. n \in 1 .. AllSpaces
    BY WindowsTyped, WorkspaceAssumption DEF Shown
  <1>5. windows' = [windows EXCEPT ![i] = [windows[i] EXCEPT !.scratch = FALSE, !.ws = n, !.out = out]]
    BY <1>1
  <1> HIDE DEF n
  <1>6. PICK w \in Managed : w = windows[i]
    BY <1>3
  <1>7. /\ [w EXCEPT !.scratch = FALSE, !.ws = n, !.out = out] \in Managed
        /\ [w EXCEPT !.scratch = FALSE, !.ws = n, !.out = out].id = w.id
    <2>1. FALSE \in BOOLEAN
      OBVIOUS
    <2> QED
      BY <1>3, <1>4, <2>1 DEF Managed
  <1> QED
    BY <1>2, <1>5, <1>6, <1>7, OneChanged

\* focus ID maintains the desktop on its way.
LEMMA FocusIdStep ==
    ASSUME WsTypeOK, Adopted, NEW id \in WindowIds, FocusId(id)
    PROVE  WsCore'
  <1> DEFINE i == IndexOf(windows, id)
             sh == Showing(shows, windows[i].out, windows[i].ws)
  <1>1. id \in Ids(windows) /\ settled' = FALSE /\ UNCHANGED <<mapped, alive>>
    BY DEF FocusId
  <1>2. PICK p \in Pointers :
            LET m == Maintained(sh, p)
            IN  /\ shows' = m.shows /\ windows' = m.windows /\ placed' = m.placed
                /\ IF i <= Len(m.windows) THEN focus' = m.windows[i].id /\ UNCHANGED panicked
                   ELSE focus' = m.focus /\ panicked' = "index"
    BY DEF FocusId
  <1>3. i \in DOMAIN windows /\ i \in 1 .. Len(windows) /\ windows[i] \in Managed
    BY <1>1, WindowsTyped, ActiveFacts DEF Adopted
  <1> HIDE DEF i
  <1>4. Shown(sh)
    <2>1. windows[i].out \in OutNames /\ windows[i].ws \in 1 .. AllSpaces
      BY <1>3 DEF Managed
    <2> QED
      BY <2>1, WindowsTyped, ShowingLaw
  <1> HIDE DEF sh
  <1> DEFINE m == Maintained(sh, p)
  <1>5. /\ m = [shows |-> Assigned(sh), windows |-> m.windows, placed |-> OnScreen(m.windows, m.shows),
                focus |-> Refocus(m.windows, m.placed)]
        /\ m.windows \in Seq(Managed) /\ Ids(m.windows) = alive
        /\ \A j, k \in DOMAIN m.windows : m.windows[j].id = m.windows[k].id => j = k
    BY <1>4, MaintainedFacts
  <1>6. /\ shows' = m.shows /\ windows' = m.windows /\ placed' = m.placed
        /\ \/ i <= Len(m.windows) /\ focus' = m.windows[i].id /\ panicked' = panicked
           \/ focus' = m.focus /\ panicked' = "index"
    BY <1>2
  <1> HIDE DEF m
  <1>7. m.shows = Assigned(sh) /\ m.placed = OnScreen(m.windows, m.shows) /\ m.focus = Refocus(m.windows, m.placed)
    <2>1. m.shows = Assigned(sh)
      BY <1>5
    <2>2. m.placed = OnScreen(m.windows, m.shows)
      BY <1>5
    <2>3. m.focus = Refocus(m.windows, m.placed)
      BY <1>5
    <2> QED
      BY <2>1, <2>2, <2>3
  <1>8. Shown(m.shows) /\ DOMAIN m.shows = Mapped
    BY <1>4, <1>7, WindowsTyped, AssignedFacts
  <1>9. /\ m.placed \subseteq Ids(m.windows) /\ IsFiniteSet(m.placed) /\ Ids(m.windows) \subseteq WindowIds
        /\ m.focus \in m.placed \cup {Layer, NoFocus}
    BY <1>5, <1>7, OnScreenLaw
  <1>10. focus' \in WindowIds \cup {Layer, NoFocus}
    <2>1. CASE i <= Len(m.windows) /\ focus' = m.windows[i].id
      <3>1. PICK q \in Seq(Managed) : q = m.windows
        BY <1>5
      <3>2. i \in Nat /\ 1 <= i /\ i <= Len(q)
        BY <1>3, <2>1, <3>1, WindowsTyped
      <3>3. q[i] \in Managed
        BY <3>2
      <3> QED
        BY <2>1, <3>1, <3>3 DEF Managed
    <2> QED
      BY <1>6, <1>9, <2>1
  <1>11. WsTypeOK'
    BY <1>1, <1>5, <1>6, <1>8, <1>9, <1>10 DEF WsTypeOK, Shown
  <1>12. Adopted'
    <2>1. Ids(windows)' = alive'
      BY <1>1, <1>5, <1>6 DEF Ids
    <2> QED
      BY <1>5, <1>6, <1>9, <2>1 DEF Adopted
  <1> QED
    BY <1>1, <1>11, <1>12, HandlerStep

\* move DIRECTION exchanges two windows.
LEMMA MoveStep ==
    ASSUME WsTypeOK, Adopted, NEW j \in DOMAIN windows, Move(j)
    PROVE  WsCore'
  <1> DEFINE i == IndexOf(windows, focus)
  <1>1. /\ settled' = FALSE /\ focus \in Ids(windows) /\ windows[j].id # focus
        /\ windows' = [windows EXCEPT ![i] = windows[j], ![j] = windows[i]]
        /\ UNCHANGED <<mapped, shows, alive, placed, focus, panicked>>
    BY DEF Move, Handler
  <1>2. i \in DOMAIN windows /\ windows[i].id = focus
    <2>1. Pointers # {}
      BY WindowsTyped DEF Pointers
    <2> QED
      BY <1>1, <2>1, WindowsTyped, ActiveFacts DEF Adopted
  <1> HIDE DEF i
  <1> DEFINE at(k) == IF k = i THEN j ELSE IF k = j THEN i ELSE k
  <1>3. /\ DOMAIN windows' = DOMAIN windows /\ windows' \in Seq(Managed)
        /\ \A k \in DOMAIN windows : at(k) \in DOMAIN windows /\ windows'[k] = windows[at(k)] /\ at(at(k)) = k
    BY <1>1, <1>2, WindowsTyped
  <1>4. \A k, l \in DOMAIN windows : at(k) = at(l) => k = l
    OBVIOUS
  <1> HIDE DEF at
  <1>5. Ids(windows)' = Ids(windows)
    <2>1. ASSUME NEW x PROVE x \in Ids(windows') <=> x \in Ids(windows)
      BY <1>3 DEF Ids
    <2>2. Ids(windows') = Ids(windows)
      BY <2>1
    <2> QED
      BY <2>2 DEF Ids
  <1>6. \A k, l \in DOMAIN windows' : windows'[k].id = windows'[l].id => k = l
    BY <1>3, <1>4 DEF Adopted
  <1>7. WsTypeOK'
    BY <1>1, <1>3 DEF WsTypeOK
  <1>8. Adopted'
    BY <1>1, <1>5, <1>6 DEF Adopted
  <1> QED
    BY <1>1, <1>7, <1>8, HandlerStep

\* Every step keeps the invariant.
LEMMA WsStep == WsInv /\ [WsNext]_wsVars => WsInv'
  <1> SUFFICES ASSUME WsInv, [WsNext]_wsVars PROVE WsCore'
    BY WsInvCoreNext
  <1>0. WsTypeOK /\ Adopted /\ WsCore
    BY WsInvCore DEF WsInv
  <1>1. CASE UNCHANGED wsVars
    <2>1. WsTypeOK' /\ Adopted'
      BY <1>0, <1>1 DEF wsVars, WsTypeOK, Adopted, Ids
    <2>2. AtRest' /\ NoWindowLost' /\ FocusShown'
      BY <1>0, <1>1 DEF WsCore, wsVars, AtRest, NoWindowLost, FocusShown, Ids, Mapped, Visible
    <2> QED
      BY <2>1, <2>2 DEF WsCore
  <1>2. CASE WsNext
    BY <1>0, <1>2, MaintainStep, WorkspaceStep, ScratchSendStep, ScratchShowStep, PlugStep, UnplugStep, ClientsStep,
       FocusIdStep, SendStep, MoveStep DEF WsNext
  <1> QED
    BY <1>1, <1>2

\* Outputs that show what they did, of which no more are in the space.
LEMMA DistinctStays ==
    ASSUME Distinct, shows' = shows, DOMAIN shows \cap Mapped' \subseteq Mapped
    PROVE  Distinct'
  BY DEF Distinct

\* Selecting a workspace exchanges it with the output that shows it.
LEMMA ExchangeStep ==
    ASSUME WsTypeOK, Adopted, Distinct, OutputsSeen, WorkspaceCmd
    PROVE  Distinct'
  <1>1. PICK n \in 1 .. NumSpaces, out \in {ActiveOutput(windows, p) : p \in Pointers} \cup DOMAIN shows : Workspace(n, out)
    BY DEF WorkspaceCmd
  <1>2. SelectWorkspace(n, out) /\ Mapped' = Mapped /\ DOMAIN shows = Mapped
    BY <1>1 DEF Workspace, Mapped, OutputsSeen
  <1>3. out \in Mapped \/ Mapped = {}
    <2>1. \A i \in DOMAIN windows : windows[i].out \in Mapped \/ (mapped = <<>> /\ windows[i].out = NoOutput)
      BY DEF OutputsSeen
    <2>2. \A p \in Pointers : ActiveOutput(windows, p) \in Mapped \/ mapped = <<>>
      BY <2>1, WindowsTyped, ActiveFacts DEF Adopted
    <2> QED
      BY <1>2, <2>2, WindowsTyped
  <1>4. CASE Mapped = {}
    BY <1>2, <1>4 DEF Distinct
  <1>5. CASE out \in Mapped
    <2> DEFINE others == {o \in DOMAIN shows \ {out} : shows[o] = n}
               swap == others # {}
               sh(other) == IF swap THEN Showing(shows, other, shows[out]) ELSE shows
    <2>1. PICK other \in IF swap THEN others ELSE {NoOutput} : shows' = Showing(sh(other), out, n)
      BY <1>2, <1>5 DEF SelectWorkspace
    <2>2. \A o, q \in Mapped : shows[o] = shows[q] => o = q
      BY <1>2 DEF Distinct
    <2>3. CASE swap
      <3>1. other \in Mapped /\ other # out /\ shows[other] = n
        BY <1>2, <2>1, <2>3
      <3>2. DOMAIN shows' = Mapped
        BY <1>2, <1>5, <2>1, <2>3, <3>1 DEF Showing
      <3>3. \A o \in Mapped : shows'[o] = IF o = out THEN shows[other] ELSE IF o = other THEN shows[out] ELSE shows[o]
        BY <1>2, <1>5, <2>1, <2>3, <3>1 DEF Showing
      <3>4. \A o, q \in Mapped : shows'[o] = shows'[q] => o = q
        BY <1>5, <2>2, <3>1, <3>3
      <3> QED
        BY <1>2, <3>2, <3>4 DEF Distinct
    <2>4. CASE ~swap
      <3>1. \A o \in Mapped : o # out => shows[o] # n
        BY <1>2, <2>4
      <3>2. DOMAIN shows' = Mapped
        BY <1>2, <1>5, <2>1, <2>4 DEF Showing
      <3>3. \A o \in Mapped : shows'[o] = IF o = out THEN n ELSE shows[o]
        BY <1>2, <1>5, <2>1, <2>4 DEF Showing
      <3>4. \A o, q \in Mapped : shows'[o] = shows'[q] => o = q
        BY <2>2, <3>1, <3>3
      <3> QED
        BY <1>2, <3>2, <3>4 DEF Distinct
    <2> QED
      BY <2>3, <2>4
  <1> QED
    BY <1>3, <1>4, <1>5

\* With as many workspaces as outputs, only focus ID makes two show the same.
LEMMA ApartStep ==
    ASSUME IsFiniteSet(Outputs), Cardinality(Outputs) <= AllSpaces, WsInv, [WsNext]_wsVars,
           Distinct, settled' \/ OutputsSeen
    PROVE  Distinct' \/ \E id \in WindowIds : FocusId(id)
  <1>0. WsTypeOK /\ Adopted
    BY DEF WsInv
  <1>1. CASE Maintain
    <2>1. Mapped' = Mapped /\ \E p \in Pointers : shows' = Maintained(shows, p).shows
      BY <1>1 DEF Maintain, Mapped
    <2>2. shows' = Assigned(shows)
      BY <2>1 DEF Maintained
    <2>3. ShowApart(Assigned(shows), Mapped) /\ DOMAIN Assigned(shows) = Mapped
      BY <1>0, WindowsTyped, AssignedFacts DEF Distinct, ShowApart
    <2> QED
      BY <2>1, <2>2, <2>3 DEF Distinct, ShowApart
  <1>2. CASE WorkspaceCmd
    <2>1. settled' = FALSE
      BY <1>2 DEF WorkspaceCmd, Workspace, Handler
    <2> QED
      BY <1>0, <1>2, <2>1, ExchangeStep
  <1>3. ASSUME NEW o \in Outputs, Plug(o) PROVE Distinct'
    <2>1. settled' = FALSE /\ shows' = shows
      BY <1>3 DEF Plug, Handler
    <2> QED
      BY <2>1, DistinctStays DEF OutputsSeen
  <1>4. ASSUME NEW o \in Outputs, Unplug(o) PROVE Distinct'
    <2>1. shows' = shows /\ mapped' = Retain(mapped, Outputs \ {o})
      BY <1>4 DEF Unplug
    <2>2. mapped \in Seq(Outputs) /\ mapped' \in Seq(Outputs) /\ Keeps(mapped, Outputs \ {o}, Len(mapped), mapped')
      BY <1>0, <2>1, WindowsTyped, RetainFacts
    <2>3. /\ \A k \in 1 .. Len(mapped') : \E i \in 1 .. Len(mapped) : mapped[i] = mapped'[k]
          /\ DOMAIN mapped = 1 .. Len(mapped) /\ DOMAIN mapped' = 1 .. Len(mapped')
      BY <2>2 DEF Keeps
    <2>4. Mapped' \subseteq Mapped
      BY <2>3 DEF Mapped, Range
    <2> QED
      BY <2>1, <2>4, DistinctStays
  <1>5. ASSUME UNCHANGED <<shows, mapped>> PROVE Distinct'
    BY <1>5 DEF Distinct, Mapped
  <1>6. ASSUME \/ ScratchSend \/ ScratchShow
               \/ \E id \in WindowIds : Open(id) \/ Close(id) \/ FullscreenRequest(id)
               \/ \E f \in WindowIds \cup {Layer, NoFocus} : FocusAt(f)
               \/ \E n \in 1 .. NumSpaces : Send(n)
               \/ \E j \in DOMAIN windows : Move(j)
               \/ UNCHANGED wsVars
        PROVE  UNCHANGED <<shows, mapped>>
    BY <1>6 DEF ScratchSend, ScratchShow, Open, Close, FullscreenRequest, FocusAt, Send, Move, wsVars
  <1> QED
    BY <1>1, <1>2, <1>3, <1>4, <1>5, <1>6 DEF WsNext

-----------------------------------------------------------------------------
(* The parts on their own.                                                 *)

\* When starts do not overlap, the strengthened invariant of ipc::serve holds
\* for every set of compositors and every number of restarts.
THEOREM SocketInvariant == ~Overlap => (SocketSpec => []SocketInv)
<1> SUFFICES ASSUME ~Overlap PROVE SocketSpec => []SocketInv
  OBVIOUS
<1>1. SocketInv /\ [SocketNext]_socketVars => SocketInv'
  BY SocketStep
<1> QED
  BY <1>1, SocketStart, PTL DEF SocketSpec

\* When starts do not overlap, no compositor ever unlinks the socket of a
\* live one (ipc.rs: "never unlink another live session").
THEOREM SocketExclusive == ~Overlap => (SocketSpec => []OwnsSocket)
<1> SUFFICES ASSUME ~Overlap PROVE SocketSpec => []OwnsSocket
  OBVIOUS
<1>1. SocketInv => OwnsSocket
  BY DEF SocketInv
<1> QED
  BY <1>1, SocketInvariant, PTL

\* floating_rect, remember_move, remember_resize: wherever a grab, a request or
\* a change of the output leaves a floating window, it is inside the usable area.
THEOREM FloatStaysInside == LayoutSpec => []FloatInside
  <1>1. FloatInv => FloatInside
    BY DEF FloatInv
  <1> QED
    BY FloatInvInit, FloatInvNext, <1>1, PTL DEF LayoutSpec

-----------------------------------------------------------------------------
(* The desktop.                                                            *)

\* A step of the desktop is a step of each part, or leaves it as it is.
LEMMA PartSteps ==
    ASSUME [DesktopNext]_desktopVars
    PROVE  /\ [SettingsNext]_settingsVars /\ [CopyNext]_copyVars /\ [SocketNext]_socketVars
           /\ KY!KeysNext \/ UNCHANGED keysVars
           /\ PT!PointingNext \/ UNCHANGED pointingVars
           /\ GR!GrabsNext \/ UNCHANGED grabsVars
           /\ [WsNext]_wsVars
  <1>1. CASE DesktopNext
    BY <1>1 DEF DesktopNext
  <1>2. CASE UNCHANGED desktopVars
    BY <1>2 DEF desktopVars
  <1> QED
    BY <1>1, <1>2

\* The invariants of the parts whose starts may overlap.
DesktopInv ==
    SettingsInv /\ CopyInv /\ KY!KeysInv /\ PT!PointingInv /\ GrabsParts /\ WsInv

LEMMA DesktopStart == DesktopInit => DesktopInv
  BY SettingsStart, CopyStart, KeysStart, PointingStart, GrabsStart, WsStart DEF DesktopInit, DesktopInv

LEMMA DesktopStep == DesktopInv /\ [DesktopNext]_desktopVars => DesktopInv'
  <1> SUFFICES ASSUME DesktopInv, [DesktopNext]_desktopVars PROVE DesktopInv'
    OBVIOUS
  <1>1. SettingsInv'
    BY PartSteps, SettingsStep DEF DesktopInv
  <1>2. CopyInv'
    BY PartSteps, CopyStep DEF DesktopInv
  <1>3. KY!KeysInv'
    BY PartSteps, KeysStep DEF DesktopInv
  <1>4. PT!PointingInv'
    BY PartSteps, PointingStep DEF DesktopInv
  <1>5. GrabsParts'
    BY PartSteps, GrabsStep DEF DesktopInv
  <1>6. WsInv'
    BY PartSteps, WsStep DEF DesktopInv
  <1> QED
    BY <1>1, <1>2, <1>3, <1>4, <1>5, <1>6 DEF DesktopInv

LEMMA DesktopInvariant == DesktopSpec => []DesktopInv
  BY DesktopStart, DesktopStep, PTL DEF DesktopSpec

\* When compositors start one at a time, a setting that was accepted survives,
\* every buffer of a screen copy comes back, and a compositor that is about to
\* unlink the socket is alone (recorder set, request_copy, ipc::serve).
THEOREM ServicesAreSound == ASSUME ~Overlap PROVE DesktopSpec => []ServicesSound
  <1>1. DesktopInit => SocketInv
    BY SocketStart DEF DesktopInit
  <1>2. SocketInv /\ [DesktopNext]_desktopVars => SocketInv'
    BY PartSteps, SocketStep
  <1>3. DesktopSpec => []SocketInv
    BY <1>1, <1>2, PTL DEF DesktopSpec
  <1>4. DesktopInv /\ SocketInv => ServicesSound
    BY DEF DesktopInv, ServicesSound
  <1> QED
    BY <1>3, <1>4, DesktopInvariant, PTL

\* A window that is being resized knows it, whatever its client acknowledges late,
\* an unused tap of Super is clean, and at the end of a turn the pointer's focus
\* is what is under it (grabs.rs, keyboard_key_to_action, maintain_desktop).
THEOREM GrabsAreSound == DesktopSpec => []GrabsSound
  <1>1. DesktopInv => GrabsSound
    BY GrabsPartsInv DEF DesktopInv, GrabsSound
  <1> QED
    BY <1>1, DesktopInvariant, PTL

\* perform_copy: no frame is copied of a session that is locked, of another VT or
\* of an output that has gone, however long it has waited.
THEOREM HiddenIsNotCopied == DesktopSpec => HiddenNeverCopied
  <1>1. DesktopInv /\ [DesktopNext]_desktopVars => [CopyHides]_copyVars
    BY PartSteps, CopyHidesStep DEF DesktopInv
  <1>2. DesktopSpec => [][CopyHides]_copyVars
    BY <1>1, DesktopInvariant, PTL DEF DesktopSpec
  <1> QED
    BY <1>2 DEF HiddenNeverCopied, CopyHides

\* keyboard_key_to_action: the launcher opens only on a tap of Super that the
\* desktop saw from beginning to end with nothing in between.
THEOREM LauncherIsTapped == DesktopSpec => TapOpensLauncher
  <1>1. DesktopInv /\ [DesktopNext]_desktopVars => [In("keys") => KY!TapStep]_keysVars
    BY PartSteps, KeysStep DEF DesktopInv
  <1> QED
    BY <1>1, DesktopInvariant, PTL DEF DesktopSpec, TapOpensLauncher

\* update_keyboard_focus and surface_under are separate code, and a click has one
\* addressee all the same.
THEOREM ClickHasOneAddressee == DesktopSpec => ClickAgrees
  <1>1. DesktopInv /\ [DesktopNext]_desktopVars => [In("pointing") => PT!ClickStep]_pointingVars
    BY ClickStepAgrees DEF DesktopInv
  <1> QED
    BY <1>1, DesktopInvariant, PTL DEF DesktopSpec, ClickAgrees

\* maintain_desktop: at the end of a turn every live toplevel is managed, once, on
\* an output there is, what is placed is what is visible, the focus is on something
\* shown, and another run of it changes nothing, whatever came and went in the turn.
THEOREM WorkspacesAreSound == DesktopSpec => []WorkspacesSound
  <1>1. DesktopInv => WorkspacesSound
    BY DEF DesktopInv, WorkspacesSound
  <1> QED
    BY <1>1, DesktopInvariant, PTL

\* select_workspace, maintain_desktop: while there are as many workspaces as
\* outputs, two outputs come to show the same one only by focus ID.
THEOREM SpacesStayApart ==
    ASSUME IsFiniteSet(Outputs), Cardinality(Outputs) <= AllSpaces
    PROVE  DesktopSpec => WorkspacesExchanged
  <1>1. DesktopInv /\ [DesktopNext]_desktopVars
            => [Distinct /\ (settled' \/ OutputsSeen) /\ ~Distinct' => \E id \in WindowIds : FocusId(id)]_wsVars
    BY PartSteps, ApartStep DEF DesktopInv
  <1> QED
    BY <1>1, DesktopInvariant, PTL DEF DesktopSpec, WorkspacesExchanged
=============================================================================
