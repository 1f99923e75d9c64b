---------------------------- MODULE LabelProofs ----------------------------
(***************************************************************************)
(* What the shells show catches up with what it is about, for every value  *)
(* of the bounds: the labels of the bar, the player's position and the     *)
(* volume (the networks: WifiProofs).  Each part has an inductive          *)
(* invariant of its own (SM!MonitorsInv, MP!PositionInv, AU!AudioInv): an  *)
(* old value that is shown has a message, an answer or a timer on its way  *)
(* that will replace it.  The notifications last (NT!NoticesInv): none is  *)
(* left without its answer.                                                *)
(***************************************************************************)
EXTENDS MCShell, Sequences, Retain, FiniteSetTheorems, SequenceTheorems, TLAPS

-----------------------------------------------------------------------------
(* Counting in sequences.                                                  *)

\* The places of a sequence that hold a member of S.
Marks(q, S) == {i \in 1 .. Len(q) : q[i] \in S}

\* They are finitely many.
LEMMA MarksFinite ==
    ASSUME NEW T, NEW q \in Seq(T), NEW S
    PROVE  /\ IsFiniteSet(Marks(q, S)) /\ Cardinality(Marks(q, S)) \in Nat
           /\ Cardinality(Marks(q, S)) = 0 <=> \A i \in 1 .. Len(q) : q[i] \notin S
  <1>1. Len(q) \in Nat /\ Marks(q, S) \subseteq 1 .. Len(q)
    BY DEF Marks
  <1>2. IsFiniteSet(Marks(q, S)) /\ Cardinality(Marks(q, S)) \in Nat
    <2>1. 1 \in Int /\ Len(q) \in Int
      BY <1>1
    <2>2. IsFiniteSet(1 .. Len(q))
      BY <2>1, FS_Interval
    <2>3. IsFiniteSet(Marks(q, S))
      BY <1>1, <2>2, FS_Subset
    <2> QED
      BY <2>3, FS_CardinalityType
  <1>3. Cardinality(Marks(q, S)) = 0 <=> Marks(q, S) = {}
    BY <1>2, FS_EmptySet
  <1> QED
    BY <1>2, <1>3 DEF Marks

\* A set of places counts as much when all are shifted.
LEMMA ShiftedCount ==
    ASSUME NEW n \in Nat, NEW d \in Nat, NEW I \in SUBSET (1 .. n)
    PROVE  Cardinality({i + d : i \in I}) = Cardinality(I)
  <1> DEFINE J == {i + d : i \in I}
             f == [i \in I |-> i + d]
             g == [j \in J |-> j - d]
  <1>1. IsFiniteSet(I) /\ IsFiniteSet(J)
    <2>1. I \subseteq 1 .. n /\ J \subseteq 1 .. n + d /\ n + d \in Int /\ n \in Int /\ 1 \in Int
      OBVIOUS
    <2>2. IsFiniteSet(1 .. n) /\ IsFiniteSet(1 .. n + d)
      BY <2>1, FS_Interval
    <2> QED
      BY <2>1, <2>2, FS_Subset
  <1>2. f \in [I -> J] /\ \A a, b \in I : f[a] = f[b] => a = b
    OBVIOUS
  <1>3. g \in [J -> I] /\ \A a, b \in J : g[a] = g[b] => a = b
    <2>1. \A j \in J : j \in Int /\ j - d \in I /\ (j - d) + d = j
      OBVIOUS
    <2> QED
      BY <2>1
  <1>4. f \in Injection(I, J) /\ g \in Injection(J, I)
    <2> HIDE DEF f, g, J
    <2> QED
      BY <1>2, <1>3 DEF Injection, IsInjective
  <1>5. Cardinality(I) <= Cardinality(J) /\ Cardinality(J) <= Cardinality(I)
    <2> HIDE DEF f, g, J
    <2> QED
      BY <1>1, <1>4, FS_Injection
  <1>6. Cardinality(I) \in Nat /\ Cardinality(J) \in Nat
    BY <1>1, FS_CardinalityType
  <1> QED
    BY <1>5, <1>6

\* Two sequences one after the other.
LEMMA MarksConcat ==
    ASSUME NEW T, NEW p \in Seq(T), NEW q \in Seq(T), NEW S
    PROVE  Cardinality(Marks(p \o q, S)) = Cardinality(Marks(p, S)) + Cardinality(Marks(q, S))
  <1> DEFINE J == {i \in 1 + Len(p) .. Len(q) + Len(p) : (p \o q)[i] \in S}
             I == Marks(p, S)
             K == Marks(q, S)
  <1>1. /\ Len(p) \in Nat /\ Len(q) \in Nat /\ p \o q \in Seq(T) /\ Len(p \o q) = Len(p) + Len(q)
        /\ \A i \in 1 .. Len(p) : (p \o q)[i] = p[i]
        /\ \A i \in 1 .. Len(q) : (p \o q)[i + Len(p)] = q[i] /\ i + Len(p) \in 1 + Len(p) .. Len(q) + Len(p)
    OBVIOUS
  <1>2. Marks(p \o q, S) = I \cup J /\ I \cap J = {}
    BY <1>1 DEF Marks
  <1>3. Cardinality(K) = Cardinality(J)
    <2>1. K \in SUBSET (1 .. Len(q))
      BY DEF Marks
    <2>2. J = {i + Len(p) : i \in K}
      <3>1. \A j \in J : j - Len(p) \in K /\ j = (j - Len(p)) + Len(p)
        <4> TAKE j \in J
        <4>1. j - Len(p) \in 1 .. Len(q) /\ j = (j - Len(p)) + Len(p) /\ (p \o q)[j] \in S
          BY <1>1
        <4> HIDE DEF J
        <4> QED
          BY <1>1, <4>1 DEF Marks
      <3>2. \A i \in K : i + Len(p) \in J
        BY <1>1 DEF Marks
      <3> HIDE DEF J, K
      <3> QED
        BY <3>1, <3>2
    <2>3. Len(p) \in Nat /\ Len(q) \in Nat
      OBVIOUS
    <2> HIDE DEF J, K
    <2>4. Cardinality({i + Len(p) : i \in K}) = Cardinality(K)
      BY <2>1, <2>3, ShiftedCount
    <2> QED
      BY <2>2, <2>4
  <1>4. IsFiniteSet(I) /\ IsFiniteSet(J)
    <2>1. IsFiniteSet(Marks(p \o q, S)) /\ J \subseteq Marks(p \o q, S) /\ I \subseteq Marks(p \o q, S)
      BY <1>1, <1>2, MarksFinite
    <2> QED
      BY <2>1, FS_Subset
  <1>5. Cardinality(I \cup J) = Cardinality(I) + Cardinality(J)
    <2> HIDE DEF I, J
    <2>1. Cardinality(I \cup J) = Cardinality(I) + Cardinality(J) - Cardinality({})
      BY <1>2, <1>4, FS_Union
    <2> QED
      BY <1>4, <2>1, FS_EmptySet, FS_CardinalityType
  <1> QED
    BY <1>2, <1>3, <1>5

\* One element.
LEMMA MarksOne ==
    ASSUME NEW T, NEW x \in T, NEW S
    PROVE  Cardinality(Marks(<<x>>, S)) = IF x \in S THEN 1 ELSE 0
  <1>1. Marks(<<x>>, S) = IF x \in S THEN {1} ELSE {}
    BY DEF Marks
  <1> QED
    BY <1>1, FS_Singleton, FS_EmptySet

\* One more at the end.
LEMMA MarksAppend ==
    ASSUME NEW T, NEW q \in Seq(T), NEW x \in T, NEW S
    PROVE  Cardinality(Marks(Append(q, x), S)) = Cardinality(Marks(q, S)) + (IF x \in S THEN 1 ELSE 0)
  <1>1. Append(q, x) = q \o <<x>> /\ <<x>> \in Seq(T)
    OBVIOUS
  <1>2. /\ Cardinality(Marks(q \o <<x>>, S)) = Cardinality(Marks(q, S)) + Cardinality(Marks(<<x>>, S))
        /\ Cardinality(Marks(<<x>>, S)) = IF x \in S THEN 1 ELSE 0
    <2>1. Cardinality(Marks(<<x>>, S)) = IF x \in S THEN 1 ELSE 0
      BY MarksOne
    <2>2. q \in Seq(T) /\ <<x>> \in Seq(T)
      BY <1>1
    <2> QED
      BY <2>1, <2>2, MarksConcat
  <1> QED
    BY <1>1, <1>2

\* The first one less.
LEMMA MarksTail ==
    ASSUME NEW T, NEW q \in Seq(T), q # <<>>, NEW S
    PROVE  Cardinality(Marks(q, S)) = Cardinality(Marks(Tail(q), S)) + (IF Head(q) \in S THEN 1 ELSE 0)
  <1>1. q = <<Head(q)>> \o Tail(q) /\ Tail(q) \in Seq(T) /\ Head(q) \in T /\ <<Head(q)>> \in Seq(T)
    OBVIOUS
  <1>2. Cardinality(Marks(q, S)) = Cardinality(Marks(<<Head(q)>>, S)) + Cardinality(Marks(Tail(q), S))
    BY <1>1, MarksConcat, ZenonT(40)
  <1>3. /\ Cardinality(Marks(<<Head(q)>>, S)) = IF Head(q) \in S THEN 1 ELSE 0
        /\ Cardinality(Marks(Tail(q), S)) \in Nat
    BY <1>1, MarksOne, MarksFinite
  <1> QED
    BY <1>2, <1>3

\* What was sent last, of a channel and the label it ends at.
SentLast(q, l) == IF q = <<>> THEN l ELSE q[Len(q)]

\* A reading that is sent is the last.
LEMMA SentAppend ==
    ASSUME NEW S, NEW q \in Seq(S), NEW x \in S, NEW l
    PROVE  SentLast(Append(q, x), l) = x /\ Append(q, x) \in Seq(S)
  BY DEF SentLast

\* The loop that shows a reading does not change what was sent last.
LEMMA SentTail ==
    ASSUME NEW S, NEW q \in Seq(S), q # <<>>, NEW l
    PROVE  SentLast(Tail(q), Head(q)) = SentLast(q, l) /\ Tail(q) \in Seq(S) /\ Head(q) \in S
  <1>1. Len(q) \in Nat \ {0} /\ Tail(q) \in Seq(S) /\ Head(q) = q[1] /\ Head(q) \in S
    OBVIOUS
  <1>2. CASE Len(q) = 1
    <2>1. \A s \in Seq(S) : Len(s) = 0 => s = <<>>
      OBVIOUS
    <2>2. Len(Tail(q)) = 0
      BY <1>1, <1>2
    <2>3. Tail(q) = <<>>
      BY <1>1, <2>1, <2>2, Zenon
    <2> QED
      BY <1>1, <1>2, <2>3 DEF SentLast
  <1>3. CASE Len(q) # 1
    <2>1. Len(Tail(q)) = Len(q) - 1 /\ Len(Tail(q)) # 0 /\ Len(<<>>) = 0
      BY <1>1, <1>3
    <2>2. Tail(q)[Len(Tail(q))] = q[Len(q)]
      BY <1>1, <1>3, <2>1
    <2>3. Tail(q) # <<>>
      BY <2>1, Zenon
    <2> QED
      BY <1>1, <2>2, <2>3 DEF SentLast
  <1> QED
    BY <1>2, <1>3

\* When nothing is due the bar shows what was sent last.
LEMMA LabelLaw == SM!MonitorsTypeOK /\ SM!SentIsCurrent => SM!LabelsCatchUp
  BY DEF SM!MonitorsTypeOK, SM!SentIsCurrent, SM!LabelsCatchUp, SM!Quiet, SM!Due, SM!LastSent, SM!Watchers

\* The same of the next state.
LEMMA LabelLawNext == SM!MonitorsTypeOK' /\ SM!SentIsCurrent' => SM!LabelsCatchUp'
  BY DEF SM!MonitorsTypeOK, SM!SentIsCurrent, SM!LabelsCatchUp, SM!Quiet, SM!Due, SM!LastSent, SM!Watchers

\* Before a monitor starts its one reading is of the service as it is.
LEMMA MonitorsStart == SM!MonitorsInit => SM!MonitorsInv
  <1> SUFFICES ASSUME SM!MonitorsInit PROVE SM!MonitorsInv
    OBVIOUS
  <1>1. SM!MonitorsTypeOK
    <2>1. on \subseteq Objects /\ readings = <<on>>
      BY DEF SM!MonitorsInit
    <2>2. readings \in Seq(SUBSET Objects)
      BY <2>1
    <2> QED
      BY <2>2 DEF SM!MonitorsInit, SM!MonitorsTypeOK, SM!Watchers, SM!Absent
  <1>2. SM!SentIsCurrent
    BY DEF SM!MonitorsInit, SM!SentIsCurrent, SM!LastSent
  <1>3. SM!ReadIsCurrent
    BY DEF SM!MonitorsInit, SM!ReadIsCurrent, SM!Watchers
  <1>4. SM!NewIsNoted
    BY DEF SM!MonitorsInit, SM!NewIsNoted, SM!Hears, SM!Watchers, SM!Listening
  <1> QED
    BY <1>1, <1>2, <1>3, <1>4, LabelLaw DEF SM!MonitorsInv

\* The object changes; whoever hears of it is told, or the change is missed.
LEMMA ToggleStep ==
    ASSUME SM!MonitorsInv, NEW o \in Objects, SM!Toggle(o)
    PROVE  SM!MonitorsTypeOK' /\ SM!SentIsCurrent' /\ SM!ReadIsCurrent' /\ SM!NewIsNoted'
  <1>0. SM!MonitorsTypeOK /\ SM!NewIsNoted /\ Main \notin Objects
    BY ShellAssumption DEF SM!MonitorsInv, SM!MonitorAssumption
  <1>1. SM!MonitorsTypeOK'
    <2>1. missed' \in BOOLEAN /\ crossed' \in BOOLEAN
      BY <1>0, Zenon DEF SM!Toggle, SM!MonitorsTypeOK
    <2> QED
      BY <1>0, <2>1 DEF SM!Toggle, SM!Tell, SM!Hears, SM!MonitorsTypeOK, SM!Watchers
  <1>2. SM!Listening(SM!Hears(o)) \/ SM!Early(o)
    BY <1>0 DEF SM!NewIsNoted, SM!Early, SM!Toggle, SM!Listening, SM!MonitorsTypeOK, SM!Hears, SM!Watchers
  <1>3. missed' \/ SM!Due'
    <2>1. CASE SM!Early(o)
      BY <2>1 DEF SM!Toggle
    <2>2. CASE SM!Listening(SM!Hears(o))
      <3>1. SM!Hears(o) \in told'
        BY <2>2 DEF SM!Toggle, SM!Tell
      <3>2. SM!Hears(o) # Main \/ service' # "bluetooth"
        BY <1>0 DEF SM!Hears, SM!Toggle
      <3> QED
        BY <3>1, <3>2 DEF SM!Due
    <2> QED
      BY <1>2, <2>1, <2>2
  <1>4. SM!NewIsNoted'
    BY <1>0 DEF SM!NewIsNoted, SM!Toggle, SM!Tell, SM!Hears, SM!Listening
  <1> QED
    BY <1>1, <1>3, <1>4 DEF SM!SentIsCurrent, SM!ReadIsCurrent

\* An object comes or goes, which changes none that is on.
LEMMA ComesAndGoesStep ==
    ASSUME SM!MonitorsInv, NEW o \in Objects, SM!ComesAndGoes(o)
    PROVE  SM!MonitorsTypeOK' /\ SM!SentIsCurrent' /\ SM!ReadIsCurrent' /\ SM!NewIsNoted'
  <1>0. SM!MonitorsTypeOK /\ SM!NewIsNoted /\ Main \notin Objects
    BY ShellAssumption DEF SM!MonitorsInv, SM!MonitorAssumption
  <1>1. SM!MonitorsTypeOK'
    <2>1. missed' \in BOOLEAN /\ crossed' \in BOOLEAN
      BY <1>0, Zenon DEF SM!ComesAndGoes, SM!MonitorsTypeOK
    <2> QED
      BY <1>0, <2>1 DEF SM!ComesAndGoes, SM!Tell, SM!MonitorsTypeOK, SM!Watchers
  <1>2. SM!Due => SM!Due'
    BY DEF SM!Due, SM!ComesAndGoes, SM!Tell
  <1>3. missed => missed'
    BY DEF SM!ComesAndGoes
  <1>4. SM!NewIsNoted'
    BY <1>0 DEF SM!NewIsNoted, SM!ComesAndGoes, SM!Tell, SM!Hears, SM!Listening
  <1>5. UNCHANGED <<on, phase, reading, readings, label, overtaken, crossed>>
    BY DEF SM!ComesAndGoes
  <1> QED
    BY <1>1, <1>2, <1>3, <1>4, <1>5 DEF SM!MonitorsInv, SM!SentIsCurrent, SM!ReadIsCurrent, SM!LastSent

\* A thread begins to listen.
LEMMA SubscribeStep ==
    ASSUME SM!MonitorsInv, NEW t \in SM!Watchers, SM!Subscribe(t)
    PROVE  SM!MonitorsTypeOK' /\ SM!SentIsCurrent' /\ SM!ReadIsCurrent' /\ SM!NewIsNoted'
  <1>0. SM!MonitorsTypeOK /\ SM!NewIsNoted
    BY DEF SM!MonitorsInv
  <1>1. SM!MonitorsTypeOK'
    BY <1>0 DEF SM!Subscribe, SM!things, SM!MonitorsTypeOK
  <1>2. \A u \in SM!Watchers : phase'[u] = IF u = t THEN "waiting" ELSE phase[u]
    BY <1>0 DEF SM!Subscribe, SM!MonitorsTypeOK
  <1>3. phase[t] = "starting" /\ Main \in SM!Watchers
    BY DEF SM!Subscribe, SM!Watchers
  <1>4. UNCHANGED <<service, present, on, reading, told, readings, label, overtaken, crossed, unwatched, missed>>
    BY DEF SM!Subscribe, SM!things
  <1>5. SM!Due => SM!Due'
    BY <1>2, <1>3, <1>4 DEF SM!Due
  <1>6. SM!NewIsNoted'
    <2>1. \A o \in present : SM!Hears(o) \in SM!Watchers
      BY <1>0 DEF SM!Hears, SM!MonitorsTypeOK, SM!Watchers
    <2> QED
      BY <1>0, <1>2, <1>3, <1>4, <2>1 DEF SM!NewIsNoted, SM!Hears, SM!Listening
  <1> QED
    BY <1>1, <1>2, <1>4, <1>5, <1>6 DEF SM!MonitorsInv, SM!SentIsCurrent, SM!ReadIsCurrent, SM!LastSent

\* Who has just read is due to send the service as it is.
LEMMA ReadStep ==
    ASSUME SM!MonitorsTypeOK', NEW t \in SM!Watchers, phase'[t] = "read", reading'[t] = on'
    PROVE  SM!SentIsCurrent' /\ SM!ReadIsCurrent'
  BY DEF SM!SentIsCurrent, SM!ReadIsCurrent, SM!Due

\* Main handles a signal: it reads, but of a bluetooth device it only begins to watch it.
LEMMA WakeMainStep ==
    ASSUME SM!MonitorsInv, SM!WakeMain
    PROVE  SM!MonitorsTypeOK' /\ SM!SentIsCurrent' /\ SM!ReadIsCurrent' /\ SM!NewIsNoted'
  <1>0. SM!MonitorsTypeOK /\ SM!NewIsNoted /\ Main \notin Objects /\ Main \in SM!Watchers
    BY ShellAssumption DEF SM!MonitorsInv, SM!MonitorAssumption, SM!Watchers
  <1>a. /\ UNCHANGED <<service, present, on, readings, label, overtaken, crossed>>
        /\ told' = told \ {Main} /\ unwatched' = {} /\ service # "config" /\ phase[Main] = "waiting"
    BY DEF SM!WakeMain, SM!things
  <1>b. /\ SM!Watched(phase) \in [SM!Watchers -> {"none", "starting", "waiting", "pause", "drained", "read"}]
        /\ \A u \in SM!Watchers : SM!Watched(phase)[u] = phase[u]
                                  \/ (phase[u] = "none" /\ SM!Watched(phase)[u] = "starting")
        /\ service # "network" => \A u \in present : SM!Watched(phase)[u] # "none"
    BY <1>0 DEF SM!Watched, SM!MonitorsTypeOK, SM!Watchers
  <1>1. CASE service = "bluetooth"
    <2>1. phase' = SM!Watched(phase) /\ reading' = reading /\ missed' = missed
      BY <1>1 DEF SM!WakeMain
    <2>2. SM!MonitorsTypeOK'
      BY <1>0, <1>a, <1>b, <2>1 DEF SM!MonitorsTypeOK
    <2>3. SM!Due => SM!Due'
      BY <1>0, <1>1, <1>a, <1>b, <2>1 DEF SM!Due
    <2>4. \A u \in SM!Watchers : phase'[u] = "read" <=> phase[u] = "read"
      BY <1>b, <2>1
    <2>5. SM!NewIsNoted'
      BY <1>0, <1>1, <1>a, <1>b, <2>1 DEF SM!NewIsNoted, SM!Hears
    <2>6. SM!SentIsCurrent' /\ SM!ReadIsCurrent'
      BY <1>a, <2>1, <2>3, <2>4 DEF SM!MonitorsInv, SM!SentIsCurrent, SM!ReadIsCurrent, SM!LastSent
    <2> QED
      BY <2>2, <2>5, <2>6
  <1>2. CASE service # "bluetooth"
    <2>1. /\ phase' = [SM!Watched(phase) EXCEPT ![Main] = "read"]
          /\ reading' = [reading EXCEPT ![Main] = on] /\ missed' = FALSE
      BY <1>2 DEF SM!WakeMain, SM!ReadState
    <2>2. SM!MonitorsTypeOK'
      BY <1>0, <1>a, <1>b, <2>1 DEF SM!MonitorsTypeOK
    <2>3. phase'[Main] = "read" /\ reading'[Main] = on'
      BY <1>0, <1>a, <1>b, <2>1 DEF SM!MonitorsTypeOK
    <2>4. SM!NewIsNoted'
      <3>1. \A u \in SM!Watchers : phase'[u] = IF u = Main THEN "read" ELSE SM!Watched(phase)[u]
        BY <1>b, <2>1
      <3>2. present \subseteq SM!Watchers
        BY <1>0 DEF SM!MonitorsTypeOK, SM!Watchers
      <3> QED
        BY <1>0, <1>a, <1>b, <3>1, <3>2 DEF SM!NewIsNoted, SM!Hears, SM!MonitorsTypeOK, SM!Services
    <2> QED
      BY <1>0, <2>2, <2>3, <2>4, ReadStep
  <1> QED
    BY <1>1, <1>2

\* A thread of an object handles a signal: it reads the whole service.
LEMMA WakeStep ==
    ASSUME SM!MonitorsInv, NEW o \in Objects, SM!Wake(o)
    PROVE  SM!MonitorsTypeOK' /\ SM!SentIsCurrent' /\ SM!ReadIsCurrent' /\ SM!NewIsNoted'
  <1>0. SM!MonitorsTypeOK /\ SM!NewIsNoted /\ Main \notin Objects /\ o \in SM!Watchers
    BY ShellAssumption DEF SM!MonitorsInv, SM!MonitorAssumption, SM!Watchers
  <1>1. /\ UNCHANGED <<service, present, on, readings, label, overtaken, crossed, unwatched>>
        /\ told' = told \ {o} /\ phase[o] = "waiting" /\ missed' = FALSE
        /\ phase' = [phase EXCEPT ![o] = "read"] /\ reading' = [reading EXCEPT ![o] = on]
    BY DEF SM!Wake, SM!things, SM!ReadState
  <1>2. SM!MonitorsTypeOK'
    BY <1>0, <1>1 DEF SM!MonitorsTypeOK
  <1>3. phase'[o] = "read" /\ reading'[o] = on'
    BY <1>0, <1>1 DEF SM!MonitorsTypeOK
  <1>4. SM!NewIsNoted'
    <2>1. \A u \in SM!Watchers : phase'[u] = IF u = o THEN "read" ELSE phase[u]
      BY <1>0, <1>1 DEF SM!MonitorsTypeOK
    <2>2. \A a \in present : SM!Hears(a) \in SM!Watchers
      BY <1>0 DEF SM!Hears, SM!MonitorsTypeOK, SM!Watchers
    <2>3. Main \in SM!Watchers
      BY DEF SM!Watchers
    <2> QED
      BY <1>0, <1>1, <2>1, <2>2, <2>3 DEF SM!NewIsNoted, SM!Hears, SM!Listening
  <1> QED
    BY <1>0, <1>2, <1>3, <1>4, ReadStep

\* The thread of the configuration sleeps, empties its channel and reads the file.
LEMMA ConfigStep ==
    ASSUME SM!MonitorsInv, SM!ConfigPauses \/ SM!ConfigDrains \/ SM!ConfigReads
    PROVE  SM!MonitorsTypeOK' /\ SM!SentIsCurrent' /\ SM!ReadIsCurrent' /\ SM!NewIsNoted'
  <1>0. SM!MonitorsTypeOK /\ SM!NewIsNoted /\ Main \notin Objects /\ Main \in SM!Watchers
    BY ShellAssumption DEF SM!MonitorsInv, SM!MonitorAssumption, SM!Watchers
  <1>1. /\ UNCHANGED <<service, present, on, readings, label, overtaken, crossed, unwatched>>
        /\ told' \subseteq told
        /\ phase[Main] \in {"waiting", "pause", "drained"}
        /\ \/ phase' = [phase EXCEPT ![Main] = "pause"] /\ UNCHANGED <<reading, missed>>
              /\ service = "config"
           \/ phase' = [phase EXCEPT ![Main] = "drained"] /\ UNCHANGED <<reading, missed>>
              /\ phase[Main] = "pause"
           \/ phase' = [phase EXCEPT ![Main] = "read"] /\ reading' = [reading EXCEPT ![Main] = on]
              /\ missed' = FALSE /\ phase[Main] = "drained" /\ told' = told
    BY DEF SM!ConfigPauses, SM!ConfigDrains, SM!ConfigReads, SM!things, SM!ReadState
  <1>2. SM!MonitorsTypeOK'
    <2>1. missed' \in BOOLEAN
      BY <1>0, <1>1 DEF SM!MonitorsTypeOK
    <2> QED
      BY <1>0, <1>1, <2>1 DEF SM!MonitorsTypeOK
  <1>3. SM!SentIsCurrent' /\ SM!ReadIsCurrent'
    <2>1. CASE phase' = [phase EXCEPT ![Main] = "read"] /\ reading' = [reading EXCEPT ![Main] = on]
      <3>1. phase'[Main] = "read" /\ reading'[Main] = on'
        BY <1>0, <1>1, <2>1 DEF SM!MonitorsTypeOK
      <3> QED
        BY <1>0, <1>2, <3>1, ReadStep
    <2>2. CASE phase'[Main] \in {"pause", "drained"}
      BY <2>2 DEF SM!SentIsCurrent, SM!ReadIsCurrent, SM!Due
    <2> QED
      BY <1>0, <1>1, <2>1, <2>2 DEF SM!MonitorsTypeOK
  <1>4. SM!NewIsNoted'
    <2>1. \A u \in SM!Watchers \ {Main} : phase'[u] = phase[u]
      BY <1>0, <1>1 DEF SM!MonitorsTypeOK
    <2>2. phase'[Main] \in {"pause", "drained", "read"}
      BY <1>0, <1>1 DEF SM!MonitorsTypeOK
    <2> QED
      BY <1>0, <1>1, <2>1, <2>2 DEF SM!NewIsNoted, SM!Hears, SM!Listening, SM!MonitorsTypeOK, SM!Watchers
  <1> QED
    BY <1>2, <1>3, <1>4

\* A reading is sent.  It is current, or others sent ahead of it, or somebody is due.
LEMMA SendStep ==
    ASSUME SM!MonitorsInv, NEW t \in SM!Watchers, SM!Send(t)
    PROVE  SM!MonitorsTypeOK' /\ SM!SentIsCurrent' /\ SM!ReadIsCurrent' /\ SM!NewIsNoted'
  <1>0. SM!MonitorsTypeOK /\ SM!NewIsNoted /\ SM!ReadIsCurrent
    BY DEF SM!MonitorsInv
  <1>1. /\ UNCHANGED <<service, present, on, told, label, unwatched, missed>>
        /\ phase[t] = "read" /\ phase' = [phase EXCEPT ![t] = "waiting"]
        /\ reading' = [reading EXCEPT ![t] = {}]
        /\ readings' = Append(readings, reading[t])
        /\ overtaken' = ({u \in SM!Watchers : phase[u] = "read"} \cup overtaken) \ {t}
    BY DEF SM!Send, SM!things, SM!Absent
  <1>2. crossed' = (t \in overtaken)
    BY DEF SM!Send
  <1>3. /\ \A u \in SM!Watchers : phase'[u] = IF u = t THEN "waiting" ELSE phase[u]
        /\ \A u \in SM!Watchers : reading'[u] = IF u = t THEN {} ELSE reading[u]
        /\ reading[t] \in SUBSET Objects /\ readings \in Seq(SUBSET Objects)
    BY <1>0, <1>1 DEF SM!MonitorsTypeOK
  <1>4. SentLast(readings', label') = reading[t] /\ readings' \in Seq(SUBSET Objects)
    BY <1>1, <1>3, SentAppend
  <1>5. SM!MonitorsTypeOK'
    <2>1. crossed' \in BOOLEAN
      BY <1>2
    <2> QED
      BY <1>0, <1>1, <1>4, <2>1 DEF SM!MonitorsTypeOK
  <1>6. SM!ReadIsCurrent'
    BY <1>1, <1>3 DEF SM!ReadIsCurrent
  <1>7. SM!NewIsNoted'
    <2>1. \A o \in present : SM!Hears(o) \in SM!Watchers
      BY <1>0 DEF SM!Hears, SM!MonitorsTypeOK, SM!Watchers
    <2>2. Main \in SM!Watchers
      BY DEF SM!Watchers
    <2> QED
      BY <1>0, <1>1, <1>3, <2>1, <2>2 DEF SM!NewIsNoted, SM!Hears, SM!Listening
  <1>8. SM!SentIsCurrent'
    <2>1. SM!LastSent' = reading[t]
      BY <1>4 DEF SM!LastSent, SentLast
    <2>2. CASE t \in overtaken
      BY <1>2, <2>2 DEF SM!SentIsCurrent
    <2>3. CASE t \notin overtaken /\ reading[t] # on
      <3>1. missed \/ SM!Due
        BY <1>0, <1>1, <2>3 DEF SM!ReadIsCurrent
      <3>2. SM!Due => SM!Due'
        BY <1>1, <1>3, <2>3 DEF SM!Due, SM!Watchers
      <3> QED
        BY <1>1, <3>1, <3>2 DEF SM!SentIsCurrent
    <2>4. CASE reading[t] = on
      BY <1>1, <2>1, <2>4 DEF SM!SentIsCurrent
    <2> QED
      BY <2>2, <2>3, <2>4
  <1> QED
    BY <1>5, <1>6, <1>7, <1>8

\* The loop shows the oldest reading that waits.
LEMMA ShowStep ==
    ASSUME SM!MonitorsInv, SM!Show
    PROVE  SM!MonitorsTypeOK' /\ SM!SentIsCurrent' /\ SM!ReadIsCurrent' /\ SM!NewIsNoted'
  <1>1. /\ UNCHANGED <<service, present, on, phase, reading, told, overtaken, crossed, unwatched, missed>>
        /\ label' = Head(readings) /\ readings' = Tail(readings) /\ readings # <<>>
    BY DEF SM!Show, SM!things
  <1>2. readings \in Seq(SUBSET Objects)
    BY DEF SM!MonitorsInv, SM!MonitorsTypeOK
  <1>3. /\ SentLast(readings', label') = SentLast(readings, label)
        /\ readings' \in Seq(SUBSET Objects) /\ label' \in SUBSET Objects
    BY <1>1, <1>2, SentTail
  <1>4. SM!MonitorsTypeOK'
    BY <1>1, <1>3 DEF SM!MonitorsInv, SM!MonitorsTypeOK
  <1>5. SM!Due' = SM!Due
    BY <1>1 DEF SM!Due
  <1>6. SM!LastSent' = SM!LastSent
    BY <1>3 DEF SM!LastSent, SentLast
  <1> QED
    BY <1>1, <1>4, <1>5, <1>6 DEF SM!MonitorsInv, SM!SentIsCurrent, SM!ReadIsCurrent, SM!NewIsNoted, SM!Hears,
       SM!Listening

\* No signal, reading or pause leaves a label that nobody will put right.
LEMMA MonitorsStep == SM!MonitorsInv /\ SM!MonitorsNext => SM!MonitorsInv'
  <1> SUFFICES ASSUME SM!MonitorsInv, SM!MonitorsNext
               PROVE  SM!MonitorsTypeOK' /\ SM!SentIsCurrent' /\ SM!ReadIsCurrent' /\ SM!NewIsNoted'
    BY LabelLawNext DEF SM!MonitorsInv
  <1> QED
    BY ToggleStep, ComesAndGoesStep, SubscribeStep, WakeMainStep, WakeStep, ConfigStep, SendStep, ShowStep
       DEF SM!MonitorsNext

-----------------------------------------------------------------------------
(* The player's position.                                                  *)

\* The fields of a message and of a call.
LEMMA MessageFields ==
    /\ \A m \in MP!Messages :
        /\ m.type \in {"seeked", "properties", "position", "sought", "owner"}
        /\ m.type = "seeked" => m.spot \in MP!Jumps
        /\ m.type = "properties" => m.track \in MP!Jumps
        /\ m.type = "position" => m.spot \in MP!Jumps /\ m.ok \in BOOLEAN
        /\ m.type = "owner" => m.owner \in 1 .. MaxLives
    /\ \A c \in MP!Calls : c.type \in {"read", "seek"} /\ (c.type = "seek" => c.track \in MP!Jumps)
  BY DEF MP!Messages, MP!Calls

\* News that puts a slider right, and news of an older jump that is followed by such:
\* of given values of the mail m, the last jump s, and whether the owner is the one
\* the user's seek was for.
News(m, s, same, j) ==
    \/ m[j].type = "properties"
    \/ m[j].type = "seeked" /\ m[j].spot = s
    \/ m[j].type = "sought" /\ same /\ \A i \in 1 .. j : m[i].type # "owner"
HasNews(m, s, same) == \E j \in 1 .. Len(m) : News(m, s, same, j)
Followed(m, s, same) ==
    \A i \in 1 .. Len(m) : MP!Tells(m[i]) /\ m[i].spot # s => \E j \in 1 .. Len(m) : j > i /\ News(m, s, same, j)

\* What is told of the track, of given values of the mail, the slider's track and the player's.
TrackNews(m, sh, tr) ==
    /\ sh # tr => \E i \in 1 .. Len(m) : m[i].type = "properties"
    /\ \A i \in 1 .. Len(m) : m[i].type = "properties" /\ m[i].track # tr
            => \E j \in 1 .. Len(m) : j > i /\ m[j].type = "properties"
OwnerNews(m, sh, tr) ==
    \A i \in 1 .. Len(m) : m[i].type = "owner" =>
        /\ i + 1 \in 1 .. Len(m) /\ m[i + 1].type = "properties" /\ sh # tr
        /\ \A k \in 1 .. Len(m) : m[k].type = "properties" /\ k < i => m[k].track # tr
NoOwner(m) == \A i \in 1 .. Len(m) : m[i].type # "owner"
TracksUpTo(m, s) == \A i \in 1 .. Len(m) : m[i].type = "properties" => m[i].track <= s
SeeksOf(c, tr, fine) == \A i \in 1 .. Len(c) : c[i].type = "seek" /\ c[i].track = tr => fine
SeeksUpTo(c, s) == \A i \in 1 .. Len(c) : c[i].type = "seek" => c[i].track <= s
CallsOf(c, type) == Cardinality(Marks(c, {x \in MP!Calls : x.type = type}))
MailOf(m, type) == Cardinality(Marks(m, {x \in MP!Messages : x.type = type}))
Num(b) == IF b THEN 1 ELSE 0

\* What makes the slider's position right, of given values.
DueIn(m, c, s, same, b, rd, rr, fresh, pd, ms) ==
    \/ b = s
    \/ HasNews(m, s, same)
    \/ rd /\ (rr \/ fresh)
    \/ pd /\ same /\ CallsOf(c, "seek") # 0
    \/ ms /\ ~rd

\* A mail without its first message.
LEMMA LessMail ==
    ASSUME NEW m \in Seq(MP!Messages), m # <<>>, NEW s, NEW same \in BOOLEAN, NEW same2 \in BOOLEAN,
           same2 = same \/ m[1].type = "owner"
    PROVE  /\ Tail(m) \in Seq(MP!Messages) /\ m[1] = Head(m) /\ m[1] \in MP!Messages
           /\ HasNews(m, s, same) => News(m, s, same, 1) \/ HasNews(Tail(m), s, same2)
           /\ Followed(m, s, same) => /\ Followed(Tail(m), s, same2)
                                      /\ MP!Tells(m[1]) /\ m[1].spot # s => HasNews(Tail(m), s, same2)
  <1>1. /\ Len(m) \in Nat \ {0} /\ Len(Tail(m)) = Len(m) - 1 /\ Tail(m) \in Seq(MP!Messages)
        /\ m[1] = Head(m) /\ m[1] \in MP!Messages
        /\ \A i \in 1 .. Len(Tail(m)) : Tail(m)[i] = m[i + 1] /\ i + 1 \in 1 .. Len(m)
        /\ \A i \in 1 .. Len(m) : i > 1 => i - 1 \in 1 .. Len(Tail(m)) /\ Tail(m)[i - 1] = m[i]
    OBVIOUS
  <1>2. ASSUME NEW j \in 1 .. Len(m), j > 1, News(m, s, same, j)
        PROVE  News(Tail(m), s, same2, j - 1) /\ j - 1 \in 1 .. Len(Tail(m))
    <2>1. Tail(m)[j - 1] = m[j] /\ j - 1 \in 1 .. Len(Tail(m)) /\ 1 \in 1 .. j
      BY <1>1, <1>2
    <2>2. CASE m[j].type = "sought" /\ same /\ \A i \in 1 .. j : m[i].type # "owner"
      <3>1. same2
        BY <2>1, <2>2
      <3>2. \A i \in 1 .. j - 1 : Tail(m)[i].type # "owner"
        <4> TAKE i \in 1 .. j - 1
        <4>1. i \in 1 .. Len(Tail(m)) /\ i + 1 \in 1 .. j
          BY <1>1
        <4> QED
          BY <1>1, <2>2, <4>1
      <3> QED
        BY <2>1, <2>2, <3>1, <3>2 DEF News
    <2> QED
      BY <1>2, <2>1, <2>2 DEF News
  <1>3. HasNews(m, s, same) => News(m, s, same, 1) \/ HasNews(Tail(m), s, same2)
    <2> SUFFICES ASSUME NEW j \in 1 .. Len(m), News(m, s, same, j), ~News(m, s, same, 1)
                 PROVE  HasNews(Tail(m), s, same2)
      BY DEF HasNews
    <2>1. j > 1
      BY <1>1
    <2> QED
      BY <1>2, <2>1 DEF HasNews
  <1>4. Followed(m, s, same) => Followed(Tail(m), s, same2)
    <2> SUFFICES ASSUME Followed(m, s, same), NEW i \in 1 .. Len(Tail(m)),
                        MP!Tells(Tail(m)[i]), Tail(m)[i].spot # s
                 PROVE  \E j \in 1 .. Len(Tail(m)) : j > i /\ News(Tail(m), s, same2, j)
      BY DEF Followed
    <2>1. i + 1 \in 1 .. Len(m) /\ MP!Tells(m[i + 1]) /\ m[i + 1].spot # s /\ i \in Nat
      BY <1>1
    <2>2. PICK j \in 1 .. Len(m) : j > i + 1 /\ News(m, s, same, j)
      BY <2>1 DEF Followed
    <2>3. News(Tail(m), s, same2, j - 1) /\ j - 1 \in 1 .. Len(Tail(m))
      BY <1>2, <2>1, <2>2
    <2>4. j - 1 > i
      BY <1>1, <2>1, <2>2
    <2> QED
      BY <2>3, <2>4
  <1>5. Followed(m, s, same) /\ MP!Tells(m[1]) /\ m[1].spot # s => HasNews(Tail(m), s, same2)
    <2> SUFFICES ASSUME Followed(m, s, same), MP!Tells(m[1]), m[1].spot # s
                 PROVE  HasNews(Tail(m), s, same2)
      OBVIOUS
    <2>1. PICK j \in 1 .. Len(m) : j > 1 /\ News(m, s, same, j)
      BY <1>1 DEF Followed
    <2> QED
      BY <1>2, <2>1 DEF HasNews
  <1> QED
    BY <1>1, <1>3, <1>4, <1>5

\* Of tracks and owners.
LEMMA LessTracks ==
    ASSUME NEW m \in Seq(MP!Messages), m # <<>>, NEW sh, NEW tr, NEW sh2,
           sh2 = IF m[1].type = "properties" THEN m[1].track ELSE sh
    PROVE  /\ TrackNews(m, sh, tr) => TrackNews(Tail(m), sh2, tr)
           /\ OwnerNews(m, sh, tr) => OwnerNews(Tail(m), sh2, tr)
           /\ NoOwner(m) => NoOwner(Tail(m))
           /\ \A s : TracksUpTo(m, s) => TracksUpTo(Tail(m), s)
  <1>1. /\ Len(m) \in Nat \ {0} /\ Len(Tail(m)) = Len(m) - 1 /\ Tail(m) \in Seq(MP!Messages)
        /\ 1 \in 1 .. Len(m)
        /\ \A i \in 1 .. Len(Tail(m)) : Tail(m)[i] = m[i + 1] /\ i + 1 \in 1 .. Len(m) /\ i \in Nat
        /\ \A i \in 1 .. Len(m) : i > 1 => i - 1 \in 1 .. Len(Tail(m)) /\ Tail(m)[i - 1] = m[i]
    OBVIOUS
  <1>2. TrackNews(m, sh, tr) => TrackNews(Tail(m), sh2, tr)
    <2> SUFFICES ASSUME TrackNews(m, sh, tr) PROVE TrackNews(Tail(m), sh2, tr)
      OBVIOUS
    <2>1. ASSUME NEW j \in 1 .. Len(m), j > 1, m[j].type = "properties"
          PROVE  j - 1 \in 1 .. Len(Tail(m)) /\ Tail(m)[j - 1].type = "properties"
      BY <1>1, <2>1
    <2>2. sh2 # tr => \E i \in 1 .. Len(Tail(m)) : Tail(m)[i].type = "properties"
      <3> SUFFICES ASSUME sh2 # tr PROVE \E i \in 1 .. Len(Tail(m)) : Tail(m)[i].type = "properties"
        OBVIOUS
      <3>1. \E j \in 1 .. Len(m) : j > 1 /\ m[j].type = "properties"
        <4>1. CASE m[1].type = "properties"
          BY <1>1, <4>1 DEF TrackNews
        <4>2. CASE m[1].type # "properties"
          <5>1. PICK i \in 1 .. Len(m) : m[i].type = "properties"
            BY <4>2 DEF TrackNews
          <5>2. i > 1
            BY <1>1, <4>2, <5>1
          <5> QED
            BY <5>1, <5>2
        <4> QED
          BY <4>1, <4>2
      <3> QED
        BY <2>1, <3>1
    <2>3. ASSUME NEW i \in 1 .. Len(Tail(m)), Tail(m)[i].type = "properties", Tail(m)[i].track # tr
          PROVE  \E j \in 1 .. Len(Tail(m)) : j > i /\ Tail(m)[j].type = "properties"
      <3>1. PICK j \in 1 .. Len(m) : j > i + 1 /\ m[j].type = "properties"
        BY <1>1, <2>3 DEF TrackNews
      <3>2. j > 1 /\ j - 1 > i
        BY <1>1, <3>1
      <3> QED
        BY <2>1, <3>1, <3>2
    <2> QED
      BY <2>2, <2>3 DEF TrackNews
  <1>3. OwnerNews(m, sh, tr) => OwnerNews(Tail(m), sh2, tr)
    <2> SUFFICES ASSUME OwnerNews(m, sh, tr), NEW i \in 1 .. Len(Tail(m)), Tail(m)[i].type = "owner"
                 PROVE  /\ i + 1 \in 1 .. Len(Tail(m)) /\ Tail(m)[i + 1].type = "properties" /\ sh2 # tr
                        /\ \A k \in 1 .. Len(Tail(m)) : Tail(m)[k].type = "properties" /\ k < i
                               => Tail(m)[k].track # tr
      BY DEF OwnerNews
    <2>1. /\ i + 1 \in 1 .. Len(m) /\ m[i + 1].type = "owner" /\ i \in Nat /\ i >= 1
      BY <1>1
    <2>2. /\ (i + 1) + 1 \in 1 .. Len(m) /\ m[(i + 1) + 1].type = "properties" /\ sh # tr
          /\ \A k \in 1 .. Len(m) : m[k].type = "properties" /\ k < i + 1 => m[k].track # tr
      BY <2>1 DEF OwnerNews
    <2>3. i + 1 \in 1 .. Len(Tail(m))
      BY <1>1, <2>1, <2>2
    <2>4. Tail(m)[i + 1].type = "properties"
      BY <1>1, <2>2, <2>3
    <2>5. sh2 # tr
      BY <1>1, <2>1, <2>2
    <2>6. ASSUME NEW k \in 1 .. Len(Tail(m)), Tail(m)[k].type = "properties", k < i
          PROVE  Tail(m)[k].track # tr
      BY <1>1, <2>1, <2>2, <2>6
    <2> QED
      BY <2>3, <2>4, <2>5, <2>6
  <1>4. NoOwner(m) => NoOwner(Tail(m))
    BY <1>1 DEF NoOwner
  <1>5. \A s : TracksUpTo(m, s) => TracksUpTo(Tail(m), s)
    BY <1>1 DEF TracksUpTo
  <1> QED
    BY <1>2, <1>3, <1>4, <1>5

\* A mail with one message more.
LEMMA MoreMail ==
    ASSUME NEW m \in Seq(MP!Messages), NEW x \in MP!Messages, NEW same \in BOOLEAN, NEW s
    PROVE  /\ Append(m, x) \in Seq(MP!Messages)
           /\ HasNews(m, s, same) => HasNews(Append(m, x), s, same)
           /\ (MP!Tells(x) => x.spot = s) /\ Followed(m, s, same) => Followed(Append(m, x), s, same)
           /\ \/ x.type = "properties"
              \/ x.type = "seeked" /\ x.spot = s
              \/ x.type = "sought" /\ same /\ NoOwner(m)
              => HasNews(Append(m, x), s, same) /\ Followed(Append(m, x), s, same)
  <1> DEFINE r == Append(m, x)
             n == Len(m) + 1
  <1>1. /\ Len(m) \in Nat /\ Len(r) = n /\ r \in Seq(MP!Messages) /\ r[n] = x /\ n \in 1 .. Len(r)
        /\ \A i \in 1 .. Len(m) : r[i] = m[i] /\ i \in 1 .. Len(r) /\ i < n
        /\ \A i \in 1 .. Len(r) : i \in 1 .. Len(m) \/ i = n
    OBVIOUS
  <1>2. ASSUME NEW j \in 1 .. Len(m), News(m, s, same, j) PROVE News(r, s, same, j)
    <2>1. \A i \in 1 .. j : r[i] = m[i]
      BY <1>1
    <2> HIDE DEF r
    <2> QED
      BY <1>1, <1>2, <2>1 DEF News
  <1>3. HasNews(m, s, same) => HasNews(r, s, same)
    <2> HIDE DEF r
    <2> QED
      BY <1>1, <1>2 DEF HasNews
  <1>4. (MP!Tells(x) => x.spot = s) /\ Followed(m, s, same) => Followed(r, s, same)
    <2> SUFFICES ASSUME MP!Tells(x) => x.spot = s, Followed(m, s, same),
                        NEW i \in 1 .. Len(r), MP!Tells(r[i]), r[i].spot # s
                 PROVE  \E j \in 1 .. Len(r) : j > i /\ News(r, s, same, j)
      BY DEF Followed
    <2>1. i \in 1 .. Len(m) /\ m[i] = r[i]
      BY <1>1
    <2>2. PICK j \in 1 .. Len(m) : j > i /\ News(m, s, same, j)
      BY <2>1 DEF Followed
    <2> HIDE DEF r
    <2> QED
      BY <1>1, <1>2, <2>2
  <1>5. \/ x.type = "properties"
        \/ x.type = "seeked" /\ x.spot = s
        \/ x.type = "sought" /\ same /\ NoOwner(m)
        => HasNews(r, s, same) /\ Followed(r, s, same)
    <2> SUFFICES ASSUME \/ x.type = "properties"
                        \/ x.type = "seeked" /\ x.spot = s
                        \/ x.type = "sought" /\ same /\ NoOwner(m)
                 PROVE  HasNews(r, s, same) /\ Followed(r, s, same)
      OBVIOUS
    <2>1. x.type = "sought" /\ NoOwner(m) => \A i \in 1 .. n : r[i].type # "owner"
      BY <1>1 DEF NoOwner
    <2> HIDE DEF r
    <2>2. News(r, s, same, n)
      BY <1>1, <2>1 DEF News
    <2>3. MP!Tells(x) => x.spot = s
      BY DEF MP!Tells
    <2> QED
      BY <1>1, <2>2, <2>3 DEF HasNews, Followed
  <1> QED
    BY <1>1, <1>3, <1>4, <1>5

\* Of tracks and owners.
LEMMA MoreTracks ==
    ASSUME NEW m \in Seq(MP!Messages), NEW x \in MP!Messages, x.type # "owner", NEW sh, NEW tr
    PROVE  /\ NoOwner(m) => NoOwner(Append(m, x))
           /\ x.type # "properties" /\ TrackNews(m, sh, tr) => TrackNews(Append(m, x), sh, tr)
           /\ x.type # "properties" /\ OwnerNews(m, sh, tr) => OwnerNews(Append(m, x), sh, tr)
           /\ x.type = "properties" => TrackNews(Append(m, x), sh, x.track)
  <1> DEFINE r == Append(m, x)
             n == Len(m) + 1
  <1>1. /\ Len(m) \in Nat /\ Len(r) = n /\ r \in Seq(MP!Messages) /\ r[n] = x /\ n \in 1 .. Len(r)
        /\ \A i \in 1 .. Len(m) : r[i] = m[i] /\ i \in 1 .. Len(r) /\ i < n
        /\ \A i \in 1 .. Len(r) : i \in 1 .. Len(m) \/ i = n
    OBVIOUS
  <1> HIDE DEF r, n
  <1>2. NoOwner(m) => NoOwner(r)
    BY <1>1 DEF NoOwner
  <1>3. x.type # "properties" /\ TrackNews(m, sh, tr) => TrackNews(r, sh, tr)
    BY <1>1 DEF TrackNews
  <1>4. x.type # "properties" /\ OwnerNews(m, sh, tr) => OwnerNews(r, sh, tr)
    <2> SUFFICES ASSUME x.type # "properties", OwnerNews(m, sh, tr), NEW i \in 1 .. Len(r), r[i].type = "owner"
                 PROVE  /\ i + 1 \in 1 .. Len(r) /\ r[i + 1].type = "properties" /\ sh # tr
                        /\ \A k \in 1 .. Len(r) : r[k].type = "properties" /\ k < i => r[k].track # tr
      BY DEF OwnerNews
    <2>1. i \in 1 .. Len(m) /\ m[i].type = "owner"
      BY <1>1
    <2> QED
      BY <1>1, <2>1 DEF OwnerNews
  <1>5. x.type = "properties" => TrackNews(r, sh, x.track)
    BY <1>1 DEF TrackNews
  <1> QED
    BY <1>2, <1>3, <1>4, <1>5 DEF r

\* A track that nobody has heard of.
LEMMA NewTrack ==
    ASSUME NEW m \in Seq(MP!Messages), NEW x \in MP!Messages, x.type = "properties",
           NEW s \in Nat, NEW sh \in Nat, NEW tr, x.track = s + 1, sh <= s, TracksUpTo(m, s), OwnerNews(m, sh, tr)
    PROVE  OwnerNews(Append(m, x), sh, s + 1) /\ TracksUpTo(Append(m, x), s + 1)
  <1> DEFINE r == Append(m, x)
             n == Len(m) + 1
  <1>1. /\ Len(m) \in Nat /\ Len(r) = n /\ r \in Seq(MP!Messages) /\ r[n] = x /\ n \in 1 .. Len(r)
        /\ \A i \in 1 .. Len(m) : r[i] = m[i] /\ i \in 1 .. Len(r) /\ i < n
        /\ \A i \in 1 .. Len(r) : i \in 1 .. Len(m) \/ i = n
    OBVIOUS
  <1>2. \A i \in 1 .. Len(m) : m[i].type = "properties" => m[i].track \in Nat /\ m[i].track <= s
    <2>1. \A i \in 1 .. Len(m) : m[i] \in MP!Messages
      OBVIOUS
    <2> QED
      BY <2>1, MessageFields, ShellAssumption DEF TracksUpTo, MP!Jumps
  <1> HIDE DEF r, n
  <1>3. TracksUpTo(r, s + 1)
    BY <1>1, <1>2 DEF TracksUpTo
  <1>4. OwnerNews(r, sh, s + 1)
    <2> SUFFICES ASSUME NEW i \in 1 .. Len(r), r[i].type = "owner"
                 PROVE  /\ i + 1 \in 1 .. Len(r) /\ r[i + 1].type = "properties" /\ sh # s + 1
                        /\ \A k \in 1 .. Len(r) : r[k].type = "properties" /\ k < i => r[k].track # s + 1
      BY DEF OwnerNews
    <2>1. i \in 1 .. Len(m) /\ m[i].type = "owner"
      BY <1>1
    <2>2. i + 1 \in 1 .. Len(m) /\ m[i + 1].type = "properties"
      BY <2>1 DEF OwnerNews
    <2>3. \A k \in 1 .. Len(r) : k < i => k \in 1 .. Len(m)
      BY <1>1, <2>1
    <2>4. \A k \in 1 .. Len(r) : r[k].type = "properties" /\ k < i => r[k].track # s + 1
      BY <1>1, <1>2, <2>3
    <2> QED
      BY <1>1, <2>2, <2>4
  <1> QED
    BY <1>3, <1>4 DEF r

\* The player ends: its calls fail, and its successor is announced with its track.
LEMMA RestartMail ==
    ASSUME NEW m \in Seq(MP!Messages), NEW f \in Seq(MP!Messages), NEW o \in MP!Messages,
           NEW x \in MP!Messages, o.type = "owner", x.type = "properties",
           \A i \in 1 .. Len(f) : f[i].type \in {"position", "sought"},
           NEW s \in Nat, NEW sh \in Nat, NEW tr, x.track = s + 1, sh <= s, TracksUpTo(m, s), OwnerNews(m, sh, tr)
    PROVE  LET r == m \o f \o <<o, x>> IN
           /\ r \in Seq(MP!Messages)
           /\ \A same : HasNews(r, s + 1, same) /\ Followed(r, s + 1, same)
           /\ TrackNews(r, sh, s + 1) /\ OwnerNews(r, sh, s + 1) /\ TracksUpTo(r, s + 1)
  <1> DEFINE r == m \o f \o <<o, x>>
             n == Len(m) + Len(f) + 2
  <1>1. /\ Len(m) \in Nat /\ Len(f) \in Nat /\ <<o, x>> \in Seq(MP!Messages) /\ Len(<<o, x>>) = 2
        /\ m \o f \in Seq(MP!Messages) /\ Len(m \o f) = Len(m) + Len(f)
        /\ \A i \in 1 .. Len(m) : (m \o f)[i] = m[i]
        /\ \A i \in 1 .. Len(m) + Len(f) : i \notin 1 .. Len(m) =>
               (m \o f)[i] = f[i - Len(m)] /\ i - Len(m) \in 1 .. Len(f)
    OBVIOUS
  <1>2. /\ Len(r) = n /\ r \in Seq(MP!Messages) /\ r[n] = x /\ r[n - 1] = o /\ n \in 1 .. Len(r) /\ n - 1 \in 1 .. Len(r)
        /\ \A i \in 1 .. Len(m) + Len(f) : r[i] = (m \o f)[i] /\ i < n - 1
        /\ \A i \in 1 .. Len(r) : i \in 1 .. Len(m) + Len(f) \/ i = n - 1 \/ i = n
    <2> DEFINE mf == m \o f
    <2>1. mf \in Seq(MP!Messages) /\ Len(mf) = Len(m) + Len(f) /\ r = mf \o <<o, x>>
      BY <1>1
    <2> HIDE DEF mf
    <2>2. /\ Len(mf \o <<o, x>>) = n /\ mf \o <<o, x>> \in Seq(MP!Messages)
          /\ (mf \o <<o, x>>)[n] = x /\ (mf \o <<o, x>>)[n - 1] = o
          /\ \A i \in 1 .. Len(m) + Len(f) : (mf \o <<o, x>>)[i] = mf[i]
      BY <1>1, <2>1
    <2> HIDE DEF r
    <2>3. /\ Len(r) = n /\ r \in Seq(MP!Messages) /\ r[n] = x /\ r[n - 1] = o
          /\ \A i \in 1 .. Len(m) + Len(f) : r[i] = mf[i]
      BY <2>1, <2>2, Zenon
    <2>4. /\ n \in 1 .. n /\ n - 1 \in 1 .. n /\ \A i \in 1 .. Len(m) + Len(f) : i < n - 1
          /\ \A i \in 1 .. n : i \in 1 .. Len(m) + Len(f) \/ i = n - 1 \/ i = n
      <3>1. \A k \in Nat : /\ k + 2 \in 1 .. k + 2 /\ (k + 2) - 1 \in 1 .. k + 2
                           /\ \A i \in 1 .. k : i < (k + 2) - 1
                           /\ \A i \in 1 .. k + 2 : i \in 1 .. k \/ i = (k + 2) - 1 \/ i = k + 2
        OBVIOUS
      <3>2. Len(m) + Len(f) \in Nat
        BY <1>1
      <3> QED
        BY <3>1, <3>2, Zenon
    <2> HIDE DEF n
    <2> QED
      BY <2>3, <2>4 DEF mf
  <1>3. \A i \in 1 .. Len(m) : r[i] = m[i] /\ i < n - 1 /\ i \in 1 .. Len(r)
    BY <1>1, <1>2
  <1>4. \A i \in 1 .. Len(r) : r[i].type \in {"owner", "properties"} => i \in 1 .. Len(m) \/ i = n - 1 \/ i = n
    <2> HIDE DEF r
    <2> QED
      BY <1>1, <1>2, ZenonT(40)
  <1>5. \A i \in 1 .. Len(m) : m[i].type = "properties" => m[i].track \in Nat /\ m[i].track <= s
    <2>1. \A i \in 1 .. Len(m) : m[i] \in MP!Messages
      OBVIOUS
    <2> QED
      BY <2>1, MessageFields, ShellAssumption DEF TracksUpTo, MP!Jumps
  <1> HIDE DEF r
  <1>6. \A same : HasNews(r, s + 1, same) /\ Followed(r, s + 1, same)
    <2> TAKE same
    <2>1. News(r, s + 1, same, n)
      BY <1>2 DEF News
    <2>2. ~MP!Tells(r[n])
      BY <1>2 DEF MP!Tells
    <2>3. \A i \in 1 .. Len(r) : i < n \/ i = n
      BY <1>1, <1>2
    <2> HIDE DEF n
    <2> QED
      BY <1>2, <2>1, <2>2, <2>3 DEF HasNews, Followed
  <1>7. TrackNews(r, sh, s + 1)
    <2>1. \A i \in 1 .. Len(r) : i < n \/ i = n
      BY <1>1, <1>2
    <2> HIDE DEF n
    <2> QED
      BY <1>2, <2>1 DEF TrackNews
  <1>8. OwnerNews(r, sh, s + 1)
    <2> SUFFICES ASSUME NEW i \in 1 .. Len(r), r[i].type = "owner"
                 PROVE  /\ i + 1 \in 1 .. Len(r) /\ r[i + 1].type = "properties" /\ sh # s + 1
                        /\ \A k \in 1 .. Len(r) : r[k].type = "properties" /\ k < i => r[k].track # s + 1
      BY DEF OwnerNews
    <2>1. sh # s + 1
      OBVIOUS
    <2>2. \A k \in 1 .. Len(r) : r[k].type = "properties" /\ k < i => r[k].track # s + 1
      <3> TAKE k \in 1 .. Len(r)
      <3> SUFFICES ASSUME r[k].type = "properties", k < i PROVE r[k].track # s + 1
        OBVIOUS
      <3>1. k # n - 1 /\ k # n
        BY <1>1, <1>2
      <3>2. k \in 1 .. Len(m)
        BY <1>4, <3>1
      <3> QED
        BY <1>3, <1>5, <3>2
    <2>3. CASE i \in 1 .. Len(m)
      <3>1. i + 1 \in 1 .. Len(m) /\ m[i + 1].type = "properties"
        BY <1>3, <2>3 DEF OwnerNews
      <3> QED
        BY <1>3, <2>1, <2>2, <3>1
    <2>4. CASE i = n - 1
      <3>1. i + 1 = n
        BY <1>1, <2>4
      <3> QED
        BY <1>2, <2>1, <2>2, <3>1
    <2>5. CASE i = n
      BY <1>2, <2>5
    <2> QED
      BY <1>4, <2>3, <2>4, <2>5
  <1>9. TracksUpTo(r, s + 1)
    <2> SUFFICES ASSUME NEW i \in 1 .. Len(r), r[i].type = "properties" PROVE r[i].track <= s + 1
      BY DEF TracksUpTo
    <2>1. i # n - 1
      BY <1>2
    <2>2. CASE i \in 1 .. Len(m)
      BY <1>3, <1>5, <2>2
    <2>3. CASE i = n
      BY <1>2, <2>3
    <2> QED
      BY <1>4, <2>1, <2>2, <2>3
  <1> QED
    BY <1>2, <1>6, <1>7, <1>8, <1>9 DEF r

\* Each call that fails is answered.
LEMMA FailedCount ==
    ASSUME NEW c \in Seq(MP!Calls), MaxJumps \in Nat
    PROVE  LET f == [i \in 1 .. Len(c) |-> MP!Failed(c[i])] IN
           /\ f \in Seq(MP!Messages)
           /\ \A i \in 1 .. Len(f) : f[i].type \in {"position", "sought"}
           /\ MailOf(f, "position") = CallsOf(c, "read") /\ MailOf(f, "sought") = CallsOf(c, "seek")
  <1> DEFINE f == [i \in 1 .. Len(c) |-> MP!Failed(c[i])]
  <1>1. Len(c) \in Nat /\ \A i \in 1 .. Len(c) : c[i] \in MP!Calls
    OBVIOUS
  <1>2. \A i \in 1 .. Len(c) : /\ f[i] \in MP!Messages /\ f[i].type \in {"position", "sought"}
                               /\ f[i].type = "position" <=> c[i].type = "read"
                               /\ f[i].type = "sought" <=> c[i].type = "seek"
    <2> TAKE i \in 1 .. Len(c)
    <2>1. f[i] = MP!Failed(c[i]) /\ c[i].type \in {"read", "seek"}
      BY <1>1, MessageFields
    <2>2. /\ [type |-> "position", spot |-> 0, ok |-> FALSE] \in MP!Messages
          /\ [type |-> "sought"] \in MP!Messages
      BY DEF MP!Messages, MP!Jumps
    <2> QED
      BY <2>1, <2>2 DEF MP!Failed
  <1>3. f \in Seq(MP!Messages) /\ Len(f) = Len(c)
    BY <1>1, <1>2
  <1> HIDE DEF f
  <1>4. \A i \in 1 .. Len(f) : f[i].type \in {"position", "sought"}
    BY <1>2, <1>3
  <1>5. Marks(f, {x \in MP!Messages : x.type = "position"}) = Marks(c, {x \in MP!Calls : x.type = "read"})
    BY <1>1, <1>2, <1>3 DEF Marks
  <1>6. Marks(f, {x \in MP!Messages : x.type = "sought"}) = Marks(c, {x \in MP!Calls : x.type = "seek"})
    BY <1>1, <1>2, <1>3 DEF Marks
  <1> QED
    BY <1>3, <1>4, <1>5, <1>6 DEF f, MailOf, CallsOf

\* The places of a type of call or message are counted by Marks.
LEMMA OfMarks ==
    /\ \A c \in Seq(MP!Calls) : \A type : MP!Cardinality(MP!Of(c, type)) = CallsOf(c, type)
    /\ \A m \in Seq(MP!Messages) : \A type : MP!Cardinality(MP!Of(m, type)) = MailOf(m, type)
  <1>0. \A S : MP!Cardinality(S) = Cardinality(S)
    BY DEF MP!Cardinality, Cardinality, MP!IsFiniteSet, IsFiniteSet
  <1>1. ASSUME NEW c \in Seq(MP!Calls), NEW type
        PROVE  MP!Of(c, type) = Marks(c, {x \in MP!Calls : x.type = type})
    <2>1. DOMAIN c = 1 .. Len(c) /\ \A i \in 1 .. Len(c) : c[i] \in MP!Calls
      OBVIOUS
    <2> QED
      BY <2>1 DEF MP!Of, Marks
  <1>2. ASSUME NEW m \in Seq(MP!Messages), NEW type
        PROVE  MP!Of(m, type) = Marks(m, {x \in MP!Messages : x.type = type})
    <2>1. DOMAIN m = 1 .. Len(m) /\ \A i \in 1 .. Len(m) : m[i] \in MP!Messages
      OBVIOUS
    <2> QED
      BY <2>1 DEF MP!Of, Marks
  <1> QED
    BY <1>0, <1>1, <1>2, Zenon DEF CallsOf, MailOf

\* A call or a message of a type is there exactly when they are counted.
LEMMA SomeOf ==
    /\ \A c \in Seq(MP!Calls) : \A type : /\ CallsOf(c, type) \in Nat
                                          /\ MP!Of(c, type) # {} <=> CallsOf(c, type) # 0
    /\ \A m \in Seq(MP!Messages) : \A type : /\ MailOf(m, type) \in Nat
                                             /\ MP!Of(m, type) # {} <=> MailOf(m, type) # 0
  <1>1. ASSUME NEW c \in Seq(MP!Calls), NEW type
        PROVE  CallsOf(c, type) \in Nat /\ (MP!Of(c, type) # {} <=> CallsOf(c, type) # 0)
    <2>1. /\ CallsOf(c, type) \in Nat
          /\ CallsOf(c, type) = 0 <=> \A i \in 1 .. Len(c) : c[i] \notin {x \in MP!Calls : x.type = type}
      BY MarksFinite DEF CallsOf
    <2>2. DOMAIN c = 1 .. Len(c) /\ \A i \in 1 .. Len(c) : c[i] \in MP!Calls
      OBVIOUS
    <2> QED
      BY <2>1, <2>2 DEF MP!Of
  <1>2. ASSUME NEW m \in Seq(MP!Messages), NEW type
        PROVE  MailOf(m, type) \in Nat /\ (MP!Of(m, type) # {} <=> MailOf(m, type) # 0)
    <2>1. /\ MailOf(m, type) \in Nat
          /\ MailOf(m, type) = 0 <=> \A i \in 1 .. Len(m) : m[i] \notin {x \in MP!Messages : x.type = type}
      BY MarksFinite DEF MailOf
    <2>2. DOMAIN m = 1 .. Len(m) /\ \A i \in 1 .. Len(m) : m[i] \in MP!Messages
      OBVIOUS
    <2> QED
      BY <2>1, <2>2 DEF MP!Of
  <1> QED
    BY <1>1, <1>2

\* The invariant in terms of given mail and calls.
LEMMA PositionParts ==
    ASSUME NEW m \in Seq(MP!Messages), NEW c \in Seq(MP!Calls)
    PROVE  /\ \A type : DOMAIN m = 1 .. Len(m) /\ MP!Of(m, type) = {i \in 1 .. Len(m) : m[i].type = type}
           /\ \A type : DOMAIN c = 1 .. Len(c) /\ MP!Of(c, type) = {i \in 1 .. Len(c) : c[i].type = type}
  <1>1. DOMAIN m = 1 .. Len(m) /\ DOMAIN c = 1 .. Len(c)
    OBVIOUS
  <1> QED
    BY <1>1 DEF MP!Of

\* The invariant, unfolded.
LEMMA PositionLaw ==
    ASSUME MP!PositionInv
    PROVE  /\ positionMail \in Seq(MP!Messages) /\ positionCalls \in Seq(MP!Calls)
           /\ CallsOf(positionCalls, "read") + MailOf(positionMail, "position") = Num(positionReading)
           /\ CallsOf(positionCalls, "seek") + MailOf(positionMail, "sought") = Num(positionPending)
           /\ reread => positionReading
           /\ Followed(positionMail, spot, owner = seekOwner)
           /\ mapped => DueIn(positionMail, positionCalls, spot, owner = seekOwner, base, positionReading,
                              reread, MP!Fresh, positionPending, positionMissed)
           /\ shownPosition <= spot /\ track <= spot
           /\ TracksUpTo(positionMail, spot) /\ SeeksUpTo(positionCalls, spot)
           /\ TrackNews(positionMail, shownPosition, track) /\ OwnerNews(positionMail, shownPosition, track)
           /\ SeeksOf(positionCalls, track, owner = seekOwner /\ NoOwner(positionMail))
  <1>1. positionMail \in Seq(MP!Messages) /\ positionCalls \in Seq(MP!Calls)
    BY DEF MP!PositionInv, MP!PositionTypeOK
  <1>2. /\ \A type : DOMAIN positionMail = 1 .. Len(positionMail)
               /\ MP!Of(positionMail, type) = {i \in 1 .. Len(positionMail) : positionMail[i].type = type}
        /\ \A type : DOMAIN positionCalls = 1 .. Len(positionCalls)
               /\ MP!Of(positionCalls, type) = {i \in 1 .. Len(positionCalls) : positionCalls[i].type = type}
    BY <1>1, PositionParts
  <1>3. /\ CallsOf(positionCalls, "read") + MailOf(positionMail, "position") = Num(positionReading)
        /\ CallsOf(positionCalls, "seek") + MailOf(positionMail, "sought") = Num(positionPending)
        /\ reread => positionReading
    BY <1>1, OfMarks DEF MP!PositionInv, MP!AnswersCome, MP!OneAnswer, Num
  <1>4. Followed(positionMail, spot, owner = seekOwner)
    BY <1>2 DEF MP!PositionInv, MP!OldIsFollowed, Followed, News, MP!Settles
  <1>5. mapped => DueIn(positionMail, positionCalls, spot, owner = seekOwner, base, positionReading,
                        reread, MP!Fresh, positionPending, positionMissed)
    <2>1. MP!Of(positionCalls, "seek") # {} <=> CallsOf(positionCalls, "seek") # 0
      BY <1>1, SomeOf
    <2>2. (\E j \in DOMAIN positionMail : MP!Settles(j)) => HasNews(positionMail, spot, owner = seekOwner)
      BY <1>2 DEF HasNews, News, MP!Settles
    <2> QED
      BY <2>1, <2>2 DEF MP!PositionInv, MP!PositionIsDue, DueIn
  <1>6. /\ shownPosition <= spot /\ track <= spot
        /\ TracksUpTo(positionMail, spot) /\ SeeksUpTo(positionCalls, spot)
    BY <1>2 DEF MP!PositionInv, MP!TracksBounded, TracksUpTo, SeeksUpTo
  <1>7. TrackNews(positionMail, shownPosition, track)
    BY <1>2 DEF MP!PositionInv, MP!TrackIsDue, TrackNews
  <1>8. OwnerNews(positionMail, shownPosition, track)
    BY <1>2 DEF MP!PositionInv, MP!OwnersTrack, OwnerNews
  <1>9. SeeksOf(positionCalls, track, owner = seekOwner /\ NoOwner(positionMail))
    BY <1>2 DEF MP!PositionInv, MP!OwnersTrack, SeeksOf, NoOwner
  <1> QED
    BY <1>1, <1>3, <1>4, <1>5, <1>6, <1>7, <1>8, <1>9

\* What is to be shown of the next state.
LEMMA PositionLawNext ==
    ASSUME MP!PositionTypeOK',
           CallsOf(positionCalls', "read") + MailOf(positionMail', "position") = Num(positionReading'),
           CallsOf(positionCalls', "seek") + MailOf(positionMail', "sought") = Num(positionPending'),
           reread' => positionReading',
           Followed(positionMail', spot', owner' = seekOwner'),
           mapped' => DueIn(positionMail', positionCalls', spot', owner' = seekOwner', base', positionReading',
                            reread', MP!Fresh', positionPending', positionMissed'),
           shownPosition' <= spot' /\ track' <= spot',
           TracksUpTo(positionMail', spot') /\ SeeksUpTo(positionCalls', spot'),
           TrackNews(positionMail', shownPosition', track') /\ OwnerNews(positionMail', shownPosition', track'),
           SeeksOf(positionCalls', track', owner' = seekOwner' /\ NoOwner(positionMail'))
    PROVE  MP!PositionInv'
  <1>1. positionMail' \in Seq(MP!Messages) /\ positionCalls' \in Seq(MP!Calls)
    BY DEF MP!PositionTypeOK
  <1>2. /\ \A type : DOMAIN positionMail' = 1 .. Len(positionMail')
               /\ MP!Of(positionMail', type) = {i \in 1 .. Len(positionMail') : positionMail'[i].type = type}
        /\ \A type : DOMAIN positionCalls' = 1 .. Len(positionCalls')
               /\ MP!Of(positionCalls', type) = {i \in 1 .. Len(positionCalls') : positionCalls'[i].type = type}
    BY <1>1, PositionParts
  <1>3. MP!AnswersCome'
    BY <1>1, OfMarks DEF MP!AnswersCome, MP!OneAnswer, Num
  <1>4. MP!OldIsFollowed'
    BY <1>2 DEF MP!OldIsFollowed, Followed, News, MP!Settles
  <1>5. MP!PositionIsDue'
    <2>1. MP!Of(positionCalls', "seek") # {} <=> CallsOf(positionCalls', "seek") # 0
      BY <1>1, SomeOf
    <2>2. HasNews(positionMail', spot', owner' = seekOwner') => (\E j \in DOMAIN positionMail : MP!Settles(j))'
      BY <1>2 DEF HasNews, News, MP!Settles
    <2> QED
      BY <2>1, <2>2 DEF MP!PositionIsDue, DueIn
  <1>6. MP!TracksBounded'
    BY <1>2 DEF MP!TracksBounded, TracksUpTo, SeeksUpTo
  <1>7. MP!TrackIsDue'
    <2>1. shownPosition' # track' => MP!Of(positionMail', "properties") # {}
      BY <1>2 DEF TrackNews
    <2>2. \A i \in MP!Of(positionMail', "properties") : positionMail'[i].track # track'
              => \E j \in MP!Of(positionMail', "properties") : j > i
      BY <1>2, ZenonT(40) DEF TrackNews
    <2> QED
      BY <2>1, <2>2 DEF MP!TrackIsDue
  <1>8. MP!OwnersTrack'
    BY <1>2, SMTT(30) DEF MP!OwnersTrack, OwnerNews, SeeksOf, NoOwner
  <1>9. MP!SettlesOnPosition'
    <2> SUFFICES ASSUME mapped', positionMail' = <<>>, positionCalls' = <<>>, ~positionMissed'
                 PROVE  base' = spot' /\ shownPosition' = track'
      BY DEF MP!SettlesOnPosition
    <2>1. CallsOf(positionCalls', "read") = 0 /\ MailOf(positionMail', "position") = 0
          /\ CallsOf(positionCalls', "seek") = 0 /\ MailOf(positionMail', "sought") = 0
      <3>1. \A S : Marks(<<>>, S) = {}
        BY DEF Marks
      <3> QED
        BY <3>1, FS_EmptySet DEF CallsOf, MailOf
    <2>2. ~positionReading' /\ ~positionPending'
      BY <2>1 DEF Num
    <2>3. ~HasNews(positionMail', spot', owner' = seekOwner')
      BY DEF HasNews
    <2>4. shownPosition' = track'
      BY DEF TrackNews
    <2> QED
      BY <2>2, <2>3, <2>4 DEF DueIn
  <1> QED
    BY <1>3, <1>4, <1>5, <1>6, <1>7, <1>8, <1>9 DEF MP!PositionInv

\* The counts of a mail and of calls with one more or one less.
LEMMA Counted ==
    /\ \A m \in Seq(MP!Messages) : \A x \in MP!Messages : \A t : MailOf(Append(m, x), t) = MailOf(m, t) + (IF x.type = t THEN 1 ELSE 0)
    /\ \A m \in Seq(MP!Messages) : \A t : m # <<>> => MailOf(m, t) = MailOf(Tail(m), t) + (IF m[1].type = t THEN 1 ELSE 0)
    /\ \A c \in Seq(MP!Calls) : \A x \in MP!Calls : \A t : CallsOf(Append(c, x), t) = CallsOf(c, t) + (IF x.type = t THEN 1 ELSE 0)
    /\ \A c \in Seq(MP!Calls) : \A t : c # <<>> => CallsOf(c, t) = CallsOf(Tail(c), t) + (IF c[1].type = t THEN 1 ELSE 0)
    /\ \A t : CallsOf(<<>>, t) = 0 /\ MailOf(<<>>, t) = 0
  <1>1. ASSUME NEW m \in Seq(MP!Messages), NEW x \in MP!Messages, NEW t
        PROVE  MailOf(Append(m, x), t) = MailOf(m, t) + (IF x.type = t THEN 1 ELSE 0)
    BY MarksAppend DEF MailOf, Num
  <1>2. ASSUME NEW m \in Seq(MP!Messages), NEW t, m # <<>>
        PROVE  MailOf(m, t) = MailOf(Tail(m), t) + (IF m[1].type = t THEN 1 ELSE 0)
    <2>1. m[1] = Head(m) /\ m[1] \in MP!Messages
      BY <1>2
    <2> QED
      BY <1>2, <2>1, MarksTail DEF MailOf, Num
  <1>3. ASSUME NEW c \in Seq(MP!Calls), NEW x \in MP!Calls, NEW t
        PROVE  CallsOf(Append(c, x), t) = CallsOf(c, t) + (IF x.type = t THEN 1 ELSE 0)
    BY MarksAppend DEF CallsOf, Num
  <1>4. ASSUME NEW c \in Seq(MP!Calls), NEW t, c # <<>>
        PROVE  CallsOf(c, t) = CallsOf(Tail(c), t) + (IF c[1].type = t THEN 1 ELSE 0)
    <2>1. c[1] = Head(c) /\ c[1] \in MP!Calls
      BY <1>4
    <2> QED
      BY <1>4, <2>1, MarksTail DEF CallsOf, Num
  <1>5. \A t : CallsOf(<<>>, t) = 0 /\ MailOf(<<>>, t) = 0
    <2>1. \A S : Marks(<<>>, S) = {}
      BY DEF Marks
    <2> QED
      BY <2>1, FS_EmptySet DEF CallsOf, MailOf
  <1> QED
    BY <1>1, <1>2, <1>3, <1>4, <1>5

\* The tracks of mail and calls stay within what the player has reached.
LEMMA UpTo ==
    ASSUME NEW m \in Seq(MP!Messages), NEW c \in Seq(MP!Calls), NEW s \in Nat, MaxJumps \in Nat
    PROVE  /\ TracksUpTo(m, s) => TracksUpTo(m, s + 1)
           /\ \A x \in MP!Messages : (x.type = "properties" => x.track <= s) /\ TracksUpTo(m, s)
                => TracksUpTo(Append(m, x), s)
           /\ SeeksUpTo(c, s) => SeeksUpTo(c, s + 1) /\ \A fine : SeeksOf(c, s + 1, fine)
           /\ \A x \in MP!Calls : (x.type = "seek" => x.track <= s) /\ SeeksUpTo(c, s) => SeeksUpTo(Append(c, x), s)
           /\ c # <<>> /\ SeeksUpTo(c, s) => SeeksUpTo(Tail(c), s)
           /\ SeeksUpTo(<<>>, s) /\ \A tr, fine : SeeksOf(<<>>, tr, fine)
  <1>1. /\ \A i \in 1 .. Len(m) : m[i] \in MP!Messages /\ (m[i].type = "properties" => m[i].track \in Nat)
        /\ \A i \in 1 .. Len(c) : c[i] \in MP!Calls /\ (c[i].type = "seek" => c[i].track \in Nat)
    <2>1. /\ \A i \in 1 .. Len(m) : m[i] \in MP!Messages
          /\ \A i \in 1 .. Len(c) : c[i] \in MP!Calls
      OBVIOUS
    <2> QED
      BY <2>1, MessageFields DEF MP!Jumps
  <1>2. TracksUpTo(m, s) => TracksUpTo(m, s + 1)
    BY <1>1 DEF TracksUpTo
  <1>3. SeeksUpTo(c, s) => SeeksUpTo(c, s + 1) /\ \A fine : SeeksOf(c, s + 1, fine)
    BY <1>1 DEF SeeksUpTo, SeeksOf
  <1>4. ASSUME NEW x \in MP!Messages, x.type = "properties" => x.track <= s, TracksUpTo(m, s)
        PROVE  TracksUpTo(Append(m, x), s)
    BY <1>4 DEF TracksUpTo
  <1>5. ASSUME NEW x \in MP!Calls, x.type = "seek" => x.track <= s, SeeksUpTo(c, s)
        PROVE  SeeksUpTo(Append(c, x), s)
    BY <1>5 DEF SeeksUpTo
  <1>6. c # <<>> /\ SeeksUpTo(c, s) => SeeksUpTo(Tail(c), s)
    <2> SUFFICES ASSUME c # <<>>, SeeksUpTo(c, s), NEW i \in 1 .. Len(Tail(c)), Tail(c)[i].type = "seek"
                 PROVE  Tail(c)[i].track <= s
      BY DEF SeeksUpTo
    <2>1. Tail(c)[i] = c[i + 1] /\ i + 1 \in 1 .. Len(c)
      OBVIOUS
    <2> QED
      BY <2>1 DEF SeeksUpTo
  <1>7. SeeksUpTo(<<>>, s) /\ \A tr, fine : SeeksOf(<<>>, tr, fine)
    BY DEF SeeksUpTo, SeeksOf
  <1> QED
    BY <1>2, <1>3, <1>4, <1>5, <1>6, <1>7

\* The same of what was asked for the track that plays.
LEMMA SeeksKept ==
    ASSUME NEW c \in Seq(MP!Calls), NEW tr, NEW fine \in BOOLEAN, NEW fine2 \in BOOLEAN, fine => fine2,
           SeeksOf(c, tr, fine)
    PROVE  /\ SeeksOf(c, tr, fine2)
           /\ \A x \in MP!Calls : (x.type = "seek" /\ x.track = tr => fine2) => SeeksOf(Append(c, x), tr, fine2)
           /\ c # <<>> => SeeksOf(Tail(c), tr, fine2)
  <1>1. SeeksOf(c, tr, fine2)
    BY DEF SeeksOf
  <1>2. ASSUME NEW x \in MP!Calls, x.type = "seek" /\ x.track = tr => fine2
        PROVE  SeeksOf(Append(c, x), tr, fine2)
    <2> SUFFICES ASSUME NEW i \in 1 .. Len(Append(c, x)), Append(c, x)[i].type = "seek", Append(c, x)[i].track = tr
                 PROVE  fine2
      BY DEF SeeksOf
    <2>1. CASE i \in 1 .. Len(c)
      <3>1. Append(c, x)[i] = c[i]
        BY <2>1
      <3> QED
        BY <1>1, <2>1, <3>1 DEF SeeksOf
    <2>2. CASE i = Len(c) + 1
      <3>1. Append(c, x)[i] = x
        BY <2>2
      <3> QED
        BY <1>2, <3>1
    <2>3. i \in 1 .. Len(c) \/ i = Len(c) + 1
      OBVIOUS
    <2> QED
      BY <2>1, <2>2, <2>3
  <1>3. c # <<>> => SeeksOf(Tail(c), tr, fine2)
    <2> SUFFICES ASSUME c # <<>>, NEW i \in 1 .. Len(Tail(c)), Tail(c)[i].type = "seek", Tail(c)[i].track = tr
                 PROVE  fine2
      BY DEF SeeksOf
    <2>1. Tail(c)[i] = c[i + 1] /\ i + 1 \in 1 .. Len(c)
      OBVIOUS
    <2> QED
      BY <1>1, <2>1 DEF SeeksOf
  <1> QED
    BY <1>1, <1>2, <1>3

\* The bounds and what the invariant's variables are.
LEMMA PositionTyped ==
    ASSUME MP!PositionTypeOK
    PROVE  /\ MaxJumps \in Nat /\ MaxMail \in Nat /\ MaxLives \in Nat \ {0}
           /\ {playerLife, owner, readOwner, seekOwner} \subseteq 1 .. MaxLives
           /\ {track, shownPosition, spot, base} \subseteq MP!Jumps
           /\ track \in Nat /\ shownPosition \in Nat /\ spot \in Nat /\ base \in Nat
           /\ {positionOvertaken, mapped, positionReading, reread, positionPending, positionMissed} \subseteq BOOLEAN
           /\ positionMail \in Seq(MP!Messages) /\ positionCalls \in Seq(MP!Calls)
  BY ShellAssumption DEF MP!PositionTypeOK, MP!Jumps, MP!PositionAssumption

\* The spot after a move.
LEMMA NextSpot ==
    ASSUME MP!PositionTypeOK, MP!Moved
    PROVE  spot' = spot + 1 /\ spot' \in MP!Jumps /\ spot' \in Nat
  BY PositionTyped DEF MP!Moved, MP!Jumps

\* The counts that stay, and the one that grows.
LEMMA MailMore ==
    ASSUME NEW m \in Seq(MP!Messages), NEW x \in MP!Messages
    PROVE  \A t : /\ t # x.type => MailOf(Append(m, x), t) = MailOf(m, t)
                  /\ t = x.type => MailOf(Append(m, x), t) = MailOf(m, t) + 1
  <1> TAKE t
  <1>1. MailOf(Append(m, x), t) = MailOf(m, t) + (IF x.type = t THEN 1 ELSE 0) /\ MailOf(m, t) \in Nat
    BY Counted, SomeOf
  <1>2. CASE t = x.type
    BY <1>1, <1>2 DEF Num
  <1>3. CASE t # x.type
    <2>1. (IF x.type = t THEN 1 ELSE 0) = 0
      BY <1>3 DEF Num
    <2> QED
      BY <1>1, <1>3, <2>1
  <1> QED
    BY <1>2, <1>3

\* One call more.
LEMMA CallsMore ==
    ASSUME NEW c \in Seq(MP!Calls), NEW x \in MP!Calls
    PROVE  \A t : /\ t # x.type => CallsOf(Append(c, x), t) = CallsOf(c, t)
                  /\ t = x.type => CallsOf(Append(c, x), t) = CallsOf(c, t) + 1
  <1> TAKE t
  <1>1. CallsOf(Append(c, x), t) = CallsOf(c, t) + (IF x.type = t THEN 1 ELSE 0) /\ CallsOf(c, t) \in Nat
    BY Counted, SomeOf
  <1>2. CASE t = x.type
    BY <1>1, <1>2 DEF Num
  <1>3. CASE t # x.type
    <2>1. (IF x.type = t THEN 1 ELSE 0) = 0
      BY <1>3 DEF Num
    <2> QED
      BY <1>1, <1>3, <2>1
  <1> QED
    BY <1>2, <1>3

\* One message or call less.
LEMMA OneLess ==
    /\ \A m \in Seq(MP!Messages) : m # <<>> => \A t :
            /\ t # m[1].type => MailOf(Tail(m), t) = MailOf(m, t)
            /\ t = m[1].type => MailOf(m, t) = MailOf(Tail(m), t) + 1
    /\ \A c \in Seq(MP!Calls) : c # <<>> => \A t :
            /\ t # c[1].type => CallsOf(Tail(c), t) = CallsOf(c, t)
            /\ t = c[1].type => CallsOf(c, t) = CallsOf(Tail(c), t) + 1
  <1>0. /\ \A n, k \in Nat : \A a, b : a # b /\ n = k + (IF b = a THEN 1 ELSE 0) => k = n
        /\ \A n, k \in Nat : \A a : n = k + (IF a = a THEN 1 ELSE 0) => n = k + 1
    BY DEF Num
  <1>1. ASSUME NEW m \in Seq(MP!Messages), m # <<>>, NEW t
        PROVE  /\ t # m[1].type => MailOf(Tail(m), t) = MailOf(m, t)
               /\ t = m[1].type => MailOf(m, t) = MailOf(Tail(m), t) + 1
    <2>1. MailOf(m, t) = MailOf(Tail(m), t) + (IF m[1].type = t THEN 1 ELSE 0) /\ MailOf(m, t) \in Nat /\ MailOf(Tail(m), t) \in Nat
      <3>1. Tail(m) \in Seq(MP!Messages)
        BY <1>1
      <3> QED
        <4>1. MailOf(m, t) \in Nat /\ MailOf(Tail(m), t) \in Nat
          BY <3>1, SomeOf
        <4>2. MailOf(m, t) = MailOf(Tail(m), t) + (IF m[1].type = t THEN 1 ELSE 0)
          BY <1>1, Counted
        <4> QED
          BY <4>1, <4>2
    <2> QED
      BY <1>0, <2>1, Zenon
  <1>2. ASSUME NEW c \in Seq(MP!Calls), c # <<>>, NEW t
        PROVE  /\ t # c[1].type => CallsOf(Tail(c), t) = CallsOf(c, t)
               /\ t = c[1].type => CallsOf(c, t) = CallsOf(Tail(c), t) + 1
    <2>1. CallsOf(c, t) = CallsOf(Tail(c), t) + (IF c[1].type = t THEN 1 ELSE 0) /\ CallsOf(c, t) \in Nat /\ CallsOf(Tail(c), t) \in Nat
      <3>1. Tail(c) \in Seq(MP!Calls)
        BY <1>2
      <3> QED
        <4>1. CallsOf(c, t) \in Nat /\ CallsOf(Tail(c), t) \in Nat
          BY <3>1, SomeOf
        <4>2. CallsOf(c, t) = CallsOf(Tail(c), t) + (IF c[1].type = t THEN 1 ELSE 0)
          BY <1>2, Counted
        <4> QED
          BY <4>1, <4>2
    <2> QED
      BY <1>0, <2>1, Zenon
  <1> QED
    BY <1>1, <1>2, Zenon

\* Initially.
LEMMA PositionStart ==
    ASSUME MP!PositionInit
    PROVE  MP!PositionInv
  <1>1. /\ playerLife = 1 /\ track = 0 /\ spot \in MP!Jumps /\ positionMail = <<>> /\ positionCalls = <<>>
        /\ owner = 1 /\ shownPosition = 0 /\ base = 0
        /\ positionOvertaken = FALSE /\ mapped = FALSE
        /\ positionReading = FALSE /\ reread = FALSE /\ positionPending = FALSE
        /\ readOwner = 1 /\ seekOwner = 1 /\ positionMissed = FALSE
    BY DEF MP!PositionInit
  <1>2. MP!PositionTypeOK
    <2>1. 1 \in 1 .. MaxLives /\ 0 \in MP!Jumps
      BY ShellAssumption DEF MP!PositionAssumption, MP!Jumps
    <2>2. positionMail \in Seq(MP!Messages) /\ positionCalls \in Seq(MP!Calls)
      BY <1>1
    <2>3. {positionOvertaken, mapped, positionReading, reread, positionPending, positionMissed} \subseteq BOOLEAN
      BY <1>1
    <2> QED
      BY <1>1, <2>1, <2>2, <2>3 DEF MP!PositionTypeOK
  <1>3. \A type : MP!Of(positionMail, type) = {} /\ MP!Of(positionCalls, type) = {}
    BY <1>1 DEF MP!Of
  <1>4. MP!Cardinality({}) = 0
    <2>1. Cardinality({}) = 0
      BY FS_EmptySet
    <2> QED
      BY <2>1 DEF MP!Cardinality, Cardinality, MP!IsFiniteSet, IsFiniteSet
  <1>5. MP!AnswersCome
    <2>1. \A type : /\ MP!Cardinality(MP!Of(positionMail, type)) = 0
                     /\ MP!Cardinality(MP!Of(positionCalls, type)) = 0
      BY <1>3, <1>4
    <2> QED
      BY <1>1, <2>1 DEF MP!AnswersCome, MP!OneAnswer
  <1>6. MP!OldIsFollowed /\ MP!PositionIsDue /\ MP!SettlesOnPosition
    BY <1>1 DEF MP!OldIsFollowed, MP!PositionIsDue, MP!SettlesOnPosition
  <1>7. MP!TracksBounded /\ MP!TrackIsDue /\ MP!OwnersTrack
    BY <1>1, <1>3, ShellAssumption DEF MP!TracksBounded, MP!TrackIsDue, MP!OwnersTrack, MP!Jumps, MP!PositionAssumption
  <1> QED
    BY <1>2, <1>5, <1>6, <1>7 DEF MP!PositionInv

\* Another client moves the position.
LEMMA SeeksStep ==
    ASSUME MP!PositionInv, MP!Seeks
    PROVE  MP!PositionInv'
  <1> DEFINE x == [type |-> "seeked", spot |-> spot']
  <1>0. MP!PositionTypeOK
    BY DEF MP!PositionInv
  <1>1. spot' = spot + 1 /\ spot' \in MP!Jumps /\ spot' \in Nat
    BY <1>0, NextSpot DEF MP!Seeks
  <1>2. x \in MP!Messages /\ x.type = "seeked" /\ x.spot = spot'
    BY <1>1 DEF MP!Messages
  <1>3. /\ positionMail' = Append(positionMail, x)
        /\ UNCHANGED <<playerLife, track, positionCalls, owner, shownPosition, base, positionOvertaken, mapped,
                       positionReading, reread, positionPending, readOwner, seekOwner, positionMissed>>
    BY DEF MP!Seeks, MP!Says, MP!slider
  <1> HIDE DEF x
  <1>4. positionMail' \in Seq(MP!Messages)
    BY <1>0, <1>2, <1>3, MoreMail DEF MP!PositionTypeOK
  <1>5. MP!PositionTypeOK'
    BY <1>0, <1>1, <1>3, <1>4 DEF MP!PositionTypeOK
  <1>6. \A t : t # "seeked" => MailOf(positionMail', t) = MailOf(positionMail, t)
    <2>1. positionMail \in Seq(MP!Messages)
      BY <1>0, PositionTyped
    <2>2. \A t : t # x.type => MailOf(Append(positionMail, x), t) = MailOf(positionMail, t)
      BY <1>2, <2>1, MailMore
    <2> QED
      BY <1>2, <1>3, <2>2, Zenon
  <1>7. (owner' = seekOwner') \in BOOLEAN /\ (owner' = seekOwner') = (owner = seekOwner)
    BY <1>3
  <1>8. /\ HasNews(positionMail', spot', owner' = seekOwner')
        /\ Followed(positionMail', spot', owner' = seekOwner')
    BY <1>0, <1>2, <1>3, <1>7, MoreMail, PositionTyped
  <1>9. /\ TracksUpTo(positionMail', spot') /\ SeeksUpTo(positionCalls', spot')
        /\ TrackNews(positionMail', shownPosition', track') /\ OwnerNews(positionMail', shownPosition', track')
        /\ NoOwner(positionMail) => NoOwner(positionMail')
    <2>1. TracksUpTo(positionMail, spot + 1) /\ SeeksUpTo(positionCalls, spot + 1)
      BY <1>0, PositionLaw, PositionTyped, UpTo
    <2>2. TracksUpTo(positionMail', spot')
      BY <1>0, <1>1, <1>2, <1>3, <2>1, PositionTyped, UpTo
    <2>3. /\ TrackNews(positionMail', shownPosition, track) /\ OwnerNews(positionMail', shownPosition, track)
          /\ NoOwner(positionMail) => NoOwner(positionMail')
      BY <1>0, <1>2, <1>3, PositionLaw, PositionTyped, MoreTracks
    <2> QED
      BY <1>1, <1>3, <2>1, <2>2, <2>3
  <1>10. SeeksOf(positionCalls', track', owner' = seekOwner' /\ NoOwner(positionMail'))
    BY <1>3, <1>9, PositionLaw DEF SeeksOf
  <1>11. shownPosition' <= spot' /\ track' <= spot'
    BY <1>0, <1>1, <1>3, PositionLaw, PositionTyped
  <1>12. DueIn(positionMail', positionCalls', spot', owner' = seekOwner', base', positionReading',
               reread', MP!Fresh', positionPending', positionMissed')
    BY <1>8 DEF DueIn
  <1> QED
    BY <1>3, <1>5, <1>6, <1>8, <1>9, <1>10, <1>11, <1>12, PositionLaw, PositionLawNext

\* The player's track changes.
LEMMA ChangesTrackStep ==
    ASSUME MP!PositionInv, MP!ChangesTrack
    PROVE  MP!PositionInv'
  <1> DEFINE x == [type |-> "properties", track |-> track']
  <1>0. MP!PositionTypeOK
    BY DEF MP!PositionInv
  <1>1. spot' = spot + 1 /\ spot' \in MP!Jumps /\ spot' \in Nat /\ track' = spot + 1
    BY <1>0, NextSpot DEF MP!ChangesTrack
  <1>2. x \in MP!Messages /\ x.type = "properties" /\ x.track = spot + 1
    BY <1>1 DEF MP!Messages
  <1>3. /\ positionMail' = Append(positionMail, x)
        /\ UNCHANGED <<playerLife, positionCalls, owner, shownPosition, base, positionOvertaken, mapped,
                       positionReading, reread, positionPending, readOwner, seekOwner, positionMissed>>
    BY DEF MP!ChangesTrack, MP!Says, MP!slider
  <1> HIDE DEF x
  <1>4. positionMail' \in Seq(MP!Messages)
    BY <1>0, <1>2, <1>3, MoreMail DEF MP!PositionTypeOK
  <1>5. MP!PositionTypeOK'
    BY <1>0, <1>1, <1>3, <1>4 DEF MP!PositionTypeOK
  <1>6. \A t : t # "properties" => MailOf(positionMail', t) = MailOf(positionMail, t)
    <2>1. positionMail \in Seq(MP!Messages)
      BY <1>0, PositionTyped
    <2>2. \A t : t # x.type => MailOf(Append(positionMail, x), t) = MailOf(positionMail, t)
      BY <1>2, <2>1, MailMore
    <2> QED
      BY <1>2, <1>3, <2>2, Zenon
  <1>8. /\ HasNews(positionMail', spot', owner' = seekOwner')
        /\ Followed(positionMail', spot', owner' = seekOwner')
    <2>1. ~MP!Tells(x)
      BY <1>2 DEF MP!Tells
    <2>2. HasNews(positionMail', spot', owner' = seekOwner')
      BY <1>0, <1>2, <1>3, MoreMail, PositionTyped
    <2>3. Followed(positionMail', spot', owner' = seekOwner')
      BY <1>0, <1>2, <1>3, MoreMail, PositionTyped
    <2> QED
      BY <2>2, <2>3
  <1>9. /\ TracksUpTo(positionMail', spot') /\ OwnerNews(positionMail', shownPosition', track')
    <2>1. /\ TracksUpTo(positionMail, spot) /\ OwnerNews(positionMail, shownPosition, track)
          /\ shownPosition <= spot
      BY PositionLaw
    <2> QED
      BY <1>0, <1>1, <1>2, <1>3, <2>1, PositionTyped, NewTrack
  <1>10. TrackNews(positionMail', shownPosition', track')
    BY <1>0, <1>1, <1>2, <1>3, PositionTyped, MoreTracks
  <1>11. SeeksUpTo(positionCalls', spot') /\ SeeksOf(positionCalls', track', owner' = seekOwner' /\ NoOwner(positionMail'))
    BY <1>0, <1>1, <1>3, PositionLaw, PositionTyped, UpTo
  <1>12. shownPosition' <= spot' /\ track' <= spot'
    BY <1>0, <1>1, <1>3, PositionLaw, PositionTyped
  <1>13. DueIn(positionMail', positionCalls', spot', owner' = seekOwner', base', positionReading',
               reread', MP!Fresh', positionPending', positionMissed')
    BY <1>8 DEF DueIn
  <1> QED
    BY <1>3, <1>5, <1>6, <1>8, <1>9, <1>10, <1>11, <1>12, <1>13, PositionLaw, PositionLawNext

\* The player answers a reading.
LEMMA AnswersReadStep ==
    ASSUME MP!PositionInv, MP!AnswersRead
    PROVE  MP!PositionInv'
  <1> DEFINE x == [type |-> "position", spot |-> spot, ok |-> TRUE]
  <1>0. MP!PositionTypeOK
    BY DEF MP!PositionInv
  <1>1. /\ positionMail \in Seq(MP!Messages) /\ positionCalls \in Seq(MP!Calls) /\ spot \in MP!Jumps /\ spot \in Nat
        /\ track \in Nat /\ MaxJumps \in Nat
    BY <1>0, PositionTyped
  <1>2. x \in MP!Messages /\ x.type = "position" /\ x.spot = spot
    BY <1>1 DEF MP!Messages
  <1>3. /\ positionCalls # <<>> /\ positionCalls[1].type = "read" /\ positionCalls' = Tail(positionCalls)
        /\ positionMail' = Append(positionMail, x)
        /\ UNCHANGED <<playerLife, track, spot, owner, shownPosition, base, positionOvertaken, mapped,
                       positionReading, reread, positionPending, readOwner, seekOwner, positionMissed>>
    BY DEF MP!AnswersRead, MP!Says, MP!slider, MP!player, MP!Asked
  <1> HIDE DEF x
  <1>4. positionMail' \in Seq(MP!Messages) /\ positionCalls' \in Seq(MP!Calls)
    BY <1>1, <1>2, <1>3, MoreMail
  <1>5. MP!PositionTypeOK'
    BY <1>0, <1>3, <1>4 DEF MP!PositionTypeOK
  <1>6. /\ MailOf(positionMail', "position") = MailOf(positionMail, "position") + 1
        /\ CallsOf(positionCalls, "read") = CallsOf(positionCalls', "read") + 1
        /\ MailOf(positionMail', "sought") = MailOf(positionMail, "sought")
        /\ CallsOf(positionCalls', "seek") = CallsOf(positionCalls, "seek")
    BY <1>1, <1>2, <1>3, MailMore, OneLess
  <1>7. /\ CallsOf(positionCalls', "read") + MailOf(positionMail', "position") = Num(positionReading')
        /\ CallsOf(positionCalls', "seek") + MailOf(positionMail', "sought") = Num(positionPending')
    <2>1. /\ CallsOf(positionCalls, "read") \in Nat /\ CallsOf(positionCalls', "read") \in Nat
          /\ MailOf(positionMail, "position") \in Nat
      BY <1>1, <1>4, SomeOf
    <2> QED
      BY <1>3, <1>6, <2>1, PositionLaw
  <1>8. /\ HasNews(positionMail, spot, owner = seekOwner) => HasNews(positionMail', spot', owner' = seekOwner')
        /\ Followed(positionMail', spot', owner' = seekOwner')
    BY <1>1, <1>2, <1>3, MoreMail, PositionLaw
  <1>9. /\ TracksUpTo(positionMail', spot') /\ SeeksUpTo(positionCalls', spot')
        /\ TrackNews(positionMail', shownPosition', track') /\ OwnerNews(positionMail', shownPosition', track')
        /\ NoOwner(positionMail) => NoOwner(positionMail')
    BY <1>1, <1>2, <1>3, PositionLaw, UpTo, MoreTracks
  <1>10. SeeksOf(positionCalls', track', owner' = seekOwner' /\ NoOwner(positionMail'))
    <2>1. NoOwner(positionMail) \in BOOLEAN /\ NoOwner(positionMail') \in BOOLEAN
      BY DEF NoOwner
    <2> QED
      BY <1>1, <1>3, <1>9, <2>1, PositionLaw, SeeksKept
  <1>11. mapped' => DueIn(positionMail', positionCalls', spot', owner' = seekOwner', base', positionReading',
               reread', MP!Fresh', positionPending', positionMissed')
    BY <1>3, <1>6, <1>8, PositionLaw DEF DueIn, MP!Fresh
  <1>12. (reread' => positionReading') /\ shownPosition' <= spot' /\ track' <= spot'
    BY <1>3, PositionLaw
  <1> QED
    BY <1>5, <1>7, <1>8, <1>9, <1>10, <1>11, <1>12, PositionLawNext

\* It moves as it was asked to, or answers that it plays another track.
LEMMA AnswersSeekStep ==
    ASSUME MP!PositionInv, MP!AnswersSeek
    PROVE  MP!PositionInv'
  <1> DEFINE x == [type |-> "sought"]
  <1>0. MP!PositionTypeOK
    BY DEF MP!PositionInv
  <1>1. /\ positionMail \in Seq(MP!Messages) /\ positionCalls \in Seq(MP!Calls) /\ spot \in MP!Jumps /\ spot \in Nat
        /\ track \in Nat /\ shownPosition \in Nat /\ MaxJumps \in Nat
    BY <1>0, PositionTyped
  <1>2. x \in MP!Messages /\ x.type = "sought" /\ ~MP!Tells(x)
    BY DEF MP!Messages, MP!Tells
  <1>3. /\ positionCalls # <<>> /\ positionCalls[1].type = "seek" /\ positionCalls' = Tail(positionCalls)
        /\ positionMail' = Append(positionMail, x)
        /\ IF positionCalls[1].track = track THEN MP!Moved ELSE UNCHANGED spot
        /\ UNCHANGED <<playerLife, track, owner, shownPosition, base, positionOvertaken, mapped,
                       positionReading, reread, positionPending, readOwner, seekOwner, positionMissed>>
    BY DEF MP!AnswersSeek, MP!Says, MP!slider, MP!Asked
  <1> HIDE DEF x
  <1>4. positionMail' \in Seq(MP!Messages) /\ positionCalls' \in Seq(MP!Calls)
    BY <1>1, <1>2, <1>3, MoreMail
  <1>s. spot' \in MP!Jumps /\ (spot' = spot \/ spot' = spot + 1)
    BY <1>0, <1>1, <1>3, NextSpot
  <1>5. MP!PositionTypeOK'
    BY <1>0, <1>3, <1>4, <1>s DEF MP!PositionTypeOK
  <1>6. /\ MailOf(positionMail', "position") = MailOf(positionMail, "position")
        /\ CallsOf(positionCalls', "read") = CallsOf(positionCalls, "read")
        /\ MailOf(positionMail', "sought") = MailOf(positionMail, "sought") + 1
        /\ CallsOf(positionCalls, "seek") = CallsOf(positionCalls', "seek") + 1
    BY <1>1, <1>2, <1>3, MailMore, OneLess
  <1>7. /\ CallsOf(positionCalls', "read") + MailOf(positionMail', "position") = Num(positionReading')
        /\ CallsOf(positionCalls', "seek") + MailOf(positionMail', "sought") = Num(positionPending')
    <2>1. /\ CallsOf(positionCalls, "seek") \in Nat /\ CallsOf(positionCalls', "seek") \in Nat
          /\ MailOf(positionMail, "sought") \in Nat
      BY <1>1, <1>4, SomeOf
    <2> QED
      BY <1>3, <1>6, <2>1, PositionLaw
  <1>8. /\ Followed(positionMail', spot', owner' = seekOwner')
        /\ mapped' => DueIn(positionMail', positionCalls', spot', owner' = seekOwner', base', positionReading',
               reread', MP!Fresh', positionPending', positionMissed')
    <2>1. CASE positionCalls[1].track = track
      <3>1. owner = seekOwner /\ NoOwner(positionMail)
        <4>1. 1 \in 1 .. Len(positionCalls)
          BY <1>1, <1>3
        <4> QED
          BY <1>3, <2>1, <4>1, PositionLaw DEF SeeksOf
      <3>2. HasNews(positionMail', spot', owner = seekOwner) /\ Followed(positionMail', spot', owner = seekOwner)
        BY <1>1, <1>2, <1>3, <3>1, MoreMail
      <3> QED
        BY <1>3, <3>2 DEF DueIn
    <2>2. CASE positionCalls[1].track # track
      <3>1. spot' = spot
        BY <1>3, <2>2
      <3>2. /\ HasNews(positionMail, spot, owner = seekOwner) => HasNews(positionMail', spot', owner' = seekOwner')
            /\ Followed(positionMail', spot', owner' = seekOwner')
        BY <1>1, <1>2, <1>3, <3>1, MoreMail, PositionLaw
      <3>3. owner = seekOwner => HasNews(positionMail', spot', owner' = seekOwner')
        <4>1. CASE NoOwner(positionMail)
          BY <1>1, <1>2, <1>3, <3>1, <4>1, MoreMail
        <4>2. CASE ~NoOwner(positionMail)
          <5>1. PICK i \in 1 .. Len(positionMail) : positionMail[i].type = "owner"
            BY <4>2 DEF NoOwner
          <5>2. i + 1 \in 1 .. Len(positionMail) /\ positionMail[i + 1].type = "properties"
            BY <5>1, PositionLaw DEF OwnerNews
          <5>3. News(positionMail, spot, owner = seekOwner, i + 1)
            BY <5>2 DEF News
          <5> QED
            BY <3>2, <5>2, <5>3 DEF HasNews
        <4> QED
          BY <4>1, <4>2
      <3> QED
        BY <1>3, <3>1, <3>2, <3>3, PositionLaw DEF DueIn, MP!Fresh
    <2> QED
      BY <2>1, <2>2
  <1>9. /\ TrackNews(positionMail', shownPosition', track') /\ OwnerNews(positionMail', shownPosition', track')
        /\ NoOwner(positionMail) => NoOwner(positionMail')
    BY <1>1, <1>2, <1>3, PositionLaw, MoreTracks
  <1>10. TracksUpTo(positionMail', spot') /\ SeeksUpTo(positionCalls', spot')
    <2>1. TracksUpTo(positionMail', spot) /\ SeeksUpTo(positionCalls', spot)
      BY <1>1, <1>2, <1>3, PositionLaw, UpTo
    <2> QED
      BY <1>1, <1>4, <1>s, <2>1, UpTo
  <1>11. SeeksOf(positionCalls', track', owner' = seekOwner' /\ NoOwner(positionMail'))
    <2>1. NoOwner(positionMail) \in BOOLEAN /\ NoOwner(positionMail') \in BOOLEAN
      BY DEF NoOwner
    <2> QED
      BY <1>1, <1>3, <1>9, <2>1, PositionLaw, SeeksKept
  <1>12. (reread' => positionReading') /\ shownPosition' <= spot' /\ track' <= spot'
    BY <1>1, <1>3, <1>s, PositionLaw
  <1> QED
    BY <1>5, <1>7, <1>8, <1>9, <1>10, <1>11, <1>12, PositionLawNext

\* It ends, and another takes its name.
LEMMA RestartsStep ==
    ASSUME MP!PositionInv, MP!Restarts
    PROVE  MP!PositionInv'
  <1> DEFINE o == [type |-> "owner", owner |-> playerLife']
             x == [type |-> "properties", track |-> track']
             f == [i \in 1 .. Len(positionCalls) |-> MP!Failed(positionCalls[i])]
  <1>0. MP!PositionTypeOK
    BY DEF MP!PositionInv
  <1>1. /\ positionMail \in Seq(MP!Messages) /\ positionCalls \in Seq(MP!Calls) /\ spot \in MP!Jumps /\ spot \in Nat
        /\ track \in Nat /\ shownPosition \in Nat /\ MaxJumps \in Nat
    BY <1>0, PositionTyped
  <1>s. spot' = spot + 1 /\ spot' \in MP!Jumps /\ track' = spot + 1 /\ playerLife' \in 1 .. MaxLives
    <2>1. playerLife \in 1 .. MaxLives /\ playerLife < MaxLives /\ playerLife' = playerLife + 1 /\ MaxLives \in Nat
      BY <1>0, PositionTyped DEF MP!Restarts
    <2> QED
      BY <1>0, <2>1, NextSpot DEF MP!Restarts
  <1>2. /\ o \in MP!Messages /\ o.type = "owner"
        /\ x \in MP!Messages /\ x.type = "properties" /\ x.track = spot + 1
    BY <1>s DEF MP!Messages
  <1>3. /\ positionCalls' = <<>> /\ positionMail' = positionMail \o f \o <<o, x>>
        /\ UNCHANGED <<owner, shownPosition, base, positionOvertaken, mapped,
                       positionReading, reread, positionPending, readOwner, seekOwner, positionMissed>>
    BY DEF MP!Restarts, MP!slider
  <1>f. /\ f \in Seq(MP!Messages) /\ \A i \in 1 .. Len(f) : f[i].type \in {"position", "sought"}
        /\ MailOf(f, "position") = CallsOf(positionCalls, "read")
        /\ MailOf(f, "sought") = CallsOf(positionCalls, "seek")
    BY <1>1, FailedCount
  <1> HIDE DEF o, x, f
  <1>4. /\ positionMail' \in Seq(MP!Messages)
        /\ HasNews(positionMail', spot', owner' = seekOwner') /\ Followed(positionMail', spot', owner' = seekOwner')
        /\ TrackNews(positionMail', shownPosition', track') /\ OwnerNews(positionMail', shownPosition', track')
        /\ TracksUpTo(positionMail', spot')
    <2>1. /\ shownPosition <= spot /\ TracksUpTo(positionMail, spot)
          /\ OwnerNews(positionMail, shownPosition, track)
      BY PositionLaw
    <2> QED
      BY <1>1, <1>2, <1>3, <1>f, <1>s, <2>1, RestartMail
  <1>5. MP!PositionTypeOK'
    <2>1. positionCalls' \in Seq(MP!Calls)
      BY <1>3
    <2> QED
      BY <1>0, <1>3, <1>4, <1>s, <2>1 DEF MP!PositionTypeOK
  <1>6. ASSUME NEW t, t \notin {"owner", "properties"}
        PROVE  MailOf(positionMail', t) = MailOf(positionMail, t) + MailOf(f, t)
    <2> DEFINE S == {y \in MP!Messages : y.type = t}
               mf == positionMail \o f
    <2>1. mf \in Seq(MP!Messages) /\ <<o, x>> \in Seq(MP!Messages) /\ positionMail' = mf \o <<o, x>>
      BY <1>1, <1>2, <1>3, <1>f
    <2>2. Cardinality(Marks(mf, S)) = Cardinality(Marks(positionMail, S)) + Cardinality(Marks(f, S))
      BY <1>1, <1>f, MarksConcat
    <2>3. Marks(<<o, x>>, S) = {}
      BY <1>2, <1>6 DEF Marks
    <2>4. Cardinality(Marks(<<o, x>>, S)) = 0
      BY <2>3, FS_EmptySet
    <2>5. Cardinality(Marks(mf, S)) \in Nat
      BY <2>1, MarksFinite
    <2>6. Cardinality(Marks(positionMail', S)) = Cardinality(Marks(mf, S)) + Cardinality(Marks(<<o, x>>, S))
      <3> DEFINE ox == <<o, x>>
      <3> HIDE DEF mf, ox, S
      <3>1. mf \in Seq(MP!Messages) /\ ox \in Seq(MP!Messages)
        BY <2>1 DEF ox
      <3>2. Cardinality(Marks(mf \o ox, S)) = Cardinality(Marks(mf, S)) + Cardinality(Marks(ox, S))
        BY <3>1, MarksConcat
      <3> QED
        BY <2>1, <3>2 DEF ox
    <2> HIDE DEF mf
    <2> QED
      BY <2>2, <2>4, <2>5, <2>6 DEF MailOf
  <1>7. /\ CallsOf(positionCalls', "read") + MailOf(positionMail', "position") = Num(positionReading')
        /\ CallsOf(positionCalls', "seek") + MailOf(positionMail', "sought") = Num(positionPending')
    <2>1. /\ MailOf(positionMail', "position") = MailOf(positionMail, "position") + CallsOf(positionCalls, "read")
          /\ MailOf(positionMail', "sought") = MailOf(positionMail, "sought") + CallsOf(positionCalls, "seek")
      BY <1>6, <1>f
    <2>2. /\ MailOf(positionMail, "position") \in Nat /\ MailOf(positionMail, "sought") \in Nat
          /\ CallsOf(positionCalls, "read") \in Nat /\ CallsOf(positionCalls, "seek") \in Nat
      BY <1>1, SomeOf
    <2>3. CallsOf(positionCalls', "read") = 0 /\ CallsOf(positionCalls', "seek") = 0
      BY <1>3, Counted
    <2> QED
      BY <1>3, <2>1, <2>2, <2>3, PositionLaw
  <1>8. /\ SeeksUpTo(positionCalls', spot') /\ SeeksOf(positionCalls', track', owner' = seekOwner' /\ NoOwner(positionMail'))
        /\ mapped' => DueIn(positionMail', positionCalls', spot', owner' = seekOwner', base', positionReading',
               reread', MP!Fresh', positionPending', positionMissed')
    BY <1>3, <1>4 DEF SeeksUpTo, SeeksOf, DueIn
  <1>9. (reread' => positionReading') /\ shownPosition' <= spot' /\ track' <= spot'
    BY <1>1, <1>3, <1>s, PositionLaw
  <1> QED
    BY <1>4, <1>5, <1>7, <1>8, <1>9, PositionLawNext

\* What a message that arrives leaves.
LEMMA Arrived ==
    ASSUME NEW m \in Seq(MP!Messages), m # <<>>
    PROVE  /\ Tail(m) \in Seq(MP!Messages) /\ m[1] \in MP!Messages /\ 1 \in 1 .. Len(m)
           /\ \A t : MailOf(m, t) \in Nat /\ MailOf(Tail(m), t) \in Nat
           /\ \A t : t # m[1].type => MailOf(Tail(m), t) = MailOf(m, t)
           /\ \A t : t = m[1].type => MailOf(m, t) = MailOf(Tail(m), t) + 1
           /\ NoOwner(m) \in BOOLEAN /\ NoOwner(Tail(m)) \in BOOLEAN /\ (NoOwner(m) => NoOwner(Tail(m)))
           /\ \A s : TracksUpTo(m, s) => TracksUpTo(Tail(m), s)
           /\ \A s, same : HasNews(m, s, same) /\ ~News(m, s, same, 1) /\ same \in BOOLEAN => HasNews(Tail(m), s, same)
           /\ \A s, same : Followed(m, s, same) /\ same \in BOOLEAN => Followed(Tail(m), s, same)
           /\ \A s, same : Followed(m, s, same) /\ same \in BOOLEAN /\ MP!Tells(m[1]) /\ m[1].spot # s
                              => HasNews(Tail(m), s, same)
  <1>1. Tail(m) \in Seq(MP!Messages) /\ m[1] \in MP!Messages /\ 1 \in 1 .. Len(m)
    OBVIOUS
  <1>2. /\ \A t : MailOf(m, t) \in Nat /\ MailOf(Tail(m), t) \in Nat
        /\ \A t : t # m[1].type => MailOf(Tail(m), t) = MailOf(m, t)
        /\ \A t : t = m[1].type => MailOf(m, t) = MailOf(Tail(m), t) + 1
    BY <1>1, SomeOf, OneLess
  <1>3. NoOwner(m) \in BOOLEAN /\ NoOwner(Tail(m)) \in BOOLEAN
    BY DEF NoOwner
  <1>4. (NoOwner(m) => NoOwner(Tail(m))) /\ \A s : TracksUpTo(m, s) => TracksUpTo(Tail(m), s)
    BY LessTracks
  <1>5. ASSUME NEW s, NEW same, same \in BOOLEAN
        PROVE  /\ HasNews(m, s, same) /\ ~News(m, s, same, 1) => HasNews(Tail(m), s, same)
               /\ Followed(m, s, same) => Followed(Tail(m), s, same)
               /\ Followed(m, s, same) /\ MP!Tells(m[1]) /\ m[1].spot # s => HasNews(Tail(m), s, same)
    BY <1>5, LessMail
  <1> QED
    BY <1>1, <1>2, <1>3, <1>4, <1>5

\* A reading that starts is the only one.
LEMMA ReadingStarts ==
    ASSUME NEW c \in Seq(MP!Calls), MaxJumps \in Nat
    PROVE  /\ Append(c, [type |-> "read"]) \in Seq(MP!Calls)
           /\ CallsOf(c, "read") \in Nat /\ CallsOf(c, "seek") \in Nat
           /\ CallsOf(Append(c, [type |-> "read"]), "read") = CallsOf(c, "read") + 1
           /\ CallsOf(Append(c, [type |-> "read"]), "seek") = CallsOf(c, "seek")
           /\ \A s \in Nat : SeeksUpTo(c, s) => SeeksUpTo(Append(c, [type |-> "read"]), s)
           /\ \A tr : \A fine \in BOOLEAN : SeeksOf(c, tr, fine) => SeeksOf(Append(c, [type |-> "read"]), tr, fine)
  <1> DEFINE x == [type |-> "read"]
  <1>1. x \in MP!Calls /\ x.type = "read"
    BY DEF MP!Calls
  <1> HIDE DEF x
  <1>2. Append(c, x) \in Seq(MP!Calls) /\ CallsOf(c, "read") \in Nat /\ CallsOf(c, "seek") \in Nat
    BY <1>1, SomeOf
  <1>3. /\ CallsOf(Append(c, x), "read") = CallsOf(c, "read") + 1
        /\ CallsOf(Append(c, x), "seek") = CallsOf(c, "seek")
    BY <1>1, CallsMore
  <1>4. \A s \in Nat : SeeksUpTo(c, s) => SeeksUpTo(Append(c, x), s)
    <2> TAKE s \in Nat
    <2>1. <<>> \in Seq(MP!Messages)
      OBVIOUS
    <2> QED
      BY <1>1, <2>1, UpTo
  <1>5. \A tr : \A fine \in BOOLEAN : SeeksOf(c, tr, fine) => SeeksOf(Append(c, x), tr, fine)
    BY <1>1, SeeksKept
  <1> QED
    BY <1>2, <1>3, <1>4, <1>5 DEF x

\* What read leaves: one reading at most has a call or an answer on its way.
LEMMA ReadLeaves ==
    ASSUME MP!PositionTypeOK, mapped' \in BOOLEAN, owner' \in 1 .. MaxLives,
           NEW STATE busy, NEW STATE next, NEW STATE old, NEW n \in Nat,
           busy \in BOOLEAN, next \in BOOLEAN, old \in BOOLEAN, next => busy,
           CallsOf(positionCalls, "read") + n = Num(busy),
           MP!Read(busy, next, old)
    PROVE  /\ positionCalls' \in Seq(MP!Calls)
           /\ positionReading' \in BOOLEAN /\ reread' \in BOOLEAN /\ positionOvertaken' \in BOOLEAN
           /\ readOwner' \in 1 .. MaxLives
           /\ CallsOf(positionCalls', "read") + n = Num(positionReading')
           /\ CallsOf(positionCalls', "seek") = CallsOf(positionCalls, "seek")
           /\ reread' => positionReading'
           /\ mapped' => positionReading' /\ (reread' \/ (~positionOvertaken' /\ owner' = readOwner'))
           /\ SeeksUpTo(positionCalls, spot) => SeeksUpTo(positionCalls', spot)
           /\ \A tr : \A fine \in BOOLEAN : SeeksOf(positionCalls, tr, fine) => SeeksOf(positionCalls', tr, fine)
  <1>1. positionCalls \in Seq(MP!Calls) /\ readOwner \in 1 .. MaxLives /\ spot \in Nat /\ MaxJumps \in Nat
    BY PositionTyped
  <1>2. CASE mapped' /\ ~busy
    <2>1. /\ positionReading' = TRUE /\ reread' = next /\ positionOvertaken' = FALSE /\ readOwner' = owner'
          /\ positionCalls' = Append(positionCalls, [type |-> "read"])
      BY <1>2 DEF MP!Read
    <2>2. reread' \in BOOLEAN
      BY <2>1
    <2>3. CallsOf(positionCalls', "read") + n = Num(positionReading')
      BY <1>1, <1>2, <2>1, ReadingStarts DEF Num
    <2> QED
      BY <1>1, <2>1, <2>2, <2>3, ReadingStarts
  <1>3. CASE ~(mapped' /\ ~busy)
    <2>1. /\ positionReading' = busy /\ reread' = (IF mapped' THEN TRUE ELSE next) /\ positionOvertaken' = old
          /\ readOwner' = readOwner /\ positionCalls' = positionCalls
      BY <1>3 DEF MP!Read, MP!Noted
    <2>2. positionReading' \in BOOLEAN /\ reread' \in BOOLEAN /\ positionOvertaken' \in BOOLEAN
      BY <2>1
    <2>3. mapped' => positionReading' /\ reread'
      BY <1>3, <2>1
    <2>4. reread' => positionReading'
      BY <1>3, <2>1
    <2> QED
      BY <1>1, <2>1, <2>2, <2>3, <2>4
  <1> QED
    BY <1>2, <1>3

\* The properties arrive: the track is shown, and the position is read.
LEMMA RefreshStep ==
    ASSUME MP!PositionInv, MP!Refresh
    PROVE  MP!PositionInv'
  <1>0. MP!PositionTypeOK
    BY DEF MP!PositionInv
  <1>1. /\ positionMail \in Seq(MP!Messages) /\ positionCalls \in Seq(MP!Calls) /\ spot \in Nat
        /\ positionReading \in BOOLEAN /\ reread \in BOOLEAN /\ mapped \in BOOLEAN
        /\ owner \in 1 .. MaxLives /\ base \in MP!Jumps /\ 0 \in MP!Jumps
    BY <1>0, PositionTyped DEF MP!Jumps
  <1>2. /\ positionMail # <<>> /\ positionMail[1].type = "properties" /\ positionMail' = Tail(positionMail)
        /\ shownPosition' = positionMail[1].track
        /\ base' = IF shownPosition' # shownPosition THEN 0 ELSE base
        /\ UNCHANGED <<mapped, owner, playerLife, track, spot, positionPending, seekOwner, positionMissed>>
        /\ MP!Read(positionReading, reread, TRUE)
    BY DEF MP!Refresh, MP!Arrives, MP!player
  <1>3. positionMail' \in Seq(MP!Messages) /\ shownPosition' \in MP!Jumps /\ base' \in MP!Jumps /\ shownPosition' <= spot
    <2>1. shownPosition' \in MP!Jumps
      BY <1>1, <1>2, Arrived, MessageFields
    <2>2. shownPosition' <= spot
      BY <1>1, <1>2, Arrived, PositionLaw DEF TracksUpTo
    <2> QED
      BY <1>1, <1>2, <2>1, <2>2, Arrived
  <1>4. /\ positionCalls' \in Seq(MP!Calls)
        /\ positionReading' \in BOOLEAN /\ reread' \in BOOLEAN /\ positionOvertaken' \in BOOLEAN
        /\ readOwner' \in 1 .. MaxLives
        /\ CallsOf(positionCalls', "read") + MailOf(positionMail, "position") = Num(positionReading')
        /\ CallsOf(positionCalls', "seek") = CallsOf(positionCalls, "seek")
        /\ reread' => positionReading'
        /\ mapped' => positionReading' /\ (reread' \/ (~positionOvertaken' /\ owner' = readOwner'))
        /\ SeeksUpTo(positionCalls, spot) => SeeksUpTo(positionCalls', spot)
        /\ \A tr : \A fine \in BOOLEAN : SeeksOf(positionCalls, tr, fine) => SeeksOf(positionCalls', tr, fine)
    <2>1. mapped' \in BOOLEAN /\ owner' \in 1 .. MaxLives /\ MailOf(positionMail, "position") \in Nat
      BY <1>1, <1>2, SomeOf
    <2>2. (reread => positionReading) /\ CallsOf(positionCalls, "read") + MailOf(positionMail, "position") = Num(positionReading)
      BY PositionLaw
    <2>3. PICK n \in Nat : n = MailOf(positionMail, "position")
      BY <2>1
    <2>4. CallsOf(positionCalls, "read") + n = Num(positionReading)
      BY <2>2, <2>3
    <2> QED
      BY <1>0, <1>1, <1>2, <2>1, <2>2, <2>3, <2>4, ReadLeaves
  <1>5. MP!PositionTypeOK'
    BY <1>0, <1>1, <1>2, <1>3, <1>4 DEF MP!PositionTypeOK
  <1>6. /\ MailOf(positionMail', "position") = MailOf(positionMail, "position")
        /\ MailOf(positionMail', "sought") = MailOf(positionMail, "sought")
        /\ NoOwner(positionMail) \in BOOLEAN /\ NoOwner(positionMail') \in BOOLEAN
        /\ NoOwner(positionMail) => NoOwner(positionMail')
        /\ TracksUpTo(positionMail', spot')
        /\ Followed(positionMail', spot', owner' = seekOwner')
    BY <1>1, <1>2, Arrived, PositionLaw
  <1>7. /\ CallsOf(positionCalls', "read") + MailOf(positionMail', "position") = Num(positionReading')
        /\ CallsOf(positionCalls', "seek") + MailOf(positionMail', "sought") = Num(positionPending')
    BY <1>2, <1>4, <1>6, PositionLaw
  <1>8. TrackNews(positionMail', shownPosition', track') /\ OwnerNews(positionMail', shownPosition', track')
    <2>1. PICK sh \in MP!Jumps : sh = shownPosition'
      BY <1>3
    <2>2. sh = IF positionMail[1].type = "properties" THEN positionMail[1].track ELSE shownPosition
      BY <1>2, <2>1
    <2>3. TrackNews(Tail(positionMail), sh, track) /\ OwnerNews(Tail(positionMail), sh, track)
      BY <1>1, <1>2, <2>2, LessTracks, PositionLaw
    <2> QED
      BY <1>2, <2>1, <2>3
  <1>9. SeeksUpTo(positionCalls', spot') /\ SeeksOf(positionCalls', track', owner' = seekOwner' /\ NoOwner(positionMail'))
    <2>1. SeeksOf(positionCalls, track', owner' = seekOwner' /\ NoOwner(positionMail'))
      BY <1>2, <1>6, PositionLaw DEF SeeksOf
    <2> QED
      BY <1>2, <1>4, <1>6, <2>1, PositionLaw
  <1>10. mapped' => DueIn(positionMail', positionCalls', spot', owner' = seekOwner', base', positionReading',
               reread', MP!Fresh', positionPending', positionMissed')
    BY <1>4 DEF DueIn, MP!Fresh
  <1>11. track' <= spot' /\ shownPosition' <= spot'
    BY <1>2, <1>3, PositionLaw
  <1> QED
    BY <1>4, <1>5, <1>6, <1>7, <1>8, <1>9, <1>10, <1>11, PositionLawNext

\* A Seeked signal arrives.
LEMMA SeekedStep ==
    ASSUME MP!PositionInv, MP!Seeked
    PROVE  MP!PositionInv'
  <1>0. MP!PositionTypeOK
    BY DEF MP!PositionInv
  <1>1. /\ positionMail \in Seq(MP!Messages) /\ positionCalls \in Seq(MP!Calls) /\ spot \in Nat
    BY <1>0, PositionTyped
  <1>2. /\ positionMail # <<>> /\ positionMail[1].type = "seeked" /\ positionMail' = Tail(positionMail)
        /\ base' = positionMail[1].spot /\ positionOvertaken' = TRUE
        /\ UNCHANGED <<playerLife, track, spot, positionCalls, owner, shownPosition, mapped,
                       positionReading, reread, positionPending, readOwner, seekOwner, positionMissed>>
    BY DEF MP!Seeked, MP!Arrives, MP!player, MP!Anchor
  <1>3. positionMail' \in Seq(MP!Messages) /\ base' \in MP!Jumps
    BY <1>1, <1>2, Arrived, MessageFields
  <1>5. MP!PositionTypeOK'
    BY <1>0, <1>1, <1>2, <1>3 DEF MP!PositionTypeOK
  <1>6. /\ MailOf(positionMail', "position") = MailOf(positionMail, "position")
        /\ MailOf(positionMail', "sought") = MailOf(positionMail, "sought")
        /\ NoOwner(positionMail) => NoOwner(positionMail')
        /\ TracksUpTo(positionMail', spot')
        /\ Followed(positionMail', spot', owner' = seekOwner')
        /\ base' # spot => HasNews(positionMail', spot', owner' = seekOwner')
    BY <1>1, <1>2, Arrived, PositionLaw DEF MP!Tells
  <1>8. TrackNews(positionMail', shownPosition', track') /\ OwnerNews(positionMail', shownPosition', track')
    BY <1>1, <1>2, LessTracks, PositionLaw
  <1>9. SeeksUpTo(positionCalls', spot') /\ SeeksOf(positionCalls', track', owner' = seekOwner' /\ NoOwner(positionMail'))
    BY <1>2, <1>6, PositionLaw DEF SeeksOf
  <1>10. DueIn(positionMail', positionCalls', spot', owner' = seekOwner', base', positionReading',
               reread', MP!Fresh', positionPending', positionMissed')
    BY <1>2, <1>6 DEF DueIn
  <1>11. track' <= spot' /\ shownPosition' <= spot' /\ (reread' => positionReading')
    BY <1>2, PositionLaw
  <1> QED
    BY <1>2, <1>5, <1>6, <1>8, <1>9, <1>10, <1>11, PositionLaw, PositionLawNext

\* The name has a new owner.
LEMMA OwnerStep ==
    ASSUME MP!PositionInv, MP!OwnerChanges
    PROVE  MP!PositionInv'
  <1>0. MP!PositionTypeOK
    BY DEF MP!PositionInv
  <1>1. /\ positionMail \in Seq(MP!Messages) /\ positionCalls \in Seq(MP!Calls) /\ spot \in Nat
    BY <1>0, PositionTyped
  <1>2. /\ positionMail # <<>> /\ positionMail[1].type = "owner" /\ positionMail' = Tail(positionMail)
        /\ owner' = positionMail[1].owner
        /\ UNCHANGED <<playerLife, track, spot, positionCalls, base, positionOvertaken, shownPosition, mapped,
                       positionReading, reread, positionPending, readOwner, seekOwner, positionMissed>>
    BY DEF MP!OwnerChanges, MP!Arrives, MP!player
  <1>3. positionMail' \in Seq(MP!Messages) /\ owner' \in 1 .. MaxLives
    BY <1>1, <1>2, Arrived, MessageFields
  <1>5. MP!PositionTypeOK'
    BY <1>0, <1>1, <1>2, <1>3 DEF MP!PositionTypeOK
  <1>6. /\ MailOf(positionMail', "position") = MailOf(positionMail, "position")
        /\ MailOf(positionMail', "sought") = MailOf(positionMail, "sought")
        /\ TracksUpTo(positionMail', spot')
    BY <1>1, <1>2, Arrived, PositionLaw
  <1>7. Followed(positionMail', spot', owner' = seekOwner')
    <2>1. PICK same2 \in BOOLEAN : same2 = (owner' = seekOwner')
      OBVIOUS
    <2>2. Followed(Tail(positionMail), spot, same2)
      BY <1>1, <1>2, LessMail, PositionLaw
    <2> QED
      BY <1>2, <2>1, <2>2
  <1>8. TrackNews(positionMail', shownPosition', track') /\ OwnerNews(positionMail', shownPosition', track')
    BY <1>1, <1>2, LessTracks, PositionLaw
  <1>9. SeeksUpTo(positionCalls', spot') /\ SeeksOf(positionCalls', track', owner' = seekOwner' /\ NoOwner(positionMail'))
    <2>1. ~NoOwner(positionMail)
      BY <1>1, <1>2, Arrived DEF NoOwner
    <2> QED
      BY <1>2, <2>1, PositionLaw DEF SeeksOf
  <1>10. HasNews(positionMail', spot', owner' = seekOwner')
    <2>1. 2 \in 1 .. Len(positionMail) /\ positionMail[2].type = "properties"
      BY <1>1, <1>2, Arrived, PositionLaw DEF OwnerNews
    <2>2. 1 \in 1 .. Len(positionMail') /\ positionMail'[1] = positionMail[2]
      BY <1>1, <1>2, <2>1
    <2> QED
      BY <2>1, <2>2 DEF HasNews, News
  <1>11. DueIn(positionMail', positionCalls', spot', owner' = seekOwner', base', positionReading',
               reread', MP!Fresh', positionPending', positionMissed')
    BY <1>10 DEF DueIn
  <1>12. track' <= spot' /\ shownPosition' <= spot' /\ (reread' => positionReading')
    BY <1>2, PositionLaw
  <1> QED
    BY <1>2, <1>5, <1>6, <1>7, <1>8, <1>9, <1>11, <1>12, PositionLaw, PositionLawNext

\* The reading's answer arrives.
LEMMA PositionReadStep ==
    ASSUME MP!PositionInv, MP!PositionRead
    PROVE  MP!PositionInv'
  <1>0. MP!PositionTypeOK
    BY DEF MP!PositionInv
  <1>1. /\ positionMail \in Seq(MP!Messages) /\ positionCalls \in Seq(MP!Calls) /\ spot \in Nat
        /\ positionReading \in BOOLEAN /\ reread \in BOOLEAN /\ mapped \in BOOLEAN
        /\ owner \in 1 .. MaxLives /\ base \in MP!Jumps
    BY <1>0, PositionTyped
  <1>2. /\ positionMail # <<>> /\ positionMail[1].type = "position" /\ positionMail' = Tail(positionMail)
        /\ base' = IF MP!Fresh /\ positionMail[1].ok THEN positionMail[1].spot ELSE base
        /\ positionMissed' = (MP!Fresh /\ ~positionMail[1].ok)
        /\ IF reread THEN MP!Read(FALSE, FALSE, TRUE)
           ELSE positionReading' = FALSE /\ UNCHANGED <<reread, positionOvertaken, readOwner, positionCalls>>
        /\ UNCHANGED <<mapped, owner, playerLife, track, spot, shownPosition, positionPending, seekOwner>>
    BY DEF MP!PositionRead, MP!Arrives, MP!player
  <1>3. /\ positionMail' \in Seq(MP!Messages) /\ positionMail[1].spot \in MP!Jumps /\ positionMail[1].ok \in BOOLEAN
        /\ base' \in MP!Jumps
    BY <1>1, <1>2, Arrived, MessageFields
  <1>m. positionMissed' \in BOOLEAN
    <2>1. MP!Fresh \in BOOLEAN
      BY DEF MP!Fresh
    <2> QED
      BY <1>2, <1>3, <2>1
  <1>6. /\ MailOf(positionMail, "position") = MailOf(positionMail', "position") + 1
        /\ MailOf(positionMail', "position") \in Nat
        /\ MailOf(positionMail', "sought") = MailOf(positionMail, "sought")
        /\ NoOwner(positionMail) => NoOwner(positionMail')
        /\ TracksUpTo(positionMail', spot')
        /\ Followed(positionMail', spot', owner' = seekOwner')
        /\ HasNews(positionMail, spot, owner = seekOwner) => HasNews(positionMail', spot', owner' = seekOwner')
        /\ positionMail[1].ok /\ positionMail[1].spot # spot => HasNews(positionMail', spot', owner' = seekOwner')
    <2>1. ~News(positionMail, spot, owner = seekOwner, 1)
      BY <1>2 DEF News
    <2>2. positionMail[1].ok => MP!Tells(positionMail[1])
      BY <1>2 DEF MP!Tells
    <2> QED
      BY <1>1, <1>2, <2>1, <2>2, Arrived, PositionLaw
  <1>7. /\ positionReading /\ MailOf(positionMail', "position") = 0
        /\ CallsOf(positionCalls, "read") = 0 /\ CallsOf(positionCalls, "seek") \in Nat
    <2>1. /\ CallsOf(positionCalls, "read") \in Nat /\ CallsOf(positionCalls, "seek") \in Nat
          /\ CallsOf(positionCalls, "read") + MailOf(positionMail, "position") = Num(positionReading)
      BY <1>1, SomeOf, PositionLaw
    <2> QED
      BY <1>1, <1>6, <2>1 DEF Num
  <1>8. /\ positionCalls' \in Seq(MP!Calls)
        /\ positionReading' \in BOOLEAN /\ reread' \in BOOLEAN /\ positionOvertaken' \in BOOLEAN
        /\ readOwner' \in 1 .. MaxLives
        /\ CallsOf(positionCalls', "read") + 0 = Num(positionReading')
        /\ CallsOf(positionCalls', "seek") = CallsOf(positionCalls, "seek")
        /\ reread' => positionReading'
        /\ mapped' /\ reread => positionReading' /\ (reread' \/ (~positionOvertaken' /\ owner' = readOwner'))
        /\ SeeksUpTo(positionCalls, spot) => SeeksUpTo(positionCalls', spot)
        /\ \A tr : \A fine \in BOOLEAN : SeeksOf(positionCalls, tr, fine) => SeeksOf(positionCalls', tr, fine)
    <2>1. CASE reread
      <3>1. mapped' \in BOOLEAN /\ owner' \in 1 .. MaxLives
        BY <1>1, <1>2
      <3>2. CallsOf(positionCalls, "read") + 0 = Num(FALSE)
        BY <1>7 DEF Num
      <3>3. MP!Read(FALSE, FALSE, TRUE)
        BY <1>2, <2>1
      <3>4. PICK f \in BOOLEAN : f = FALSE
        OBVIOUS
      <3>5. PICK v \in BOOLEAN : v = TRUE
        OBVIOUS
      <3>6. MP!Read(f, f, v) /\ CallsOf(positionCalls, "read") + 0 = Num(f)
        BY <3>2, <3>3, <3>4, <3>5
      <3> QED
        BY <1>0, <3>1, <3>6, ReadLeaves
    <2>2. CASE ~reread
      <3>1. positionReading' = FALSE /\ UNCHANGED <<reread, positionOvertaken, readOwner, positionCalls>>
        BY <1>2, <2>2
      <3>2. CallsOf(positionCalls', "read") + 0 = Num(positionReading')
        BY <1>7, <3>1 DEF Num
      <3> QED
        BY <1>0, <2>2, <3>1, <3>2, PositionTyped
    <2> QED
      BY <2>1, <2>2
  <1>9. MP!PositionTypeOK'
    BY <1>0, <1>1, <1>2, <1>3, <1>m, <1>8 DEF MP!PositionTypeOK
  <1>10. /\ CallsOf(positionCalls', "read") + MailOf(positionMail', "position") = Num(positionReading')
         /\ CallsOf(positionCalls', "seek") + MailOf(positionMail', "sought") = Num(positionPending')
    BY <1>2, <1>6, <1>7, <1>8, PositionLaw
  <1>11. TrackNews(positionMail', shownPosition', track') /\ OwnerNews(positionMail', shownPosition', track')
    BY <1>1, <1>2, LessTracks, PositionLaw
  <1>12. SeeksUpTo(positionCalls', spot') /\ SeeksOf(positionCalls', track', owner' = seekOwner' /\ NoOwner(positionMail'))
    <2>1. SeeksOf(positionCalls, track', owner' = seekOwner' /\ NoOwner(positionMail'))
      BY <1>2, <1>6, PositionLaw DEF SeeksOf
    <2>2. (owner' = seekOwner' /\ NoOwner(positionMail')) \in BOOLEAN
      OBVIOUS
    <2> QED
      BY <1>2, <1>8, <2>1, <2>2, PositionLaw
  <1>13. mapped' => DueIn(positionMail', positionCalls', spot', owner' = seekOwner', base', positionReading',
               reread', MP!Fresh', positionPending', positionMissed')
    <2> SUFFICES ASSUME mapped'
                 PROVE  DueIn(positionMail', positionCalls', spot', owner' = seekOwner', base', positionReading',
                              reread', MP!Fresh', positionPending', positionMissed')
      OBVIOUS
    <2>1. CASE reread
      BY <1>8, <2>1 DEF DueIn, MP!Fresh
    <2>2. CASE ~reread /\ MP!Fresh /\ positionMail[1].ok
      BY <1>2, <1>6, <2>2 DEF DueIn
    <2>3. CASE ~reread /\ MP!Fresh /\ ~positionMail[1].ok
      <3>1. positionMissed' /\ ~positionReading'
        BY <1>2, <2>3
      <3> QED
        BY <3>1 DEF DueIn
    <2>4. CASE ~reread /\ ~MP!Fresh
      <3>1. DueIn(positionMail, positionCalls, spot, owner = seekOwner, base, positionReading,
                  reread, MP!Fresh, positionPending, positionMissed)
        BY <1>2, PositionLaw
      <3>2. \/ base = spot
            \/ HasNews(positionMail, spot, owner = seekOwner)
            \/ positionPending /\ owner = seekOwner /\ CallsOf(positionCalls, "seek") # 0
        BY <1>7, <2>4, <3>1 DEF DueIn
      <3>3. base' = base
        BY <1>2, <2>4
      <3> QED
        BY <1>2, <1>6, <1>8, <3>2, <3>3 DEF DueIn
    <2> QED
      BY <2>1, <2>2, <2>3, <2>4
  <1>14. track' <= spot' /\ shownPosition' <= spot'
    BY <1>2, PositionLaw
  <1> QED
    BY <1>6, <1>8, <1>9, <1>10, <1>11, <1>12, <1>13, <1>14, PositionLawNext

\* The user moves the slider.
LEMMA SeekStep ==
    ASSUME MP!PositionInv, MP!Seek
    PROVE  MP!PositionInv'
  <1> DEFINE x == [type |-> "seek", track |-> shownPosition]
  <1>0. MP!PositionTypeOK
    BY DEF MP!PositionInv
  <1>1. /\ positionMail \in Seq(MP!Messages) /\ positionCalls \in Seq(MP!Calls) /\ spot \in Nat /\ MaxJumps \in Nat
        /\ shownPosition \in MP!Jumps /\ owner \in 1 .. MaxLives
    BY <1>0, PositionTyped
  <1>2. /\ x \in MP!Calls /\ x.type = "seek" /\ x.track = shownPosition
    BY <1>1 DEF MP!Calls
  <1>3. /\ mapped /\ ~positionPending /\ positionPending' = TRUE /\ positionOvertaken' = TRUE /\ seekOwner' = owner
        /\ positionCalls' = Append(positionCalls, x)
        /\ UNCHANGED <<playerLife, track, spot, positionMail, owner, shownPosition, base, mapped,
                       positionReading, reread, readOwner, positionMissed>>
    BY DEF MP!Seek, MP!player
  <1> HIDE DEF x
  <1>4. positionCalls' \in Seq(MP!Calls)
    BY <1>1, <1>2, <1>3
  <1>5. MP!PositionTypeOK'
    BY <1>0, <1>1, <1>3, <1>4 DEF MP!PositionTypeOK
  <1>6. /\ CallsOf(positionCalls, "seek") = 0 /\ MailOf(positionMail, "sought") = 0
        /\ CallsOf(positionCalls', "seek") = 1 /\ CallsOf(positionCalls', "read") = CallsOf(positionCalls, "read")
    <2>1. /\ CallsOf(positionCalls, "seek") \in Nat /\ MailOf(positionMail, "sought") \in Nat
          /\ CallsOf(positionCalls, "seek") + MailOf(positionMail, "sought") = 0
      BY <1>1, <1>3, SomeOf, PositionLaw DEF Num
    <2> QED
      BY <1>1, <1>2, <1>3, <2>1, CallsMore
  <1>7. /\ CallsOf(positionCalls', "read") + MailOf(positionMail', "position") = Num(positionReading')
        /\ CallsOf(positionCalls', "seek") + MailOf(positionMail', "sought") = Num(positionPending')
    BY <1>3, <1>6, PositionLaw DEF Num
  <1>8. Followed(positionMail', spot', owner' = seekOwner')
    BY <1>3, PositionLaw DEF Followed, News
  <1>9. SeeksUpTo(positionCalls', spot')
    BY <1>1, <1>2, <1>3, PositionLaw, UpTo
  <1>10. SeeksOf(positionCalls', track', owner' = seekOwner' /\ NoOwner(positionMail'))
    <2> SUFFICES ASSUME NEW i \in 1 .. Len(positionCalls'), positionCalls'[i].type = "seek",
                        positionCalls'[i].track = track'
                 PROVE  owner' = seekOwner' /\ NoOwner(positionMail')
      BY DEF SeeksOf
    <2>1. \A k \in 1 .. Len(positionCalls) : positionCalls[k].type # "seek"
      <3>1. MP!Of(positionCalls, "seek") = {}
        BY <1>1, <1>6, SomeOf
      <3> QED
        BY <1>1, <3>1, PositionParts
    <2>2. i = Len(positionCalls) + 1 /\ positionCalls'[i] = x
      <3>1. i \in 1 .. Len(positionCalls) => positionCalls'[i] = positionCalls[i]
        BY <1>1, <1>3
      <3> QED
        BY <1>1, <1>3, <2>1, <3>1
    <2>3. shownPosition = track
      BY <1>2, <1>3, <2>2
    <2>4. NoOwner(positionMail)
      BY <2>3, PositionLaw DEF OwnerNews, NoOwner
    <2> QED
      BY <1>3, <2>4
  <1>11. DueIn(positionMail', positionCalls', spot', owner' = seekOwner', base', positionReading',
               reread', MP!Fresh', positionPending', positionMissed')
    BY <1>3, <1>6 DEF DueIn
  <1>12. /\ track' <= spot' /\ shownPosition' <= spot' /\ (reread' => positionReading')
         /\ TracksUpTo(positionMail', spot')
         /\ TrackNews(positionMail', shownPosition', track') /\ OwnerNews(positionMail', shownPosition', track')
    BY <1>3, PositionLaw
  <1> QED
    BY <1>5, <1>7, <1>8, <1>9, <1>10, <1>11, <1>12, PositionLawNext

\* The user's seek was answered.
LEMMA SoughtStep ==
    ASSUME MP!PositionInv, MP!Sought
    PROVE  MP!PositionInv'
  <1>0. MP!PositionTypeOK
    BY DEF MP!PositionInv
  <1>1. /\ positionMail \in Seq(MP!Messages) /\ positionCalls \in Seq(MP!Calls) /\ spot \in Nat
        /\ positionReading \in BOOLEAN /\ reread \in BOOLEAN /\ mapped \in BOOLEAN /\ positionOvertaken \in BOOLEAN
        /\ positionPending \in BOOLEAN /\ owner \in 1 .. MaxLives
    BY <1>0, PositionTyped
  <1>2. /\ positionMail # <<>> /\ positionMail[1].type = "sought" /\ positionMail' = Tail(positionMail)
        /\ positionPending' = FALSE
        /\ IF owner = seekOwner THEN MP!Read(positionReading, reread, positionOvertaken)
           ELSE UNCHANGED <<positionReading, reread, positionOvertaken, readOwner, positionCalls>>
        /\ UNCHANGED <<mapped, owner, playerLife, track, spot, shownPosition, base, seekOwner, positionMissed>>
    BY DEF MP!Sought, MP!Arrives, MP!player, MP!Reads
  <1>6. /\ positionMail' \in Seq(MP!Messages)
        /\ MailOf(positionMail', "position") = MailOf(positionMail, "position")
        /\ MailOf(positionMail, "sought") = MailOf(positionMail', "sought") + 1
        /\ MailOf(positionMail', "sought") \in Nat /\ MailOf(positionMail, "position") \in Nat
        /\ NoOwner(positionMail) => NoOwner(positionMail')
        /\ TracksUpTo(positionMail', spot')
        /\ Followed(positionMail', spot', owner' = seekOwner')
        /\ owner # seekOwner /\ HasNews(positionMail, spot, owner = seekOwner)
             => HasNews(positionMail', spot', owner' = seekOwner')
    <2>1. owner # seekOwner => ~News(positionMail, spot, owner = seekOwner, 1)
      BY <1>2 DEF News
    <2> QED
      BY <1>1, <1>2, <2>1, Arrived, PositionLaw
  <1>7. MailOf(positionMail', "sought") = 0 /\ CallsOf(positionCalls, "seek") = 0
    <2>1. /\ CallsOf(positionCalls, "seek") \in Nat
          /\ CallsOf(positionCalls, "seek") + MailOf(positionMail, "sought") = Num(positionPending)
      BY <1>1, SomeOf, PositionLaw
    <2> QED
      BY <1>1, <1>6, <2>1 DEF Num
  <1>8. /\ positionCalls' \in Seq(MP!Calls)
        /\ positionReading' \in BOOLEAN /\ reread' \in BOOLEAN /\ positionOvertaken' \in BOOLEAN
        /\ readOwner' \in 1 .. MaxLives
        /\ CallsOf(positionCalls', "read") + MailOf(positionMail, "position") = Num(positionReading')
        /\ CallsOf(positionCalls', "seek") = CallsOf(positionCalls, "seek")
        /\ reread' => positionReading'
        /\ mapped' /\ owner = seekOwner => positionReading' /\ (reread' \/ (~positionOvertaken' /\ owner' = readOwner'))
        /\ SeeksUpTo(positionCalls, spot) => SeeksUpTo(positionCalls', spot)
        /\ \A tr : \A fine \in BOOLEAN : SeeksOf(positionCalls, tr, fine) => SeeksOf(positionCalls', tr, fine)
    <2>0. /\ reread => positionReading
          /\ CallsOf(positionCalls, "read") + MailOf(positionMail, "position") = Num(positionReading)
      BY PositionLaw
    <2>1. CASE owner = seekOwner
      <3>1. mapped' \in BOOLEAN /\ owner' \in 1 .. MaxLives
        BY <1>1, <1>2
      <3>2. PICK n \in Nat : n = MailOf(positionMail, "position")
        BY <1>6
      <3>3. /\ MP!Read(positionReading, reread, positionOvertaken)
            /\ CallsOf(positionCalls, "read") + n = Num(positionReading)
        BY <1>2, <2>0, <2>1, <3>2
      <3> QED
        BY <1>0, <1>1, <2>0, <3>1, <3>2, <3>3, ReadLeaves
    <2>2. CASE owner # seekOwner
      <3>1. UNCHANGED <<positionReading, reread, positionOvertaken, readOwner, positionCalls>>
        BY <1>2, <2>2
      <3> QED
        BY <1>0, <2>0, <2>2, <3>1, PositionTyped
    <2> QED
      BY <2>1, <2>2
  <1>9. MP!PositionTypeOK'
    BY <1>0, <1>1, <1>2, <1>6, <1>8 DEF MP!PositionTypeOK
  <1>10. /\ CallsOf(positionCalls', "read") + MailOf(positionMail', "position") = Num(positionReading')
         /\ CallsOf(positionCalls', "seek") + MailOf(positionMail', "sought") = Num(positionPending')
    BY <1>2, <1>6, <1>7, <1>8 DEF Num
  <1>11. TrackNews(positionMail', shownPosition', track') /\ OwnerNews(positionMail', shownPosition', track')
    BY <1>1, <1>2, LessTracks, PositionLaw
  <1>12. SeeksUpTo(positionCalls', spot') /\ SeeksOf(positionCalls', track', owner' = seekOwner' /\ NoOwner(positionMail'))
    <2>1. SeeksOf(positionCalls, track', owner' = seekOwner' /\ NoOwner(positionMail'))
      BY <1>2, <1>6, PositionLaw DEF SeeksOf
    <2>2. (owner' = seekOwner' /\ NoOwner(positionMail')) \in BOOLEAN
      OBVIOUS
    <2> QED
      BY <1>2, <1>8, <2>1, <2>2, PositionLaw
  <1>13. mapped' => DueIn(positionMail', positionCalls', spot', owner' = seekOwner', base', positionReading',
               reread', MP!Fresh', positionPending', positionMissed')
    <2> SUFFICES ASSUME mapped'
                 PROVE  DueIn(positionMail', positionCalls', spot', owner' = seekOwner', base', positionReading',
                              reread', MP!Fresh', positionPending', positionMissed')
      OBVIOUS
    <2>1. CASE owner = seekOwner
      BY <1>8, <2>1 DEF DueIn, MP!Fresh
    <2>2. CASE owner # seekOwner
      <3>1. DueIn(positionMail, positionCalls, spot, owner = seekOwner, base, positionReading,
                  reread, MP!Fresh, positionPending, positionMissed)
        BY <1>2, PositionLaw
      <3>2. UNCHANGED <<positionReading, reread, positionOvertaken, readOwner, positionCalls>>
        BY <1>2, <2>2
      <3> QED
        BY <1>2, <1>6, <2>2, <3>1, <3>2 DEF DueIn, MP!Fresh
    <2> QED
      BY <2>1, <2>2
  <1>14. track' <= spot' /\ shownPosition' <= spot'
    BY <1>2, PositionLaw
  <1> QED
    BY <1>6, <1>8, <1>9, <1>10, <1>11, <1>12, <1>13, <1>14, PositionLawNext

\* The slider appears.
LEMMA MapStep ==
    ASSUME MP!PositionInv, MP!Map
    PROVE  MP!PositionInv'
  <1>0. MP!PositionTypeOK
    BY DEF MP!PositionInv
  <1>1. /\ positionMail \in Seq(MP!Messages) /\ positionCalls \in Seq(MP!Calls) /\ spot \in Nat
        /\ positionReading \in BOOLEAN /\ reread \in BOOLEAN /\ positionOvertaken \in BOOLEAN
        /\ owner \in 1 .. MaxLives
    BY <1>0, PositionTyped
  <1>2. /\ mapped' = TRUE
        /\ MP!Read(positionReading, reread, positionOvertaken)
        /\ UNCHANGED <<positionMail, owner, playerLife, track, spot, shownPosition, base, positionPending,
                       seekOwner, positionMissed>>
    BY DEF MP!Map, MP!player
  <1>3. /\ positionCalls' \in Seq(MP!Calls)
        /\ positionReading' \in BOOLEAN /\ reread' \in BOOLEAN /\ positionOvertaken' \in BOOLEAN
        /\ readOwner' \in 1 .. MaxLives
        /\ CallsOf(positionCalls', "read") + MailOf(positionMail, "position") = Num(positionReading')
        /\ CallsOf(positionCalls', "seek") = CallsOf(positionCalls, "seek")
        /\ reread' => positionReading'
        /\ mapped' => positionReading' /\ (reread' \/ (~positionOvertaken' /\ owner' = readOwner'))
        /\ SeeksUpTo(positionCalls, spot) => SeeksUpTo(positionCalls', spot)
        /\ \A tr : \A fine \in BOOLEAN : SeeksOf(positionCalls, tr, fine) => SeeksOf(positionCalls', tr, fine)
    <2>0. /\ reread => positionReading
          /\ CallsOf(positionCalls, "read") + MailOf(positionMail, "position") = Num(positionReading)
          /\ MailOf(positionMail, "position") \in Nat
      BY <1>1, PositionLaw, SomeOf
    <2>1. mapped' \in BOOLEAN /\ owner' \in 1 .. MaxLives
      BY <1>1, <1>2
    <2>2. PICK n \in Nat : n = MailOf(positionMail, "position")
      BY <2>0
    <2>3. CallsOf(positionCalls, "read") + n = Num(positionReading)
      BY <2>0, <2>2
    <2> QED
      BY <1>0, <1>1, <1>2, <2>0, <2>1, <2>2, <2>3, ReadLeaves
  <1>4. MP!PositionTypeOK'
    BY <1>0, <1>1, <1>2, <1>3 DEF MP!PositionTypeOK
  <1>5. SeeksUpTo(positionCalls', spot') /\ SeeksOf(positionCalls', track', owner' = seekOwner' /\ NoOwner(positionMail'))
    <2>1. SeeksOf(positionCalls, track', owner' = seekOwner' /\ NoOwner(positionMail'))
      BY <1>2, PositionLaw
    <2>2. (owner' = seekOwner' /\ NoOwner(positionMail')) \in BOOLEAN
      OBVIOUS
    <2> QED
      BY <1>2, <1>3, <2>1, <2>2, PositionLaw
  <1>6. DueIn(positionMail', positionCalls', spot', owner' = seekOwner', base', positionReading',
               reread', MP!Fresh', positionPending', positionMissed')
    BY <1>2, <1>3 DEF DueIn, MP!Fresh
  <1> QED
    BY <1>2, <1>3, <1>4, <1>5, <1>6, PositionLaw, PositionLawNext

\* It disappears.
LEMMA UnmapStep ==
    ASSUME MP!PositionInv, MP!Unmap
    PROVE  MP!PositionInv'
  <1>1. /\ mapped' = FALSE /\ positionOvertaken' = TRUE
        /\ UNCHANGED <<positionMail, positionCalls, owner, playerLife, track, spot, shownPosition, base,
                       positionReading, reread, positionPending, readOwner, seekOwner, positionMissed>>
    BY DEF MP!Unmap, MP!player
  <1>2. MP!PositionTypeOK'
    BY <1>1 DEF MP!PositionTypeOK, MP!PositionInv
  <1> QED
    BY <1>1, <1>2, PositionLaw, PositionLawNext

\* Every step of the slider keeps its invariant.
LEMMA PositionStep ==
    ASSUME MP!PositionInv, MP!PositionNext \/ UNCHANGED positionVars
    PROVE  MP!PositionInv'
  <1>1. CASE UNCHANGED positionVars
    <2>1. UNCHANGED <<positionMail, positionCalls, owner, playerLife, track, spot, shownPosition, base, mapped,
                      positionOvertaken, positionReading, reread, positionPending, readOwner, seekOwner,
                      positionMissed>>
      BY <1>1 DEF positionVars
    <2>2. MP!PositionTypeOK' /\ MP!Fresh' = MP!Fresh
      BY <2>1 DEF MP!PositionTypeOK, MP!PositionInv, MP!Fresh
    <2> QED
      BY <2>1, <2>2, PositionLaw, PositionLawNext
  <1>2. CASE MP!PositionNext
    BY <1>2, SeeksStep, ChangesTrackStep, AnswersReadStep, AnswersSeekStep, RestartsStep, RefreshStep,
       SeekedStep, OwnerStep, PositionReadStep, SeekStep, SoughtStep, MapStep, UnmapStep DEF MP!PositionNext
  <1> QED
    BY <1>1, <1>2

-----------------------------------------------------------------------------
(* The volume.                                                             *)

\* The bounds and names.
LEMMA AudioNames ==
    /\ Sinks # {} /\ Levels # {} /\ NoSink \notin Sinks /\ NoSink \notin Levels
    /\ MaxEvents \in Nat /\ MaxLines \in Nat
  BY ShellAssumption DEF AU!AudioAssumption

\* The commands: what is known of one from its stage.
LEMMA CommandLaw ==
    ASSUME NEW Got
    PROVE  /\ AU!Idle \in AU!Commands(Got) /\ AU!Running \in AU!Commands(Got)
           /\ \A g \in Got \cup {NoSink} : AU!Ended(g) \in AU!Commands(Got)
           /\ \A g : AU!Ended(g).stage = "ended" /\ AU!Ended(g).got = g
           /\ AU!Idle.stage = "idle" /\ AU!Running.stage = "running"
           /\ \A c \in AU!Commands(Got) :
                /\ c.stage \in {"idle", "running", "ended"} /\ c.got \in Got \cup {NoSink}
                /\ c.stage = "idle" => c = AU!Idle
                /\ c.stage = "running" => c = AU!Running
           /\ \A c \in AU!Commands(Got) : AU!Asked(c) \in AU!Commands(Got) /\ AU!Asked(c).stage # "idle"
           /\ \A b \in BOOLEAN : \A c \in AU!Commands(Got) :
                /\ AU!AskedAgain(c, b) \in BOOLEAN
                /\ AU!AskedAgain(c, b) => AU!Asked(c).stage # "idle"
                /\ AU!AskedAgain(c, b) \/ AU!Asked(c) = AU!Running
           /\ AU!Repeated(AU!Idle, TRUE) = AU!Running /\ AU!Repeated(AU!Idle, FALSE) = AU!Idle
  <1>1. /\ AU!Idle \in AU!Commands(Got) /\ AU!Running \in AU!Commands(Got)
        /\ \A g \in Got \cup {NoSink} : AU!Ended(g) \in AU!Commands(Got)
    BY DEF AU!Commands
  <1>2. /\ \A g : AU!Ended(g).stage = "ended" /\ AU!Ended(g).got = g
        /\ AU!Idle.stage = "idle" /\ AU!Running.stage = "running" /\ AU!Idle.got = NoSink /\ AU!Running.got = NoSink
    BY DEF AU!Ended, AU!Idle, AU!Running
  <1>3. ASSUME NEW c \in AU!Commands(Got)
        PROVE  /\ c.stage \in {"idle", "running", "ended"} /\ c.got \in Got \cup {NoSink}
               /\ c.stage = "idle" => c = AU!Idle
               /\ c.stage = "running" => c = AU!Running
    <2>1. c = AU!Idle \/ c = AU!Running \/ \E g \in Got \cup {NoSink} : c = AU!Ended(g)
      BY DEF AU!Commands
    <2> QED
      BY <1>2, <2>1
  <1>4. ASSUME NEW c \in AU!Commands(Got)
        PROVE  AU!Asked(c) \in AU!Commands(Got) /\ AU!Asked(c).stage # "idle"
    BY <1>1, <1>2 DEF AU!Asked
  <1>5. ASSUME NEW b \in BOOLEAN, NEW c \in AU!Commands(Got)
        PROVE  /\ AU!AskedAgain(c, b) \in BOOLEAN
               /\ AU!AskedAgain(c, b) => AU!Asked(c).stage # "idle"
               /\ AU!AskedAgain(c, b) \/ AU!Asked(c) = AU!Running
    <2>1. AU!AskedAgain(c, b) \in BOOLEAN
      BY DEF AU!AskedAgain
    <2> QED
      BY <1>4, <2>1 DEF AU!Asked, AU!AskedAgain
  <1>6. AU!Repeated(AU!Idle, TRUE) = AU!Running /\ AU!Repeated(AU!Idle, FALSE) = AU!Idle
    BY DEF AU!Repeated
  <1> QED
    BY <1>1, <1>2, <1>3, <1>4, <1>5, <1>6

\* The same of the levels and of the devices.
LEMMA CommandSets ==
    /\ AU!Idle \in AU!Commands(Levels) /\ AU!Running \in AU!Commands(Levels) /\ AU!Ended(NoSink) \in AU!Commands(Levels)
    /\ AU!Idle \in AU!Commands(Sinks) /\ AU!Running \in AU!Commands(Sinks) /\ AU!Ended(NoSink) \in AU!Commands(Sinks)
  BY DEF AU!Commands

\* What the variables are.
LEMMA AudioTyped ==
    ASSUME AU!AudioTypeOK
    PROVE  /\ level \in [Sinks -> Levels] /\ sink \in Sinks /\ level[sink] \in Levels
           /\ lines \in Seq({"sink", "server"}) /\ Len(lines) <= MaxLines
           /\ retry \in BOOLEAN /\ debounce \in BOOLEAN /\ again \in BOOLEAN /\ listAgain \in BOOLEAN
           /\ listDirty \in BOOLEAN /\ available \in BOOLEAN /\ visible \in BOOLEAN
           /\ unseenLevel \in BOOLEAN /\ unseenSink \in BOOLEAN
           /\ monitor \in {"none", "starting", "live"}
           /\ audioReading \in AU!Commands(Levels) /\ listing \in AU!Commands(Sinks)
           /\ writing \in [request : AU!Requests \cup {AU!NoRequest}, stage : {"idle", "running", "ended"}]
           /\ nextLevel \in Levels \cup {NoSink} /\ chosenLevel \in Levels \cup {NoSink}
           /\ data \in Levels \cup {NoSink} /\ sinkList \in Sinks \cup {NoSink}
  BY DEF AU!AudioTypeOK

\* The same of the next state.
LEMMA AudioTypedNext ==
    ASSUME level' \in [Sinks -> Levels], sink' \in Sinks,
           lines' \in Seq({"sink", "server"}), Len(lines') <= MaxLines,
           retry' \in BOOLEAN, debounce' \in BOOLEAN, again' \in BOOLEAN, listAgain' \in BOOLEAN,
           listDirty' \in BOOLEAN, available' \in BOOLEAN, visible' \in BOOLEAN,
           unseenLevel' \in BOOLEAN, unseenSink' \in BOOLEAN,
           monitor' \in {"none", "starting", "live"},
           audioReading' \in AU!Commands(Levels), listing' \in AU!Commands(Sinks),
           writing' \in [request : AU!Requests \cup {AU!NoRequest}, stage : {"idle", "running", "ended"}],
           nextLevel' \in Levels \cup {NoSink}, chosenLevel' \in Levels \cup {NoSink},
           data' \in Levels \cup {NoSink}, sinkList' \in Sinks \cup {NoSink}
    PROVE  AU!AudioTypeOK'
  BY DEF AU!AudioTypeOK

\* What is shown follows from what is due.
LEMMA ShownFollows ==
    ASSUME AU!AudioTypeOK, AU!FlagsUnderWay, AU!LevelIsDue, AU!SinkIsDue
    PROVE  AU!ShownIsTrue
  <1> SUFFICES ASSUME AU!NothingUnderWay
               PROVE  /\ audioReading = AU!Idle /\ available /\ ~unseenLevel => data = level[sink]
                      /\ listing = AU!Idle /\ visible /\ sinkList # NoSink /\ ~unseenSink => sinkList = sink
    BY DEF AU!ShownIsTrue
  <1>1. lines = <<>> /\ ~debounce /\ writing.stage = "idle" /\ ~listDirty
    BY DEF AU!NothingUnderWay, AU!FlagsUnderWay
  <1>2. /\ audioReading = AU!Idle => ~again /\ audioReading # AU!Running /\ audioReading.stage = "idle"
        /\ listing = AU!Idle => ~listAgain /\ listing # AU!Running /\ listing.stage = "idle"
    <2>1. AU!Idle.stage = "idle" /\ AU!Running.stage = "running"
      BY CommandLaw
    <2> QED
      BY <2>1 DEF AU!FlagsUnderWay
  <1>3. \A i \in DOMAIN lines : lines[i] # "server"
    BY <1>1
  <1> QED
    BY <1>1, <1>2, <1>3 DEF AU!LevelIsDue, AU!SinkIsDue

\* The same of the next state.
LEMMA ShownFollowsNext ==
    ASSUME AU!AudioTypeOK', AU!FlagsUnderWay', AU!LevelIsDue', AU!SinkIsDue', AU!LastChoiceKept'
    PROVE  AU!AudioInv'
  <1> SUFFICES ASSUME AU!NothingUnderWay'
               PROVE  /\ audioReading' = AU!Idle /\ available' /\ ~unseenLevel' => data' = level'[sink']
                      /\ listing' = AU!Idle /\ visible' /\ sinkList' # NoSink /\ ~unseenSink' => sinkList' = sink'
    BY DEF AU!ShownIsTrue, AU!AudioInv
  <1>1. lines' = <<>> /\ ~debounce' /\ writing'.stage = "idle" /\ ~listDirty'
    BY DEF AU!NothingUnderWay, AU!FlagsUnderWay
  <1>2. /\ audioReading' = AU!Idle => ~again' /\ audioReading' # AU!Running /\ audioReading'.stage = "idle"
        /\ listing' = AU!Idle => ~listAgain' /\ listing' # AU!Running /\ listing'.stage = "idle"
    <2>1. AU!Idle.stage = "idle" /\ AU!Running.stage = "running"
      BY CommandLaw
    <2> QED
      BY <2>1 DEF AU!FlagsUnderWay
  <1>3. \A i \in DOMAIN (lines') : lines'[i] # "server"
    BY <1>1
  <1> QED
    BY <1>1, <1>2, <1>3 DEF AU!LevelIsDue, AU!SinkIsDue

\* The monitor has subscribed.
LEMMA SubscribedStep ==
    ASSUME AU!AudioInv, AU!Subscribed
    PROVE  AU!AudioInv'
  <1>0. AU!AudioTypeOK
    BY DEF AU!AudioInv
  <1>1. /\ monitor' = "live"
        /\ UNCHANGED <<level, sink, lines, retry, debounce, audioReading, again, listing, listAgain, listDirty, writing, nextLevel, data, available, sinkList, visible, chosenLevel, unseenLevel, unseenSink>>
    BY DEF AU!Subscribed, AU!readings, AU!listings, AU!watch, AU!writes, AU!server, AU!unseen
  <1>2. AU!AudioTypeOK'
    BY <1>0, <1>1, AudioTyped, AudioTypedNext
  <1>3. AU!FlagsUnderWay'
    BY <1>0, <1>1, AudioTyped DEF AU!FlagsUnderWay, AU!AudioInv
  <1>4. AU!LevelIsDue'
    BY <1>0, <1>1, AudioTyped DEF AU!LevelIsDue, AU!AudioInv
  <1>5. AU!SinkIsDue'
    BY <1>0, <1>1, AudioTyped DEF AU!SinkIsDue, AU!AudioInv
  <1>6. AU!LastChoiceKept'
    BY <1>0, <1>1, AudioTyped DEF AU!LastChoiceKept, AU!AudioInv
  <1> QED
    BY <1>2, <1>3, <1>4, <1>5, <1>6, ShownFollowsNext

\* The popover closes.
LEMMA ShutStep ==
    ASSUME AU!AudioInv, AU!Shut
    PROVE  AU!AudioInv'
  <1>0. AU!AudioTypeOK
    BY DEF AU!AudioInv
  <1>1. /\ visible' = FALSE
        /\ UNCHANGED <<level, sink, lines, monitor, retry, debounce, audioReading, again, listing, listAgain, listDirty, writing, nextLevel, data, available, sinkList, chosenLevel, unseenLevel, unseenSink>>
    BY DEF AU!Shut, AU!readings, AU!listings, AU!watch, AU!writes, AU!server, AU!unseen
  <1>2. AU!AudioTypeOK'
    <2>1. visible' \in BOOLEAN
      BY <1>1
    <2> QED
      BY <1>0, <1>1, <2>1, AudioTypedNext, AudioTyped, CommandLaw
  <1>3. AU!FlagsUnderWay'
    BY <1>0, <1>1, AudioTyped DEF AU!FlagsUnderWay, AU!AudioInv
  <1>4. AU!LevelIsDue'
    BY <1>0, <1>1, AudioTyped DEF AU!LevelIsDue, AU!AudioInv
  <1>5. AU!SinkIsDue'
    BY <1>0, <1>1, AudioTyped DEF AU!SinkIsDue, AU!AudioInv
  <1>6. AU!LastChoiceKept'
    BY <1>0, <1>1, AudioTyped DEF AU!LastChoiceKept, AU!AudioInv
  <1> QED
    BY <1>2, <1>3, <1>4, <1>5, <1>6, ShownFollowsNext

\* The monitor ends.
LEMMA MonitorEndsStep ==
    ASSUME AU!AudioInv, AU!MonitorEnds
    PROVE  AU!AudioInv'
  <1>0. AU!AudioTypeOK
    BY DEF AU!AudioInv
  <1>1. /\ monitor' = "none"
        /\ retry' = TRUE
        /\ UNCHANGED <<level, sink, lines, debounce, audioReading, again, listing, listAgain, listDirty, writing, nextLevel, data, available, sinkList, visible, chosenLevel, unseenLevel, unseenSink>>
    BY DEF AU!MonitorEnds, AU!readings, AU!listings, AU!watch, AU!writes, AU!server, AU!unseen
  <1>2. AU!AudioTypeOK'
    BY <1>0, <1>1, AudioTyped, AudioTypedNext
  <1>3. AU!FlagsUnderWay'
    BY <1>0, <1>1, AudioTyped DEF AU!FlagsUnderWay, AU!AudioInv
  <1>4. AU!LevelIsDue'
    BY <1>0, <1>1, AudioTyped DEF AU!LevelIsDue, AU!AudioInv
  <1>5. AU!SinkIsDue'
    BY <1>0, <1>1, AudioTyped DEF AU!SinkIsDue, AU!AudioInv
  <1>6. AU!LastChoiceKept'
    BY <1>0, <1>1, AudioTyped DEF AU!LastChoiceKept, AU!AudioInv
  <1> QED
    BY <1>2, <1>3, <1>4, <1>5, <1>6, ShownFollowsNext

\* The level is read.
LEMMA ReadLevelStep ==
    ASSUME AU!AudioInv, AU!ReadLevel
    PROVE  AU!AudioInv'
  <1>0. AU!AudioTypeOK
    BY DEF AU!AudioInv
  <1>1. /\ audioReading = AU!Running
        /\ audioReading' = AU!Ended(level[sink])
        /\ unseenLevel' = FALSE
        /\ UNCHANGED <<level, sink, lines, monitor, retry, debounce, again, listing, listAgain, listDirty, writing, nextLevel, data, available, sinkList, visible, chosenLevel, unseenSink>>
    BY DEF AU!ReadLevel, AU!readings, AU!listings, AU!watch, AU!writes, AU!server, AU!unseen
  <1>2. AU!AudioTypeOK'
    <2>1. unseenLevel' \in BOOLEAN
      BY <1>1
    <2> QED
      BY <1>0, <1>1, <2>1, AudioTypedNext, AudioTyped, CommandLaw
  <1>3. AU!FlagsUnderWay'
    BY <1>0, <1>1, CommandLaw DEF AU!FlagsUnderWay, AU!AudioInv
  <1>4. AU!LevelIsDue'
    BY <1>0, <1>1, CommandLaw DEF AU!LevelIsDue, AU!AudioInv
  <1>5. AU!SinkIsDue'
    BY <1>0, <1>1, AudioTyped DEF AU!SinkIsDue, AU!AudioInv
  <1>6. AU!LastChoiceKept'
    BY <1>0, <1>1, AudioTyped DEF AU!LastChoiceKept, AU!AudioInv
  <1> QED
    BY <1>2, <1>3, <1>4, <1>5, <1>6, ShownFollowsNext

\* The default device is read.
LEMMA ReadSinkStep ==
    ASSUME AU!AudioInv, AU!ReadSink
    PROVE  AU!AudioInv'
  <1>0. AU!AudioTypeOK
    BY DEF AU!AudioInv
  <1>1. /\ listing = AU!Running
        /\ listing' = AU!Ended(sink)
        /\ unseenSink' = FALSE
        /\ UNCHANGED <<level, sink, lines, monitor, retry, debounce, audioReading, again, listAgain, listDirty, writing, nextLevel, data, available, sinkList, visible, chosenLevel, unseenLevel>>
    BY DEF AU!ReadSink, AU!readings, AU!listings, AU!watch, AU!writes, AU!server, AU!unseen
  <1>2. AU!AudioTypeOK'
    <2>1. unseenSink' \in BOOLEAN
      BY <1>1
    <2> QED
      BY <1>0, <1>1, <2>1, AudioTypedNext, AudioTyped, CommandLaw
  <1>3. AU!FlagsUnderWay'
    BY <1>0, <1>1, CommandLaw DEF AU!FlagsUnderWay, AU!AudioInv
  <1>4. AU!LevelIsDue'
    BY <1>0, <1>1, AudioTyped DEF AU!LevelIsDue, AU!AudioInv
  <1>5. AU!SinkIsDue'
    BY <1>0, <1>1, CommandLaw DEF AU!SinkIsDue, AU!AudioInv
  <1>6. AU!LastChoiceKept'
    BY <1>0, <1>1, AudioTyped DEF AU!LastChoiceKept, AU!AudioInv
  <1> QED
    BY <1>2, <1>3, <1>4, <1>5, <1>6, ShownFollowsNext

\* A reading fails.
LEMMA ReadFailsStep ==
    ASSUME AU!AudioInv, AU!ReadFails
    PROVE  AU!AudioInv'
  <1>0. AU!AudioTypeOK
    BY DEF AU!AudioInv
  <1>1. /\ \/ audioReading = AU!Running /\ audioReading' = AU!Ended(NoSink) /\ listing' = listing
           \/ listing = AU!Running /\ listing' = AU!Ended(NoSink) /\ audioReading' = audioReading
        /\ UNCHANGED <<level, sink, lines, monitor, retry, debounce, again, listAgain, listDirty, writing, nextLevel, data, available, sinkList, visible, chosenLevel, unseenLevel, unseenSink>>
    BY DEF AU!ReadFails, AU!readings, AU!listings, AU!watch, AU!writes, AU!server, AU!unseen
  <1>2. AU!AudioTypeOK'
    <2>1. audioReading' \in AU!Commands(Levels)
      BY <1>0, <1>1, AudioTyped, CommandSets
    <2>2. listing' \in AU!Commands(Sinks)
      BY <1>0, <1>1, AudioTyped, CommandSets
    <2> QED
      BY <1>0, <1>1, <2>1, <2>2, AudioTyped, AudioTypedNext
  <1>3. AU!FlagsUnderWay'
    BY <1>0, <1>1, CommandLaw DEF AU!FlagsUnderWay, AU!AudioInv
  <1>4. AU!LevelIsDue'
    <2>1. AU!LevelIsDue
      BY DEF AU!AudioInv
    <2>2. CASE audioReading = AU!Running /\ audioReading' = AU!Ended(NoSink)
      <3>1. audioReading'.stage = "ended" /\ audioReading'.got = NoSink
        BY <2>2, CommandLaw
      <3> QED
        BY <3>1 DEF AU!LevelIsDue
    <2>3. CASE audioReading' = audioReading
      BY <1>1, <2>1, <2>3 DEF AU!LevelIsDue
    <2> QED
      BY <1>1, <2>2, <2>3
  <1>5. AU!SinkIsDue'
    BY <1>0, <1>1, CommandLaw DEF AU!SinkIsDue, AU!AudioInv
  <1>6. AU!LastChoiceKept'
    BY <1>0, <1>1, AudioTyped DEF AU!LastChoiceKept, AU!AudioInv
  <1> QED
    BY <1>2, <1>3, <1>4, <1>5, <1>6, ShownFollowsNext

\* The level that was read is shown.
LEMMA LevelShownStep ==
    ASSUME AU!AudioInv, AU!LevelShown
    PROVE  AU!AudioInv'
  <1>0. AU!AudioTypeOK
    BY DEF AU!AudioInv
  <1>1. /\ audioReading.stage = "ended"
        /\ available' = (audioReading.got # NoSink)
        /\ data' = IF audioReading.got = NoSink THEN data ELSE audioReading.got
        /\ audioReading' = AU!Repeated(audioReading, again)
        /\ again' = FALSE
        /\ UNCHANGED <<level, sink, lines, monitor, retry, debounce, listing, listAgain, listDirty, writing, nextLevel, sinkList, visible, chosenLevel, unseenLevel, unseenSink>>
    BY DEF AU!LevelShown, AU!readings, AU!listings, AU!watch, AU!writes, AU!server, AU!unseen
  <1>a. /\ available' \in BOOLEAN /\ again' \in BOOLEAN
        /\ audioReading' = (IF again THEN AU!Running ELSE AU!Idle)
        /\ audioReading.got \in Levels \cup {NoSink} /\ audioReading # AU!Running /\ audioReading # AU!Idle
    <2>1. available' \in BOOLEAN /\ again' \in BOOLEAN
      BY <1>1
    <2> QED
      BY <1>0, <1>1, <2>1, AudioTyped, CommandLaw DEF AU!Repeated
  <1>2. AU!AudioTypeOK'
    <2>1. audioReading' \in AU!Commands(Levels)
      BY <1>0, <1>1, <1>a, AudioTyped, CommandSets
    <2>2. listing' \in AU!Commands(Sinks)
      BY <1>0, <1>1, <1>a, AudioTyped, CommandSets
    <2>3. data' \in Levels \cup {NoSink} /\ sinkList' \in Sinks \cup {NoSink}
      BY <1>0, <1>1, <1>a, AudioTyped
    <2> QED
      BY <1>0, <1>1, <1>a, <2>1, <2>2, <2>3, AudioTyped, AudioTypedNext
  <1>3. AU!FlagsUnderWay'
    BY <1>0, <1>1, <1>a DEF AU!FlagsUnderWay, AU!AudioInv
  <1>4. AU!LevelIsDue'
    BY <1>0, <1>1, <1>a, CommandLaw, AudioTyped DEF AU!LevelIsDue, AU!AudioInv
  <1>5. AU!SinkIsDue'
    BY <1>0, <1>1, AudioTyped DEF AU!SinkIsDue, AU!AudioInv
  <1>6. AU!LastChoiceKept'
    BY <1>0, <1>1, AudioTyped DEF AU!LastChoiceKept, AU!AudioInv
  <1> QED
    BY <1>2, <1>3, <1>4, <1>5, <1>6, ShownFollowsNext

\* The devices that were listed are shown.
LEMMA DevicesShownStep ==
    ASSUME AU!AudioInv, AU!DevicesShown
    PROVE  AU!AudioInv'
  <1>0. AU!AudioTypeOK
    BY DEF AU!AudioInv
  <1>1. /\ listing.stage = "ended"
        /\ sinkList' = IF visible THEN listing.got ELSE sinkList
        /\ listing' = AU!Repeated(listing, listAgain /\ visible)
        /\ listAgain' = FALSE
        /\ UNCHANGED <<level, sink, lines, monitor, retry, debounce, audioReading, again, listDirty, writing, nextLevel, data, available, visible, chosenLevel, unseenLevel, unseenSink>>
    BY DEF AU!DevicesShown, AU!readings, AU!listings, AU!watch, AU!writes, AU!server, AU!unseen
  <1>a. /\ listAgain' \in BOOLEAN
        /\ listing' = (IF listAgain /\ visible THEN AU!Running ELSE AU!Idle)
        /\ listing.got \in Sinks \cup {NoSink} /\ listing # AU!Running /\ listing # AU!Idle
    <2>1. listAgain' \in BOOLEAN
      BY <1>1
    <2> QED
      BY <1>0, <1>1, <2>1, AudioTyped, CommandLaw DEF AU!Repeated
  <1>2. AU!AudioTypeOK'
    <2>1. audioReading' \in AU!Commands(Levels)
      BY <1>0, <1>1, <1>a, AudioTyped, CommandSets
    <2>2. listing' \in AU!Commands(Sinks)
      BY <1>0, <1>1, <1>a, AudioTyped, CommandSets
    <2>3. data' \in Levels \cup {NoSink} /\ sinkList' \in Sinks \cup {NoSink}
      BY <1>0, <1>1, <1>a, AudioTyped
    <2> QED
      BY <1>0, <1>1, <1>a, <2>1, <2>2, <2>3, AudioTyped, AudioTypedNext
  <1>3. AU!FlagsUnderWay'
    BY <1>0, <1>1, <1>a DEF AU!FlagsUnderWay, AU!AudioInv
  <1>4. AU!LevelIsDue'
    BY <1>0, <1>1, AudioTyped DEF AU!LevelIsDue, AU!AudioInv
  <1>5. AU!SinkIsDue'
    BY <1>0, <1>1, <1>a, CommandLaw, AudioTyped DEF AU!SinkIsDue, AU!AudioInv
  <1>6. AU!LastChoiceKept'
    BY <1>0, <1>1, AudioTyped DEF AU!LastChoiceKept, AU!AudioInv
  <1> QED
    BY <1>2, <1>3, <1>4, <1>5, <1>6, ShownFollowsNext

\* A line of the monitor is read.
LEMMA ReadLineStep ==
    ASSUME AU!AudioInv, AU!ReadLine
    PROVE  AU!AudioInv'
  <1>0. AU!AudioTypeOK
    BY DEF AU!AudioInv
  <1>1. /\ lines # <<>>
        /\ lines' = Tail(lines)
        /\ listDirty' = (listDirty \/ Head(lines) = "server")
        /\ debounce' = TRUE
        /\ UNCHANGED <<level, sink, monitor, retry, audioReading, again, listing, listAgain, writing, nextLevel, data, available, sinkList, visible, chosenLevel, unseenLevel, unseenSink>>
    BY DEF AU!ReadLine, AU!readings, AU!listings, AU!watch, AU!writes, AU!server, AU!unseen
  <1>a. /\ lines' \in Seq({"sink", "server"}) /\ Len(lines') <= MaxLines
        /\ listDirty' \in BOOLEAN /\ debounce' \in BOOLEAN
    <2>1. listDirty' \in BOOLEAN /\ debounce' \in BOOLEAN
      BY <1>1
    <2> QED
      BY <1>0, <1>1, <2>1, AudioTyped, AudioNames
  <1>2. AU!AudioTypeOK'
    BY <1>0, <1>1, <1>a, AudioTyped, AudioTypedNext
  <1>3. AU!FlagsUnderWay'
    BY <1>1 DEF AU!FlagsUnderWay, AU!AudioInv
  <1>4. AU!LevelIsDue'
    BY <1>1 DEF AU!LevelIsDue
  <1>5. AU!SinkIsDue'
    <2>1. CASE \E i \in DOMAIN lines : lines[i] = "server"
      <3>1. PICK i \in 1 .. Len(lines) : lines[i] = "server"
        BY <1>0, <2>1, AudioTyped
      <3>2. CASE i = 1
        <4>1. Head(lines) = "server"
          BY <1>0, <1>1, <3>1, <3>2, AudioTyped
        <4>2. listDirty'
          BY <1>1, <4>1
        <4> QED
          BY <4>2 DEF AU!SinkIsDue
      <3>3. CASE i # 1
        <4>1. i - 1 \in 1 .. Len(lines') /\ lines'[i - 1] = "server" /\ DOMAIN (lines') = 1 .. Len(lines')
          BY <1>0, <1>1, <3>1, <3>3, AudioTyped
        <4> QED
          BY <4>1 DEF AU!SinkIsDue
      <3> QED
        BY <3>2, <3>3
    <2>2. CASE ~\E i \in DOMAIN lines : lines[i] = "server"
      <3>1. listDirty => listDirty'
        BY <1>1
      <3> QED
        BY <1>1, <2>2, <3>1 DEF AU!SinkIsDue, AU!AudioInv
    <2> QED
      BY <2>1, <2>2
  <1>6. AU!LastChoiceKept'
    BY <1>0, <1>1, AudioTyped DEF AU!LastChoiceKept, AU!AudioInv
  <1> QED
    BY <1>2, <1>3, <1>4, <1>5, <1>6, ShownFollowsNext

\* Initially.
LEMMA AudioStart ==
    ASSUME AU!AudioInit
    PROVE  AU!AudioInv
  <1>1. /\ level = [s \in Sinks |-> CHOOSE l \in Levels : TRUE] /\ sink = (CHOOSE s \in Sinks : TRUE)
        /\ lines = <<>> /\ monitor = "starting" /\ retry = FALSE /\ debounce = FALSE
        /\ audioReading = AU!Running /\ again = FALSE
        /\ listing = AU!Idle /\ listAgain = FALSE /\ listDirty = FALSE
        /\ writing = [request |-> AU!NoRequest, stage |-> "idle"] /\ nextLevel = NoSink
        /\ data = NoSink /\ available = FALSE /\ sinkList = NoSink /\ visible = FALSE
        /\ chosenLevel = NoSink /\ unseenLevel = FALSE /\ unseenSink = FALSE
    BY DEF AU!AudioInit
  <1>2. AU!AudioTypeOK
    <2>1. /\ {retry, debounce, again, listAgain, listDirty} \subseteq BOOLEAN
          /\ {available, visible, unseenLevel, unseenSink} \subseteq BOOLEAN
      BY <1>1
    <2>2. lines \in Seq({"sink", "server"}) /\ Len(lines) <= MaxLines
      BY <1>1, AudioNames
    <2>3. level \in [Sinks -> Levels] /\ sink \in Sinks
      BY <1>1, AudioNames
    <2>4. audioReading \in AU!Commands(Levels) /\ listing \in AU!Commands(Sinks)
      BY <1>1, CommandSets
    <2> QED
      BY <1>1, <2>1, <2>2, <2>3, <2>4 DEF AU!AudioTypeOK
  <1>3. AU!FlagsUnderWay /\ AU!LevelIsDue /\ AU!SinkIsDue /\ AU!LastChoiceKept
    BY <1>1 DEF AU!FlagsUnderWay, AU!LevelIsDue, AU!SinkIsDue, AU!LastChoiceKept
  <1> QED
    BY <1>2, <1>3, ShownFollows DEF AU!AudioInv

\* A refresh starts a reading or leaves the request for one.
LEMMA RefreshLaw ==
    ASSUME AU!AudioTypeOK, AU!Refresh
    PROVE  /\ audioReading' \in AU!Commands(Levels) /\ again' \in BOOLEAN
           /\ again' => audioReading'.stage # "idle"
           /\ again' \/ audioReading' = AU!Running
  <1>1. /\ audioReading \in AU!Commands(Levels) /\ again \in BOOLEAN
        /\ audioReading' = AU!Asked(audioReading) /\ again' = AU!AskedAgain(audioReading, again)
    BY AudioTyped DEF AU!Refresh
  <1>2. again' \in BOOLEAN
    BY <1>1, CommandLaw
  <1>3. again' => AU!AskedAgain(audioReading, again)
    BY <1>1
  <1>4. AU!AskedAgain(audioReading, again) => again'
    BY <1>1
  <1>5. /\ AU!AskedAgain(audioReading, again) => AU!Asked(audioReading).stage # "idle"
        /\ AU!AskedAgain(audioReading, again) \/ AU!Asked(audioReading) = AU!Running
        /\ AU!Asked(audioReading) \in AU!Commands(Levels)
    BY <1>1, CommandLaw
  <1> QED
    BY <1>1, <1>2, <1>3, <1>4, <1>5

\* Likewise for the devices, while the popover is open.
LEMMA RefreshDevicesLaw ==
    ASSUME AU!AudioTypeOK, AU!FlagsUnderWay,
           \/ listing' = AU!Asked(listing) /\ listAgain' = AU!AskedAgain(listing, listAgain)
           \/ UNCHANGED <<listing, listAgain>>
    PROVE  /\ listing' \in AU!Commands(Sinks) /\ listAgain' \in BOOLEAN
           /\ listAgain' => listing'.stage # "idle"
           /\ \/ listAgain' \/ listing' = AU!Running
              \/ UNCHANGED <<listing, listAgain>>
  <1>1. listing \in AU!Commands(Sinks) /\ listAgain \in BOOLEAN
    BY AudioTyped
  <1>2. CASE listing' = AU!Asked(listing) /\ listAgain' = AU!AskedAgain(listing, listAgain)
    <2>2. listAgain' \in BOOLEAN
      BY <1>1, <1>2, CommandLaw
    <2>3. listAgain' <=> AU!AskedAgain(listing, listAgain)
      BY <1>2
    <2>5. /\ AU!AskedAgain(listing, listAgain) => AU!Asked(listing).stage # "idle"
          /\ AU!AskedAgain(listing, listAgain) \/ AU!Asked(listing) = AU!Running
          /\ AU!Asked(listing) \in AU!Commands(Sinks)
      BY <1>1, CommandLaw
    <2> QED
      BY <1>2, <2>2, <2>3, <2>5
  <1>3. CASE UNCHANGED <<listing, listAgain>>
    BY <1>1, <1>3 DEF AU!FlagsUnderWay
  <1> QED
    BY <1>2, <1>3

\* A request stays what was asked for.
LEMMA RequestLaw ==
    /\ \A r \in AU!Requests : /\ r.kind \in {"volume", "sink", "mute"}
                              /\ r.kind = "volume" => r.to \in Levels /\ r = [kind |-> "volume", to |-> r.to]
                              /\ r.kind = "sink" => r.to \in Sinks
    /\ AU!NoRequest.kind = "none" /\ \A l \in Levels : [kind |-> "volume", to |-> l] \in AU!Requests
  BY DEF AU!Requests, AU!NoRequest

\* The lines that were read have their effect.
LEMMA DebouncedStep ==
    ASSUME AU!AudioInv, AU!Debounced
    PROVE  AU!AudioInv'
  <1>0. AU!AudioTypeOK
    BY DEF AU!AudioInv
  <1>1. /\ debounce' = FALSE
        /\ listDirty' = FALSE
        /\ AU!Refresh
        /\ AU!RefreshDevices(listDirty)
        /\ UNCHANGED <<level, sink, lines, monitor, retry, writing, nextLevel, data, available, sinkList, visible, chosenLevel, unseenLevel, unseenSink>>
    BY DEF AU!Debounced, AU!readings, AU!listings, AU!watch, AU!writes, AU!server, AU!unseen
  <1>r. /\ audioReading' \in AU!Commands(Levels) /\ again' \in BOOLEAN
        /\ again' => audioReading'.stage # "idle"
        /\ again' \/ audioReading' = AU!Running
    BY <1>0, <1>1, RefreshLaw
  <1>d. /\ listing' \in AU!Commands(Sinks) /\ listAgain' \in BOOLEAN
        /\ listAgain' => listing'.stage # "idle"
        /\ (visible /\ listDirty) => listAgain' \/ listing' = AU!Running
        /\ ~(visible /\ listDirty) => UNCHANGED <<listing, listAgain>>
    <2>1. \/ listing' = AU!Asked(listing) /\ listAgain' = AU!AskedAgain(listing, listAgain)
          \/ UNCHANGED <<listing, listAgain>>
      BY <1>1 DEF AU!RefreshDevices
    <2>2. ~(visible /\ listDirty) => UNCHANGED <<listing, listAgain>>
      BY <1>1 DEF AU!RefreshDevices
    <2>3. (visible /\ listDirty) => listAgain' \/ listing' = AU!Running
      <3> SUFFICES ASSUME visible /\ listDirty PROVE listAgain' \/ listing' = AU!Running
        OBVIOUS
      <3>1. listing' = AU!Asked(listing) /\ listAgain' = AU!AskedAgain(listing, listAgain)
        BY <1>1 DEF AU!RefreshDevices
      <3>2. AU!AskedAgain(listing, listAgain) \/ AU!Asked(listing) = AU!Running
        BY <1>0, AudioTyped, CommandLaw
      <3> QED
        BY <3>1, <3>2
    <2>4. /\ listing' \in AU!Commands(Sinks) /\ listAgain' \in BOOLEAN
          /\ listAgain' => listing'.stage # "idle"
      BY <1>0, <2>1, RefreshDevicesLaw DEF AU!AudioInv
    <2> QED
      BY <2>2, <2>3, <2>4
  <1>2. AU!AudioTypeOK'
    <2>1. debounce' \in BOOLEAN /\ listDirty' \in BOOLEAN
      BY <1>1
    <2> QED
      BY <1>0, <1>1, <1>r, <1>d, <2>1, AudioTyped, AudioTypedNext
  <1>3. AU!FlagsUnderWay'
    BY <1>0, <1>1, <1>r, <1>d, AudioTyped DEF AU!FlagsUnderWay, AU!AudioInv
  <1>4. AU!LevelIsDue'
    BY <1>r DEF AU!LevelIsDue
  <1>5. AU!SinkIsDue'
    BY <1>0, <1>1, <1>d, AudioTyped DEF AU!SinkIsDue, AU!AudioInv
  <1>6. AU!LastChoiceKept'
    BY <1>0, <1>1, AudioTyped DEF AU!LastChoiceKept, AU!AudioInv
  <1> QED
    BY <1>2, <1>3, <1>4, <1>5, <1>6, ShownFollowsNext

\* The monitor is started anew.
LEMMA ReconnectStep ==
    ASSUME AU!AudioInv, AU!Reconnect
    PROVE  AU!AudioInv'
  <1>0. AU!AudioTypeOK
    BY DEF AU!AudioInv
  <1>1. /\ retry' = FALSE
        /\ monitor' = "starting"
        /\ AU!Refresh
        /\ AU!RefreshDevices(TRUE)
        /\ UNCHANGED <<level, sink, lines, debounce, listDirty, writing, nextLevel, data, available, sinkList, visible, chosenLevel, unseenLevel, unseenSink>>
    BY DEF AU!Reconnect, AU!readings, AU!listings, AU!watch, AU!writes, AU!server, AU!unseen
  <1>r. /\ audioReading' \in AU!Commands(Levels) /\ again' \in BOOLEAN
        /\ again' => audioReading'.stage # "idle"
        /\ again' \/ audioReading' = AU!Running
    BY <1>0, <1>1, RefreshLaw
  <1>d. /\ listing' \in AU!Commands(Sinks) /\ listAgain' \in BOOLEAN
        /\ listAgain' => listing'.stage # "idle"
        /\ (visible) => listAgain' \/ listing' = AU!Running
        /\ ~(visible) => UNCHANGED <<listing, listAgain>>
    <2>1. \/ listing' = AU!Asked(listing) /\ listAgain' = AU!AskedAgain(listing, listAgain)
          \/ UNCHANGED <<listing, listAgain>>
      BY <1>1 DEF AU!RefreshDevices
    <2>2. ~(visible) => UNCHANGED <<listing, listAgain>>
      BY <1>1 DEF AU!RefreshDevices
    <2>3. (visible) => listAgain' \/ listing' = AU!Running
      <3> SUFFICES ASSUME visible PROVE listAgain' \/ listing' = AU!Running
        OBVIOUS
      <3>1. listing' = AU!Asked(listing) /\ listAgain' = AU!AskedAgain(listing, listAgain)
        BY <1>1 DEF AU!RefreshDevices
      <3>2. AU!AskedAgain(listing, listAgain) \/ AU!Asked(listing) = AU!Running
        BY <1>0, AudioTyped, CommandLaw
      <3> QED
        BY <3>1, <3>2
    <2>4. /\ listing' \in AU!Commands(Sinks) /\ listAgain' \in BOOLEAN
          /\ listAgain' => listing'.stage # "idle"
      BY <1>0, <2>1, RefreshDevicesLaw DEF AU!AudioInv
    <2> QED
      BY <2>2, <2>3, <2>4
  <1>2. AU!AudioTypeOK'
    <2>1. retry' \in BOOLEAN
      BY <1>1
    <2> QED
      BY <1>0, <1>1, <1>r, <1>d, <2>1, AudioTyped, AudioTypedNext
  <1>3. AU!FlagsUnderWay'
    BY <1>0, <1>1, <1>r, <1>d, AudioTyped DEF AU!FlagsUnderWay, AU!AudioInv
  <1>4. AU!LevelIsDue'
    BY <1>r DEF AU!LevelIsDue
  <1>5. AU!SinkIsDue'
    BY <1>0, <1>1, <1>d, AudioTyped DEF AU!SinkIsDue, AU!AudioInv
  <1>6. AU!LastChoiceKept'
    BY <1>0, <1>1, AudioTyped DEF AU!LastChoiceKept, AU!AudioInv
  <1> QED
    BY <1>2, <1>3, <1>4, <1>5, <1>6, ShownFollowsNext

\* The popover opens.
LEMMA OpenStep ==
    ASSUME AU!AudioInv, AU!Open
    PROVE  AU!AudioInv'
  <1>0. AU!AudioTypeOK
    BY DEF AU!AudioInv
  <1>1. /\ visible' = TRUE
        /\ AU!Refresh
        /\ listing' = AU!Asked(listing)
        /\ listAgain' = AU!AskedAgain(listing, listAgain)
        /\ UNCHANGED <<level, sink, lines, monitor, retry, debounce, listDirty, writing, nextLevel, data, available, sinkList, chosenLevel, unseenLevel, unseenSink>>
    BY DEF AU!Open, AU!readings, AU!listings, AU!watch, AU!writes, AU!server, AU!unseen
  <1>r. /\ audioReading' \in AU!Commands(Levels) /\ again' \in BOOLEAN
        /\ again' => audioReading'.stage # "idle"
        /\ again' \/ audioReading' = AU!Running
    BY <1>0, <1>1, RefreshLaw
  <1>d. /\ listing' \in AU!Commands(Sinks) /\ listAgain' \in BOOLEAN
        /\ listAgain' => listing'.stage # "idle"
        /\ listAgain' \/ listing' = AU!Running
    <2>1. AU!AskedAgain(listing, listAgain) \/ AU!Asked(listing) = AU!Running
      BY <1>0, AudioTyped, CommandLaw
    <2>2. listAgain' \/ listing' = AU!Running
      BY <1>1, <2>1
    <2>3. /\ listing' \in AU!Commands(Sinks) /\ listAgain' \in BOOLEAN
          /\ listAgain' => listing'.stage # "idle"
      BY <1>0, <1>1, RefreshDevicesLaw DEF AU!AudioInv
    <2> QED
      BY <2>2, <2>3
  <1>2. AU!AudioTypeOK'
    <2>1. visible' \in BOOLEAN
      BY <1>1
    <2> QED
      BY <1>0, <1>1, <1>r, <1>d, <2>1, AudioTyped, AudioTypedNext
  <1>3. AU!FlagsUnderWay'
    BY <1>0, <1>1, <1>r, <1>d, AudioTyped DEF AU!FlagsUnderWay, AU!AudioInv
  <1>4. AU!LevelIsDue'
    BY <1>r DEF AU!LevelIsDue
  <1>5. AU!SinkIsDue'
    BY <1>d DEF AU!SinkIsDue
  <1>6. AU!LastChoiceKept'
    BY <1>0, <1>1, AudioTyped DEF AU!LastChoiceKept, AU!AudioInv
  <1> QED
    BY <1>2, <1>3, <1>4, <1>5, <1>6, ShownFollowsNext

\* A change fails.
LEMMA WriteFailsStep ==
    ASSUME AU!AudioInv, AU!WriteFails
    PROVE  AU!AudioInv'
  <1>0. AU!AudioTypeOK
    BY DEF AU!AudioInv
  <1>1. /\ writing.stage = "running"
        /\ writing' = [writing EXCEPT !.stage = "ended"]
        /\ UNCHANGED <<level, sink, lines, monitor, retry, debounce, audioReading, again, listing, listAgain, listDirty, nextLevel, data, available, sinkList, visible, chosenLevel, unseenLevel, unseenSink>>
    BY DEF AU!WriteFails, AU!readings, AU!listings, AU!watch, AU!writes, AU!server, AU!unseen
  <1>v. /\ writing' \in [request : AU!Requests \cup {AU!NoRequest}, stage : {"idle", "running", "ended"}]
        /\ writing'.stage = "ended" /\ writing'.request = writing.request
    BY <1>0, <1>1, AudioTyped
  <1>2. AU!AudioTypeOK'
    BY <1>0, <1>1, <1>v, AudioTyped, AudioTypedNext
  <1>3. AU!FlagsUnderWay'
    BY <1>0, <1>1, <1>v, AudioTyped DEF AU!FlagsUnderWay, AU!AudioInv
  <1>4. AU!LevelIsDue'
    BY <1>v DEF AU!LevelIsDue
  <1>5. AU!SinkIsDue'
    BY <1>0, <1>1, <1>v, AudioTyped DEF AU!SinkIsDue, AU!AudioInv
  <1>6. AU!LastChoiceKept'
    BY <1>0, <1>1, <1>v, AudioTyped DEF AU!LastChoiceKept, AU!AudioInv
  <1> QED
    BY <1>2, <1>3, <1>4, <1>5, <1>6, ShownFollowsNext

\* A change takes effect.
LEMMA AppliedStep ==
    ASSUME AU!AudioInv, AU!Applied
    PROVE  AU!AudioInv'
  <1>0. AU!AudioTypeOK
    BY DEF AU!AudioInv
  <1>1. /\ writing.stage = "running"
        /\ writing' = [writing EXCEPT !.stage = "ended"]
        /\ \/ writing.request.kind = "sink" /\ sink' = writing.request.to /\ AU!Reported("server") /\ level' = level
           \/ /\ writing.request.kind # "sink" /\ AU!Reported("sink") /\ sink' = sink
              /\ \E l \in Levels : level' = [level EXCEPT ![sink] = l]
        /\ UNCHANGED <<monitor, retry, debounce, audioReading, again, listing, listAgain, listDirty, nextLevel, data, available, sinkList, visible, chosenLevel, unseenLevel, unseenSink>>
    <2>1. writing.request.kind = "volume" => writing.request.to \in Levels
      BY <1>0, AudioTyped, RequestLaw
    <2> QED
      BY <2>1 DEF AU!Applied, AU!readings, AU!listings, AU!unseen
  <1>v. /\ writing' \in [request : AU!Requests \cup {AU!NoRequest}, stage : {"idle", "running", "ended"}]
        /\ writing'.stage = "ended" /\ writing'.request = writing.request
    BY <1>0, <1>1, AudioTyped
  <1>l. lines' \in Seq({"sink", "server"}) /\ Len(lines') <= MaxLines /\ (lines # <<>> => lines' # <<>>)
        /\ \A i \in DOMAIN lines : i \in DOMAIN (lines') /\ lines'[i] = lines[i]
    <2>1. PICK k \in {"sink", "server"} : AU!Reported(k)
      BY <1>1
    <2>2. lines' = lines \/ (Len(lines) < MaxLines /\ lines' = Append(lines, k))
      BY <2>1 DEF AU!Reported, AU!Noticed
    <2> QED
      BY <1>0, <2>2, AudioTyped, AudioNames, SMTT(30)
  <1>2. AU!AudioTypeOK'
    <2>1. sink' \in Sinks
      BY <1>0, <1>1, AudioTyped, RequestLaw
    <2>2. level' \in [Sinks -> Levels]
      BY <1>0, <1>1, AudioTyped
    <2> QED
      BY <1>0, <1>1, <1>v, <1>l, <2>1, <2>2, AudioTyped, AudioTypedNext
  <1>3. AU!FlagsUnderWay'
    BY <1>0, <1>1, <1>v, AudioTyped DEF AU!FlagsUnderWay, AU!AudioInv
  <1>4. AU!LevelIsDue'
    BY <1>v DEF AU!LevelIsDue
  <1>5. AU!SinkIsDue'
    <2>1. CASE writing.request.kind = "sink"
      BY <1>v, <2>1 DEF AU!SinkIsDue
    <2>2. CASE writing.request.kind # "sink"
      <3>1. sink' = sink
        BY <1>1, <2>2
      <3>2. (\E i \in DOMAIN lines : lines[i] = "server") => \E i \in DOMAIN (lines') : lines'[i] = "server"
        BY <1>l
      <3> QED
        BY <1>1, <1>v, <2>2, <3>1, <3>2 DEF AU!SinkIsDue, AU!AudioInv
    <2> QED
      BY <2>1, <2>2
  <1>6. AU!LastChoiceKept'
    BY <1>0, <1>1, <1>v, AudioTyped DEF AU!LastChoiceKept, AU!AudioInv
  <1> QED
    BY <1>2, <1>3, <1>4, <1>5, <1>6, ShownFollowsNext

\* The task goes on after a change.
LEMMA WrittenStep ==
    ASSUME AU!AudioInv, AU!Written
    PROVE  AU!AudioInv'
  <1>0. AU!AudioTypeOK
    BY DEF AU!AudioInv
  <1>1. /\ writing.stage = "ended"
        /\ AU!RefreshDevices(writing.request.kind = "sink")
        /\ writing' = IF nextLevel = NoSink THEN [request |-> AU!NoRequest, stage |-> "idle"]
                       ELSE [request |-> [kind |-> "volume", to |-> nextLevel], stage |-> "running"]
        /\ nextLevel' = NoSink
        /\ chosenLevel' = IF nextLevel = NoSink THEN NoSink ELSE chosenLevel
        /\ nextLevel = NoSink => AU!Refresh
        /\ nextLevel # NoSink => UNCHANGED <<audioReading, again>>
        /\ UNCHANGED <<level, sink, lines, monitor, retry, debounce, listDirty, data, available, sinkList, visible, unseenLevel, unseenSink>>
    BY DEF AU!Written, AU!ThenRead, AU!listings, AU!readings, AU!watch, AU!server, AU!unseen
  <1>r. /\ audioReading' \in AU!Commands(Levels) /\ again' \in BOOLEAN
        /\ again' => audioReading'.stage # "idle"
        /\ nextLevel = NoSink => again' \/ audioReading' = AU!Running
    <2>1. CASE nextLevel = NoSink
      BY <1>0, <1>1, <2>1, RefreshLaw
    <2>2. CASE nextLevel # NoSink
      BY <1>0, <1>1, <2>2, AudioTyped DEF AU!FlagsUnderWay, AU!AudioInv
    <2> QED
      BY <2>1, <2>2
  <1>d. /\ listing' \in AU!Commands(Sinks) /\ listAgain' \in BOOLEAN
        /\ listAgain' => listing'.stage # "idle"
        /\ (visible /\ writing.request.kind = "sink") => listAgain' \/ listing' = AU!Running
        /\ ~(visible /\ writing.request.kind = "sink") => UNCHANGED <<listing, listAgain>>
    <2>1. \/ listing' = AU!Asked(listing) /\ listAgain' = AU!AskedAgain(listing, listAgain)
          \/ UNCHANGED <<listing, listAgain>>
      BY <1>1 DEF AU!RefreshDevices
    <2>2. ~(visible /\ writing.request.kind = "sink") => UNCHANGED <<listing, listAgain>>
      BY <1>1 DEF AU!RefreshDevices
    <2>3. (visible /\ writing.request.kind = "sink") => listAgain' \/ listing' = AU!Running
      <3> SUFFICES ASSUME visible /\ writing.request.kind = "sink" PROVE listAgain' \/ listing' = AU!Running
        OBVIOUS
      <3>1. listing' = AU!Asked(listing) /\ listAgain' = AU!AskedAgain(listing, listAgain)
        BY <1>1 DEF AU!RefreshDevices
      <3>2. AU!AskedAgain(listing, listAgain) \/ AU!Asked(listing) = AU!Running
        BY <1>0, AudioTyped, CommandLaw, ZenonT(40)
      <3> QED
        BY <3>1, <3>2
    <2>4. /\ listing' \in AU!Commands(Sinks) /\ listAgain' \in BOOLEAN
          /\ listAgain' => listing'.stage # "idle"
      BY <1>0, <2>1, RefreshDevicesLaw DEF AU!AudioInv
    <2> QED
      BY <2>2, <2>3, <2>4
  <1>2. AU!AudioTypeOK'
    <2>1. writing' \in [request : AU!Requests \cup {AU!NoRequest}, stage : {"idle", "running", "ended"}]
      BY <1>0, <1>1, AudioTyped, RequestLaw
    <2>2. chosenLevel' \in Levels \cup {NoSink}
      BY <1>0, <1>1, AudioTyped
    <2> QED
      BY <1>0, <1>1, <1>r, <1>d, <2>1, <2>2, AudioTyped, AudioTypedNext
  <1>3. AU!FlagsUnderWay'
    BY <1>0, <1>1, <1>r, <1>d, AudioTyped DEF AU!FlagsUnderWay, AU!AudioInv
  <1>4. AU!LevelIsDue'
    <2>1. CASE nextLevel = NoSink
      BY <1>r, <2>1 DEF AU!LevelIsDue
    <2>2. CASE nextLevel # NoSink
      <3>1. writing'.stage = "running"
        BY <1>1, <2>2
      <3> QED
        BY <3>1 DEF AU!LevelIsDue
    <2> QED
      BY <2>1, <2>2
  <1>5. AU!SinkIsDue'
    <2>1. CASE visible /\ writing.request.kind = "sink"
      BY <1>d, <2>1 DEF AU!SinkIsDue
    <2>2. CASE ~(visible /\ writing.request.kind = "sink")
      BY <1>0, <1>1, <1>d, <2>2, AudioTyped DEF AU!SinkIsDue, AU!AudioInv
    <2> QED
      BY <2>1, <2>2
  <1>6. AU!LastChoiceKept'
    BY <1>0, <1>1, AudioTyped DEF AU!LastChoiceKept, AU!AudioInv
  <1> QED
    BY <1>2, <1>3, <1>4, <1>5, <1>6, ShownFollowsNext

\* The user changes the volume, the mute or the device.
LEMMA PressStep ==
    ASSUME AU!AudioInv, AU!Press
    PROVE  AU!AudioInv'
  <1>0. AU!AudioTypeOK
    BY DEF AU!AudioInv
  <1>1. /\ \E request \in AU!Requests :
           /\ request.kind # "volume" => writing.stage = "idle"
           /\ AU!Write(request)
           /\ chosenLevel' = IF request.kind = "volume" THEN request.to ELSE chosenLevel
        /\ UNCHANGED <<level, sink, lines, monitor, retry, debounce, audioReading, again, listing, listAgain, listDirty, data, available, sinkList, visible, unseenLevel, unseenSink>>
    BY DEF AU!Press, AU!readings, AU!listings, AU!watch, AU!writes, AU!server, AU!unseen
  <1>v. /\ writing' \in [request : AU!Requests \cup {AU!NoRequest}, stage : {"idle", "running", "ended"}]
        /\ nextLevel' \in Levels \cup {NoSink} /\ chosenLevel' \in Levels \cup {NoSink}
        /\ writing'.stage # "idle" /\ (writing.stage # "idle" => writing' = writing)
        /\ AU!LastChoiceKept'
    <2>1. PICK request \in AU!Requests :
              /\ request.kind # "volume" => writing.stage = "idle"
              /\ AU!Write(request)
              /\ chosenLevel' = IF request.kind = "volume" THEN request.to ELSE chosenLevel
      BY <1>1
    <2>2. chosenLevel' \in Levels \cup {NoSink}
      BY <1>0, <2>1, AudioTyped, RequestLaw
    <2>3. CASE writing.stage = "idle"
      <3>1. writing' = [request |-> request, stage |-> "running"] /\ nextLevel' = nextLevel
        BY <2>1, <2>3 DEF AU!Write
      <3>2. nextLevel = NoSink /\ chosenLevel = NoSink
        BY <2>3 DEF AU!FlagsUnderWay, AU!AudioInv
      <3>3. AU!LastChoiceKept'
        <4>1. CASE request.kind = "volume"
          <5>1. request = [kind |-> "volume", to |-> request.to]
            BY <4>1, RequestLaw
          <5> QED
            BY <2>1, <3>1, <3>2, <4>1, <5>1 DEF AU!LastChoiceKept
        <4>2. CASE request.kind # "volume"
          BY <2>1, <3>2, <4>2 DEF AU!LastChoiceKept
        <4> QED
          BY <4>1, <4>2
      <3> QED
        BY <1>0, <2>2, <2>3, <3>1, <3>3, AudioTyped
    <2>4. CASE writing.stage # "idle"
      <3>1. request.kind = "volume" /\ request.to \in Levels
        BY <2>1, <2>4, RequestLaw
      <3>2. nextLevel' = request.to /\ writing' = writing
        BY <2>1, <2>4, <3>1 DEF AU!Write, AU!Kept
      <3>3. AU!LastChoiceKept'
        BY <2>1, <3>1, <3>2 DEF AU!LastChoiceKept
      <3> QED
        BY <1>0, <2>2, <2>4, <3>1, <3>2, <3>3, AudioTyped
    <2> QED
      BY <2>3, <2>4
  <1>2. AU!AudioTypeOK'
    BY <1>0, <1>1, <1>v, AudioTyped, AudioTypedNext
  <1>3. AU!FlagsUnderWay'
    BY <1>0, <1>1, <1>v, AudioTyped DEF AU!FlagsUnderWay, AU!AudioInv
  <1>4. AU!LevelIsDue'
    BY <1>v DEF AU!LevelIsDue
  <1>5. AU!SinkIsDue'
    BY <1>0, <1>1, <1>v, AudioTyped DEF AU!SinkIsDue, AU!AudioInv
  <1>6. AU!LastChoiceKept'
    BY <1>v
  <1> QED
    BY <1>2, <1>3, <1>4, <1>5, <1>6, ShownFollowsNext

\* Another program sets the level.
LEMMA OutsideLevelStep ==
    ASSUME AU!AudioInv, AU!OutsideLevel
    PROVE  AU!AudioInv'
  <1>0. AU!AudioTypeOK
    BY DEF AU!AudioInv
  <1>1. /\ \E l \in Levels : level' = [level EXCEPT ![sink] = l]
        /\ AU!Change("sink", FALSE)
        /\ UNCHANGED <<sink, monitor, retry, debounce, audioReading, again, listing, listAgain, listDirty, writing, nextLevel, data, available, sinkList, visible, chosenLevel>>
    BY DEF AU!OutsideLevel, AU!readings, AU!listings, AU!writes
  <1>l. /\ lines' \in Seq({"sink", "server"}) /\ Len(lines') <= MaxLines /\ (lines' # <<>> \/ unseenLevel')
        /\ \A i \in DOMAIN lines : i \in DOMAIN (lines') /\ lines'[i] = lines[i]
        /\ unseenLevel' \in BOOLEAN /\ unseenSink' \in BOOLEAN /\ (unseenSink => unseenSink')
    <2>1. CASE Len(lines) < MaxLines /\ AU!Noticed("sink") /\ UNCHANGED AU!unseen
      <3>1. lines' = Append(lines, "sink") /\ Len(lines) < MaxLines /\ UNCHANGED <<unseenLevel, unseenSink>>
        BY <2>1 DEF AU!Noticed, AU!unseen
      <3>2. /\ lines' \in Seq({"sink", "server"}) /\ Len(lines') <= MaxLines /\ lines' # <<>>
            /\ \A i \in DOMAIN lines : i \in DOMAIN (lines') /\ lines'[i] = lines[i]
            /\ Len(lines) + 1 \in DOMAIN (lines') /\ lines'[Len(lines) + 1] = "sink"
        BY <1>0, <3>1, AudioTyped, AudioNames
      <3> QED
        BY <1>0, <3>1, <3>2, AudioTyped
    <2>2. CASE unseenLevel' = TRUE /\ unseenSink' = (unseenSink \/ FALSE) /\ UNCHANGED lines
      <3>1. unseenLevel' \in BOOLEAN /\ unseenSink' \in BOOLEAN
        BY <2>2
      <3> QED
        BY <1>0, <2>2, <3>1, AudioTyped
    <2> QED
      BY <1>1, <2>1, <2>2 DEF AU!Change
  <1>2. AU!AudioTypeOK'
    <2>1. level' \in [Sinks -> Levels]
      BY <1>0, <1>1, AudioTyped
    <2> QED
      BY <1>0, <1>1, <1>l, <2>1, AudioTyped, AudioTypedNext
  <1>3. AU!FlagsUnderWay'
    BY <1>0, <1>1, AudioTyped DEF AU!FlagsUnderWay, AU!AudioInv
  <1>4. AU!LevelIsDue'
    BY <1>l DEF AU!LevelIsDue
  <1>5. AU!SinkIsDue'
    BY <1>0, <1>1, <1>l, AudioTyped DEF AU!SinkIsDue, AU!AudioInv
  <1>6. AU!LastChoiceKept'
    BY <1>0, <1>1, AudioTyped DEF AU!LastChoiceKept, AU!AudioInv
  <1> QED
    BY <1>2, <1>3, <1>4, <1>5, <1>6, ShownFollowsNext

\* Another program sets the default device.
LEMMA OutsideSinkStep ==
    ASSUME AU!AudioInv, AU!OutsideSink
    PROVE  AU!AudioInv'
  <1>0. AU!AudioTypeOK
    BY DEF AU!AudioInv
  <1>1. /\ sink' \in Sinks
        /\ AU!Change("server", TRUE)
        /\ UNCHANGED <<level, monitor, retry, debounce, audioReading, again, listing, listAgain, listDirty, writing, nextLevel, data, available, sinkList, visible, chosenLevel>>
    BY DEF AU!OutsideSink, AU!readings, AU!listings, AU!writes
  <1>l. /\ lines' \in Seq({"sink", "server"}) /\ Len(lines') <= MaxLines /\ (lines' # <<>> \/ unseenLevel')
        /\ \A i \in DOMAIN lines : i \in DOMAIN (lines') /\ lines'[i] = lines[i]
        /\ unseenLevel' \in BOOLEAN /\ unseenSink' \in BOOLEAN /\ (unseenSink => unseenSink')
        /\ (\E i \in DOMAIN (lines') : lines'[i] = "server") \/ unseenSink'
    <2>1. CASE Len(lines) < MaxLines /\ AU!Noticed("server") /\ UNCHANGED AU!unseen
      <3>1. lines' = Append(lines, "server") /\ Len(lines) < MaxLines /\ UNCHANGED <<unseenLevel, unseenSink>>
        BY <2>1 DEF AU!Noticed, AU!unseen
      <3>2. /\ lines' \in Seq({"sink", "server"}) /\ Len(lines') <= MaxLines /\ lines' # <<>>
            /\ \A i \in DOMAIN lines : i \in DOMAIN (lines') /\ lines'[i] = lines[i]
            /\ Len(lines) + 1 \in DOMAIN (lines') /\ lines'[Len(lines) + 1] = "server"
        BY <1>0, <3>1, AudioTyped, AudioNames
      <3> QED
        BY <1>0, <3>1, <3>2, AudioTyped
    <2>2. CASE unseenLevel' = TRUE /\ unseenSink' = (unseenSink \/ TRUE) /\ UNCHANGED lines
      <3>1. unseenLevel' \in BOOLEAN /\ unseenSink' \in BOOLEAN
        BY <2>2
      <3> QED
        BY <1>0, <2>2, <3>1, AudioTyped
    <2> QED
      BY <1>1, <2>1, <2>2 DEF AU!Change
  <1>2. AU!AudioTypeOK'
    BY <1>0, <1>1, <1>l, AudioTyped, AudioTypedNext
  <1>3. AU!FlagsUnderWay'
    BY <1>0, <1>1, AudioTyped DEF AU!FlagsUnderWay, AU!AudioInv
  <1>4. AU!LevelIsDue'
    BY <1>l DEF AU!LevelIsDue
  <1>5. AU!SinkIsDue'
    BY <1>l DEF AU!SinkIsDue
  <1>6. AU!LastChoiceKept'
    BY <1>0, <1>1, AudioTyped DEF AU!LastChoiceKept, AU!AudioInv
  <1> QED
    BY <1>2, <1>3, <1>4, <1>5, <1>6, ShownFollowsNext

\* Every step of the control keeps its invariant.
LEMMA AudioStep ==
    ASSUME AU!AudioInv, AU!AudioNext \/ UNCHANGED audioVars
    PROVE  AU!AudioInv'
  <1>1. CASE UNCHANGED audioVars
    BY <1>1 DEF audioVars, AU!AudioInv, AU!AudioTypeOK, AU!ShownIsTrue, AU!NothingUnderWay, AU!LastChoiceKept,
       AU!FlagsUnderWay, AU!LevelIsDue, AU!SinkIsDue
  <1>2. CASE AU!AudioNext
    BY <1>2, OutsideLevelStep, OutsideSinkStep, SubscribedStep, MonitorEndsStep, ReadLevelStep, ReadSinkStep,
       ReadFailsStep, LevelShownStep, DevicesShownStep, PressStep, AppliedStep, WriteFailsStep, WrittenStep,
       ReadLineStep, DebouncedStep, ReconnectStep, OpenStep, ShutStep DEF AU!AudioNext
  <1> QED
    BY <1>1, <1>2

-----------------------------------------------------------------------------
(* The notifications: each is shown or its client is told.                 *)

\* The rows in order, none with the id of another.
Listed(q) ==
    /\ q \in Seq(NT!Row) /\ Len(q) \in Nat
    /\ \A i, j \in 1 .. Len(q) : q[i].id = q[j].id => i = j
Visible(q, quiet) == \E i \in 1 .. Len(q) : q[i].id = NT!Warning \/ ~quiet
Member(q, x) == \E i \in 1 .. Len(q) : q[i] = x
HasId(q, id) == \E i \in 1 .. Len(q) : q[i].id = id
Events == NT!Upsert \cup NT!Close \cup NT!Dismiss
Brings(m, id) == m.kind = "upsert" /\ m.row.id = id

\* The invariant in two: what is on screen, and what is on its way.
ScreenLaw ==
    /\ Listed(rows) /\ Len(rows) <= RowLimit
    /\ timers \in [NT!RowIds -> {"none", "running", "due"}]
    /\ \A i \in 1 .. Len(rows) : rows[i].life = "running" => timers[rows[i].id] = "running"
    /\ firstRow \in Nat /\ (firstRow = 0 \/ firstRow < Len(rows))
    /\ muted \in BOOLEAN /\ panel \in {"none", "small", "full"}
    /\ panel = "full" <=> (panel # "none" /\ Visible(rows, muted))
Awaited ==
    \A id \in expected :
        \/ HasId(rows, id) \/ id \in evicted \/ Member(outbox, id)
        \/ \E i \in 1 .. Len(inbox) : Brings(inbox[i], id)
Told ==
    \A i \in 1 .. Len(inbox) : inbox[i].kind = "dismiss" /\ inbox[i].id \in expected =>
        \/ Member(outbox, inbox[i].id)
        \/ \E j \in 1 .. Len(inbox) : j > i /\ Brings(inbox[j], inbox[i].id)
PostLaw ==
    /\ given \in 0 .. MaxNotices /\ failing \in BOOLEAN
    /\ inbox \in Seq(Events) /\ Len(inbox) \in Nat
    /\ outbox \in Seq(NT!RowIds) /\ Len(outbox) \in Nat
    /\ expected \subseteq NT!RowIds /\ evicted \subseteq NT!RowIds
    /\ Awaited /\ Told

\* It is the invariant.
LEMMA NoticesLaw == NT!NoticesInv <=> ScreenLaw /\ PostLaw
  <1>1. \A q, T : q \in Seq(T) => DOMAIN q = 1 .. Len(q) /\ Len(q) \in Nat
    OBVIOUS
  <1>2. ASSUME rows \in Seq(NT!Row), outbox \in Seq(NT!RowIds), inbox \in Seq(Events)
        PROVE  NT!NoticesInv <=> ScreenLaw /\ PostLaw
    <2>1. /\ DOMAIN rows = 1 .. Len(rows) /\ DOMAIN outbox = 1 .. Len(outbox) /\ DOMAIN inbox = 1 .. Len(inbox)
          /\ Len(rows) \in Nat /\ Len(outbox) \in Nat /\ Len(inbox) \in Nat
      BY <1>1, <1>2
    <2>2. /\ \A id : NT!Has(id) <=> HasId(rows, id)
          /\ \A id : id \in NT!ToSet(outbox) <=> Member(outbox, id)
      BY <2>1 DEF NT!Has, HasId, NT!ToSet, Member
    <2>3. NT!TimedRows <=> \A i \in 1 .. Len(rows) : rows[i].life = "running" => timers[rows[i].id] = "running"
      BY <2>1 DEF NT!TimedRows, NT!ToSet
    <2>4. (\E r \in NT!ToSet(rows) : NT!Critical(r) \/ ~muted) <=> Visible(rows, muted)
      BY <2>1 DEF NT!Critical, NT!ToSet, Visible
    <2>5. NT!PanelMatchesRows <=> /\ panel = "full" <=> (panel # "none" /\ Visible(rows, muted))
                                  /\ firstRow = 0 \/ firstRow < Len(rows)
      BY <2>4 DEF NT!PanelMatchesRows
    <2>6. NT!Accounted <=> Awaited
      BY <2>1, <2>2 DEF NT!Accounted, Awaited, Brings
    <2>7. NT!DismissalsTold <=> Told
      BY <2>1, <2>2 DEF NT!DismissalsTold, Told, Brings
    <2>8. NT!NoticesTypeOK <=>
            /\ given \in 0 .. MaxNotices /\ Listed(rows) /\ Len(rows) <= RowLimit
            /\ timers \in [NT!RowIds -> {"none", "running", "due"}] /\ firstRow \in Nat
            /\ muted \in BOOLEAN /\ failing \in BOOLEAN /\ panel \in {"none", "small", "full"}
            /\ expected \subseteq NT!RowIds /\ evicted \subseteq NT!RowIds
      BY <1>2, <2>1 DEF NT!NoticesTypeOK, Listed, Events
    <2> QED
      BY <1>2, <2>1, <2>3, <2>5, <2>6, <2>7, <2>8 DEF NT!NoticesInv, ScreenLaw, PostLaw
  <1>3. NT!NoticesInv => rows \in Seq(NT!Row) /\ outbox \in Seq(NT!RowIds) /\ inbox \in Seq(Events)
    BY DEF NT!NoticesInv, NT!NoticesTypeOK, Events
  <1>4. ScreenLaw /\ PostLaw => rows \in Seq(NT!Row) /\ outbox \in Seq(NT!RowIds) /\ inbox \in Seq(Events)
    BY DEF ScreenLaw, PostLaw, Listed
  <1> QED
    BY <1>2, <1>3, <1>4

\* And in the next state.
LEMMA NoticesLawNext == NT!NoticesInv' <=> ScreenLaw' /\ PostLaw'
  BY NoticesLaw, PTL

\* The fields of an event, of a row.
LEMMA EventFields ==
    /\ \A m \in Events : m.kind = "upsert" => m \in NT!Upsert /\ m.row \in NT!Row
    /\ \A m \in Events : m.kind # "upsert" => m.id \in NT!RowIds /\ m.kind \in {"close", "dismiss"}
    /\ \A r \in NT!Row : r.id \in NT!RowIds /\ r.life \in NT!Lives
    /\ \A m \in NT!Dismiss : m \in Events /\ m.kind = "dismiss" /\ m.id \in NT!RowIds
  BY DEF Events, NT!Upsert, NT!Close, NT!Dismiss, NT!Row

\* Without: the rows that stay are those there were.
LEMMA WithoutFacts ==
    ASSUME NEW q, Listed(q), NEW ids
    PROVE  LET r == NT!Without(q, ids) IN
           /\ Listed(r) /\ Len(r) <= Len(q)
           /\ \A k \in 1 .. Len(r) : r[k].id \notin ids /\ Member(q, r[k])
           /\ \A i \in 1 .. Len(q) : q[i].id \notin ids => Member(r, q[i])
  <1> DEFINE S == {x \in NT!Row : x.id \notin ids}
             r == NT!Without(q, ids)
  <1>1. r = Retain(q, S)
    BY DEF NT!Without, NT!Retain, Retain
  <1>2. q \in Seq(NT!Row) /\ Len(q) \in Nat /\ Once(q) /\ \A i \in 1 .. Len(q) : q[i] \in NT!Row
    BY DEF Listed, Once
  <1>3. r \in Seq(NT!Row) /\ Keeps(q, S, Len(q), r) /\ Len(r) \in Nat
    <2>1. Retain(q, S) \in Seq(NT!Row) /\ Keeps(q, S, Len(q), Retain(q, S))
      BY <1>2, RetainFacts
    <2> QED
      BY <1>1, <2>1
  <1> HIDE DEF r
  <1>4. /\ \A k \in 1 .. Len(r) : r[k].id \notin ids /\ \E i \in 1 .. Len(q) : q[i] = r[k]
        /\ \A i \in 1 .. Len(q) : q[i].id \notin ids => \E k \in 1 .. Len(r) : r[k] = q[i]
        /\ Len(r) <= Len(q) /\ Once(r)
    BY <1>2, <1>3 DEF Keeps
  <1>5. ASSUME NEW k \in 1 .. Len(r), NEW l \in 1 .. Len(r), r[k].id = r[l].id PROVE k = l
    <2>1. PICK i \in 1 .. Len(q) : q[i] = r[k]
      BY <1>4
    <2>2. PICK j \in 1 .. Len(q) : q[j] = r[l]
      BY <1>4
    <2>3. i = j
      BY <1>5, <2>1, <2>2 DEF Listed
    <2> QED
      BY <1>4, <2>1, <2>2, <2>3 DEF Once
  <1>6. Listed(r)
    BY <1>3, <1>5 DEF Listed
  <1> QED
    BY <1>4, <1>6 DEF Member, r

\* The offset stays on a row.
LEMMA ClampedFacts ==
    ASSUME NEW o \in Nat, NEW T, NEW q \in Seq(T)
    PROVE  NT!Clamped(o, q) \in Nat /\ (NT!Clamped(o, q) = 0 \/ NT!Clamped(o, q) < Len(q))
  <1> DEFINE n == IF q = <<>> THEN 0 ELSE Len(q) - 1
             S == {o, n}
  <1>1. n \in Nat /\ (n = 0 \/ n < Len(q)) /\ Len(q) \in Nat
    BY EmptySeq
  <1>2. NT!Clamped(o, q) = CHOOSE x \in S : \A y \in S : x <= y
    BY DEF NT!Clamped, NT!Min
  <1> HIDE DEF n
  <1>3. \E x \in S : \A y \in S : x <= y
    BY <1>1
  <1>4. NT!Clamped(o, q) \in S /\ \A y \in S : NT!Clamped(o, q) <= y
    BY <1>2, <1>3
  <1> QED
    BY <1>1, <1>4

\* The panel is full when there is something to see.
LEMMA PanelForFacts ==
    ASSUME NEW T, NEW q \in Seq(T), NEW quiet \in BOOLEAN, NEW now \in {"none", "small", "full"}
    PROVE  LET p == NT!PanelFor(q, quiet, now) IN
           /\ p \in {"none", "small", "full"}
           /\ p = "full" <=> (p # "none" /\ Visible(q, quiet))
  <1>1. DOMAIN q = 1 .. Len(q)
    OBVIOUS
  <1>2. (\E r \in NT!ToSet(q) : NT!Critical(r) \/ ~quiet) <=> Visible(q, quiet)
    BY <1>1 DEF NT!Critical, NT!ToSet, Visible
  <1> QED
    BY <1>2 DEF NT!PanelFor

\* A set written as a sequence has its members.
LEMMA InSequence ==
    ASSUME NEW T, NEW S \in SUBSET T, IsFiniteSet(S)
    PROVE  /\ NT!SetToSeq(S) \in Seq(T)
           /\ \A i \in 1 .. Len(NT!SetToSeq(S)) : NT!SetToSeq(S)[i] \in S
           /\ \A x \in S : Member(NT!SetToSeq(S), x)
  <1> DEFINE n == Cardinality(S)
             One(f) == \A a, b \in DOMAIN f : f[a] = f[b] => a = b
             s == NT!SetToSeq(S)
  <1>1. n \in Nat /\ ExistsBijection(1 .. n, S)
    BY FS_CardinalityType
  <1>2. PICK g : g \in Bijection(1 .. n, S)
    BY <1>1 DEF ExistsBijection
  <1>3. g \in [1 .. n -> S] /\ One(g)
    BY <1>2 DEF Bijection, Injection, Surjection, IsInjective
  <1>4. s = CHOOSE f \in [1 .. n -> S] : One(f)
    <2>1. NT!Cardinality(S) = n
      BY DEF NT!Cardinality, Cardinality
    <2> QED
      BY <2>1 DEF NT!SetToSeq, NT!IsInjective
  <1>5. s \in [1 .. n -> S] /\ One(s)
    <2> HIDE DEF One, n
    <2> QED
      BY <1>3, <1>4
  <1> HIDE DEF s, n
  <1>6. s \in Injection(1 .. n, S)
    BY <1>5 DEF Injection, IsInjective
  <1>7. s \in Surjection(1 .. n, S)
    <2>1. 1 \in Int /\ n \in Int /\ Cardinality(1 .. n) = n
      BY <1>1, FS_Interval
    <2> QED
      BY <1>1, <1>6, <2>1, FS_Injection DEF n
  <1>8. s \in Seq(T) /\ Len(s) = n
    BY <1>1, <1>5
  <1>9. \A x \in S : \E i \in 1 .. n : s[i] = x
    BY <1>7 DEF Surjection
  <1> QED
    BY <1>5, <1>8, <1>9 DEF s, Member

\* One more event: the ones there were keep their places.
LEMMA OneMoreEvent ==
    ASSUME NEW q \in Seq(Events), NEW m \in Events
    PROVE  /\ Append(q, m) \in Seq(Events) /\ Len(Append(q, m)) = Len(q) + 1 /\ Len(q) \in Nat
           /\ Append(q, m)[Len(q) + 1] = m /\ Len(q) + 1 \in 1 .. Len(q) + 1
           /\ \A i \in 1 .. Len(q) : Append(q, m)[i] = q[i] /\ i \in 1 .. Len(q) + 1 /\ Len(q) + 1 > i
           /\ \A i \in 1 .. Len(q) + 1 : i \in 1 .. Len(q) \/ i = Len(q) + 1
  OBVIOUS

\* An event that is no dismissal joins the queue; it may bring an id that is
\* expected from now on.
LEMMA EventJoins ==
    ASSUME PostLaw, NEW m \in Events, m.kind # "dismiss", inbox' = Append(inbox, m),
           given' \in 0 .. MaxNotices, failing' \in BOOLEAN,
           expected' = expected \/ (\E id \in NT!RowIds : expected' = expected \cup {id} /\ Brings(m, id)),
           UNCHANGED <<rows, outbox, evicted>>
    PROVE  PostLaw'
  <1> DEFINE n == Len(inbox)
  <1>1. /\ inbox' \in Seq(Events) /\ Len(inbox') = n + 1 /\ n \in Nat
        /\ inbox'[n + 1] = m /\ n + 1 \in 1 .. n + 1
        /\ \A i \in 1 .. n : inbox'[i] = inbox[i] /\ i \in 1 .. n + 1 /\ n + 1 > i
        /\ \A i \in 1 .. n + 1 : i \in 1 .. n \/ i = n + 1
    BY OneMoreEvent DEF PostLaw
  <1>2. expected' \subseteq NT!RowIds /\ \A id \in expected' : id \in expected \/ Brings(m, id)
    BY DEF PostLaw
  <1>3. ASSUME NEW id \in expected'
        PROVE  \/ HasId(rows, id) \/ id \in evicted \/ Member(outbox, id)
               \/ \E i \in 1 .. Len(inbox') : Brings(inbox'[i], id)
    <2>1. CASE id \in expected
      BY <1>1, <2>1 DEF PostLaw, Awaited
    <2>2. CASE Brings(m, id)
      BY <1>1, <2>2
    <2> QED
      BY <1>2, <1>3, <2>1, <2>2
  <1>4. ASSUME NEW i \in 1 .. Len(inbox'), inbox'[i].kind = "dismiss", inbox'[i].id \in expected'
        PROVE  \/ Member(outbox, inbox'[i].id)
               \/ \E j \in 1 .. Len(inbox') : j > i /\ Brings(inbox'[j], inbox'[i].id)
    <2>1. i \in 1 .. n /\ inbox'[i] = inbox[i]
      BY <1>1, <1>4
    <2>2. CASE inbox[i].id \in expected
      BY <1>1, <1>4, <2>1, <2>2 DEF PostLaw, Told
    <2>3. CASE Brings(m, inbox[i].id)
      BY <1>1, <2>1, <2>3
    <2> QED
      BY <1>2, <1>4, <2>1, <2>2, <2>3
  <1>5. Awaited'
    BY <1>3 DEF Awaited, HasId, Member, Brings
  <1>6. Told'
    BY <1>4 DEF Told, Member, Brings
  <1>7. outbox' \in Seq(NT!RowIds) /\ Len(outbox') \in Nat /\ evicted' \subseteq NT!RowIds
    BY DEF PostLaw
  <1> QED
    BY <1>1, <1>2, <1>5, <1>6, <1>7 DEF PostLaw

\* What does not touch the screen leaves its law.
LEMMA ScreenStays ==
    ASSUME ScreenLaw, UNCHANGED <<rows, timers, firstRow, muted, panel>>
    PROVE  ScreenLaw'
  BY DEF ScreenLaw, Listed, Visible

\* A client shows a notification, or closes one.
LEMMA NotifyStep ==
    ASSUME ScreenLaw, PostLaw, NEW id \in NT!NoticeIds, NT!Notify(id) \/ NT!CloseNotification(id)
    PROVE  ScreenLaw' /\ PostLaw'
  <1>0. /\ MaxNotices \in Nat /\ id \in NT!RowIds /\ given \in 0 .. MaxNotices /\ id \in 1 .. MaxNotices
    BY ShellAssumption DEF NT!NoticeAssumption, NT!RowIds, NT!NoticeIds, PostLaw
  <1>1. CASE NT!Notify(id)
    <2> DEFINE m == [kind |-> "upsert", row |-> [id |-> id, life |-> "running"]]
    <2>1. m \in Events /\ m.kind # "dismiss" /\ Brings(m, id)
      <3>1. "running" \in NT!Lives
        BY DEF NT!Lives
      <3> QED
        BY <1>0, <3>1 DEF Events, NT!Upsert, NT!Row, Brings
    <2>2. inbox' = Append(inbox, m) /\ expected' = expected \cup {id}
      BY <1>1 DEF NT!Notify, NT!Tell
    <2>3. UNCHANGED <<rows, timers, outbox, firstRow, muted, failing, panel, evicted>>
      BY <1>1 DEF NT!Notify, NT!loopState
    <2>4. given' \in 0 .. MaxNotices
      <3>1. given' = CHOOSE x \in {given, id} : \A y \in {given, id} : x >= y
        BY <1>1 DEF NT!Notify, NT!Max
      <3>2. \E x \in {given, id} : \A y \in {given, id} : x >= y
        BY <1>0
      <3>3. given' \in {given, id}
        BY <3>1, <3>2
      <3> QED
        BY <1>0, <3>3
    <2> HIDE DEF m
    <2>5. PostLaw'
      <3>1. failing' \in BOOLEAN
        BY <2>3 DEF PostLaw
      <3> QED
        BY <1>0, <2>1, <2>2, <2>3, <2>4, <3>1, EventJoins
    <2> QED
      BY <2>3, <2>5, ScreenStays
  <1>2. CASE NT!CloseNotification(id)
    <2> DEFINE m == [kind |-> "close", id |-> id]
    <2>1. m \in Events /\ m.kind # "dismiss"
      BY <1>0 DEF Events, NT!Close
    <2>2. inbox' = Append(inbox, m)
      BY <1>2 DEF NT!CloseNotification, NT!Tell
    <2>3. UNCHANGED <<given, expected, rows, timers, outbox, firstRow, muted, failing, panel, evicted>>
      BY <1>2 DEF NT!CloseNotification, NT!loopState
    <2> HIDE DEF m
    <2>4. PostLaw'
      <3>1. failing' \in BOOLEAN /\ given' \in 0 .. MaxNotices /\ expected' = expected
        BY <2>3 DEF PostLaw
      <3> QED
        BY <2>1, <2>2, <2>3, <3>1, EventJoins
    <2> QED
      BY <2>3, <2>4, ScreenStays
  <1> QED
    BY <1>1, <1>2

\* The configuration fails or is right again.
LEMMA SnapshotStep ==
    ASSUME ScreenLaw, PostLaw, NT!Snapshot
    PROVE  ScreenLaw' /\ PostLaw'
  <1> DEFINE m == IF failing' THEN [kind |-> "upsert", row |-> [id |-> NT!Warning, life |-> "forever"]]
                  ELSE [kind |-> "close", id |-> NT!Warning]
  <1>1. m \in Events /\ m.kind # "dismiss"
    <2>1. NT!Warning \in NT!RowIds /\ "forever" \in NT!Lives
      BY DEF NT!RowIds, NT!Lives
    <2> QED
      BY <2>1 DEF Events, NT!Upsert, NT!Close, NT!Row
  <1>2. inbox' = Append(inbox, m)
    BY DEF NT!Snapshot, NT!Tell
  <1>3. UNCHANGED <<given, rows, timers, outbox, firstRow, muted, panel, expected, evicted>> /\ failing' \in BOOLEAN
    BY DEF NT!Snapshot
  <1> HIDE DEF m
  <1>4. PostLaw'
    <2>1. given' \in 0 .. MaxNotices /\ expected' = expected
      BY <1>3 DEF PostLaw
    <2> QED
      BY <1>1, <1>2, <1>3, <2>1, EventJoins
  <1> QED
    BY <1>3, <1>4, ScreenStays

\* The client of the oldest report is told, and expects no more of that id.
LEMMA EmitStep ==
    ASSUME ScreenLaw, PostLaw, NT!EmitClosed
    PROVE  ScreenLaw' /\ PostLaw'
  <1>1. /\ outbox # <<>> /\ outbox' = Tail(outbox)
        /\ expected' = expected \ {Head(outbox)} /\ evicted' = evicted \ {Head(outbox)}
        /\ UNCHANGED <<given, inbox, rows, timers, firstRow, muted, failing, panel>>
    BY DEF NT!EmitClosed
  <1>2. /\ outbox' \in Seq(NT!RowIds) /\ Len(outbox') = Len(outbox) - 1 /\ Len(outbox') \in Nat
        /\ Head(outbox) = outbox[1]
        /\ \A i \in 1 .. Len(outbox) : i = 1 \/ (i - 1 \in 1 .. Len(outbox') /\ outbox'[i - 1] = outbox[i])
    BY <1>1 DEF PostLaw
  <1>3. \A id : id # Head(outbox) /\ Member(outbox, id) => Member(outbox', id)
    BY <1>2 DEF Member
  <1>4. Awaited' /\ Told'
    <2>1. ASSUME NEW id \in expected'
          PROVE  \/ HasId(rows, id) \/ id \in evicted' \/ Member(outbox', id)
                 \/ \E i \in 1 .. Len(inbox) : Brings(inbox[i], id)
      BY <1>1, <1>3, <2>1 DEF PostLaw, Awaited
    <2>2. ASSUME NEW i \in 1 .. Len(inbox), inbox[i].kind = "dismiss", inbox[i].id \in expected'
          PROVE  \/ Member(outbox', inbox[i].id)
                 \/ \E j \in 1 .. Len(inbox) : j > i /\ Brings(inbox[j], inbox[i].id)
      BY <1>1, <1>3, <2>2 DEF PostLaw, Told
    <2>3. Awaited'
      BY <1>1, <2>1 DEF Awaited, HasId, Member, Brings
    <2> QED
      BY <1>1, <2>2, <2>3 DEF Told, Member, Brings
  <1>5. PostLaw'
    BY <1>1, <1>2, <1>4 DEF PostLaw
  <1> QED
    BY <1>1, <1>5, ScreenStays

\* Rows go, whoever expects one is told, and what a click dismissed is told to
\* the loop.
LEMMA RowsReported ==
    ASSUME PostLaw, Listed(rows), NEW out \in Seq(NT!RowIds), NEW more \in Seq(NT!Dismiss),
           outbox' = outbox \o out, inbox' = inbox \o more,
           \A i \in 1 .. Len(rows) : HasId(rows', rows[i].id) \/ Member(out, rows[i].id),
           \A i \in 1 .. Len(more) : Member(out, more[i].id),
           UNCHANGED <<given, failing, expected, evicted>>
    PROVE  PostLaw'
  <1> DEFINE n == Len(inbox)
             o == Len(outbox)
  <1>1. /\ o \in Nat /\ Len(out) \in Nat /\ outbox' \in Seq(NT!RowIds) /\ Len(outbox') = o + Len(out)
        /\ \A i \in 1 .. o : outbox'[i] = outbox[i]
        /\ \A i \in 1 .. Len(out) : outbox'[o + i] = out[i]
    BY DEF PostLaw
  <1>2. \A id : Member(outbox, id) \/ Member(out, id) => Member(outbox', id)
    BY <1>1 DEF Member
  <1>3. /\ n \in Nat /\ Len(more) \in Nat /\ inbox' \in Seq(Events) /\ Len(inbox') = n + Len(more)
        /\ \A i \in 1 .. n : inbox'[i] = inbox[i] /\ i \in 1 .. Len(inbox')
        /\ \A i \in 1 .. Len(inbox') : i \in 1 .. n \/ (i - n \in 1 .. Len(more) /\ inbox'[i] = more[i - n])
    <2>1. more \in Seq(Events)
      BY DEF Events
    <2> QED
      BY <2>1 DEF PostLaw
  <1>4. ASSUME NEW id \in expected
        PROVE  \/ HasId(rows', id) \/ id \in evicted \/ Member(outbox', id)
               \/ \E i \in 1 .. Len(inbox') : Brings(inbox'[i], id)
    <2>1. HasId(rows, id) => HasId(rows', id) \/ Member(out, id)
      BY DEF HasId
    <2>2. (\E i \in 1 .. n : Brings(inbox[i], id)) => \E i \in 1 .. Len(inbox') : Brings(inbox'[i], id)
      BY <1>3
    <2>3. HasId(rows, id) \/ id \in evicted \/ Member(outbox, id) \/ \E i \in 1 .. n : Brings(inbox[i], id)
      BY DEF PostLaw, Awaited
    <2> QED
      BY <1>2, <2>1, <2>2, <2>3
  <1>5. ASSUME NEW i \in 1 .. Len(inbox'), inbox'[i].kind = "dismiss", inbox'[i].id \in expected
        PROVE  \/ Member(outbox', inbox'[i].id)
               \/ \E j \in 1 .. Len(inbox') : j > i /\ Brings(inbox'[j], inbox'[i].id)
    <2>1. CASE i \in 1 .. n
      <3>1. \/ Member(outbox, inbox[i].id)
            \/ \E j \in 1 .. n : j > i /\ Brings(inbox[j], inbox[i].id)
        BY <1>3, <1>5, <2>1 DEF PostLaw, Told
      <3> QED
        BY <1>2, <1>3, <2>1, <3>1
    <2>2. CASE i - n \in 1 .. Len(more) /\ inbox'[i] = more[i - n]
      BY <1>2, <2>2
    <2> QED
      BY <1>3, <2>1, <2>2
  <1>6. given' \in 0 .. MaxNotices /\ failing' \in BOOLEAN /\ expected' \subseteq NT!RowIds /\ evicted' \subseteq NT!RowIds
    BY DEF PostLaw
  <1>7. Awaited'
    BY <1>4 DEF Awaited, HasId, Member, Brings
  <1>8. Told'
    BY <1>5 DEF Told, Member, Brings
  <1> QED
    BY <1>1, <1>3, <1>6, <1>7, <1>8 DEF PostLaw

\* An event is taken from the queue: the others come one place nearer.
LEMMA EventTaken ==
    ASSUME NEW q \in Seq(Events), q # <<>>
    PROVE  /\ Tail(q) \in Seq(Events) /\ Len(Tail(q)) \in Nat /\ Len(Tail(q)) = Len(q) - 1
           /\ Head(q) = q[1] /\ 1 \in 1 .. Len(q) /\ Head(q) \in Events
           /\ \A i \in 1 .. Len(Tail(q)) : i + 1 \in 1 .. Len(q) /\ Tail(q)[i] = q[i + 1] /\ (i + 1) - 1 = i /\ i + 1 > 1
           /\ \A i \in 1 .. Len(q) : i = 1 \/ (i - 1 \in 1 .. Len(Tail(q)) /\ q[i] = Tail(q)[i - 1])
  OBVIOUS

\* The loop handles an event: what was expected of it has a row, or the client
\* is told.
LEMMA EventHandled ==
    ASSUME PostLaw, inbox # <<>>, inbox' = Tail(inbox), NEW out \in Seq(NT!RowIds), outbox' = outbox \o out,
           \A id : Brings(Head(inbox), id) => HasId(rows', id),
           \A id \in expected : HasId(rows, id) =>
                \/ HasId(rows', id) \/ id \in evicted' \/ Member(out, id)
                \/ Head(inbox).kind = "dismiss" /\ Head(inbox).id = id,
           \A id \in evicted : id \in evicted' \/ HasId(rows', id),
           evicted' \subseteq NT!RowIds,
           UNCHANGED <<given, failing, expected>>
    PROVE  PostLaw'
  <1> DEFINE n == Len(inbox')
  <1>1. /\ inbox' \in Seq(Events) /\ n \in Nat /\ n = Len(inbox) - 1
        /\ Head(inbox) = inbox[1] /\ 1 \in 1 .. Len(inbox) /\ Head(inbox) \in Events
        /\ \A i \in 1 .. n : i + 1 \in 1 .. Len(inbox) /\ inbox'[i] = inbox[i + 1] /\ (i + 1) - 1 = i /\ i + 1 > 1
        /\ \A i \in 1 .. Len(inbox) : i = 1 \/ (i - 1 \in 1 .. n /\ inbox[i] = inbox'[i - 1])
    BY EventTaken DEF PostLaw
  <1>2. /\ outbox' \in Seq(NT!RowIds) /\ Len(outbox') \in Nat
        /\ \A id : Member(outbox, id) \/ Member(out, id) => Member(outbox', id)
    <2>1. /\ Len(outbox) \in Nat /\ Len(out) \in Nat /\ outbox' \in Seq(NT!RowIds)
          /\ Len(outbox') = Len(outbox) + Len(out)
          /\ \A i \in 1 .. Len(outbox) : outbox'[i] = outbox[i]
          /\ \A i \in 1 .. Len(out) : outbox'[Len(outbox) + i] = out[i]
      BY DEF PostLaw
    <2>2. \A id : Member(outbox, id) \/ Member(out, id) => Member(outbox', id)
      <3>1. /\ \A i \in 1 .. Len(outbox) : i \in 1 .. Len(outbox')
            /\ \A i \in 1 .. Len(out) : Len(outbox) + i \in 1 .. Len(outbox')
        BY <2>1
      <3> QED
        BY <2>1, <3>1, Zenon DEF Member
    <2>3. Len(outbox') \in Nat
      BY <2>1
    <2> QED
      BY <2>1, <2>2, <2>3
  <1> HIDE DEF n
  <1>3. ASSUME NEW id \in expected, \E i \in 1 .. Len(inbox) : i > 1 /\ Brings(inbox[i], id)
        PROVE  \E i \in 1 .. n : Brings(inbox'[i], id)
    <2>1. PICK i \in 1 .. Len(inbox) : i > 1 /\ Brings(inbox[i], id)
      BY <1>3
    <2>2. i # 1
      BY <2>1
    <2> QED
      BY <1>1, <2>1, <2>2
  <1>4. ASSUME NEW id \in expected
        PROVE  \/ HasId(rows', id) \/ id \in evicted' \/ Member(outbox', id)
               \/ \E i \in 1 .. n : Brings(inbox'[i], id)
    <2>1. HasId(rows, id) \/ id \in evicted \/ Member(outbox, id) \/ \E i \in 1 .. Len(inbox) : Brings(inbox[i], id)
      BY DEF PostLaw, Awaited
    <2>2. (\E i \in 1 .. Len(inbox) : Brings(inbox[i], id)) =>
              Brings(inbox[1], id) \/ \E i \in 1 .. n : Brings(inbox'[i], id)
      BY <1>1
    <2>3. ASSUME Head(inbox).kind = "dismiss", Head(inbox).id = id
          PROVE  Member(outbox, id) \/ \E j \in 1 .. Len(inbox) : j > 1 /\ Brings(inbox[j], id)
      BY <1>1, <2>3 DEF PostLaw, Told
    <2> QED
      BY <1>1, <1>2, <1>3, <2>1, <2>2, <2>3
  <1>5. ASSUME NEW i \in 1 .. n, inbox'[i].kind = "dismiss", inbox'[i].id \in expected
        PROVE  \/ Member(outbox', inbox'[i].id)
               \/ \E j \in 1 .. n : j > i /\ Brings(inbox'[j], inbox'[i].id)
    <2>1. i + 1 \in 1 .. Len(inbox) /\ inbox'[i] = inbox[i + 1]
      BY <1>1
    <2>2. CASE Member(outbox, inbox'[i].id)
      BY <1>2, <2>2
    <2>3. CASE \E j \in 1 .. Len(inbox) : j > i + 1 /\ Brings(inbox[j], inbox'[i].id)
      <3>1. PICK j \in 1 .. Len(inbox) : j > i + 1 /\ Brings(inbox[j], inbox'[i].id)
        BY <2>3
      <3>2. j - 1 \in 1 .. n /\ inbox[j] = inbox'[j - 1] /\ j - 1 > i
        BY <1>1, <3>1
      <3> QED
        BY <3>1, <3>2
    <2> QED
      BY <1>5, <2>1, <2>2, <2>3 DEF PostLaw, Told
  <1>6. Awaited'
    BY <1>4 DEF Awaited, HasId, Member, Brings, n
  <1>7. Told'
    BY <1>5 DEF Told, Member, Brings, n
  <1>8. given' \in 0 .. MaxNotices /\ failing' \in BOOLEAN /\ expected' \subseteq NT!RowIds
    BY DEF PostLaw
  <1> QED
    BY <1>1, <1>2, <1>6, <1>7, <1>8 DEF PostLaw, n

\* A row comes: it is in the list, last if it is one too many, and the others are
\* those there were.
LEMMA PlacedFacts ==
    ASSUME ScreenLaw, NEW row \in NT!Row
    PROVE  LET all == NT!Placed(row) IN
           /\ Listed(all) /\ Len(all) <= RowLimit + 1
           /\ \E k \in 1 .. Len(all) : all[k] = row /\ (Len(all) <= RowLimit \/ k = Len(all))
           /\ \A k \in 1 .. Len(all) : all[k] # row => all[k].id # row.id /\ Member(rows, all[k])
           /\ \A i \in 1 .. Len(rows) : HasId(all, rows[i].id)
  <1> DEFINE all == NT!Placed(row)
             n == Len(rows)
             swapped == [i \in 1 .. n |-> IF rows[i].id = row.id THEN row ELSE rows[i]]
  <1>1. /\ n \in Nat /\ n <= RowLimit /\ rows \in Seq(NT!Row) /\ DOMAIN rows = 1 .. n
        /\ \A i \in 1 .. n : rows[i] \in NT!Row
        /\ \A i, j \in 1 .. n : rows[i].id = rows[j].id => i = j
    BY DEF ScreenLaw, Listed
  <1>2. RowLimit \in Nat \ {0}
    BY ShellAssumption DEF NT!NoticeAssumption
  <1>3. all = IF HasId(rows, row.id) THEN swapped ELSE Append(rows, row)
    BY <1>1 DEF NT!Placed, NT!Has, HasId
  <1>4. CASE HasId(rows, row.id)
    <2>1. /\ swapped \in Seq(NT!Row) /\ Len(swapped) = n
          /\ \A i \in 1 .. n : swapped[i] = IF rows[i].id = row.id THEN row ELSE rows[i]
      BY <1>1
    <2> HIDE DEF swapped
    <2>2. \A i \in 1 .. n : swapped[i].id = rows[i].id
      BY <2>1
    <2>3. all = swapped
      BY <1>3, <1>4
    <2>4. PICK k \in 1 .. n : rows[k].id = row.id
      BY <1>4 DEF HasId
    <2>5. swapped[k] = row
      BY <2>1, <2>4
    <2>6. \A i \in 1 .. n : swapped[i] # row => swapped[i].id # row.id /\ Member(rows, swapped[i])
      BY <2>1 DEF Member
    <2>7. \A i \in 1 .. n : HasId(swapped, rows[i].id)
      BY <2>1, <2>2 DEF HasId
    <2>8. Listed(swapped)
      BY <1>1, <2>1, <2>2 DEF Listed
    <2> QED
      BY <1>1, <1>2, <2>1, <2>3, <2>5, <2>6, <2>7, <2>8
  <1>5. CASE ~HasId(rows, row.id)
    <2> DEFINE more == Append(rows, row)
    <2>1. /\ more \in Seq(NT!Row) /\ Len(more) = n + 1 /\ more[n + 1] = row /\ n + 1 \in 1 .. Len(more)
          /\ \A i \in 1 .. n : more[i] = rows[i] /\ i \in 1 .. Len(more)
          /\ \A i \in 1 .. Len(more) : i \in 1 .. n \/ i = n + 1
      BY <1>1
    <2> HIDE DEF more
    <2>2. \A i \in 1 .. n : rows[i].id # row.id
      BY <1>5 DEF HasId
    <2>3. all = more
      BY <1>3, <1>5 DEF more
    <2>4. Listed(more)
      BY <1>1, <2>1, <2>2 DEF Listed
    <2>5. \A i \in 1 .. Len(more) : more[i] # row => more[i].id # row.id /\ Member(rows, more[i])
      BY <2>1, <2>2 DEF Member
    <2>6. \A i \in 1 .. n : HasId(more, rows[i].id)
      BY <2>1 DEF HasId
    <2> HIDE DEF all
    <2> QED
      BY <1>1, <1>2, <2>1, <2>3, <2>4, <2>5, <2>6 DEF all
  <1> QED
    BY <1>4, <1>5

\* What is kept of too many rows are the last ones.
LEMMA KeptFacts ==
    ASSUME NEW q, Listed(q)
    PROVE  /\ Listed(NT!Kept(q)) /\ Len(NT!Kept(q)) <= RowLimit
           /\ \A k \in 1 .. Len(NT!Kept(q)) : Member(q, NT!Kept(q)[k])
           /\ Len(q) <= RowLimit => \A i \in 1 .. Len(q) : Member(NT!Kept(q), q[i])
           /\ Len(q) > 0 => Member(NT!Kept(q), q[Len(q)])
           /\ \A i \in 1 .. Len(q) : HasId(NT!Kept(q), q[i].id) \/ q[i].id \in NT!Dropped(q)
           /\ \A k \in 1 .. Len(NT!Kept(q)) : NT!Kept(q)[k].id \notin NT!Dropped(q)
           /\ NT!Dropped(q) \subseteq NT!RowIds
  <1> DEFINE n == Len(q)
             a == IF n > RowLimit THEN n - RowLimit + 1 ELSE 1
             r == NT!Kept(q)
             m == n - a + 1
  <1>1. /\ q \in Seq(NT!Row) /\ n \in Nat /\ \A i \in 1 .. n : q[i] \in NT!Row
        /\ \A i, j \in 1 .. n : q[i].id = q[j].id => i = j
    BY DEF Listed
  <1>2. RowLimit \in Nat \ {0}
    BY ShellAssumption DEF NT!NoticeAssumption
  <1>3. /\ a \in Nat /\ a >= 1 /\ m \in Nat /\ m <= RowLimit /\ m <= n /\ (n <= RowLimit => a = 1 /\ m = n)
        /\ n > 0 => a <= n
    BY <1>1, <1>2
  <1>4. r = SubSeq(q, a, n)
    BY DEF NT!Kept
  <1> HIDE DEF r, a
  <1>5. /\ r \in Seq(NT!Row) /\ Len(r) = m
        /\ \A k \in 1 .. m : r[k] = q[k + a - 1] /\ k + a - 1 \in 1 .. n
    BY <1>1, <1>3, <1>4
  <1>6. \A i \in 1 .. n : i >= a => i - a + 1 \in 1 .. m /\ r[i - a + 1] = q[i]
    <2> TAKE i \in 1 .. n
    <2> HAVE i >= a
    <2>1. i - a + 1 \in 1 .. m /\ (i - a + 1) + a - 1 = i
      BY <1>1, <1>3
    <2> QED
      BY <1>5, <2>1
  <1> HIDE DEF m
  <1>7. Listed(r)
    <2>1. m \in Nat
      BY <1>3
    <2>2. ASSUME NEW k \in 1 .. m, NEW l \in 1 .. m, r[k].id = r[l].id PROVE k = l
      <3>1. q[k + a - 1].id = q[l + a - 1].id /\ k + a - 1 \in 1 .. n /\ l + a - 1 \in 1 .. n
        BY <1>5, <2>2
      <3>2. k + a - 1 = l + a - 1
        BY <1>1, <3>1
      <3> QED
        BY <1>3, <3>2
    <2> QED
      BY <1>5, <2>1, <2>2 DEF Listed
  <1>8. /\ DOMAIN q = 1 .. n /\ DOMAIN r = 1 .. Len(r)
        /\ NT!Dropped(q) = {x.id : x \in NT!ToSet(q)} \ {x.id : x \in NT!ToSet(r)}
    BY <1>1, <1>5 DEF NT!Dropped, r
  <1>9. NT!Dropped(q) = {q[i].id : i \in 1 .. n} \ {r[k].id : k \in 1 .. Len(r)}
    BY <1>8 DEF NT!ToSet
  <1>10. \A k \in 1 .. Len(r) : Member(q, r[k])
    BY <1>5 DEF Member
  <1>11. (n <= RowLimit => \A i \in 1 .. n : Member(r, q[i])) /\ (n > 0 => Member(r, q[n]))
    BY <1>1, <1>3, <1>5, <1>6 DEF Member
  <1>12. /\ \A i \in 1 .. n : HasId(r, q[i].id) \/ q[i].id \in NT!Dropped(q)
         /\ \A k \in 1 .. Len(r) : r[k].id \notin NT!Dropped(q)
         /\ NT!Dropped(q) \subseteq NT!RowIds
    BY <1>1, <1>9 DEF HasId, NT!Row
  <1> QED
    BY <1>3, <1>5, <1>7, <1>10, <1>11, <1>12 DEF r

\* A notification comes to the loop.
LEMMA UpsertStep ==
    ASSUME ScreenLaw, PostLaw, NT!Handle, Head(inbox).kind = "upsert"
    PROVE  ScreenLaw' /\ PostLaw'
  <1> DEFINE row == Head(inbox).row
             all == NT!Placed(row)
             kept == NT!Kept(all)
             gone == NT!Dropped(all)
  <1>1. /\ inbox # <<>> /\ inbox' = Tail(inbox) /\ rows' = kept
        /\ timers' = [id \in NT!RowIds |-> IF id = row.id THEN NT!TimerOf(row)
                                           ELSE IF id \in gone THEN "none" ELSE timers[id]]
        /\ evicted' = (evicted \ {row.id}) \cup (gone \cap expected)
        /\ firstRow' = 0 /\ panel' = NT!PanelFor(rows', muted, panel)
        /\ UNCHANGED <<outbox, given, muted, failing, expected>>
    BY DEF NT!Handle, NT!HandleUpsert
  <1>2. row \in NT!Row /\ row.id \in NT!RowIds /\ row.life \in NT!Lives
    <2>1. Head(inbox) \in Events
      BY <1>1, EventTaken DEF PostLaw
    <2> QED
      BY <2>1, EventFields
  <1> HIDE DEF row
  <1>3. /\ Listed(all) /\ Len(all) <= RowLimit + 1
        /\ \E k \in 1 .. Len(all) : all[k] = row /\ (Len(all) <= RowLimit \/ k = Len(all))
        /\ \A k \in 1 .. Len(all) : all[k] # row => all[k].id # row.id /\ Member(rows, all[k])
        /\ \A i \in 1 .. Len(rows) : HasId(all, rows[i].id)
    BY <1>2, PlacedFacts
  <1> HIDE DEF all
  <1>4. /\ Listed(kept) /\ Len(kept) <= RowLimit
        /\ \A k \in 1 .. Len(kept) : Member(all, kept[k])
        /\ Len(all) <= RowLimit => \A i \in 1 .. Len(all) : Member(kept, all[i])
        /\ Len(all) > 0 => Member(kept, all[Len(all)])
        /\ \A i \in 1 .. Len(all) : HasId(kept, all[i].id) \/ all[i].id \in gone
        /\ \A k \in 1 .. Len(kept) : kept[k].id \notin gone
        /\ gone \subseteq NT!RowIds
    BY <1>3, KeptFacts
  <1> HIDE DEF kept, gone
  <1>5. HasId(kept, row.id)
    <2>1. PICK k \in 1 .. Len(all) : all[k] = row /\ (Len(all) <= RowLimit \/ k = Len(all))
      BY <1>3
    <2>2. Len(all) > 0
      BY <1>3, <2>1 DEF Listed
    <2>3. Member(kept, row)
      BY <1>4, <2>1, <2>2
    <2> QED
      BY <2>3 DEF Member, HasId
  <1>6. ASSUME NEW k \in 1 .. Len(kept), kept[k].life = "running" PROVE timers'[kept[k].id] = "running"
    <2>1. kept[k].id \in NT!RowIds
      BY <1>4, EventFields DEF Listed
    <2>2. PICK i \in 1 .. Len(all) : all[i] = kept[k]
      BY <1>4 DEF Member
    <2>3. CASE all[i] = row
      BY <1>1, <1>6, <2>1, <2>2, <2>3 DEF NT!TimerOf
    <2>4. CASE all[i] # row
      <3>1. all[i].id # row.id /\ Member(rows, all[i])
        BY <1>3, <2>4
      <3>2. PICK j \in 1 .. Len(rows) : rows[j] = all[i]
        BY <3>1 DEF Member
      <3>3. timers[kept[k].id] = "running"
        BY <1>6, <2>2, <3>2 DEF ScreenLaw
      <3> QED
        BY <1>1, <1>4, <2>1, <2>2, <3>1, <3>3
    <2> QED
      BY <2>3, <2>4
  <1>7. timers' \in [NT!RowIds -> {"none", "running", "due"}]
    <2>1. NT!TimerOf(row) \in {"none", "running", "due"}
      BY <1>2 DEF NT!TimerOf, NT!Lives
    <2>2. \A id \in NT!RowIds : timers[id] \in {"none", "running", "due"}
      BY DEF ScreenLaw
    <2> QED
      BY <1>1, <2>1, <2>2
  <1>8. panel' \in {"none", "small", "full"} /\ (panel' = "full" <=> (panel' # "none" /\ Visible(kept, muted)))
    BY <1>1, <1>4, PanelForFacts DEF Listed, ScreenLaw
  <1>9. ScreenLaw'
    <2>1. \A i \in 1 .. Len(rows') : rows'[i].life = "running" => timers'[rows'[i].id] = "running"
      BY <1>1, <1>6
    <2>2. Listed(rows') /\ Len(rows') <= RowLimit /\ muted' \in BOOLEAN /\ firstRow' = 0 /\ 0 \in Nat
      BY <1>1, <1>4 DEF ScreenLaw
    <2>3. panel' \in {"none", "small", "full"} /\ (panel' = "full" <=> (panel' # "none" /\ Visible(rows', muted')))
      BY <1>1, <1>8
    <2> QED
      BY <1>7, <2>1, <2>2, <2>3 DEF ScreenLaw, Listed, Visible
  <1>10. PostLaw'
    <2>1. <<>> \in Seq(NT!RowIds) /\ outbox' = outbox \o <<>>
      BY <1>1 DEF PostLaw
    <2>2. \A id : Brings(Head(inbox), id) => HasId(rows', id)
      BY <1>1, <1>5 DEF Brings, row
    <2>3. ASSUME NEW id \in expected, HasId(rows, id) PROVE HasId(rows', id) \/ id \in evicted'
      <3>1. HasId(all, id)
        BY <1>3, <2>3 DEF HasId
      <3>2. HasId(kept, id) \/ id \in gone
        BY <1>4, <3>1 DEF HasId
      <3> QED
        BY <1>1, <2>3, <3>2
    <2>4. \A id \in evicted : id \in evicted' \/ HasId(rows', id)
      BY <1>1, <1>5
    <2>5. evicted' \subseteq NT!RowIds
      BY <1>1, <1>4 DEF PostLaw
    <2> QED
      BY <1>1, <2>1, <2>2, <2>3, <2>4, <2>5, EventHandled
  <1> QED
    BY <1>9, <1>10

\* Rows leave the screen, with their timers or without.
LEMMA ScreenLess ==
    ASSUME ScreenLaw, NEW ids, rows' = NT!Without(rows, ids),
           firstRow' = NT!Clamped(firstRow, rows'), panel' = NT!PanelFor(rows', muted, panel), muted' = muted,
           timers' \in [NT!RowIds -> {"none", "running", "due"}],
           \A id \in NT!RowIds : timers'[id] = timers[id] \/ id \in ids \/ timers[id] # "running"
    PROVE  ScreenLaw' /\ \A i \in 1 .. Len(rows) : HasId(rows', rows[i].id) \/ rows[i].id \in ids
  <1>1. /\ Listed(rows') /\ Len(rows') <= Len(rows)
        /\ \A k \in 1 .. Len(rows') : rows'[k].id \notin ids /\ Member(rows, rows'[k])
        /\ \A i \in 1 .. Len(rows) : rows[i].id \notin ids => Member(rows', rows[i])
    BY WithoutFacts DEF ScreenLaw
  <1>2. Len(rows') <= RowLimit
    <2>1. Len(rows) \in Nat /\ Len(rows') \in Nat /\ RowLimit \in Nat /\ Len(rows) <= RowLimit
      BY <1>1, ShellAssumption DEF ScreenLaw, Listed, NT!NoticeAssumption
    <2> QED
      BY <1>1, <2>1
  <1>3. ASSUME NEW k \in 1 .. Len(rows'), rows'[k].life = "running" PROVE timers'[rows'[k].id] = "running"
    <2>1. PICK i \in 1 .. Len(rows) : rows[i] = rows'[k]
      BY <1>1 DEF Member
    <2>2. timers[rows'[k].id] = "running"
      BY <1>3, <2>1 DEF ScreenLaw
    <2>3. rows'[k].id \in NT!RowIds
      BY <1>1, EventFields DEF Listed
    <2> QED
      BY <1>1, <2>2, <2>3
  <1>4. firstRow' \in Nat /\ (firstRow' = 0 \/ firstRow' < Len(rows'))
    BY <1>1, ClampedFacts DEF ScreenLaw, Listed
  <1>5. panel' \in {"none", "small", "full"} /\ (panel' = "full" <=> (panel' # "none" /\ Visible(rows', muted)))
    BY <1>1, PanelForFacts DEF ScreenLaw, Listed
  <1>6. ScreenLaw'
    <2>1. muted' \in BOOLEAN
      BY DEF ScreenLaw
    <2> QED
      BY <1>1, <1>2, <1>3, <1>4, <1>5, <2>1 DEF ScreenLaw, Listed, Visible
  <1> QED
    BY <1>1, <1>6 DEF Member, HasId

\* A row is closed by its application, or a dismissal is handled.
LEMMA RemoveStep ==
    ASSUME ScreenLaw, PostLaw, NT!Handle, Head(inbox).kind # "upsert"
    PROVE  ScreenLaw' /\ PostLaw'
  <1> DEFINE e == Head(inbox)
             out == NT!Reported(e)
  <1>1. /\ inbox # <<>> /\ inbox' = Tail(inbox) /\ rows' = NT!Without(rows, {e.id})
        /\ timers' = [timers EXCEPT ![e.id] = "none"]
        /\ firstRow' = NT!Clamped(firstRow, rows') /\ panel' = NT!PanelFor(rows', muted, panel)
        /\ outbox' = outbox \o out
        /\ UNCHANGED <<evicted, given, muted, failing, expected>>
    BY DEF NT!Handle, NT!HandleRemove
  <1>2. e.id \in NT!RowIds /\ e.kind \in {"close", "dismiss"}
    <2>1. e \in Events
      BY <1>1, EventTaken DEF PostLaw
    <2> QED
      BY <2>1, EventFields
  <1>3. out \in Seq(NT!RowIds) /\ (e.kind = "close" => Member(out, e.id))
    BY <1>2 DEF NT!Reported, Member
  <1> HIDE DEF out
  <1>4. /\ timers' \in [NT!RowIds -> {"none", "running", "due"}]
        /\ \A id \in NT!RowIds : timers'[id] = timers[id] \/ id \in {e.id}
    BY <1>1 DEF ScreenLaw
  <1>5. ScreenLaw' /\ \A i \in 1 .. Len(rows) : HasId(rows', rows[i].id) \/ rows[i].id \in {e.id}
    BY <1>1, <1>4, ScreenLess
  <1>6. \A id \in expected : HasId(rows, id) =>
            HasId(rows', id) \/ Member(out, id) \/ (Head(inbox).kind = "dismiss" /\ Head(inbox).id = id)
    <2> TAKE id \in expected
    <2> HAVE HasId(rows, id)
    <2>1. HasId(rows', id) \/ id = e.id
      BY <1>5 DEF HasId
    <2> QED
      BY <1>2, <1>3, <2>1
  <1>7. \A id : ~ Brings(Head(inbox), id)
    BY DEF Brings
  <1>8. evicted' \subseteq NT!RowIds /\ \A id \in evicted : id \in evicted'
    BY <1>1 DEF PostLaw
  <1>9. PostLaw'
    BY <1>1, <1>3, <1>6, <1>7, <1>8, EventHandled
  <1> QED
    BY <1>5, <1>9

\* Ids of rows are finitely many.
LEMMA IdsFinite == IsFiniteSet(NT!RowIds) /\ \A S \in SUBSET NT!RowIds : IsFiniteSet(S)
  <1>1. 1 \in Int /\ MaxNotices \in Int
    BY ShellAssumption DEF NT!NoticeAssumption
  <1>2. IsFiniteSet(1 .. MaxNotices) /\ IsFiniteSet({NT!Warning})
    BY <1>1, FS_Interval, FS_Singleton
  <1>3. IsFiniteSet(NT!RowIds)
    BY <1>2, FS_Union DEF NT!RowIds, NT!NoticeIds
  <1> QED
    BY <1>3, FS_Subset

\* The ids that expire, are clicked or are cleared are ids of rows.
LEMMA IdsOfRows ==
    ASSUME ScreenLaw
    PROVE  /\ {r.id : r \in NT!ToSet(rows)} \in SUBSET NT!RowIds
           /\ {r.id : r \in NT!Expired(rows)} \in SUBSET NT!RowIds
           /\ \A i \in 1 .. Len(rows) : rows[i].id \in {r.id : r \in NT!ToSet(rows)}
           /\ \A i \in 1 .. Len(rows) : {rows[i].id} \in SUBSET NT!RowIds
  <1>1. DOMAIN rows = 1 .. Len(rows) /\ \A i \in 1 .. Len(rows) : rows[i] \in NT!Row
    BY DEF ScreenLaw, Listed
  <1>2. NT!ToSet(rows) \subseteq NT!Row /\ \A i \in 1 .. Len(rows) : rows[i] \in NT!ToSet(rows)
    BY <1>1 DEF NT!ToSet
  <1>3. NT!Expired(rows) \subseteq NT!Row
    BY <1>2 DEF NT!Expired
  <1> QED
    BY <1>1, <1>2, <1>3, EventFields

\* Rows expire: their clients are told.
LEMMA ExpireStep ==
    ASSUME ScreenLaw, PostLaw, NT!Maintain \/ \E id \in NT!RowIds : NT!TimerFires(id)
    PROVE  ScreenLaw' /\ PostLaw'
  <1> DEFINE gone == {r.id : r \in NT!Expired(rows)}
             out == NT!SetToSeq(gone)
  <1>1. NT!Expire /\ UNCHANGED <<given, inbox, muted, failing, expected, evicted>>
    BY DEF NT!Maintain, NT!TimerFires
  <1>2. /\ timers' \in [NT!RowIds -> {"none", "running", "due"}]
        /\ \A id \in NT!RowIds : timers'[id] = timers[id] \/ timers[id] # "running"
    <2>1. CASE NT!Maintain
      BY <2>1 DEF NT!Maintain, ScreenLaw
    <2>2. ASSUME NEW t \in NT!RowIds, NT!TimerFires(t)
          PROVE  /\ timers' \in [NT!RowIds -> {"none", "running", "due"}]
                 /\ \A id \in NT!RowIds : timers'[id] = timers[id] \/ timers[id] # "running"
      BY <2>2 DEF NT!TimerFires, ScreenLaw
    <2> QED
      BY <2>1, <2>2
  <1>3. gone \in SUBSET NT!RowIds /\ IsFiniteSet(gone)
    BY IdsOfRows, IdsFinite
  <1>4. /\ <<>> \in Seq(NT!Dismiss) /\ inbox' = inbox \o <<>> /\ Len(<<>>) = 0
        /\ <<>> \in Seq(NT!RowIds) /\ outbox = outbox \o <<>>
    BY <1>1 DEF PostLaw
  <1>5. CASE gone = {}
    <2>1. UNCHANGED <<rows, outbox, firstRow, panel>>
      BY <1>1, <1>5 DEF NT!Expire
    <2>2. ScreenLaw'
      <3>1. \A i \in 1 .. Len(rows) : rows[i].life = "running" => timers'[rows[i].id] = "running"
        BY <1>2, IdsOfRows DEF ScreenLaw
      <3> QED
        BY <1>1, <1>2, <2>1, <3>1 DEF ScreenLaw, Listed, Visible
    <2>3. PostLaw'
      BY <1>1, <2>1 DEF PostLaw, Awaited, Told, HasId, Member, Brings
    <2> QED
      BY <2>2, <2>3
  <1>6. CASE gone # {}
    <2>1. /\ rows' = NT!Without(rows, gone) /\ outbox' = outbox \o out
          /\ firstRow' = NT!Clamped(firstRow, rows') /\ panel' = NT!PanelFor(rows', muted, panel)
      BY <1>1, <1>6 DEF NT!Expire, NT!Report
    <2> HIDE DEF gone
    <2>2. out \in Seq(NT!RowIds) /\ \A x \in gone : Member(out, x)
      BY <1>3, InSequence
    <2> HIDE DEF out
    <2>3. ScreenLaw' /\ \A i \in 1 .. Len(rows) : HasId(rows', rows[i].id) \/ rows[i].id \in gone
      BY <1>1, <1>2, <2>1, ScreenLess
    <2>4. Listed(rows) /\ \A i \in 1 .. Len(rows) : HasId(rows', rows[i].id) \/ Member(out, rows[i].id)
      BY <2>2, <2>3 DEF ScreenLaw
    <2>5. PostLaw'
      <3>1. \A i \in 1 .. Len(<<>>) : Member(out, <<>>[i].id)
        BY <1>4
      <3> QED
        BY <1>1, <1>4, <2>1, <2>2, <2>4, <3>1, RowsReported
    <2> QED
      BY <2>3, <2>5
  <1> QED
    BY <1>5, <1>6

\* A click takes rows away, tells their clients, and the loop of their timers.
LEMMA DismissedStep ==
    ASSUME ScreenLaw, PostLaw, NEW ids \in SUBSET NT!RowIds, NT!Dismissed(ids)
    PROVE  ScreenLaw' /\ PostLaw'
  <1> DEFINE out == NT!SetToSeq(ids)
             sent == {[kind |-> "dismiss", id |-> id] : id \in ids}
             more == NT!SetToSeq(sent)
  <1>1. /\ rows' = NT!Without(rows, ids) /\ firstRow' = NT!Clamped(firstRow, rows')
        /\ outbox' = outbox \o out /\ inbox' = inbox \o more
        /\ panel' = NT!PanelFor(rows', muted, panel)
        /\ UNCHANGED <<given, timers, muted, failing, expected, evicted>>
    BY DEF NT!Dismissed, NT!Leave, NT!Report, NT!Dismissals
  <1>2. IsFiniteSet(ids)
    BY IdsFinite
  <1>3. IsFiniteSet(sent)
    <2> DEFINE f == [id \in ids |-> [kind |-> "dismiss", id |-> id]]
    <2>1. f \in Surjection(ids, sent)
      BY DEF Surjection
    <2> HIDE DEF f, sent
    <2> QED
      BY <1>2, <2>1, FS_Surjection
  <1>4. sent \in SUBSET NT!Dismiss /\ \A m \in sent : m.id \in ids
    BY DEF NT!Dismiss
  <1>5. out \in Seq(NT!RowIds) /\ \A x \in ids : Member(out, x)
    BY <1>2, InSequence
  <1> HIDE DEF sent, out
  <1>6. more \in Seq(NT!Dismiss) /\ \A i \in 1 .. Len(more) : more[i] \in sent
    BY <1>3, <1>4, InSequence
  <1> HIDE DEF more
  <1>7. ScreenLaw' /\ \A i \in 1 .. Len(rows) : HasId(rows', rows[i].id) \/ rows[i].id \in ids
    <2>1. timers' \in [NT!RowIds -> {"none", "running", "due"}] /\ timers' = timers
      BY <1>1 DEF ScreenLaw
    <2> QED
      BY <1>1, <2>1, ScreenLess
  <1>8. \A i \in 1 .. Len(more) : Member(out, more[i].id)
    BY <1>4, <1>5, <1>6
  <1>9. Listed(rows) /\ \A i \in 1 .. Len(rows) : HasId(rows', rows[i].id) \/ Member(out, rows[i].id)
    BY <1>5, <1>7 DEF ScreenLaw
  <1>10. PostLaw'
    BY <1>1, <1>5, <1>6, <1>8, <1>9, RowsReported
  <1> QED
    BY <1>7, <1>10

\* The user clicks a row or all of them.
LEMMA ClickStep ==
    ASSUME ScreenLaw, PostLaw, NT!ClickMiddle \/ \E row \in 0 .. 2 : NT!ClickRow(row)
    PROVE  ScreenLaw' /\ PostLaw'
  <1>1. CASE NT!ClickMiddle
    BY <1>1, IdsOfRows, DismissedStep DEF NT!ClickMiddle
  <1>2. ASSUME NEW row \in 0 .. 2, NT!ClickRow(row) PROVE ScreenLaw' /\ PostLaw'
    <2>1. firstRow + row < Len(rows) /\ NT!Dismissed({rows[Len(rows) - firstRow - row].id})
      BY <1>2 DEF NT!ClickRow
    <2>2. firstRow \in Nat /\ Len(rows) \in Nat
      BY DEF ScreenLaw, Listed
    <2>3. Len(rows) - firstRow - row \in 1 .. Len(rows)
      BY <2>1, <2>2
    <2>4. {rows[Len(rows) - firstRow - row].id} \in SUBSET NT!RowIds
      BY <2>3, IdsOfRows
    <2> QED
      BY <2>1, <2>4, DismissedStep
  <1> QED
    BY <1>1, <1>2

\* "Clear all": every client is told.
LEMMA ClearStep ==
    ASSUME ScreenLaw, PostLaw, NT!ClearAll
    PROVE  ScreenLaw' /\ PostLaw'
  <1> DEFINE ids == {r.id : r \in NT!ToSet(rows)}
             out == NT!SetToSeq(ids)
  <1>1. /\ rows' = <<>> /\ firstRow' = 0 /\ outbox' = outbox \o out
        /\ panel' = NT!PanelFor(<<>>, muted, panel)
        /\ UNCHANGED <<given, inbox, timers, muted, failing, expected, evicted>>
    BY DEF NT!ClearAll, NT!Report
  <1>2. /\ ids \in SUBSET NT!RowIds /\ IsFiniteSet(ids) /\ \A i \in 1 .. Len(rows) : rows[i].id \in ids
    BY IdsOfRows, IdsFinite
  <1> HIDE DEF ids
  <1>3. out \in Seq(NT!RowIds) /\ \A x \in ids : Member(out, x)
    BY <1>2, InSequence
  <1> HIDE DEF out
  <1>4. /\ <<>> \in Seq(NT!Dismiss) /\ inbox' = inbox \o <<>> /\ Len(<<>>) = 0 /\ <<>> \in Seq(NT!Row)
        /\ \A i \in 1 .. Len(<<>>) : Member(out, <<>>[i].id)
    BY <1>1 DEF PostLaw
  <1>5. PostLaw'
    <2>1. Listed(rows) /\ \A i \in 1 .. Len(rows) : HasId(rows', rows[i].id) \/ Member(out, rows[i].id)
      BY <1>2, <1>3 DEF ScreenLaw
    <2> QED
      BY <1>1, <1>3, <1>4, <2>1, RowsReported
  <1>6. panel' \in {"none", "small", "full"} /\ (panel' = "full" <=> (panel' # "none" /\ Visible(rows', muted)))
    <2>1. rows' \in Seq(NT!Row) /\ panel' = NT!PanelFor(rows', muted, panel) /\ muted' = muted
      BY <1>1, <1>4
    <2> QED
      BY <2>1, PanelForFacts DEF ScreenLaw
  <1>7. Listed(rows') /\ Len(rows') = 0
    BY <1>1, <1>4 DEF Listed
  <1>8. ScreenLaw'
    <2>1. RowLimit \in Nat /\ 0 \in Nat
      BY ShellAssumption DEF NT!NoticeAssumption
    <2> QED
      BY <1>1, <1>6, <1>7, <2>1 DEF ScreenLaw, Listed, Visible
  <1> QED
    BY <1>5, <1>8

\* The user scrolls or mutes, or the panel's output goes.
LEMMA PanelStaysRight ==
    ASSUME ScreenLaw, PostLaw, NT!ScrollNotices \/ NT!SetMute \/ NT!PanelClosed
    PROVE  ScreenLaw' /\ PostLaw'
  <1>1. UNCHANGED <<given, inbox, rows, timers, outbox, failing, expected, evicted>>
    BY DEF NT!ScrollNotices, NT!SetMute, NT!PanelClosed
  <1>2. PostLaw'
    BY <1>1 DEF PostLaw, Awaited, Told, HasId, Member, Brings
  <1>3. rows \in Seq(NT!Row) /\ firstRow \in Nat /\ Len(rows) \in Nat
    BY DEF ScreenLaw, Listed
  <1>4. CASE NT!ScrollNotices
    <2>1. firstRow' \in Nat /\ (firstRow' = 0 \/ firstRow' < Len(rows))
      <3>1. CASE firstRow' = NT!Clamped(firstRow + 1, rows)
        <4>1. firstRow + 1 \in Nat
          BY <1>3
        <4> QED
          BY <1>3, <3>1, <4>1, ClampedFacts
      <3>2. CASE firstRow' = IF firstRow = 0 THEN 0 ELSE firstRow - 1
        BY <1>3, <3>2 DEF ScreenLaw
      <3> QED
        BY <1>4, <3>1, <3>2 DEF NT!ScrollNotices
    <2>2. UNCHANGED <<muted, panel>>
      BY <1>4 DEF NT!ScrollNotices
    <2> QED
      BY <1>1, <1>2, <2>1, <2>2 DEF ScreenLaw, Listed, Visible
  <1>5. CASE NT!SetMute
    <2>1. muted' = ~muted /\ panel' = NT!PanelFor(rows, muted', panel) /\ firstRow' = firstRow
      BY <1>5 DEF NT!SetMute, NT!ToggleMute
    <2>2. muted' \in BOOLEAN
      BY <2>1
    <2>3. panel' \in {"none", "small", "full"} /\ (panel' = "full" <=> (panel' # "none" /\ Visible(rows, muted')))
      BY <1>3, <2>1, <2>2, PanelForFacts DEF ScreenLaw
    <2> QED
      BY <1>1, <1>2, <2>1, <2>2, <2>3 DEF ScreenLaw, Listed, Visible
  <1>6. CASE NT!PanelClosed
    <2>1. panel' = "none" /\ UNCHANGED <<firstRow, muted>>
      BY <1>6 DEF NT!PanelClosed
    <2> QED
      BY <1>1, <1>2, <2>1 DEF ScreenLaw, Listed, Visible
  <1> QED
    BY <1>4, <1>5, <1>6

\* Time passes deadlines, and nothing else changes.
LEMMA TickStep ==
    ASSUME ScreenLaw, PostLaw, NT!Tick
    PROVE  ScreenLaw' /\ PostLaw'
  <1>1. UNCHANGED <<given, outbox, firstRow, muted, failing, panel, expected, evicted>>
    BY DEF NT!Tick
  <1>2. \A l \in NT!Lives : NT!Due(l) \in NT!Lives /\ NT!Due(l) # "running"
    BY DEF NT!Due, NT!Lives
  <1>3. /\ rows' \in Seq(NT!Row) /\ Len(rows') = Len(rows)
        /\ \A i \in 1 .. Len(rows) : rows'[i].id = rows[i].id /\ rows'[i].life # "running"
    <2>1. /\ rows \in Seq(NT!Row) /\ Len(rows) \in Nat /\ DOMAIN rows = 1 .. Len(rows)
          /\ \A i \in 1 .. Len(rows) : rows[i] \in NT!Row
      BY DEF ScreenLaw, Listed
    <2>2. ASSUME NEW r \in NT!Row
          PROVE  /\ [r EXCEPT !.life = NT!Due(@)] \in NT!Row
                 /\ [r EXCEPT !.life = NT!Due(@)].id = r.id
                 /\ [r EXCEPT !.life = NT!Due(@)].life # "running"
      BY <1>2 DEF NT!Row
    <2>3. rows' = [i \in 1 .. Len(rows) |-> [rows[i] EXCEPT !.life = NT!Due(@)]]
      BY <2>1 DEF NT!Tick
    <2>4. \A i \in 1 .. Len(rows) : /\ rows'[i] \in NT!Row /\ rows'[i].id = rows[i].id
                                    /\ rows'[i].life # "running"
      BY <2>1, <2>2, <2>3
    <2>5. rows' \in Seq(NT!Row) /\ Len(rows') = Len(rows)
      <3> DEFINE n == Len(rows)
                 f(i) == [rows[i] EXCEPT !.life = NT!Due(@)]
      <3>1. n \in Nat /\ rows' = [i \in 1 .. n |-> f(i)] /\ \A i \in 1 .. n : f(i) \in NT!Row
        BY <2>1, <2>2, <2>3
      <3> HIDE DEF n, f
      <3>2. rows' \in Seq(NT!Row) /\ Len(rows') = n
        BY <3>1
      <3> QED
        BY <3>2 DEF n
    <2> QED
      BY <2>4, <2>5
  <1>4. timers' \in [NT!RowIds -> {"none", "running", "due"}]
    <2>1. \A id \in NT!RowIds : NT!Due(timers[id]) \in {"none", "running", "due"}
      BY DEF NT!Due, ScreenLaw
    <2> QED
      BY <2>1 DEF NT!Tick
  <1>5. ScreenLaw'
    <2>1. Listed(rows') /\ Len(rows') <= RowLimit
      BY <1>3 DEF ScreenLaw, Listed
    <2>2. Visible(rows', muted) <=> Visible(rows, muted)
      BY <1>3 DEF Visible
    <2>3. \A i \in 1 .. Len(rows') : rows'[i].life = "running" => timers'[rows'[i].id] = "running"
      BY <1>3
    <2> QED
      BY <1>1, <1>3, <1>4, <2>1, <2>2, <2>3 DEF ScreenLaw, Listed, Visible
  <1>6. /\ inbox' \in Seq(Events) /\ Len(inbox') = Len(inbox)
        /\ \A i \in 1 .. Len(inbox) :
              /\ inbox'[i].kind = inbox[i].kind
              /\ inbox[i].kind # "upsert" => inbox'[i].id = inbox[i].id
              /\ \A id : Brings(inbox'[i], id) <=> Brings(inbox[i], id)
    <2>1. /\ inbox \in Seq(Events) /\ Len(inbox) \in Nat /\ DOMAIN inbox = 1 .. Len(inbox)
          /\ \A i \in 1 .. Len(inbox) : inbox[i] \in Events
      BY DEF PostLaw
    <2> DEFINE aged(m) == IF m.kind = "upsert" THEN [m EXCEPT !.row.life = NT!Due(@)] ELSE m
    <2>2. ASSUME NEW m \in Events
          PROVE  /\ aged(m) \in Events /\ aged(m).kind = m.kind
                 /\ m.kind # "upsert" => aged(m).id = m.id
                 /\ \A id : Brings(aged(m), id) <=> Brings(m, id)
      <3>1. CASE m.kind = "upsert"
        <4>1. m \in NT!Upsert /\ m.row \in NT!Row
          BY <3>1, EventFields
        <4>2. /\ aged(m) \in NT!Upsert /\ aged(m).kind = "upsert" /\ aged(m).row.id = m.row.id
          BY <1>2, <3>1, <4>1 DEF NT!Upsert, NT!Row
        <4> QED
          BY <3>1, <4>2 DEF Events, Brings
      <3>2. CASE m.kind # "upsert"
        BY <3>2
      <3> QED
        BY <3>1, <3>2
    <2>3. inbox' = [i \in 1 .. Len(inbox) |-> aged(inbox[i])]
      BY <2>1 DEF NT!Tick
    <2> HIDE DEF aged
    <2>4. \A i \in 1 .. Len(inbox) : inbox'[i] = aged(inbox[i]) /\ inbox'[i] \in Events
      BY <2>1, <2>2, <2>3
    <2>5. inbox' \in Seq(Events) /\ Len(inbox') = Len(inbox)
      BY <2>1, <2>3, <2>4
    <2> QED
      BY <2>1, <2>2, <2>4, <2>5
  <1>7. \A id : HasId(rows', id) <=> HasId(rows, id)
    BY <1>3 DEF HasId
  <1>8. Awaited'
    <2>1. \A id \in expected : \/ HasId(rows', id) \/ id \in evicted \/ Member(outbox, id)
                               \/ \E i \in 1 .. Len(inbox') : Brings(inbox'[i], id)
      BY <1>6, <1>7 DEF PostLaw, Awaited
    <2> QED
      BY <1>1, <2>1 DEF Awaited, HasId, Member, Brings
  <1>9. Told'
    <2>1. ASSUME NEW i \in 1 .. Len(inbox'), inbox'[i].kind = "dismiss", inbox'[i].id \in expected
          PROVE  \/ Member(outbox, inbox'[i].id)
                 \/ \E j \in 1 .. Len(inbox') : j > i /\ Brings(inbox'[j], inbox'[i].id)
      <3>1. i \in 1 .. Len(inbox) /\ inbox[i].kind = "dismiss" /\ inbox'[i].id = inbox[i].id
        BY <1>6, <2>1
      <3> QED
        BY <1>6, <2>1, <3>1 DEF PostLaw, Told
    <2> QED
      BY <1>1, <2>1 DEF Told, Member, Brings
  <1>10. PostLaw'
    BY <1>1, <1>6, <1>8, <1>9 DEF PostLaw
  <1> QED
    BY <1>5, <1>10

\* The invariant holds at the start.
LEMMA NoticesStart == NT!NoticesInit => NT!NoticesInv
  <1> SUFFICES ASSUME NT!NoticesInit PROVE ScreenLaw /\ PostLaw
    BY NoticesLaw
  <1>1. /\ given = 0 /\ inbox = <<>> /\ rows = <<>> /\ outbox = <<>>
        /\ timers = [id \in NT!RowIds |-> "none"]
        /\ firstRow = 0 /\ muted = FALSE /\ failing = FALSE /\ panel = "none"
        /\ expected = {} /\ evicted = {}
    BY DEF NT!NoticesInit
  <1>2. /\ \A T : <<>> \in Seq(T)
        /\ Len(<<>>) = 0 /\ 0 \in Nat /\ RowLimit \in Nat /\ MaxNotices \in Nat /\ FALSE \in BOOLEAN
    BY ShellAssumption DEF NT!NoticeAssumption
  <1>3. ScreenLaw
    <2>1. Listed(rows) /\ Len(rows) = 0
      BY <1>1, <1>2 DEF Listed
    <2>2. timers \in [NT!RowIds -> {"none", "running", "due"}]
      BY <1>1
    <2>3. muted \in BOOLEAN /\ panel \in {"none", "small", "full"} /\ panel # "full" /\ panel = "none"
      BY <1>1
    <2>4. /\ Len(rows) <= RowLimit /\ firstRow \in Nat /\ firstRow = 0
          /\ \A i \in 1 .. Len(rows) : FALSE
      BY <1>1, <1>2, <2>1
    <2> QED
      BY <2>1, <2>2, <2>3, <2>4 DEF ScreenLaw
  <1>4. /\ inbox \in Seq(Events) /\ Len(inbox) = 0 /\ outbox \in Seq(NT!RowIds) /\ Len(outbox) = 0
        /\ failing \in BOOLEAN
    BY <1>1, <1>2
  <1>5. \A i \in 1 .. Len(inbox) : FALSE
    BY <1>4
  <1>6. Awaited /\ Told
    BY <1>1, <1>5 DEF Awaited, Told
  <1>7. given \in 0 .. MaxNotices
    BY <1>1, <1>2
  <1> QED
    BY <1>1, <1>2, <1>3, <1>4, <1>6, <1>7 DEF PostLaw

\* Each step keeps it.
LEMMA NoticesStep == NT!NoticesInv /\ [NT!NoticesNext]_noticeVars => NT!NoticesInv'
  <1> SUFFICES ASSUME ScreenLaw, PostLaw, [NT!NoticesNext]_noticeVars PROVE ScreenLaw' /\ PostLaw'
    BY NoticesLaw, NoticesLawNext
  <1>1. CASE UNCHANGED noticeVars
    <2>1. UNCHANGED <<given, inbox, rows, timers, outbox, firstRow, muted, failing, panel, expected, evicted>>
      BY <1>1 DEF noticeVars
    <2>2. PostLaw'
      BY <2>1 DEF PostLaw, Awaited, Told, HasId, Member, Brings
    <2> QED
      BY <2>1, <2>2, ScreenStays
  <1>2. CASE NT!Handle
    BY <1>2, UpsertStep, RemoveStep
  <1> QED
    BY <1>1, <1>2, NotifyStep, EmitStep, SnapshotStep, ExpireStep, ClickStep, ClearStep, PanelStaysRight, TickStep
       DEF NT!NoticesNext

\* The notifications start right, whichever part runs.
LEMMA NoticesStarts == ShellInit => NotificationsSound
  BY NoticesStart DEF ShellInit, NotificationsSound

\* A step is one of the part that runs; its invariant is kept by that part.
LEMMA NoticesKept == NotificationsSound /\ [ShellNext]_shellVars => NotificationsSound'
  <1> SUFFICES ASSUME NotificationsSound, [ShellNext]_shellVars PROVE NotificationsSound'
    OBVIOUS
  <1>1. part' = part /\ (In("notices") => [NT!NoticesNext]_noticeVars)
    BY DEF ShellNext, shellVars
  <1> QED
    BY <1>1, NoticesStep DEF NotificationsSound, In

\* A notification a program was promised an answer to is on the screen, was
\* taken down for room, has been reported or is about to be shown; a dismissal
\* the server has sent is reported, or its id is shown anew after it; a row that
\* counts down has its timer, and the panel is the one the rows ask for
\* (shell-sctk/src/main.rs).
THEOREM NotificationsStaySound == ShellSpec => []NotificationsSound
  <1> QED
    BY NoticesStarts, NoticesKept, PTL DEF ShellSpec
=============================================================================
