--------------------------- MODULE RecordingProofs ----------------------------
(***************************************************************************)
(* The recorder.  The control of its processes is safe (RecInv, PauseInv), *)
(* for any number of starts, locks and sources.  So are the capture        *)
(* sessions for any number of engines, clients, windows and frames: no     *)
(* frame waits without its session, nothing is captured of a hidden        *)
(* desktop, and no client is shown the same content twice; the recorder's  *)
(* own invariant survives the composition.  The engine and the muxer are   *)
(* sound (EngineInv, MuxerInv), for any pool, queues and bounds.           *)
(***************************************************************************)
EXTENDS MCRecording, CaptureSessions, Retain, FiniteSetTheorems, FunctionTheorems,
        SequenceTheorems, TLAPS

-----------------------------------------------------------------------------
(* The recorder's control.                                                 *)

\* The initial state of the controller satisfies the invariant.
LEMMA RecInitInv == RecInit => RecInv
  <1> SUFFICES ASSUME RecInit PROVE RecInv
      OBVIOUS
  <1>a. life \in [Procs -> Lives]
        BY RecorderAssumption DEF RecInit, Lives
  <1>b. paused \in [Procs -> BOOLEAN] /\ game \in [Procs -> BOOLEAN]
        BY DEF RecInit
  <1>c. /\ child = NoProc /\ launcher = NoProc /\ stdin = FALSE /\ state = "Idle"
        /\ started = 0 /\ locks = 0
        /\ override = Output /\ commitDriven = FALSE /\ boost = FALSE /\ tagNext = FALSE
        /\ locked = FALSE /\ active = TRUE
        BY DEF RecInit
  <1>d. /\ stdin \in BOOLEAN /\ commitDriven \in BOOLEAN /\ boost \in BOOLEAN
        /\ tagNext \in BOOLEAN /\ locked \in BOOLEAN /\ active \in BOOLEAN
        BY <1>c
  <1>e. started \in 0 .. MaxStarts /\ locks \in 0 .. MaxLocks
        BY <1>c, RecorderAssumption
  <1>f. /\ child \in Procs \cup {NoProc} /\ launcher \in Procs \cup {NoProc}
        /\ state \in States /\ override \in Sources
        BY <1>c, RecorderAssumption DEF States
  <1>1. RecTypeOK
        BY <1>a, <1>b, <1>d, <1>e, <1>f, Zenon DEF RecTypeOK
  <1>2. HandlesOK
        <2>1. \A p \in Procs : life[p] = "unborn"
              BY DEF RecInit
        <2> QED
            BY <1>c, <2>1, RecorderAssumption DEF HandlesOK, Procs, NoProc
  <1>3. LockedMeansStopped /\ BoostHasEngine /\ OneRecorder
        BY DEF RecInit, LockedMeansStopped, BoostHasEngine, OneRecorder
  <1> QED
      BY <1>1, <1>2, <1>3 DEF RecInv

\* The recorder commands of policy.rs preserve the invariant.
LEMMA CommandsInv == RecInv /\ Commands => RecInv'
  <1> SUFFICES ASSUME RecInv, Commands PROVE RecInv'
      OBVIOUS
  <1> USE RecorderAssumption DEF RecInv, RecTypeOK, HandlesOK, LockedMeansStopped,
      BoostHasEngine, OneRecorder, Procs, NoProc, States, Lives, CommandsAllowed, IsRunning,
      BoostOn, BoostOff, Spawn, Reset, Finish, processes, capture, session, controller
  <1>1. ASSUME NEW src \in Sources, NEW commit \in BOOLEAN, Start(src, commit)
        PROVE  RecInv'
        BY <1>1 DEF Start
  <1>2. CASE StartRefused
        BY <1>2 DEF StartRefused
  <1>3. CASE StartGame
        BY <1>3 DEF StartGame
  <1>4. CASE StartGameRefused
        BY <1>4 DEF StartGameRefused
  <1>5. CASE StopNative
        BY <1>5 DEF StopNative
  <1>6. CASE StopBroken
        BY <1>6 DEF StopBroken
  <1>7. CASE StopGame
        <2>1. RecTypeOK'
              BY <1>7 DEF StopGame
        <2>2. HandlesOK'
              BY <1>7 DEF StopGame
        <2>3. LockedMeansStopped'
              BY <1>7 DEF StopGame
        <2>4. BoostHasEngine'
              BY <1>7 DEF StopGame
        <2>5. OneRecorder'
              BY <1>7 DEF StopGame
        <2> QED
            BY <2>1, <2>2, <2>3, <2>4, <2>5
  <1>8. CASE StopGameFailed
        <2>1. RecTypeOK'
              BY <1>8 DEF StopGameFailed
        <2>2. HandlesOK'
              BY <1>8 DEF StopGameFailed
        <2>3. LockedMeansStopped'
              BY <1>8 DEF StopGameFailed
        <2>4. BoostHasEngine'
              BY <1>8 DEF StopGameFailed
        <2>5. OneRecorder'
              BY <1>8 DEF StopGameFailed
        <2> QED
            BY <2>1, <2>2, <2>3, <2>4, <2>5
  <1>9. CASE TogglePause
        <2>1. RecTypeOK'
              BY <1>9 DEF TogglePause, PauseState
        <2>2. HandlesOK'
              BY <1>9 DEF TogglePause, PauseState
        <2>3. LockedMeansStopped'
              BY <1>9 DEF TogglePause, PauseState
        <2>4. BoostHasEngine'
              BY <1>9 DEF TogglePause, PauseState
        <2>5. OneRecorder'
              BY <1>9 DEF TogglePause, PauseState
        <2> QED
            BY <2>1, <2>2, <2>3, <2>4, <2>5
  <1> QED
      BY <1>1, <1>2, <1>3, <1>4, <1>5, <1>6, <1>7, <1>8, <1>9 DEF Commands

\* poll, the lock, the VT switch and the processes preserve the invariant.
LEMMA OthersInv == RecInv /\ (Poll \/ Session \/ World) => RecInv'
  <1> SUFFICES ASSUME RecInv, Poll \/ Session \/ World PROVE RecInv'
      OBVIOUS
  <1> USE RecorderAssumption DEF RecInv, RecTypeOK, HandlesOK, LockedMeansStopped,
      BoostHasEngine, OneRecorder, Procs, NoProc, States, Lives, IsRunning,
      BoostOff, processes, capture, session, controller
  <1>1. CASE PollExit
        BY <1>1 DEF PollExit
  <1>2. CASE PollGameExit
        BY <1>2 DEF PollGameExit
  <1>3. CASE PollStarted
        BY <1>3 DEF PollStarted
  <1>4. CASE Lock
        <2>0. life' \in [Procs -> Lives] /\ UNCHANGED <<started, paused, game>>
              <3>1. CASE IsRunning
                    BY <1>4, <3>1 DEF Lock, AbortIfRunning, Abort
              <3>2. CASE ~IsRunning
                    BY <1>4, <3>2 DEF Lock, AbortIfRunning
              <3> QED
                  BY <3>1, <3>2
        <2>a. child' = NoProc /\ launcher' = NoProc /\ stdin' = FALSE /\ state' \in States
              BY <1>4 DEF Lock, AbortIfRunning, Abort
        <2>b. /\ locked' \in BOOLEAN /\ active' \in BOOLEAN
              /\ override' = Output /\ commitDriven' = FALSE /\ boost' = FALSE
              /\ tagNext' = FALSE
              BY <1>4, Zenon DEF Lock
        <2>c. locks' \in 0 .. MaxLocks
              BY <1>4 DEF Lock
        <2>1. RecTypeOK'
              BY <2>0, <2>a, <2>b, <2>c
        <2>2. HandlesOK'
              BY <1>4 DEF Lock, AbortIfRunning, Abort
        <2>3. LockedMeansStopped'
              BY <1>4 DEF Lock, AbortIfRunning, Abort
        <2>4. BoostHasEngine'
              BY <1>4 DEF Lock, AbortIfRunning, Abort
        <2>5. OneRecorder'
              BY <1>4 DEF Lock, AbortIfRunning, Abort
        <2> QED
            BY <2>1, <2>2, <2>3, <2>4, <2>5
  <1>5. CASE Unlock
        BY <1>5 DEF Unlock
  <1>6. CASE PauseSession
        <2>0. life' \in [Procs -> Lives] /\ UNCHANGED <<started, paused, game>>
              <3>1. CASE IsRunning
                    BY <1>6, <3>1 DEF PauseSession, AbortIfRunning, Abort
              <3>2. CASE ~IsRunning
                    BY <1>6, <3>2 DEF PauseSession, AbortIfRunning
              <3> QED
                  BY <3>1, <3>2
        <2>a. child' = NoProc /\ launcher' = NoProc /\ stdin' = FALSE /\ state' \in States
              <3>1. CASE IsRunning
                    BY <1>6, <3>1 DEF PauseSession, AbortIfRunning, Abort
              <3>2. CASE ~IsRunning
                    BY <1>6, <3>2 DEF PauseSession, AbortIfRunning
              <3> QED
                  BY <3>1, <3>2
        <2>b. /\ locked' \in BOOLEAN /\ active' \in BOOLEAN
              /\ override' = Output /\ commitDriven' = FALSE /\ boost' = FALSE
              /\ tagNext' = FALSE
              BY <1>6, Zenon DEF PauseSession
        <2>c. locks' \in 0 .. MaxLocks
              BY <1>6 DEF PauseSession
        <2>1. RecTypeOK'
              BY <2>0, <2>a, <2>b, <2>c
        <2>2. HandlesOK'
              BY <1>6 DEF PauseSession, AbortIfRunning, Abort
        <2>3. LockedMeansStopped'
              BY <1>6 DEF PauseSession, AbortIfRunning, Abort
        <2>4. BoostHasEngine'
              BY <1>6 DEF PauseSession, AbortIfRunning, Abort
        <2>5. OneRecorder'
              BY <1>6 DEF PauseSession, AbortIfRunning, Abort
        <2> QED
            BY <2>1, <2>2, <2>3, <2>4, <2>5
  <1>7. CASE ActivateSession
        BY <1>7 DEF ActivateSession
  <1>8. ASSUME NEW p \in Procs, ProcExit(p) \/ ProcFinished(p)
        PROVE  RecInv'
        <2>1. RecTypeOK'
              BY <1>8 DEF ProcExit, ProcFinished
        <2>2. HandlesOK'
              BY <1>8 DEF ProcExit, ProcFinished
        <2>3. LockedMeansStopped'
              BY <1>8 DEF ProcExit, ProcFinished
        <2>4. BoostHasEngine'
              BY <1>8 DEF ProcExit, ProcFinished
        <2>5. OneRecorder'
              BY <1>8 DEF ProcExit, ProcFinished
        <2> QED
            BY <2>1, <2>2, <2>3, <2>4, <2>5
  <1> QED
      BY <1>1, <1>2, <1>3, <1>4, <1>5, <1>6, <1>7, <1>8 DEF Poll, Session, World

\* A step that leaves every variable alone preserves the invariant.
LEMMA RecStutterInv == RecInv /\ UNCHANGED recVars => RecInv'
  BY DEF RecInv, RecTypeOK, HandlesOK, LockedMeansStopped, BoostHasEngine, OneRecorder,
     IsRunning, recVars, controller, processes, capture, session

\* The invariant holds in every reachable state of the recorder's control.
THEOREM RecInvariant == RecSpec => []RecInv
  <1>1. RecInv /\ [RecNext]_recVars => RecInv'
        BY CommandsInv, OthersInv, RecStutterInv DEF RecNext
  <1> QED
      BY RecInitInv, <1>1, PTL DEF RecSpec

\* While the session is locked nothing records and no capture source, boost
\* timer or claim on a capture session is left over (lock and abort).
THEOREM LockStopsRecording == RecSpec => []LockedMeansStopped
  <1>1. RecInv => LockedMeansStopped
        BY DEF RecInv
  <1> QED
      BY RecInvariant, <1>1, PTL

\* The boost timer and the capture override never outlive the engine they
\* were started for (stop_capture_boost on every way a recording ends).
THEOREM BoostOwned == RecSpec => []BoostHasEngine
  <1>1. RecInv => BoostHasEngine
        BY DEF RecInv
  <1> QED
      BY RecInvariant, <1>1, PTL

\* Every recording process is held by the controller, which holds at most one.
THEOREM RecorderUnique == RecSpec => []OneRecorder
  <1>1. RecInv => OneRecorder
        BY DEF RecInv
  <1> QED
      BY RecInvariant, <1>1, PTL

-----------------------------------------------------------------------------
(* The recorder's control among the sessions.                              *)

\* Whatever the sessions do, the recorder's control keeps its invariant.
LEMMA RecorderKeeps == RecInv /\ [CapNext]_capVars => RecInv'
  <1> SUFFICES ASSUME RecInv, [CapNext]_capVars PROVE RecInv'
    OBVIOUS
  <1>1. CASE UNCHANGED recVars
    BY <1>1, RecStutterInv
  <1>2. ASSUME NEW o \in Owners, NewSession(o) PROVE RecInv'
    BY <1>2 DEF NewSession, controller, processes, session, RecInv, RecTypeOK, HandlesOK,
       LockedMeansStopped, BoostHasEngine, OneRecorder
  <1>3. CASE RecorderStep
    <2>1. RecNext \/ UNCHANGED recVars
      BY <1>3 DEF RecorderStep, RecNext, Commands, Session
    <2> QED
      BY <1>1, <2>1, CommandsInv, OthersInv DEF RecNext
  <1>4. CASE LeaveDesktop
    BY <1>4, OthersInv DEF LeaveDesktop, Session
  <1> QED
    BY <1>1, <1>2, <1>3, <1>4
    DEF CapNext, RequestFrame, FrameAborted, SessionDestroyed, Commit, CloseWindow, BoostTick,
        RedrawPass, capVars

-----------------------------------------------------------------------------
(* The queue of frames.                                                    *)

\* Dropping frames leaves a queue of frames that were waiting, each once.
LEMMA PendingKept ==
    ASSUME CaptureSound, NEW S, pending' = Retain(pending, S)
    PROVE  /\ pending' \in Seq(Owners) /\ Len(pending') <= MaxPending
           /\ Waiting' = Waiting \cap S
           /\ Once(pending')
  <1> DEFINE r == Retain(pending, S)
  <1>1. pending \in Seq(Owners) /\ Len(pending) <= MaxPending /\ Once(pending)
    BY DEF CaptureSound, CapTypeOK, PendingHasSession
  <1>2. r \in Seq(Owners) /\ Keeps(pending, S, Len(pending), r)
    BY <1>1, RetainFacts
  <1> HIDE DEF r
  <1>3. Len(r) \in Nat /\ Len(pending) \in Nat
        /\ DOMAIN r = 1 .. Len(r) /\ DOMAIN pending = 1 .. Len(pending)
    BY <1>1, <1>2
  <1>4. {r[i] : i \in DOMAIN r} = Waiting \cap S
    <2>1. ASSUME NEW i \in DOMAIN r PROVE r[i] \in Waiting \cap S
      BY <1>2, <1>3 DEF Keeps, Waiting
    <2>2. ASSUME NEW x \in Waiting \cap S PROVE \E i \in DOMAIN r : r[i] = x
      <3>1. PICK i \in 1 .. Len(pending) : x = pending[i] /\ pending[i] \in S
        BY <1>3 DEF Waiting
      <3> QED
        BY <1>2, <1>3, <3>1 DEF Keeps
    <2> QED
      BY <2>1, <2>2
  <1>5. Len(r) <= MaxPending /\ Once(r)
    BY <1>1, <1>2, <1>3, CaptureAssumption DEF Keeps
  <1> QED
    BY <1>2, <1>4, <1>5 DEF Waiting, r

\* complete_capture_frame answers sessions it is given, which then have
\* captured, and what it delivers shows one of the sources.
LEMMA Completed ==
    ASSUME CapInv, NEW S \in SUBSET sess, NEW news \in SUBSET sess, Complete(S, news),
           sess \ captured \subseteq news, UNCHANGED <<sess, tag>>
    PROVE  /\ captured' \subseteq sess /\ captured \subseteq captured'
           /\ fresh' \subseteq sess /\ sess \ captured' \subseteq fresh'
           /\ \A d \in delivered' : d.to \in Owners /\ d.shows \in Sources
           /\ (S \subseteq tag \cup news) => \A d \in delivered' : d.to \notin tag => d.changed
           /\ ~Valid => delivered' = {}
  <1>1. PICK ok \in SUBSET {o \in S : Valid /\ Shows(o) \notin closed} :
            /\ captured' = captured \cup ok /\ fresh' = news \ ok
            /\ delivered' = {[to |-> o, shows |-> Shows(o), changed |-> o \in news] : o \in ok}
    BY DEF Complete
  <1>2. /\ sess \subseteq Owners /\ captured \subseteq sess
        /\ override \in Sources /\ Output \in Sources
    BY RecorderAssumption DEF CapInv, CaptureSound, CapTypeOK, RecInv, RecTypeOK
  <1>3. \A o \in ok : o \in S /\ o \in Owners /\ Shows(o) \in Sources /\ Valid
    BY <1>2 DEF Shows
  <1>4. \A d \in delivered' : \E o \in ok : d.to = o /\ d.shows = Shows(o) /\ d.changed = (o \in news)
    BY <1>1
  <1> QED
    BY <1>1, <1>2, <1>3, <1>4

-----------------------------------------------------------------------------
(* The capture sessions, one step per action.                              *)

LEMMA CapInvInit == CapInit => CapInv
  <1> SUFFICES ASSUME CapInit PROVE CapInv
    OBVIOUS
  <1>1. RecInv
    BY RecInitInv DEF CapInit
  <1>2. Waiting = {} /\ pending = <<>>
    BY DEF CapInit, Waiting
  <1>3. CapTypeOK
    BY CaptureAssumption DEF CapInit, CapTypeOK
  <1>4. PendingHasSession /\ FirstFrameIsNew
    BY <1>2 DEF CapInit, PendingHasSession, FirstFrameIsNew, Once
  <1>5. HiddenCapturesNothing /\ NoRepeats
    BY <1>2 DEF CapInit, HiddenCapturesNothing, NoRepeats
  <1> QED
    BY <1>1, <1>3, <1>4, <1>5 DEF CapInv, CaptureSound

LEMMA CapInvStep == CapInv /\ [CapNext]_capVars => CapInv'
  <1> SUFFICES ASSUME CapInv, [CapNext]_capVars PROVE CapInv'
    OBVIOUS
  <1> USE DEF CapInv, CaptureSound
  <1>a. RecInv'
    BY RecorderKeeps
  <1>b. /\ sess \subseteq Owners /\ tag \subseteq sess /\ captured \subseteq sess
        /\ fresh \subseteq sess /\ closed \subseteq Windows
        /\ Waiting \subseteq sess \cap captured
        /\ sess \ captured \subseteq fresh
        /\ pending \in Seq(Owners) /\ Len(pending) <= MaxPending /\ Once(pending)
        /\ ~Valid => sess = {} /\ pending = <<>> /\ Waiting = {} /\ delivered = {}
    BY DEF CapTypeOK, PendingHasSession, FirstFrameIsNew, HiddenCapturesNothing, Waiting
  \* A step that answers nothing and keeps the session on its VT and unlocked.
  <1>c. ASSUME sess' \subseteq Owners, tag' \subseteq sess', captured' \subseteq sess',
               fresh' \subseteq sess', closed' \subseteq Windows,
               Waiting' \subseteq sess' \cap captured', sess' \ captured' \subseteq fresh',
               pending' \in Seq(Owners), Len(pending') <= MaxPending, Once(pending'),
               ~Valid' => sess' = {} /\ pending' = <<>>, delivered' = {}
        PROVE  CapInv'
    BY <1>a, <1>c DEF CapTypeOK, PendingHasSession, FirstFrameIsNew, HiddenCapturesNothing,
       NoRepeats
  \* A step that completes frames of the sessions S.
  <1>d. ASSUME NEW S \in SUBSET sess, NEW news \in SUBSET sess, Complete(S, news),
               S \subseteq tag \cup news, sess \ captured \subseteq news,
               pending' \in Seq(Owners), Len(pending') <= MaxPending, Once(pending'),
               Waiting' \subseteq Waiting, ~Valid => pending' = <<>>,
               UNCHANGED <<recVars, sess, tag, closed>>
        PROVE  CapInv'
    <2>1. /\ captured' \subseteq sess /\ captured \subseteq captured'
          /\ fresh' \subseteq sess /\ sess \ captured' \subseteq fresh'
          /\ \A d \in delivered' : d.to \in Owners /\ d.shows \in Sources
          /\ \A d \in delivered' : d.to \notin tag => d.changed
          /\ ~Valid => delivered' = {}
      BY <1>b, <1>d, Completed
    <2>2. Valid' <=> Valid
      BY <1>d DEF Valid, recVars, session
    <2>3. CapTypeOK'
      BY <1>b, <1>d, <2>1 DEF CapTypeOK
    <2>4. PendingHasSession' /\ FirstFrameIsNew'
      BY <1>b, <1>d, <2>1 DEF PendingHasSession, FirstFrameIsNew
    <2>5. HiddenCapturesNothing' /\ NoRepeats'
      BY <1>b, <1>d, <2>1, <2>2 DEF HiddenCapturesNothing, NoRepeats
    <2> QED
      BY <1>a, <2>3, <2>4, <2>5
  <1>1. ASSUME NEW o \in Owners, NewSession(o) PROVE CapInv'
    <2>1. Waiting' = Waiting /\ (Valid' <=> Valid) /\ Valid
      BY <1>1 DEF NewSession, Waiting, Valid, session
    <2> QED
      BY <1>1, <1>b, <1>c, <2>1 DEF NewSession
  <1>2. ASSUME NEW o \in Owners, RequestFrame(o) PROVE CapInv'
    <2>1. Valid /\ Valid' /\ UNCHANGED <<recVars, sess, tag, closed>>
      BY <1>2, <1>b DEF RequestFrame, Valid, recVars, session
    <2>2. CASE o \in captured
      <3>1. /\ pending' = Append(pending, o) /\ delivered' = {}
            /\ UNCHANGED <<captured, fresh>> /\ o \notin Waiting /\ Len(pending) < MaxPending
        BY <1>2, <2>2 DEF RequestFrame, QueueHasRoom
      <3>2. /\ pending' \in Seq(Owners) /\ Len(pending') = Len(pending) + 1
            /\ Len(pending) \in Nat
            /\ \A i \in 1 .. Len(pending) : pending'[i] = pending[i]
            /\ pending'[Len(pending) + 1] = o
            /\ DOMAIN pending = 1 .. Len(pending) /\ DOMAIN pending' = 1 .. Len(pending')
        BY <1>b, <3>1
      <3>3. \A i \in 1 .. Len(pending') : i \in 1 .. Len(pending) \/ i = Len(pending) + 1
        BY <3>2
      <3>4. \A i \in 1 .. Len(pending) : pending[i] # o
        BY <3>1, <3>2 DEF Waiting
      <3>5. Waiting' \subseteq Waiting \cup {o}
        BY <3>2, <3>3 DEF Waiting
      <3>6. Once(pending')
        BY <1>b, <3>2, <3>3, <3>4 DEF Once
      <3>7. Len(pending') <= MaxPending
        BY <3>1, <3>2, CaptureAssumption
      <3> QED
        BY <1>b, <1>c, <2>1, <2>2, <3>1, <3>2, <3>5, <3>6, <3>7
    <2>3. CASE o \notin captured
      <3>1. Complete({o}, fresh) /\ UNCHANGED pending /\ Waiting' = Waiting /\ o \in sess
        BY <1>2, <2>3 DEF RequestFrame, Waiting
      <3> QED
        BY <1>b, <1>d, <2>1, <2>3, <3>1
    <2> QED
      BY <2>2, <2>3
  <1>3. ASSUME NEW o \in Owners, FrameAborted(o) PROVE CapInv'
    <2>1. Valid' <=> Valid
      BY <1>3 DEF FrameAborted, Valid, recVars, session
    <2>2. pending' = Retain(pending, Owners \ {o}) /\ Valid
      BY <1>3, <1>b DEF FrameAborted, Without
    <2> QED
      BY <1>3, <1>b, <1>c, <2>1, <2>2, PendingKept DEF FrameAborted
  <1>4. ASSUME NEW o \in Owners, SessionDestroyed(o) PROVE CapInv'
    <2>1. Valid' <=> Valid
      BY <1>4 DEF SessionDestroyed, Valid, recVars, session
    <2>2. pending' = Retain(pending, Owners \ {o}) /\ Valid
      BY <1>4, <1>b DEF SessionDestroyed, PendingAfter, Without
    <2>3. Waiting' = Waiting \cap (Owners \ {o})
      BY <2>2, PendingKept
    <2> QED
      BY <1>4, <1>b, <1>c, <2>1, <2>2, <2>3, PendingKept DEF SessionDestroyed
  <1>5. ASSUME NEW w \in Windows, Commit(w) PROVE CapInv'
    <2> DEFINE mine == Retain(pending, tag)
    <2>0. UNCHANGED <<recVars, sess, tag, closed>> /\ (Valid' <=> Valid)
      BY <1>5 DEF Commit, Valid, recVars, session
    <2>1. CASE commitDriven /\ w = override /\ mine # <<>>
      <3>1. pending' = Retain(pending, Owners \ {mine[1]}) /\ Complete({mine[1]}, sess)
        BY <1>5, <2>1 DEF Commit, Without
      <3>2. mine[1] \in tag
        <4>1. mine \in Seq(Owners) /\ Keeps(pending, tag, Len(pending), mine)
          BY <1>b, RetainFacts
        <4> HIDE DEF mine
        <4>2. 1 \in 1 .. Len(mine)
          BY <2>1, <4>1
        <4> QED
          BY <4>1, <4>2 DEF Keeps
      <3> HIDE DEF mine
      <3>3. {mine[1]} \in SUBSET sess /\ {mine[1]} \subseteq tag \cup sess /\ Valid
        BY <1>b, <3>2
      <3> QED
        BY <1>b, <1>d, <2>0, <3>1, <3>3, PendingKept
    <2>2. CASE ~(commitDriven /\ w = override /\ mine # <<>>)
      <3>1. fresh' = sess /\ delivered' = {} /\ UNCHANGED <<captured, pending>>
            /\ Waiting' = Waiting
        BY <1>5, <2>2 DEF Commit, Waiting
      <3> QED
        BY <1>b, <1>c, <2>0, <3>1
    <2> QED
      BY <2>1, <2>2
  <1>6. ASSUME NEW w \in Windows, CloseWindow(w) PROVE CapInv'
    <2>1. Waiting' = Waiting /\ (Valid' <=> Valid)
      BY <1>6 DEF CloseWindow, Waiting, Valid, recVars, session
    <2> QED
      BY <1>6, <1>b, <1>c, <2>1 DEF CloseWindow
  \* process_pending_capture_frames answers sessions that are due.
  <1>e. ASSUME NEW news \in SUBSET sess, sess \ captured \subseteq news, ProcessPending(news),
               UNCHANGED <<recVars, sess, tag, closed>>
        PROVE  CapInv'
    <2>1. /\ pending' = Retain(pending, Owners \ Due(news)) /\ Complete(Due(news), news)
          /\ Due(news) \subseteq sess /\ Due(news) \subseteq tag \cup news
      BY <1>e, <1>b DEF ProcessPending, Due
    <2>2. ~Valid => pending' = <<>>
      <3>1. pending' \in Seq(Owners) /\ Len(pending') <= Len(pending)
        BY <1>b, <2>1, RetainFacts DEF Keeps
      <3>2. pending = <<>> => Len(pending) = 0
        OBVIOUS
      <3>3. \A r \in Seq(Owners) : Len(r) <= 0 => r = <<>>
        OBVIOUS
      <3> QED
        BY <1>b, <3>1, <3>2, <3>3
    <2> QED
      BY <1>b, <1>d, <1>e, <2>1, <2>2, PendingKept
  <1>7. CASE BoostTick
    BY <1>7, <1>b, <1>e DEF BoostTick
  <1>8. CASE RedrawPass
    BY <1>8, <1>b, <1>e DEF RedrawPass
  <1>9. CASE RecorderStep
    <2>1. Valid => Valid'
      BY <1>9 DEF RecorderStep, Start, StartRefused, StartGame, StartGameRefused, StopNative,
         StopBroken, StopGame, StopGameFailed, TogglePause, Poll, PollExit, PollGameExit,
         PollStarted, Unlock, ActivateSession, World, ProcExit, ProcFinished, session, Valid
    <2>2. UNCHANGED <<sess, tag, captured, fresh, pending, closed>> /\ delivered' = {}
          /\ Waiting' = Waiting
      BY <1>9 DEF RecorderStep, Waiting
    <2> QED
      BY <1>b, <1>c, <2>1, <2>2
  <1>10. CASE LeaveDesktop
    <2>1. /\ sess' = {} /\ tag' = {} /\ captured' = {} /\ fresh' = {} /\ pending' = <<>>
          /\ delivered' = {} /\ closed' = closed
      BY <1>10 DEF LeaveDesktop, DropSessions
    <2>2. Waiting' = {} /\ Once(pending') /\ Len(pending') <= MaxPending
          /\ pending' \in Seq(Owners)
      BY <2>1, CaptureAssumption DEF Waiting, Once
    <2> QED
      BY <1>b, <1>c, <2>1, <2>2
  <1>11. CASE UNCHANGED capVars
    BY <1>a, <1>11 DEF capVars, recVars, session, sessions, CapTypeOK, PendingHasSession, FirstFrameIsNew,
       HiddenCapturesNothing, NoRepeats, Waiting, Valid, Once
  <1> QED
    BY <1>1, <1>2, <1>3, <1>4, <1>5, <1>6, <1>7, <1>8, <1>9, <1>10, <1>11 DEF CapNext

-----------------------------------------------------------------------------
(* Theorems about them.                                                    *)

LEMMA CapInvariant == CapSpec => []CapInv
  BY CapInvInit, CapInvStep, PTL DEF CapSpec

\* capture_sessions and pending_capture_frames agree: frames wait only for sessions
\* that are open and were answered before, once each and no more than the limit, and
\* a client's first frame is never an old one.
THEOREM CaptureIsSound == CapSpec => []CaptureSound
  <1>1. CapInv => CaptureSound
    BY DEF CapInv
  <1> QED
    BY <1>1, CapInvariant, PTL

\* While the session is locked or on another VT no session is open, no frame waits
\* and none is delivered (capture_constraints, lock, refresh_capture_sessions).
THEOREM HiddenIsNotCaptured == CapSpec => []HiddenCapturesNothing
  <1>1. CapInv => HiddenCapturesNothing
    BY DEF CapInv
  <1> QED
    BY <1>1, CapInvariant, PTL

\* The boost of the recorder's frame rate never hands another client a frame it
\* has seen (process_pending_capture_frames).
THEOREM NothingIsRepeated == CapSpec => []NoRepeats
  <1>1. CapInv => NoRepeats
    BY DEF CapInv
  <1> QED
    BY <1>1, CapInvariant, PTL

\* Composed with the sessions, which take the claim on the next session away, the
\* recorder's control still records nothing while locked.
THEOREM RecorderSurvivesSessions == CapSpec => []RecInv
  <1>1. CapInv => RecInv
    BY DEF CapInv
  <1> QED
    BY <1>1, CapInvariant, PTL

-----------------------------------------------------------------------------
(* "Paused" in the control of the recorder processes.                      *)

\* "Paused" agrees with the pipeline, whatever the commands, the processes, the
\* lock and poll do in between.
LEMMA PauseStep == RecInv /\ PauseInv /\ RecNext => PauseInv'
  <1> SUFFICES ASSUME RecInv, PauseInv, RecNext PROVE PauseInv'
      OBVIOUS
  <1>1. /\ child \in Nat /\ launcher \in Nat /\ started \in Nat /\ MaxStarts \in Nat
        /\ child <= started /\ launcher <= started /\ started <= MaxStarts
        /\ child \in Procs \cup {NoProc}
        /\ life \in [Procs -> Lives] /\ paused \in [Procs -> BOOLEAN] /\ game \in [Procs -> BOOLEAN]
        BY RecorderAssumption DEF RecInv, RecTypeOK, HandlesOK, Procs, NoProc
  <1> USE <1>1, RecorderAssumption DEF PauseInv, PauseAgrees, Procs, NoProc, States, Lives,
      IsRunning, Spawn, Reset, Finish, processes, controller
  <1>2. ASSUME NEW src \in Sources, NEW commit \in BOOLEAN, Start(src, commit)
        PROVE  PauseInv'
        BY <1>2 DEF Start
  <1>3. CASE StartRefused
        BY <1>3 DEF StartRefused
  <1>4. CASE StartGame
        BY <1>4 DEF StartGame
  <1>5. CASE StartGameRefused
        BY <1>5 DEF StartGameRefused
  <1>6. CASE StopNative
        BY <1>6 DEF StopNative
  <1>7. CASE StopBroken
        BY <1>7 DEF StopBroken
  <1>8. CASE StopGame
        BY <1>8 DEF StopGame
  <1>9. CASE StopGameFailed
        BY <1>9 DEF StopGameFailed
  <1>10. CASE TogglePause
        <2>1. /\ child \in Procs /\ UNCHANGED <<child, started, life>>
              /\ paused'[child] = ~paused[child]
              /\ \A p \in Procs \ {child} : paused'[p] = paused[p]
              /\ state' = IF state = "Paused" THEN "Recording" ELSE "Paused"
              BY <1>10 DEF TogglePause, PauseState
        <2>2. state' = "Paused" <=> state # "Paused"
              BY <2>1
        <2>3. life[child] = "running" => (state' = "Paused" <=> paused'[child])
              <3> SUFFICES ASSUME life[child] = "running" PROVE state' = "Paused" <=> paused'[child]
                  OBVIOUS
              <3>0. child # 0
                    BY <2>1
              <3>1. state = "Paused" <=> paused[child]
                    BY <3>0, Zenon
              <3>2. paused'[child] <=> ~paused[child]
                    BY <2>1, Zenon
              <3> QED
                  BY <2>2, <3>1, <3>2, Zenon
        <2>4. \A p \in Procs : p > started => p # child /\ ~paused'[p]
              BY <2>1
        <2> QED
            BY <2>1, <2>3, <2>4
  <1>11. CASE PollExit
        BY <1>11 DEF PollExit
  <1>12. CASE PollGameExit
        BY <1>12 DEF PollGameExit
  <1>13. CASE PollStarted
        BY <1>13 DEF PollStarted
  <1>14. ASSUME AbortIfRunning PROVE PauseInv'
        BY <1>14 DEF AbortIfRunning, Abort
  <1>15. CASE Lock \/ PauseSession
        BY <1>14, <1>15 DEF Lock, PauseSession
  <1>16. CASE Unlock \/ ActivateSession
        BY <1>16 DEF Unlock, ActivateSession
  <1>17. ASSUME NEW p \in Procs, ProcExit(p) \/ ProcFinished(p)
         PROVE  PauseInv'
        BY <1>17 DEF ProcExit, ProcFinished
  <1> QED
      BY <1>2, <1>3, <1>4, <1>5, <1>6, <1>7, <1>8, <1>9, <1>10, <1>11, <1>12, <1>13, <1>15,
         <1>16, <1>17 DEF RecNext, Commands, Poll, Session, World

-----------------------------------------------------------------------------
(* The muxer of game captures.                                             *)

\* The kind of a packet tells whether it is an access unit.
LEMMA PacketKinds ==
    \A packet \in GM!Packets :
        packet.kind = "unit" => packet.pts \in GM!Stamps /\ packet.timed \in BOOLEAN
  BY DEF GM!Packets, GM!Units, GM!Plain

\* The invariant of the muxer in four parts, each over its own variables.
Switches == {brittle, pidKnown, hungUp, graceful, open, socketFile} \subseteq BOOLEAN

Traffic ==
    /\ caller \in Seq(Peers) /\ packets \in 0 .. MaxPackets
    /\ wire \in Seq(GM!Packets) /\ Len(wire) <= MaxInFlight
    /\ lastPts \subseteq GM!Stamps
    /\ received \in Nat /\ received + Len(wire) <= packets

Delivery ==
    /\ handed \in Seq({"unit", "finish"}) /\ Len(handed) <= QueueLimit
    /\ muxed \in Nat /\ muxed <= received
    /\ \A i \in 1 .. Len(handed) : handed[i] = "finish" => i = Len(handed)
    /\ writer # "failed" => muxed + GM!Undelivered = received
    /\ writer \in {"ending", "done"} => handed = <<>>
    /\ muxer \in {"reading", "ending"} => ~GM!Finishing
    /\ GM!Unstarted => handed = <<>> /\ received = 0
    /\ muxer = "done" => muxed = received

Stages ==
    /\ muxer \in {"binding", "accepting", "greeting", "configuring", "reading", "ending",
                  "joining", "waiting", "done", "failed"}
    /\ outcome \in {"ok", "err"}
    /\ writer \in {"none", "running", "ending", "done", "failed"}
    /\ ffmpeg \in {"none", "running", "finished", "broken", "killed"}
    /\ output \in {"absent", "partial", "indexed"}
    /\ GM!Unstarted => writer = "none" /\ ffmpeg = "none" /\ output = "absent"
    /\ writer = "none" => GM!Unstarted \/ muxer = "failed"
    /\ muxer \in {"reading", "ending"} => open = TRUE /\ writer \in {"running", "failed"}
    /\ ffmpeg = "finished" /\ writer = "done" => output = "indexed"
    /\ ffmpeg = "finished" => writer \in {"done", "failed"}
    /\ muxer = "waiting" => writer = "done"
    /\ muxer = "done" => output = "indexed"
    /\ muxer = "failed" /\ ffmpeg # "broken" => output = "absent"

MuxerParts == Switches /\ Traffic /\ Delivery /\ Stages

LEMMA MuxerInvParts == GM!MuxerInv <=> MuxerParts
  <1> USE RecordingAssumption DEF GM!MuxerAssumption
  <1>1. ASSUME GM!MuxerInv PROVE MuxerParts
    <2>1. Switches
      BY <1>1, Zenon DEF GM!MuxerInv, GM!MuxerTypeOK, Switches
    <2>2. Traffic
      BY <1>1 DEF GM!MuxerInv, GM!MuxerTypeOK, Traffic
    <2>3. Delivery
      BY <1>1 DEF GM!MuxerInv, GM!MuxerTypeOK, GM!FileIsHonest, Delivery
    <2>4. muxer \in {"reading", "ending"} => open = TRUE
      BY <1>1, Zenon DEF GM!MuxerInv, GM!MuxerTypeOK
    <2>5. Stages
      BY <1>1, <2>4 DEF GM!MuxerInv, GM!MuxerTypeOK, GM!FileIsHonest, Stages
    <2> QED
      BY <2>1, <2>2, <2>3, <2>5 DEF MuxerParts
  <1>2. ASSUME MuxerParts PROVE GM!MuxerInv
    <2>1. /\ brittle \in BOOLEAN /\ pidKnown \in BOOLEAN /\ hungUp \in BOOLEAN
          /\ graceful \in BOOLEAN /\ open \in BOOLEAN /\ socketFile \in BOOLEAN
      BY <1>2, Zenon DEF MuxerParts, Switches
    <2>2. /\ caller \in Seq(Peers) /\ packets \in 0 .. MaxPackets
          /\ wire \in Seq(GM!Packets) /\ Len(wire) <= MaxInFlight
          /\ lastPts \subseteq GM!Stamps
          /\ received \in 0 .. MaxPackets /\ received + Len(wire) <= packets
      BY <1>2 DEF MuxerParts, Traffic
    <2>3. /\ handed \in Seq({"unit", "finish"}) /\ Len(handed) <= QueueLimit
          /\ muxed \in 0 .. received
      BY <1>2, <2>2 DEF MuxerParts, Delivery
    <2>4. GM!MuxerTypeOK
      BY <1>2, <2>1, <2>2, <2>3, Zenon DEF MuxerParts, Stages, GM!MuxerTypeOK
    <2>5. muxer \in {"reading", "ending"} => open
      BY <1>2, Zenon DEF MuxerParts, Stages
    <2>6. GM!FileIsHonest
      BY <1>2 DEF MuxerParts, Stages, Delivery, GM!FileIsHonest
    <2> QED
      BY <1>2, <2>2, <2>4, <2>5, <2>6 DEF MuxerParts, Delivery, Stages, GM!MuxerInv
  <1> QED
    BY <1>1, <1>2

\* The first state of the muxer.
LEMMA MuxerStart == GM!MuxerInit => MuxerParts
  <1> SUFFICES ASSUME GM!MuxerInit PROVE MuxerParts
      OBVIOUS
  <1> USE RecordingAssumption DEF GM!MuxerAssumption, GM!MuxerInit
  <1>1. Switches
    BY Zenon DEF Switches
  <1>2. Traffic
    BY DEF Traffic
  <1>3. Delivery
    BY DEF Delivery, GM!Finishing, GM!Undelivered
  <1>4. Stages
    BY DEF Stages, GM!Unstarted
  <1> QED
    BY <1>1, <1>2, <1>3, <1>4 DEF MuxerParts

\* What the other processes do to the muxer's connections.
LEMMA MuxerPeers ==
    ASSUME MuxerParts,
           \/ GM!LauncherWritesPid \/ GM!HookDies
           \/ \E p \in Peers : GM!Connect(p)
           \/ \E packet \in GM!Packets : GM!SendPacket(packet)
    PROVE  MuxerParts'
  <1> USE DEF MuxerParts, GM!mainThread, GM!writerVars
  <1>1. UNCHANGED <<brittle, muxer, outcome, graceful, lastPts, received, open, socketFile,
                    handed, writer, muxed, ffmpeg, output>>
    BY DEF GM!LauncherWritesPid, GM!HookDies, GM!Connect, GM!SendPacket
  <1>2. pidKnown' \in BOOLEAN /\ hungUp' \in BOOLEAN
    <2>1. pidKnown \in BOOLEAN /\ hungUp \in BOOLEAN
      BY DEF Switches
    <2> QED
      BY <2>1, Zenon DEF GM!LauncherWritesPid, GM!HookDies, GM!Connect, GM!SendPacket
  <1>3. Switches'
    BY <1>1, <1>2, Zenon DEF Switches
  <1>4. Traffic'
    <2> USE RecordingAssumption DEF GM!MuxerAssumption, Traffic
    <2>1. CASE GM!LauncherWritesPid \/ GM!HookDies
      BY <1>1, <2>1 DEF GM!LauncherWritesPid, GM!HookDies
    <2>2. ASSUME NEW p \in Peers, GM!Connect(p) PROVE Traffic'
      BY <1>1, <2>2 DEF GM!Connect
    <2>3. ASSUME NEW packet \in GM!Packets, GM!SendPacket(packet) PROVE Traffic'
      BY <1>1, <2>3 DEF GM!SendPacket
    <2> QED
      BY <2>1, <2>2, <2>3
  <1>5. Delivery' /\ Stages'
    BY <1>1 DEF Delivery, Stages, GM!Finishing, GM!Undelivered, GM!Unstarted
  <1> QED
    BY <1>3, <1>4, <1>5

\* The head of the wire is a packet, and consuming it leaves packets.
LEMMA ConsumeFacts ==
    ASSUME Traffic, GM!Readable, GM!Consume
    PROVE  /\ wire' \in Seq(GM!Packets) /\ Len(wire') <= MaxInFlight
           /\ UNCHANGED <<brittle, caller, pidKnown, hungUp, packets>>
           /\ received + Len(wire') <= packets
           /\ GM!Arrived = "unit" =>
                 /\ received + 1 + Len(wire') <= packets
                 /\ Head(wire).pts \in GM!Stamps
  <1>1. wire \in Seq(GM!Packets) /\ Len(wire) <= MaxInFlight
    BY DEF Traffic
  <1>2. CASE wire = <<>>
    BY <1>1, <1>2 DEF GM!Consume, GM!Arrived, Traffic
  <1>3. CASE wire # <<>>
    <2>1. Head(wire) \in GM!Packets /\ wire' = Tail(wire) /\ GM!Arrived = Head(wire).kind
      BY <1>1, <1>3 DEF GM!Consume, GM!Arrived
    <2>2. wire' \in Seq(GM!Packets) /\ Len(wire') + 1 = Len(wire) /\ Len(wire') \in Nat
      BY <1>1, <1>3, <2>1
    <2>3. GM!Arrived = "unit" => Head(wire).pts \in GM!Stamps
      BY <2>1, PacketKinds
    <2>4. Len(wire') <= MaxInFlight
      BY <1>1, <2>2, RecordingAssumption DEF GM!MuxerAssumption
    <2>5. received + Len(wire') + 1 <= packets /\ received \in Nat /\ packets \in Nat
      BY <2>2 DEF Traffic
    <2>6. received + Len(wire') <= packets /\ received + 1 + Len(wire') <= packets
      BY <2>2, <2>5
    <2> QED
      BY <2>2, <2>3, <2>4, <2>6 DEF GM!Consume
  <1> QED
    BY <1>2, <1>3

\* The main thread before it reads packets of a recording.
LEMMA MuxerAccepts ==
    ASSUME MuxerParts, GM!Bind \/ GM!AcceptPeer \/ GM!Greet \/ GM!Configure
    PROVE  MuxerParts'
  <1> USE DEF MuxerParts, GM!mainThread, GM!writerVars, GM!hookVars, GM!Exit
  <1>1. GM!Unstarted /\ UNCHANGED <<brittle, pidKnown, hungUp, packets, outcome, graceful, lastPts,
                                    received, handed, muxed>>
    BY ConsumeFacts DEF GM!Bind, GM!AcceptPeer, GM!Greet, GM!Configure, GM!Unstarted
  <1>2. Switches'
    <2>1. open' \in BOOLEAN /\ socketFile' \in BOOLEAN
      <3>1. open \in BOOLEAN /\ socketFile \in BOOLEAN
        BY DEF Switches
      <3> QED
        BY <3>1, Zenon DEF GM!Bind, GM!AcceptPeer, GM!Greet, GM!Configure
    <2> QED
      BY <1>1, <2>1, Zenon DEF Switches
  <1>3. Traffic'
    <2>1. CASE GM!Bind
      BY <1>1, <2>1 DEF GM!Bind, Traffic
    <2>2. CASE GM!AcceptPeer
      BY <1>1, <2>2 DEF GM!AcceptPeer, Traffic
    <2>3. CASE GM!Greet \/ GM!Configure
      BY <1>1, <2>3, ConsumeFacts DEF GM!Greet, GM!Configure, Traffic
    <2> QED
      BY <2>1, <2>2, <2>3
  <1>4. /\ muxer' \in {"accepting", "greeting", "configuring", "reading", "failed"}
        /\ writer \in {"none"} /\ writer' \in {"none", "running"}
    BY <1>1 DEF GM!Bind, GM!AcceptPeer, GM!Greet, GM!Configure, GM!Unstarted, Stages
  <1>5. Delivery'
    BY <1>1, <1>4 DEF Delivery, GM!Finishing, GM!Undelivered, GM!Unstarted
  <1>6. Stages'
    <2>1. CASE GM!Bind
      BY <1>1, <2>1 DEF GM!Bind, Stages, GM!Unstarted
    <2>2. CASE GM!AcceptPeer
      BY <1>1, <2>2 DEF GM!AcceptPeer, Stages, GM!Unstarted
    <2>3. CASE GM!Greet
      BY <1>1, <2>3 DEF GM!Greet, Stages, GM!Unstarted
    <2>4. CASE GM!Configure
      BY <1>1, <2>4 DEF GM!Configure, Stages, GM!Unstarted
    <2> QED
      BY <2>1, <2>2, <2>3, <2>4
  <1> QED
    BY <1>2, <1>3, <1>5, <1>6

\* run_session, one packet at a time: a unit is counted and handed on, and
\* nothing but the end of the session can follow a writer that failed.
LEMMA MuxerReads == MuxerParts /\ GM!Read => MuxerParts'
  <1> SUFFICES ASSUME MuxerParts, GM!Read PROVE MuxerParts'
      OBVIOUS
  <1> USE DEF MuxerParts, GM!writerVars, GM!HangUp, GM!Leave
  <1>1. UNCHANGED <<brittle, caller, pidKnown, hungUp, packets, open, socketFile, writer, muxed,
                    ffmpeg, output>>
    BY ConsumeFacts DEF GM!Read
  <1>2. /\ muxer = "reading" /\ muxer' \in {"reading", "ending"}
        /\ writer \in {"running", "failed"} /\ open = TRUE
    BY DEF GM!Read, Stages
  <1>3. \/ UNCHANGED <<received, handed, lastPts>>
        \/ /\ GM!Arrived = "unit" /\ received' = received + 1 /\ lastPts' = {Head(wire).pts}
           /\ \/ Len(handed) < QueueLimit /\ handed' = Append(handed, "unit")
              \/ writer = "failed" /\ handed' = handed
    BY DEF GM!Read
  <1>4. Switches'
    <2>1. graceful' \in BOOLEAN
      <3>1. graceful \in BOOLEAN
        BY DEF Switches
      <3> QED
        BY <3>1, Zenon DEF GM!Read
    <2> QED
      BY <1>1, <2>1, Zenon DEF Switches
  <1>5. Traffic'
    <2>1. GM!Readable /\ GM!Consume /\ Traffic
      BY DEF GM!Read
    <2> QED
      BY <1>1, <1>3, <2>1, ConsumeFacts DEF Traffic
  <1>6. Delivery'
    <2>1. received \in Nat /\ handed \in Seq({"unit", "finish"}) /\ ~GM!Finishing
      BY <1>2 DEF Traffic, Delivery
    <2>2. CASE UNCHANGED <<received, handed, lastPts>>
      BY <1>1, <1>2, <2>1, <2>2 DEF Delivery, GM!Finishing, GM!Undelivered, GM!Unstarted
    <2>3. CASE received' = received + 1 /\ writer = "failed" /\ handed' = handed
      BY <1>1, <1>2, <2>1, <2>3 DEF Delivery, GM!Finishing, GM!Undelivered, GM!Unstarted
    <2>4. CASE /\ received' = received + 1 /\ Len(handed) < QueueLimit
               /\ handed' = Append(handed, "unit")
      <3>1. /\ handed' \in Seq({"unit", "finish"}) /\ Len(handed') = Len(handed) + 1
            /\ handed'[Len(handed')] = "unit"
            /\ \A i \in 1 .. Len(handed) : handed'[i] = handed[i] /\ handed[i] # "finish"
        BY <2>1, <2>4 DEF Delivery, GM!Finishing
      <3>2. ~GM!Finishing' /\ GM!Undelivered' = GM!Undelivered + 1 /\ GM!Undelivered = Len(handed)
        BY <2>1, <3>1 DEF GM!Finishing, GM!Undelivered
      <3>3. /\ muxed \in Nat /\ muxed <= received /\ writer' = writer /\ muxed' = muxed
            /\ writer # "failed" => muxed + GM!Undelivered = received
        BY <1>1 DEF Delivery
      <3>4. Len(handed') <= QueueLimit
        BY <2>1, <2>4, <3>1, RecordingAssumption DEF GM!MuxerAssumption
      <3>5. muxed' <= received' /\ (writer' # "failed" => muxed' + GM!Undelivered' = received')
        BY <2>1, <2>4, <3>2, <3>3
      <3>6. \A i \in 1 .. Len(handed') : handed'[i] # "finish"
        BY <2>1, <3>1
      <3>7. /\ muxer' \in {"reading", "ending"} /\ ~GM!Unstarted' /\ muxer' # "done"
            /\ writer' \notin {"ending", "done"} /\ muxed' \in Nat
        BY <1>2, <3>3 DEF GM!Unstarted
      <3> QED
        BY <3>1, <3>2, <3>4, <3>5, <3>6, <3>7, Zenon DEF Delivery
    <2> QED
      BY <1>3, <2>2, <2>3, <2>4
  <1>7. Stages'
    <2>1. outcome' \in {"ok", "err"}
      BY DEF GM!Read, Stages
    <2> QED
      BY <1>1, <1>2, <2>1 DEF Stages, GM!Unstarted
  <1> QED
    BY <1>4, <1>5, <1>6, <1>7

\* The end of the session: the request to finish, the join and the wait.
LEMMA MuxerEnds ==
    ASSUME MuxerParts, GM!End \/ GM!JoinWriter \/ GM!WaitCleanly
    PROVE  MuxerParts'
  <1> USE DEF MuxerParts, GM!writerVars, GM!hookVars
  <1>1. /\ UNCHANGED <<brittle, caller, pidKnown, wire, hungUp, packets, graceful, lastPts, received,
                       writer, muxed>>
        /\ muxer \in {"ending", "joining", "waiting"}
        /\ muxer' \in {"joining", "waiting", "done", "failed"}
    BY DEF GM!End, GM!JoinWriter, GM!WaitCleanly
  <1>2. Switches'
    <2>1. open' \in BOOLEAN /\ socketFile' \in BOOLEAN
      <3>1. open \in BOOLEAN /\ socketFile \in BOOLEAN
        BY DEF Switches
      <3> QED
        BY <3>1, Zenon DEF GM!End, GM!JoinWriter, GM!WaitCleanly
    <2> QED
      BY <1>1, <2>1, Zenon DEF Switches
  <1>3. Traffic'
    BY <1>1 DEF Traffic
  <1>4. CASE GM!End
    <2>1. Delivery'
      <3>1. CASE handed' = handed
        BY <1>1, <1>4, <3>1 DEF GM!End, Delivery, GM!Finishing, GM!Undelivered, GM!Unstarted
      <3>2. CASE /\ writer = "running" /\ Len(handed) < QueueLimit
                 /\ handed' = Append(handed, "finish")
        <4>1. handed \in Seq({"unit", "finish"}) /\ ~GM!Finishing /\ muxer' = "joining"
          BY <1>4 DEF GM!End, Delivery
        <4>2. /\ handed' \in Seq({"unit", "finish"}) /\ Len(handed') = Len(handed) + 1
              /\ handed'[Len(handed')] = "finish" /\ handed' # <<>>
              /\ \A i \in 1 .. Len(handed) : handed'[i] = handed[i] /\ handed[i] # "finish"
          BY <3>2, <4>1 DEF Delivery, GM!Finishing
        <4>3. GM!Finishing' /\ GM!Undelivered' = Len(handed) /\ GM!Undelivered = Len(handed)
          BY <4>1, <4>2 DEF GM!Finishing, GM!Undelivered
        <4>4. /\ muxed \in Nat /\ muxed <= received /\ writer' = writer /\ muxed' = muxed
              /\ muxed + Len(handed) = received /\ received' = received
          BY <1>1, <3>2, <4>3 DEF Delivery
        <4>5. Len(handed') <= QueueLimit
          BY <3>2, <4>1, <4>2, RecordingAssumption DEF GM!MuxerAssumption
        <4>6. muxed' <= received' /\ muxed' + GM!Undelivered' = received' /\ muxed' \in Nat
          BY <4>3, <4>4
        <4>7. \A i \in 1 .. Len(handed') : handed'[i] = "finish" => i = Len(handed')
          BY <4>1, <4>2
        <4>8. ~GM!Unstarted' /\ writer' = "running"
          BY <3>2, <4>1, <4>4 DEF GM!Unstarted
        <4> QED
          BY <4>1, <4>2, <4>5, <4>6, <4>7, <4>8 DEF Delivery
      <3> QED
        BY <1>4, <3>1, <3>2 DEF GM!End
    <2>2. Stages'
      BY <1>1, <1>4 DEF GM!End, Stages, GM!Unstarted
    <2> QED
      BY <1>2, <1>3, <2>1, <2>2
  <1>5. CASE GM!JoinWriter
    <2>1. Delivery'
      BY <1>1, <1>5 DEF GM!JoinWriter, Delivery, GM!Finishing, GM!Undelivered, GM!Unstarted
    <2>2. Stages'
      BY <1>1, <1>5 DEF GM!JoinWriter, GM!Joined, Stages, GM!Unstarted
    <2> QED
      BY <1>2, <1>3, <2>1, <2>2
  <1>6. CASE GM!WaitCleanly
    <2>1. muxed = received /\ writer = "done" /\ handed' = handed
      BY <1>6 DEF GM!WaitCleanly, Stages, Delivery, GM!Undelivered, GM!Finishing
    <2>2. Delivery'
      BY <1>1, <2>1 DEF Delivery, GM!Finishing, GM!Undelivered, GM!Unstarted
    <2>3. Stages'
      BY <1>1, <1>6, <2>1 DEF GM!WaitCleanly, Stages, GM!Unstarted
    <2> QED
      BY <1>2, <1>3, <2>2, <2>3
  <1> QED
    BY <1>4, <1>5, <1>6

\* The writer thread and FFmpeg.
LEMMA MuxerWrites ==
    ASSUME MuxerParts, GM!Write \/ GM!Conclude \/ GM!FfmpegEnds
    PROVE  MuxerParts'
  <1> USE DEF MuxerParts, GM!writerVars, GM!hookVars, GM!mainThread
  <1>1. /\ UNCHANGED <<brittle, caller, pidKnown, wire, hungUp, packets, muxer, outcome, graceful,
                       lastPts, received, open, socketFile>>
        /\ muxer # "done" /\ muxer # "failed"
    BY DEF GM!Write, GM!Conclude, GM!FfmpegEnds, GM!MuxerEnded
  <1>2. Switches' /\ Traffic'
    BY <1>1 DEF Switches, Traffic
  <1>3. CASE GM!Write
    <2>1. writer = "running" /\ UNCHANGED <<ffmpeg, output>>
      BY <1>3 DEF GM!Write
    <2>2. /\ handed \in Seq({"unit", "finish"}) /\ received \in Nat /\ muxed \in Nat
          /\ muxed + GM!Undelivered = received /\ ~GM!Unstarted
      BY <2>1 DEF Delivery, Traffic, Stages
    <2>3. CASE /\ handed = <<>> /\ ~open /\ writer' = "failed" /\ UNCHANGED <<handed, muxed>>
      <3>1. Delivery'
        BY <1>1, <2>3 DEF Delivery, GM!Finishing, GM!Undelivered, GM!Unstarted
      <3>2. Stages'
        BY <1>1, <2>1, <2>3 DEF Stages, GM!Unstarted
      <3> QED
        BY <1>2, <3>1, <3>2
    <2>4. CASE handed # <<>> /\ handed' = Tail(handed)
      <3>1. /\ handed' \in Seq({"unit", "finish"}) /\ Len(handed') = Len(handed) - 1
            /\ \A i \in 1 .. Len(handed') : handed'[i] = handed[i + 1] /\ i + 1 \in 1 .. Len(handed)
            /\ Head(handed) = handed[1] /\ 1 \in 1 .. Len(handed) /\ Len(handed) \in Nat
        BY <2>2, <2>4
      <3>2. \A i \in 1 .. Len(handed') : handed'[i] = "finish" => i = Len(handed')
        BY <3>1 DEF Delivery
      <3>3. CASE Head(handed) = "finish"
        <4>1. Len(handed) = 1 /\ handed' = <<>>
          BY <3>1, <3>3 DEF Delivery
        <4>2. writer' = "ending" /\ muxed' = muxed
          BY <1>3, <2>4, <3>3 DEF GM!Write
        <4>3. muxed = received /\ muxer \notin {"reading", "ending"}
          <5>1. GM!Finishing
            BY <2>4, <3>1, <3>3, <4>1 DEF GM!Finishing
          <5>2. GM!Undelivered = 0
            BY <4>1, <5>1 DEF GM!Undelivered
          <5> QED
            BY <2>2, <5>1, <5>2 DEF Delivery
        <4>4. Delivery'
          <5>1. /\ ~GM!Finishing' /\ GM!Undelivered' = 0 /\ ~GM!Unstarted' /\ Len(handed') = 0
                /\ muxed' = received' /\ muxed' \in Nat
            BY <1>1, <2>2, <4>1, <4>2, <4>3 DEF GM!Finishing, GM!Undelivered, GM!Unstarted
          <5>2. Len(handed') <= QueueLimit
            BY <5>1, RecordingAssumption DEF GM!MuxerAssumption
          <5>3. muxed' <= received' /\ muxed' + GM!Undelivered' = received'
            <6>1. \A n \in Nat : n <= n /\ n + 0 = n
              OBVIOUS
            <6> QED
              BY <5>1, <6>1, Zenon
          <5>4. handed' \in Seq({"unit", "finish"})
            BY <4>1
          <5> QED
            BY <3>2, <4>1, <5>1, <5>2, <5>3, <5>4 DEF Delivery
        <4>5. Stages'
          BY <1>1, <2>1, <2>2, <4>2, <4>3 DEF Stages, GM!Unstarted
        <4> QED
          BY <1>2, <4>4, <4>5
      <3>4. CASE Head(handed) # "finish"
        <4>1. Len(handed') # 0 => handed'[Len(handed')] = handed[Len(handed)]
          BY <3>1
        <4>2. GM!Finishing' <=> GM!Finishing
          BY <2>2, <3>1, <3>4, <4>1 DEF GM!Finishing
        <4>3. GM!Undelivered' = GM!Undelivered - 1
          BY <3>1, <4>2 DEF GM!Undelivered
        <4>4. \/ muxed' = muxed + 1 /\ writer' = writer
              \/ muxed' = muxed /\ writer' = "failed"
          BY <1>3, <2>4, <3>4 DEF GM!Write
        <4>5. muxed + 1 <= received
          BY <2>2, <2>4, <3>1, <3>4 DEF GM!Undelivered, GM!Finishing
        <4>6. Delivery'
          <5>1. /\ ~GM!Unstarted' /\ received' = received /\ muxer' = muxer
                /\ muxer' # "done" /\ writer' \in {"running", "failed"}
            BY <1>1, <2>1, <2>2, <4>4 DEF GM!Unstarted
          <5>2. GM!Undelivered \in Int
            BY <2>2 DEF GM!Undelivered
          <5>3. /\ muxed' \in Nat /\ muxed' <= received'
                /\ writer' # "failed" => muxed' + GM!Undelivered' = received'
            BY <2>1, <2>2, <4>3, <4>4, <4>5, <5>1, <5>2
          <5>4. Len(handed') <= QueueLimit
            BY <3>1, RecordingAssumption DEF GM!MuxerAssumption, Delivery
          <5>5. muxer' \in {"reading", "ending"} => ~GM!Finishing'
            BY <4>2, <5>1 DEF Delivery
          <5> QED
            BY <3>1, <3>2, <5>1, <5>3, <5>4, <5>5 DEF Delivery
        <4>7. Stages'
          BY <1>1, <2>1, <2>2, <4>4 DEF Stages, GM!Unstarted
        <4> QED
          BY <1>2, <4>6, <4>7
      <3> QED
        BY <3>3, <3>4
    <2> QED
      BY <1>3, <2>3, <2>4 DEF GM!Write
  <1>4. CASE GM!Conclude
    <2>1. Delivery'
      BY <1>1, <1>4 DEF GM!Conclude, Delivery, GM!Finishing, GM!Undelivered, GM!Unstarted
    <2>2. Stages'
      BY <1>1, <1>4 DEF GM!Conclude, Stages, GM!Unstarted
    <2> QED
      BY <1>2, <2>1, <2>2
  <1>5. CASE GM!FfmpegEnds
    <2>1. Delivery'
      BY <1>1, <1>5 DEF GM!FfmpegEnds, Delivery, GM!Finishing, GM!Undelivered, GM!Unstarted
    <2>2. Stages'
      BY <1>1, <1>5 DEF GM!FfmpegEnds, Stages, GM!Unstarted
    <2> QED
      BY <1>2, <2>1, <2>2
  <1> QED
    BY <1>3, <1>4, <1>5

\* The invariant of the muxer is inductive.
LEMMA MuxerStep == MuxerParts /\ GM!MuxerNext => MuxerParts'
  BY MuxerPeers, MuxerAccepts, MuxerReads, MuxerEnds, MuxerWrites DEF GM!MuxerNext

-----------------------------------------------------------------------------
(* The recording engine.                                                   *)

\* The invariant of the engine in parts, each over its own variables.
EngineSwitches == paced \in BOOLEAN /\ told \in BOOLEAN /\ halted \in BOOLEAN

EngineLines ==
    /\ spoken \in 0 .. MaxOrders /\ mishaps \in 0 .. MaxMishaps
    /\ piped \in Seq(EN!Lines) /\ orders \in Seq(EN!Lines)
    /\ file \in {"none", "open", "indexed", "cut"}

EngineStages ==
    /\ main \in {"starting", "top", "waiting", "picking", "shooting", "shot", "halting", "finishing",
                 "joining", "done", "failed"}
    /\ shot \in [slot : 0 .. Pool, at : 0 .. MaxClock]
    /\ main \in {"shooting", "shot"} => shot.slot # 0
    /\ EN!Recording /\ main \notin {"shooting", "shot"} => shot.slot = 0

SparesOnce ==
    /\ spare \in Seq(1 .. Pool)
    /\ \A i, j \in DOMAIN spare : spare[i] = spare[j] => i = j

BacklogOnce ==
    /\ backlog \in Seq(EN!Commands) /\ Len(backlog) <= Backlog
    /\ \A i, j \in DOMAIN backlog :
          backlog[i].kind = "frame" /\ backlog[j].kind = "frame" /\ backlog[i].slot = backlog[j].slot
              => i = j

Releases ==
    /\ releases \in [1 .. Pool -> [inFlight : 0 .. InPipeline, checks : Nat,
                                   retired : BOOLEAN, returned : BOOLEAN]]
    /\ pushing \in [slot : 0 .. Pool, next : Nat, target : Nat]
    /\ worker \in {"idle", "pushing", "retiring", "returning", "draining", "muxing", "done", "failed"}
    /\ worker \in {"pushing", "retiring", "returning"} => pushing.slot # 0
    /\ worker \in {"idle", "draining", "muxing", "done"} => pushing.slot = 0
    /\ EN!ReleasesInv

\* Where the buffer s is, and that it is somewhere.
Apart(s) ==
    /\ EN!Spares(s) => shot.slot # s /\ ~EN!Queued(s) /\ ~EN!Holding(s)
    /\ shot.slot = s => ~EN!Queued(s) /\ ~EN!Holding(s)
    /\ EN!Queued(s) => ~EN!Holding(s)
Somewhere(s) == EN!Spares(s) \/ shot.slot = s \/ EN!Queued(s) \/ EN!Holding(s)
Kept == EN!Recording /\ worker # "failed"
Places == \A s \in 1 .. Pool : Apart(s) /\ (Kept => Somewhere(s))

Pauses ==
    /\ clock \in 0 .. MaxClock /\ pausedFor \in 0 .. MaxClock
    /\ origin \subseteq 0 .. MaxClock /\ pausedAt \subseteq 0 .. MaxClock
    /\ pausedFor <= clock
    /\ \A p \in pausedAt : pausedFor <= p /\ p <= clock

Timeline ==
    /\ reached \in Nat /\ written \in Nat /\ unfilled \in Nat
    /\ worker \in {"idle", "draining", "muxing", "done"} => pushing = EN!NoPush
    /\ worker \in {"pushing", "retiring", "returning"} =>
          /\ written + unfilled = pushing.next
          /\ worker = "pushing" => pushing.next <= pushing.target
          /\ worker # "pushing" => pushing.next = pushing.target + 1
    /\ worker = "idle" => written + unfilled = reached /\ (reached = 0 => origin = {})

EngineParts ==
    /\ EngineSwitches /\ EngineLines /\ EngineStages /\ SparesOnce /\ BacklogOnce
    /\ Releases /\ Places /\ Pauses /\ Timeline

\* No pool is larger than its buffers.
LEMMA SpareLength == SparesOnce => Len(spare) <= Pool
  <1> SUFFICES ASSUME SparesOnce PROVE Len(spare) <= Pool
      OBVIOUS
  <1>1. spare \in Injection(1 .. Len(spare), 1 .. Pool)
    <2>1. spare \in [1 .. Len(spare) -> 1 .. Pool]
      BY LenProperties DEF SparesOnce
    <2>2. IsInjective(spare)
      BY Zenon DEF SparesOnce, IsInjective
    <2> QED
      BY <2>1, <2>2, Zenon DEF Injection
  <1>2. Len(spare) \in Nat /\ Pool \in Nat
    BY RecordingAssumption DEF SparesOnce, EN!EngineAssumption
  <1> QED
    BY <1>1, <1>2, Fun_NatInjLeq DEF ExistsInjection

\* The parts make up the invariant.
LEMMA EngineInvParts == EN!EngineInv <=> EngineParts
  <1> USE RecordingAssumption DEF EN!EngineAssumption
  <1>1. ASSUME EN!EngineInv PROVE EngineParts
    <2> USE <1>1 DEF EN!EngineInv, EN!EngineTypeOK
    <2>1. EngineSwitches
      BY Zenon DEF EngineSwitches
    <2>2. EngineLines
      BY DEF EngineLines
    <2>3. EngineStages
      BY DEF EngineStages
    <2>4. SparesOnce /\ BacklogOnce
      BY DEF SparesOnce, BacklogOnce, EN!PlacesInv
    <2>5. Releases
      <3>1. worker \in {"pushing", "retiring", "returning"} => pushing.slot # 0
        BY Zenon DEF EN!TimelineInv
      <3>2. worker \in {"idle", "draining", "muxing", "done"} => pushing.slot = 0
        BY DEF EN!TimelineInv, EN!NoPush
      <3> QED
        BY <3>1, <3>2, Zenon DEF Releases
    <2>6. Places
      BY Zenon DEF Places, Apart, Somewhere, Kept, EN!PlacesInv
    <2>7. Pauses
      BY DEF Pauses, EN!TimelineInv
    <2>8. Timeline
      BY DEF Timeline, EN!TimelineInv
    <2> HIDE <1>1 DEF EN!EngineInv, EN!EngineTypeOK
    <2> QED
      BY <2>1, <2>2, <2>3, <2>4, <2>5, <2>6, <2>7, <2>8 DEF EngineParts
  <1>2. ASSUME EngineParts PROVE EN!EngineInv
    <2> USE <1>2 DEF EngineParts
    <2>1. EN!PlacesInv
      BY Zenon DEF Places, Apart, Somewhere, Kept, EN!PlacesInv, SparesOnce, BacklogOnce
    <2>2. EN!ReleasesInv
      BY DEF Releases
    <2>3. EN!TimelineInv
      BY DEF Timeline, Pauses, Releases, EN!TimelineInv
    <2>4. EN!EngineTypeOK
      <3>1. {reached, written, unfilled} \subseteq Nat
        BY DEF Timeline
      <3>2. Len(spare) <= Pool
        BY SpareLength
      <3> QED
        BY <3>1, <3>2, Zenon DEF EN!EngineTypeOK, EngineSwitches, EngineLines, EngineStages,
           SparesOnce, BacklogOnce, Releases, Pauses
    <2>5. /\ main \in {"shooting", "shot"} => shot.slot # 0
          /\ EN!Recording /\ main \notin {"shooting", "shot"} => shot.slot = 0
      BY DEF EngineStages
    <2> HIDE <1>2 DEF EngineParts
    <2> QED
      BY <2>1, <2>2, <2>3, <2>4, <2>5, Zenon DEF EN!EngineInv
  <1> QED
    BY <1>1, <1>2

\* The three kinds of commands to the worker.
LEMMA CommandKinds ==
    /\ \A c \in EN!Commands :
          /\ c.kind \in {"frame", "pause", "finish"}
          /\ c.kind = "frame" => c.slot \in 1 .. Pool /\ c.at \in 0 .. MaxClock
          /\ c.kind = "pause" => c.on \in BOOLEAN
    /\ \A s \in 1 .. Pool, at \in 0 .. MaxClock :
          [kind |-> "frame", slot |-> s, at |-> at] \in EN!Commands
    /\ \A on \in BOOLEAN : [kind |-> "pause", on |-> on] \in EN!Commands
    /\ [kind |-> "finish"] \in EN!Commands
  <1>1. \A c \in EN!Commands :
            /\ c.kind \in {"frame", "pause", "finish"}
            /\ c.kind = "frame" => c.slot \in 1 .. Pool /\ c.at \in 0 .. MaxClock
            /\ c.kind = "pause" => c.on \in BOOLEAN
    BY DEF EN!Commands
  <1>2. \A s \in 1 .. Pool, at \in 0 .. MaxClock :
            [kind |-> "frame", slot |-> s, at |-> at] \in EN!Commands
    BY DEF EN!Commands
  <1>3. \A on \in BOOLEAN : [kind |-> "pause", on |-> on] \in EN!Commands
    BY DEF EN!Commands
  <1>4. [kind |-> "finish"] \in EN!Commands
    BY DEF EN!Commands
  <1> QED
    BY <1>1, <1>2, <1>3, <1>4

\* The head and the tail of a sequence.
LEMMA TailFacts ==
    ASSUME NEW S, NEW q \in Seq(S), q # <<>>
    PROVE  /\ Head(q) = q[1] /\ q[1] \in S
           /\ Tail(q) \in Seq(S) /\ Len(Tail(q)) = Len(q) - 1
           /\ \A i \in 1 .. Len(q) - 1 : Tail(q)[i] = q[i + 1]
  OBVIOUS

\* A buffer that comes back to the pool.
LEMMA SpareAppended ==
    ASSUME SparesOnce, NEW k \in 1 .. Pool, ~EN!Spares(k), spare' = Append(spare, k)
    PROVE  /\ SparesOnce'
           /\ \A s \in 1 .. Pool : EN!Spares(s)' <=> EN!Spares(s) \/ s = k
  <1>1. /\ spare \in Seq(1 .. Pool) /\ DOMAIN spare = 1 .. Len(spare) /\ Len(spare) \in Nat
        /\ spare' \in Seq(1 .. Pool) /\ DOMAIN spare' = 1 .. Len(spare) + 1
        /\ \A i \in 1 .. Len(spare) : spare'[i] = spare[i]
        /\ spare'[Len(spare) + 1] = k
    BY DEF SparesOnce
  <1>2. \A i \in 1 .. Len(spare) : spare[i] # k
    BY <1>1 DEF EN!Spares
  <1>3. \A i \in 1 .. Len(spare) + 1 : i \in 1 .. Len(spare) \/ i = Len(spare) + 1
    BY <1>1
  <1>4. /\ \A i \in 1 .. Len(spare) : i \in 1 .. Len(spare) + 1
        /\ Len(spare) + 1 \in 1 .. Len(spare) + 1
    BY <1>1
  <1>5. SparesOnce'
    BY <1>1, <1>2, <1>3 DEF SparesOnce
  <1>6. ASSUME NEW s \in 1 .. Pool PROVE EN!Spares(s)' <=> EN!Spares(s) \/ s = k
    BY <1>1, <1>3, <1>4 DEF EN!Spares
  <1> QED
    BY <1>5, <1>6

\* A spare buffer that is taken.
LEMMA SpareTaken ==
    ASSUME SparesOnce, spare # <<>>, spare' = Tail(spare)
    PROVE  /\ SparesOnce' /\ Head(spare) \in 1 .. Pool /\ EN!Spares(Head(spare))
           /\ \A s \in 1 .. Pool : EN!Spares(s)' <=> EN!Spares(s) /\ s # Head(spare)
  <1> DEFINE n == Len(spare) - 1
  <1>1. /\ spare \in Seq(1 .. Pool) /\ DOMAIN spare = 1 .. Len(spare) /\ n \in Nat
        /\ Len(spare) = n + 1
        /\ spare' \in Seq(1 .. Pool) /\ DOMAIN spare' = 1 .. n
        /\ \A i \in 1 .. n : spare'[i] = spare[i + 1]
        /\ Head(spare) = spare[1] /\ spare[1] \in 1 .. Pool
    <2>1. spare \in Seq(1 .. Pool)
      BY DEF SparesOnce
    <2>2. n \in Nat /\ Len(spare) = n + 1 /\ DOMAIN spare = 1 .. Len(spare)
      BY <2>1
    <2>3. /\ Tail(spare) \in Seq(1 .. Pool) /\ Len(Tail(spare)) = n
          /\ \A i \in 1 .. n : Tail(spare)[i] = spare[i + 1]
          /\ Head(spare) = spare[1] /\ spare[1] \in 1 .. Pool
      BY <2>1, <2>2, TailFacts
    <2>4. DOMAIN spare' = 1 .. n
      BY <2>2, <2>3
    <2> QED
      BY <2>1, <2>2, <2>3, <2>4
  <1> HIDE DEF n
  <1>2. /\ \A i \in 1 .. n : i + 1 \in 1 .. n + 1 /\ i + 1 # 1
        /\ \A i \in 1 .. n + 1 : i = 1 \/ (i - 1 \in 1 .. n /\ (i - 1) + 1 = i)
        /\ 1 \in 1 .. n + 1
        /\ \A i, j \in 1 .. n : i + 1 = j + 1 => i = j
    BY <1>1
  <1>3. SparesOnce'
    BY <1>1, <1>2 DEF SparesOnce
  <1>4. EN!Spares(Head(spare))
    BY <1>1, <1>2 DEF EN!Spares
  <1>5. ASSUME NEW s \in 1 .. Pool PROVE EN!Spares(s)' <=> EN!Spares(s) /\ s # Head(spare)
    <2>1. ASSUME EN!Spares(s)' PROVE EN!Spares(s) /\ s # Head(spare)
      <3>1. PICK i \in 1 .. n : spare[i + 1] = s
        BY <1>1, <2>1 DEF EN!Spares
      <3> QED
        BY <1>1, <1>2, <3>1 DEF EN!Spares, SparesOnce
    <2>2. ASSUME EN!Spares(s), s # Head(spare) PROVE EN!Spares(s)'
      <3>1. PICK i \in 1 .. n + 1 : spare[i] = s
        BY <1>1, <2>2 DEF EN!Spares
      <3>2. i - 1 \in 1 .. n /\ spare'[i - 1] = s
        BY <1>1, <1>2, <2>2, <3>1
      <3> QED
        BY <1>1, <3>2 DEF EN!Spares
    <2> QED
      BY <2>1, <2>2
  <1> QED
    BY <1>1, <1>3, <1>4, <1>5

\* A command on its way to the worker.
LEMMA CommandOffered ==
    ASSUME BacklogOnce, NEW c \in EN!Commands, EN!Offer(c),
           c.kind = "frame" => ~EN!Queued(c.slot)
    PROVE  /\ BacklogOnce' /\ worker # "failed"
           /\ \A s \in 1 .. Pool : EN!Queued(s)' <=> EN!Queued(s) \/ (c.kind = "frame" /\ c.slot = s)
  <1> DEFINE n == Len(backlog)
  <1>1. /\ backlog \in Seq(EN!Commands) /\ DOMAIN backlog = 1 .. n /\ n \in Nat
        /\ backlog' = Append(backlog, c) /\ Len(backlog) < Backlog /\ Backlog \in Nat
        /\ worker # "failed"
    BY RecordingAssumption DEF BacklogOnce, EN!Offer, EN!EngineAssumption
  <1>2. /\ backlog' \in Seq(EN!Commands) /\ DOMAIN backlog' = 1 .. n + 1 /\ Len(backlog') = n + 1
        /\ \A i \in 1 .. n : backlog'[i] = backlog[i]
        /\ backlog'[n + 1] = c
    BY <1>1
  <1>3. Len(backlog') <= Backlog
    BY <1>1, <1>2
  <1> HIDE DEF n
  <1>4. /\ \A i \in 1 .. n : i \in 1 .. n + 1
        /\ \A i \in 1 .. n + 1 : i \in 1 .. n \/ i = n + 1
        /\ n + 1 \in 1 .. n + 1
    BY <1>1
  <1>5. c.kind = "frame" => \A i \in 1 .. n : backlog[i].kind = "frame" => backlog[i].slot # c.slot
    BY <1>1 DEF EN!Queued
  <1>6. ASSUME NEW i \in DOMAIN backlog', NEW j \in DOMAIN backlog',
               backlog'[i].kind = "frame", backlog'[j].kind = "frame",
               backlog'[i].slot = backlog'[j].slot
        PROVE  i = j
    <2>1. CASE i \in 1 .. n /\ j \in 1 .. n
      BY <1>1, <1>2, <1>6, <2>1 DEF BacklogOnce
    <2>2. CASE i = n + 1 \/ j = n + 1
      BY <1>2, <1>4, <1>5, <1>6, <2>2
    <2> QED
      BY <1>2, <1>4, <2>1, <2>2
  <1>7. BacklogOnce'
    BY <1>2, <1>3, <1>6 DEF BacklogOnce
  <1>8. ASSUME NEW s \in 1 .. Pool
        PROVE  EN!Queued(s)' <=> EN!Queued(s) \/ (c.kind = "frame" /\ c.slot = s)
    BY <1>1, <1>2, <1>4 DEF EN!Queued
  <1> QED
    BY <1>1, <1>7, <1>8

\* A command that the worker takes.
LEMMA CommandTaken ==
    ASSUME BacklogOnce, backlog # <<>>, backlog' = Tail(backlog)
    PROVE  /\ BacklogOnce' /\ Head(backlog) \in EN!Commands
           /\ Head(backlog).kind = "frame" => EN!Queued(Head(backlog).slot)
           /\ \A s \in 1 .. Pool : EN!Queued(s)' <=>
                  EN!Queued(s) /\ ~(Head(backlog).kind = "frame" /\ Head(backlog).slot = s)
  <1> DEFINE n == Len(backlog) - 1
             c == Head(backlog)
  <1>1. /\ backlog \in Seq(EN!Commands) /\ DOMAIN backlog = 1 .. Len(backlog) /\ n \in Nat
        /\ Len(backlog) = n + 1 /\ Len(backlog) <= Backlog /\ Backlog \in Nat
        /\ backlog' \in Seq(EN!Commands) /\ DOMAIN backlog' = 1 .. n /\ Len(backlog') = n
        /\ \A i \in 1 .. n : backlog'[i] = backlog[i + 1]
        /\ c = backlog[1] /\ c \in EN!Commands
    BY RecordingAssumption DEF BacklogOnce, EN!EngineAssumption
  <1> HIDE DEF n, c
  <1>2. /\ \A i \in 1 .. n : i + 1 \in 1 .. n + 1 /\ i + 1 # 1
        /\ \A i \in 1 .. n + 1 : i = 1 \/ (i - 1 \in 1 .. n /\ (i - 1) + 1 = i)
        /\ 1 \in 1 .. n + 1 /\ n <= Backlog
        /\ \A i, j \in 1 .. n : i + 1 = j + 1 => i = j
    BY <1>1
  <1>3. \A i, j \in 1 .. n + 1 :
            backlog[i].kind = "frame" /\ backlog[j].kind = "frame" /\ backlog[i].slot = backlog[j].slot
                => i = j
    BY <1>1 DEF BacklogOnce
  <1>4. BacklogOnce'
    BY <1>1, <1>2, <1>3 DEF BacklogOnce
  <1>5. c.kind = "frame" => EN!Queued(c.slot)
    BY <1>1, <1>2 DEF EN!Queued
  <1>6. ASSUME NEW s \in 1 .. Pool
        PROVE  EN!Queued(s)' <=> EN!Queued(s) /\ ~(c.kind = "frame" /\ c.slot = s)
    <2>1. ASSUME EN!Queued(s)' PROVE EN!Queued(s) /\ ~(c.kind = "frame" /\ c.slot = s)
      <3>1. PICK i \in 1 .. n : backlog[i + 1].kind = "frame" /\ backlog[i + 1].slot = s
        BY <1>1, <2>1 DEF EN!Queued
      <3> QED
        BY <1>1, <1>2, <1>3, <3>1 DEF EN!Queued
    <2>2. ASSUME EN!Queued(s), ~(c.kind = "frame" /\ c.slot = s) PROVE EN!Queued(s)'
      <3>1. PICK i \in 1 .. n + 1 : backlog[i].kind = "frame" /\ backlog[i].slot = s
        BY <1>1, <2>2 DEF EN!Queued
      <3>2. i - 1 \in 1 .. n /\ backlog'[i - 1] = backlog[i]
        BY <1>1, <1>2, <2>2, <3>1
      <3> QED
        BY <1>1, <3>1, <3>2 DEF EN!Queued
    <2> QED
      BY <2>1, <2>2
  <1> QED
    BY <1>1, <1>4, <1>5, <1>6 DEF c

\* No buffer has more references in the pipeline than the pipeline holds.
LEMMA PartOfFlight ==
    ASSUME \A s \in 1 .. Pool : releases[s].inFlight \in Nat
    PROVE  EN!InFlight \in Nat /\ \A s \in 1 .. Pool : releases[s].inFlight <= EN!InFlight
  <1> DEFINE Sums(n, g) == g = [s \in 0 .. n |-> IF s = 0 THEN 0 ELSE g[s - 1] + releases[s].inFlight]
             N == {n \in Nat : \E g : Sums(n, g)}
  <1>p. Pool \in Nat
    BY RecordingAssumption DEF EN!EngineAssumption
  <1>1. 0 \in N
    <2> DEFINE g == [s \in 0 .. 0 |-> 0]
    <2>1. \A s \in 0 .. 0 : s = 0
      OBVIOUS
    <2>2. Sums(0, g)
      BY <2>1
    <2> HIDE DEF g, Sums
    <2> QED
      BY <2>2
  <1>2. ASSUME NEW n \in Nat, n \in N PROVE n + 1 \in N
    <2>1. PICK g : Sums(n, g)
      BY <1>2
    <2> DEFINE last == g[n] + releases[n + 1].inFlight
               h == [s \in 0 .. n + 1 |-> IF s = n + 1 THEN last ELSE g[s]]
    <2>2. /\ \A s \in 0 .. n : h[s] = g[s] /\ s # n + 1 /\ s \in 0 .. n + 1
          /\ \A s \in 0 .. n + 1 : s = n + 1 \/ s \in 0 .. n
          /\ n + 1 # 0 /\ (n + 1) - 1 = n /\ n \in 0 .. n
      OBVIOUS
    <2>3. ASSUME NEW s \in 0 .. n + 1
          PROVE  (IF s = n + 1 THEN last ELSE g[s])
                   = (IF s = 0 THEN 0 ELSE h[s - 1] + releases[s].inFlight)
      <3>1. CASE s = n + 1
        <4>1. h[n] = g[n]
          BY <2>2
        <4> HIDE DEF h
        <4> QED
          BY <2>2, <3>1, <4>1
      <3>2. CASE s \in 0 .. n
        <4>1. g[s] = IF s = 0 THEN 0 ELSE g[s - 1] + releases[s].inFlight
          BY <2>1, <3>2
        <4>2. s # 0 => s - 1 \in 0 .. n /\ h[s - 1] = g[s - 1]
          BY <3>2, <2>2
        <4> HIDE DEF h
        <4> QED
          BY <2>2, <3>2, <4>1, <4>2
      <3> QED
        BY <2>2, <3>1, <3>2
    <2>4. Sums(n + 1, h)
      BY <2>3
    <2> HIDE DEF h, Sums
    <2> QED
      BY <2>4
  <1>3. Pool \in N
    <2> HIDE DEF N
    <2> QED
      BY <1>1, <1>2, <1>p, SetInduction
  <1>4. PICK g : Sums(Pool, g) /\ EN!InFlight = g[Pool]
    <2>1. PICK g : Sums(Pool, g)
      BY <1>3
    <2> QED
      BY <2>1 DEF EN!InFlight
  <1>5. \A s \in 0 .. Pool : g[s] = IF s = 0 THEN 0 ELSE g[s - 1] + releases[s].inFlight
    BY <1>4
  <1> HIDE DEF Sums, N
  <1> DEFINE M == {n \in Nat : n <= Pool =>
                        g[n] \in Nat /\ \A s \in 1 .. n : releases[s].inFlight <= g[n]}
  <1>6. 0 \in M
    BY <1>p, <1>5
  <1>7. ASSUME NEW n \in Nat, n \in M PROVE n + 1 \in M
    <2> SUFFICES ASSUME n + 1 <= Pool
                 PROVE  g[n + 1] \in Nat /\ \A s \in 1 .. n + 1 : releases[s].inFlight <= g[n + 1]
      OBVIOUS
    <2>1. g[n] \in Nat /\ \A s \in 1 .. n : releases[s].inFlight <= g[n]
      BY <1>p, <1>7
    <2>2. n + 1 \in 1 .. Pool /\ n + 1 \in 0 .. Pool /\ (n + 1) - 1 = n /\ n + 1 # 0
      BY <1>p
    <2>3. g[n + 1] = g[n] + releases[n + 1].inFlight /\ releases[n + 1].inFlight \in Nat
      BY <1>5, <2>2
    <2>4. \A s \in 1 .. n + 1 : s = n + 1 \/ (s \in 1 .. n /\ s \in 1 .. Pool)
      BY <1>p, <2>2
    <2> QED
      BY <2>1, <2>3, <2>4
  <1>8. Pool \in M
    <2> HIDE DEF M
    <2> QED
      BY <1>6, <1>7, <1>p, SetInduction
  <1> QED
    BY <1>p, <1>4, <1>8

\* The first state of the engine.
LEMMA EngineStart == EN!EngineInit => EngineParts
  <1> SUFFICES ASSUME EN!EngineInit PROVE EngineParts
      OBVIOUS
  <1> USE RecordingAssumption DEF EN!EngineAssumption, EN!EngineInit, EN!Fresh, EN!NoPush, EN!NoShot
  <1>1. EngineSwitches
    BY Zenon DEF EngineSwitches
  <1>2. EngineLines
    BY DEF EngineLines
  <1>3. EngineStages
    BY DEF EngineStages
  <1>4. SparesOnce
    <2>1. spare = [s \in 1 .. Pool |-> s]
      BY Zenon
    <2>2. DOMAIN spare = 1 .. Pool /\ Pool \in Nat /\ \A s \in 1 .. Pool : spare[s] = s
      BY <2>1
    <2>3. spare \in Seq(1 .. Pool)
      BY <2>1, <2>2
    <2> QED
      BY <2>2, <2>3 DEF SparesOnce
  <1>5. BacklogOnce
    BY DEF BacklogOnce
  <1>6. /\ \A s \in 1 .. Pool : releases[s] = EN!Fresh
        /\ releases = [s \in 1 .. Pool |-> EN!Fresh] /\ pushing = EN!NoPush /\ worker = "idle"
    BY Zenon
  <1>7. Releases
    BY <1>6 DEF Releases, EN!ReleasesInv
  <1>8. Places
    <2>1. \A s \in 1 .. Pool : s # 0 /\ ~EN!Holding(s)
      BY <1>6 DEF EN!Holding
    <2>2. \A s \in 1 .. Pool : ~EN!Queued(s) /\ EN!Spares(s) /\ shot.slot # s
      BY <2>1 DEF EN!Queued, EN!Spares
    <2> QED
      BY <2>1, <2>2 DEF Places, Apart, Somewhere
  <1>9. Pauses
    BY DEF Pauses
  <1>10. Timeline
    BY DEF Timeline
  <1> QED
    BY <1>1, <1>2, <1>3, <1>4, <1>5, <1>7, <1>8, <1>9, <1>10 DEF EngineParts

\* No buffer moves, and none has to be accounted for that was not before.
LEMMA PlacesKept ==
    ASSUME Places, UNCHANGED <<spare, shot, releases, pushing>>, Kept' => Kept,
           \A s \in 1 .. Pool : EN!Queued(s)' <=> EN!Queued(s)
    PROVE  Places'
  <1> SUFFICES ASSUME NEW s \in 1 .. Pool
               PROVE  Apart(s)' /\ (Kept' => Somewhere(s)')
    BY DEF Places
  <1>1. Apart(s) /\ (Kept => Somewhere(s)) /\ (EN!Queued(s)' <=> EN!Queued(s))
    BY DEF Places
  <1>2. (EN!Spares(s)' <=> EN!Spares(s)) /\ (EN!Holding(s)' <=> EN!Holding(s))
    BY DEF EN!Spares, EN!Holding
  <1> QED
    BY <1>1, <1>2 DEF Apart, Somewhere

\* What the time, the compositor and the reader thread do.
LEMMA EngineWorld ==
    ASSUME EngineParts, EN!Tick \/ EN!Forward \/ \E line \in EN!Lines : EN!Speak(line)
    PROVE  EngineParts'
  <1> USE DEF EngineParts, EN!mainVars, EN!workerVars, EN!timing
  <1>1. UNCHANGED <<paced, mishaps, main, halted, spare, shot, backlog, worker, pushing, releases,
                    reached, origin, pausedAt, pausedFor, written, unfilled, file>>
    BY DEF EN!Tick, EN!Forward, EN!Speak
  <1>2. EngineLines'
    <2> USE RecordingAssumption DEF EN!EngineAssumption, EngineLines
    <2>1. CASE EN!Tick
      BY <1>1, <2>1 DEF EN!Tick
    <2>2. CASE EN!Forward
      <3>1. /\ Head(piped) \in EN!Lines /\ Tail(piped) \in Seq(EN!Lines)
            /\ piped' = Tail(piped) /\ orders' = Append(orders, Head(piped)) /\ spoken' = spoken
        BY <2>2, TailFacts DEF EN!Forward
      <3> QED
        BY <1>1, <3>1
    <2>3. ASSUME NEW line \in EN!Lines, EN!Speak(line) PROVE EngineLines'
      BY <1>1, <2>3 DEF EN!Speak
    <2> QED
      BY <2>1, <2>2, <2>3
  <1>3. clock' \in 0 .. MaxClock /\ clock <= clock' /\ clock \in Nat
    BY RecordingAssumption DEF EN!EngineAssumption, Pauses, EN!Tick, EN!Forward, EN!Speak
  <1>4. Pauses'
    BY <1>1, <1>3 DEF Pauses
  <1>5. Places'
    BY <1>1, PlacesKept DEF Kept, EN!Recording, EN!Queued
  <1>6. EngineSwitches'
    <2>1. told' = told \/ \E line \in EN!Lines : told' = (line = "stop")
      BY DEF EN!Tick, EN!Forward, EN!Speak
    <2>2. paced' = paced /\ halted' = halted
      BY <1>1
    <2> QED
      BY <2>1, <2>2, Zenon DEF EngineSwitches
  <1>7. EngineStages' /\ SparesOnce' /\ BacklogOnce' /\ Releases' /\ Timeline'
    BY <1>1 DEF EngineStages, SparesOnce, BacklogOnce, Releases, Timeline,
       EN!Recording, EN!ReleasesInv
  <1> QED
    BY <1>2, <1>4, <1>5, <1>6, <1>7

\* What the main thread leaves to the worker.
Aside == UNCHANGED <<paced, told, clock, worker, pushing, releases, reached, origin, pausedAt,
                     pausedFor, written, unfilled>>

LEMMA MainFrame ==
    ASSUME EngineParts, Aside,
           halted' \in BOOLEAN, EngineLines', EngineStages', SparesOnce', BacklogOnce', Places'
    PROVE  EngineParts'
  <1> USE DEF EngineParts, Aside
  <1>1. EngineSwitches'
    BY Zenon DEF EngineSwitches
  <1>2. Releases' /\ Pauses' /\ Timeline'
    BY DEF Releases, EN!ReleasesInv, Pauses, Timeline
  <1> QED
    BY <1>1, <1>2

\* The engine starts, or does not.
LEMMA EngineStarts ==
    ASSUME EngineParts,
           \E options \in EN!Options, offered \in SUBSET EN!Depths : EN!StartUp(options, offered)
    PROVE  EngineParts'
  <1> USE DEF EngineParts
  <1>1. /\ Aside /\ UNCHANGED <<piped, spoken, orders, halted, spare, shot, backlog>>
        /\ main = "starting" /\ main' \in {"top", "failed"}
        /\ file' \in {"open", "none", "cut"}
        /\ mishaps' = mishaps \/ (mishaps < MaxMishaps /\ mishaps' = mishaps + 1)
    BY DEF EN!StartUp, EN!timing, Aside
  <1>2. EngineLines'
    BY <1>1, RecordingAssumption DEF EngineLines, EN!EngineAssumption
  <1>3. EngineStages'
    BY <1>1 DEF EngineStages, EN!Recording
  <1>4. SparesOnce' /\ BacklogOnce' /\ halted' \in BOOLEAN
    BY <1>1 DEF SparesOnce, BacklogOnce, EngineSwitches
  <1>5. Places'
    BY <1>1, PlacesKept DEF Kept, EN!Recording, Aside, EN!Queued
  <1> QED
    BY <1>1, <1>2, <1>3, <1>4, <1>5, MainFrame

\* The loop's head and the wait of a paused engine.
LEMMA EngineTurns ==
    ASSUME EngineParts, EN!Turn \/ EN!Await
    PROVE  EngineParts'
  <1> USE DEF EngineParts
  <1>1. /\ Aside /\ UNCHANGED <<piped, spoken, mishaps, file, spare, shot>>
        /\ main \in {"top", "waiting"} /\ main' \in {"top", "waiting", "picking", "finishing"}
    BY DEF EN!Turn, EN!Await, EN!given, EN!workerVars, EN!timing, Aside
  <1>2. halted' \in BOOLEAN
    <2>1. halted \in BOOLEAN
      BY DEF EngineSwitches
    <2> QED
      BY <2>1, Zenon DEF EN!Turn, EN!Await
  <1>3. orders' \in Seq(EN!Lines)
    <2>1. CASE orders # <<>> /\ orders' = Tail(orders)
      BY <2>1, TailFacts DEF EngineLines
    <2>2. CASE orders' = <<>>
      BY <2>2
    <2> QED
      BY <2>1, <2>2 DEF EN!Turn, EN!Await
  <1>4. EngineLines'
    BY <1>1, <1>3 DEF EngineLines
  <1>5. EngineStages'
    BY <1>1 DEF EngineStages, EN!Recording
  <1>6. SparesOnce'
    BY <1>1 DEF SparesOnce
  <1>7. BacklogOnce' /\ \A s \in 1 .. Pool : EN!Queued(s)' <=> EN!Queued(s)
    <2>1. CASE backlog' = backlog
      BY <2>1 DEF BacklogOnce, EN!Queued
    <2>2. ASSUME NEW on \in BOOLEAN, EN!Offer([kind |-> "pause", on |-> on])
          PROVE  BacklogOnce' /\ \A s \in 1 .. Pool : EN!Queued(s)' <=> EN!Queued(s)
      <3> DEFINE c == [kind |-> "pause", on |-> on]
      <3>1. c \in EN!Commands /\ c.kind = "pause"
        BY CommandKinds
      <3>2. EN!Offer(c)
        BY <2>2
      <3> HIDE DEF c
      <3> QED
        BY <3>1, <3>2, CommandOffered
    <2> QED
      BY <1>2, <2>1, <2>2 DEF EN!Turn, EN!Await
  <1>8. Places'
    BY <1>1, <1>7, PlacesKept DEF Kept, EN!Recording, Aside
  <1> QED
    BY <1>1, <1>2, <1>4, <1>5, <1>6, <1>7, <1>8, MainFrame

\* A spare buffer is taken for the next frame.
LEMMA EnginePicks == EngineParts /\ EN!Pick => EngineParts'
  <1> SUFFICES ASSUME EngineParts, EN!Pick PROVE EngineParts'
      OBVIOUS
  <1> USE DEF EngineParts
  <1>1. /\ Aside /\ UNCHANGED <<piped, spoken, mishaps, file, orders, halted, backlog>>
        /\ main = "picking" /\ shot.slot = 0
    BY DEF EN!Pick, EN!given, EN!workerVars, EN!timing, Aside, EngineStages, EN!Recording
  <1>2. EngineLines' /\ BacklogOnce' /\ halted' \in BOOLEAN
    BY <1>1 DEF EngineLines, BacklogOnce, EngineSwitches
  <1>3. CASE main' = "top" /\ UNCHANGED <<spare, shot>>
    <2>1. EngineStages' /\ SparesOnce'
      BY <1>1, <1>3 DEF EngineStages, SparesOnce, EN!Recording
    <2>2. Places'
      BY <1>1, <1>3, PlacesKept DEF Kept, EN!Recording, Aside, EN!Queued
    <2> QED
      BY <1>1, <1>2, <2>1, <2>2, MainFrame
  <1>4. CASE /\ spare # <<>> /\ spare' = Tail(spare) /\ shot' = [slot |-> Head(spare), at |-> 0]
             /\ main' = "shooting"
    <2> DEFINE k == Head(spare)
    <2>1. /\ SparesOnce' /\ k \in 1 .. Pool /\ EN!Spares(k)
          /\ \A s \in 1 .. Pool : EN!Spares(s)' <=> EN!Spares(s) /\ s # k
      BY <1>4, SpareTaken
    <2>2. shot' = [slot |-> k, at |-> 0] /\ main' = "shooting"
      BY <1>4
    <2> HIDE DEF k
    <2>3. EngineStages'
      BY <2>1, <2>2, RecordingAssumption DEF EN!EngineAssumption, EngineStages
    <2>4. Places'
      <3> SUFFICES ASSUME NEW s \in 1 .. Pool PROVE Apart(s)' /\ (Kept' => Somewhere(s)')
        BY DEF Places
      <3>1. /\ Apart(s) /\ (Kept => Somewhere(s)) /\ s # 0
            /\ (EN!Queued(s)' <=> EN!Queued(s)) /\ (EN!Holding(s)' <=> EN!Holding(s))
        BY <1>1 DEF Places, EN!Queued, EN!Holding, Aside
      <3>2. Kept' => Kept
        BY <1>1 DEF Kept, EN!Recording, Aside
      <3> QED
        BY <1>1, <2>1, <2>2, <3>1, <3>2 DEF Apart, Somewhere
    <2> QED
      BY <1>1, <1>2, <2>1, <2>3, <2>4, MainFrame
  <1> QED
    BY <1>3, <1>4 DEF EN!Pick

\* A dispatch while the frame is awaited keeps the captured buffer or, when the
\* engine ends, gives it up.
LEMMA EngineDispatches == EngineParts /\ EN!Dispatch => EngineParts'
  <1> SUFFICES ASSUME EngineParts, EN!Dispatch PROVE EngineParts'
      OBVIOUS
  <1> USE DEF EngineParts
  <1>1. /\ Aside /\ UNCHANGED <<piped, spoken, spare, backlog>>
        /\ main = "shooting" /\ orders' = <<>>
        /\ \/ mishaps' = mishaps /\ file' = file
           \/ mishaps < MaxMishaps /\ mishaps' = mishaps + 1 /\ file' \in {file, "cut"}
    BY DEF EN!Dispatch, EN!given, EN!workerVars, EN!timing, Aside
  <1>2. /\ shot' \in [slot : 0 .. Pool, at : 0 .. MaxClock]
        /\ \/ shot'.slot = shot.slot /\ main' \in {"shot", "shooting"}
           \/ shot'.slot = 0 /\ main' \in {"finishing", "failed"}
    BY RecordingAssumption DEF EN!Dispatch, EN!NoShot, EngineStages, Pauses, EN!EngineAssumption
  <1>3. halted' \in BOOLEAN
    BY Zenon DEF EN!Dispatch
  <1>4. EngineLines'
    BY <1>1, RecordingAssumption DEF EngineLines, EN!EngineAssumption
  <1>5. EngineStages'
    BY <1>1, <1>2 DEF EngineStages, EN!Recording
  <1>6. SparesOnce' /\ BacklogOnce'
    BY <1>1 DEF SparesOnce, BacklogOnce
  <1>7. Places'
    <2> SUFFICES ASSUME NEW s \in 1 .. Pool PROVE Apart(s)' /\ (Kept' => Somewhere(s)')
      BY DEF Places
    <2>1. /\ Apart(s) /\ (Kept => Somewhere(s)) /\ s # 0
          /\ (EN!Queued(s)' <=> EN!Queued(s)) /\ (EN!Holding(s)' <=> EN!Holding(s))
          /\ (EN!Spares(s)' <=> EN!Spares(s))
      BY <1>1 DEF Places, EN!Queued, EN!Holding, EN!Spares, Aside
    <2>2. Kept' => Kept /\ shot'.slot = shot.slot
      BY <1>1, <1>2 DEF Kept, EN!Recording, Aside
    <2> QED
      BY <1>2, <2>1, <2>2 DEF Apart, Somewhere
  <1> QED
    BY <1>1, <1>3, <1>4, <1>5, <1>6, <1>7, MainFrame

\* The completed frame goes to the worker, and with it its buffer.
LEMMA EngineSubmits == EngineParts /\ EN!Submit => EngineParts'
  <1> SUFFICES ASSUME EngineParts, EN!Submit PROVE EngineParts'
      OBVIOUS
  <1> USE DEF EngineParts
  <1>1. /\ Aside /\ UNCHANGED <<piped, spoken, mishaps, file, orders, halted, spare>>
        /\ main = "shot" /\ main' \in {"halting", "top"} /\ shot' = EN!NoShot
    BY DEF EN!Submit, EN!given, EN!workerVars, EN!timing, Aside
  <1>2. EngineLines' /\ SparesOnce' /\ halted' \in BOOLEAN
    BY <1>1 DEF EngineLines, SparesOnce, EngineSwitches
  <1>3. EngineStages'
    BY <1>1, RecordingAssumption DEF EngineStages, EN!Recording, EN!NoShot, EN!EngineAssumption
  <1> DEFINE c == [kind |-> "frame", slot |-> shot.slot, at |-> shot.at]
             k == shot.slot
  <1>4. /\ k \in 1 .. Pool /\ c \in EN!Commands /\ c.kind = "frame" /\ c.slot = k
        /\ EN!Offer(c)
    <2>1. k \in 1 .. Pool /\ shot.at \in 0 .. MaxClock
      BY <1>1, RecordingAssumption DEF EngineStages, EN!EngineAssumption
    <2> QED
      BY <2>1, CommandKinds DEF EN!Submit
  <1>5. k = shot.slot
    OBVIOUS
  <1> HIDE DEF c, k
  <1>6. ~EN!Queued(k)
    BY <1>4, <1>5 DEF Places, Apart
  <1>7. /\ BacklogOnce'
        /\ \A s \in 1 .. Pool : EN!Queued(s)' <=> EN!Queued(s) \/ s = k
    BY <1>4, <1>6, CommandOffered
  <1>8. Places'
    <2> SUFFICES ASSUME NEW s \in 1 .. Pool PROVE Apart(s)' /\ (Kept' => Somewhere(s)')
      BY DEF Places
    <2>1. /\ Apart(s) /\ (Kept => Somewhere(s)) /\ s # 0
          /\ (EN!Spares(s)' <=> EN!Spares(s)) /\ (EN!Holding(s)' <=> EN!Holding(s))
      BY <1>1 DEF Places, EN!Spares, EN!Holding, Aside
    <2>2. shot'.slot # s /\ (Kept' => Kept)
      BY <1>1, <2>1 DEF Kept, EN!Recording, Aside, EN!NoShot
    <2> QED
      BY <1>5, <1>7, <2>1, <2>2 DEF Apart, Somewhere
  <1> QED
    BY <1>1, <1>2, <1>3, <1>7, <1>8, MainFrame

\* The pause after a frame, the request to finish, and the end, which a kill brings too.
LEMMA EngineFinishes ==
    ASSUME EngineParts, EN!PauseAfter \/ EN!FinishUp \/ EN!Join \/ EN!Killed
    PROVE  EngineParts'
  <1> USE DEF EngineParts
  <1>1. /\ Aside /\ UNCHANGED <<piped, spoken, mishaps, orders, halted, spare, shot>>
        /\ \/ main = "halting" /\ main' = "top"
           \/ main' \in {"joining", "done", "failed"}
        /\ file' \in {file, "cut", "indexed"}
    BY DEF EN!PauseAfter, EN!FinishUp, EN!Join, EN!Killed, EN!given, EN!workerVars, EN!timing, Aside
  <1>2. EngineLines' /\ SparesOnce' /\ halted' \in BOOLEAN
    BY <1>1 DEF EngineLines, SparesOnce, EngineSwitches
  <1>3. EngineStages'
    BY <1>1 DEF EngineStages, EN!Recording
  <1>4. BacklogOnce' /\ \A s \in 1 .. Pool : EN!Queued(s)' <=> EN!Queued(s)
    <2>1. CASE EN!PauseAfter
      <3> DEFINE c == [kind |-> "pause", on |-> TRUE]
      <3>1. c \in EN!Commands /\ c.kind = "pause" /\ EN!Offer(c)
        BY <2>1, CommandKinds DEF EN!PauseAfter
      <3> HIDE DEF c
      <3> QED
        BY <3>1, CommandOffered
    <2>2. CASE EN!FinishUp
      <3> DEFINE c == [kind |-> "finish"]
      <3>1. c \in EN!Commands /\ c.kind = "finish" /\ EN!Offer(c)
        BY <2>2, CommandKinds DEF EN!FinishUp
      <3> HIDE DEF c
      <3> QED
        BY <3>1, CommandOffered
    <2>3. CASE EN!Join \/ EN!Killed
      BY <2>3 DEF EN!Join, EN!Killed, BacklogOnce, EN!Queued
    <2> QED
      BY <2>1, <2>2, <2>3
  <1>5. Places'
    BY <1>1, <1>4, PlacesKept DEF Kept, EN!Recording, Aside
  <1> QED
    BY <1>1, <1>2, <1>3, <1>4, <1>5, MainFrame

\* frame_index_at is a number, and 0 for the first frame.
LEMMA IndexFacts ==
    ASSUME Pauses, NEW at \in 0 .. MaxClock
    PROVE  EN!IndexAt(at) \in Nat /\ (origin = {} => EN!IndexAt(at) = 0)
  <1> DEFINE S == IF origin = {} THEN {at} ELSE origin
             o == CHOOSE x \in S : TRUE
  <1>1. o \in S
    <2>1. S # {}
      OBVIOUS
    <2> HIDE DEF S
    <2> QED
      BY <2>1
  <1>2. /\ at \in Nat /\ pausedFor \in Nat /\ MaxClock \in Nat
        /\ o \in Nat /\ (origin = {} => o = at)
    <2>1. MaxClock \in Nat /\ pausedFor \in Nat /\ origin \subseteq 0 .. MaxClock
      BY RecordingAssumption DEF Pauses, EN!EngineAssumption
    <2>2. S \subseteq 0 .. MaxClock /\ (origin = {} => S = {at})
      BY <2>1
    <2> HIDE DEF S, o
    <2> QED
      BY <1>1, <2>1, <2>2
  <1>3. EN!IndexAt(at) = EN!Monus(EN!Monus(at, o), pausedFor)
    BY Zenon DEF EN!IndexAt
  <1> HIDE DEF S, o
  <1>4. \A a, b \in Nat : EN!Monus(a, b) \in Nat /\ (a <= b => EN!Monus(a, b) = 0)
    BY DEF EN!Monus
  <1>5. EN!Monus(at, o) \in Nat /\ (origin = {} => EN!Monus(at, o) = 0)
    BY <1>2, <1>4
  <1>6. pausedFor >= 0
    BY <1>2
  <1> QED
    BY <1>2, <1>3, <1>4, <1>5, <1>6

\* cfr_span fills and leaves out what is between the time line's end and the frame.
LEMMA SpanFacts ==
    ASSUME NEW index \in Nat, reached \in Nat, reached = 0 => index = 0, reached <= index
    PROVE  /\ EN!CfrSpan(index).first \in Nat /\ EN!CfrSpan(index).unfilled \in Nat
           /\ EN!CfrSpan(index).first <= index
           /\ reached + EN!CfrSpan(index).unfilled = EN!CfrSpan(index).first
  <1> DEFINE missing == IF reached = 0 THEN 0 ELSE index - reached
             duplicates == EN!Lesser(missing, FillLimit)
  <1>1. FillLimit \in Nat
    BY RecordingAssumption DEF EN!EngineAssumption
  <1>2. missing \in Nat /\ missing <= index /\ reached + missing = index
    OBVIOUS
  <1>3. EN!CfrSpan(index) = [first |-> index - duplicates, unfilled |-> missing - duplicates]
    BY Zenon DEF EN!CfrSpan
  <1> HIDE DEF missing
  <1>4. duplicates \in Nat /\ duplicates <= missing
    BY <1>1, <1>2 DEF EN!Lesser
  <1> HIDE DEF duplicates
  <1>5. /\ index - duplicates \in Nat /\ missing - duplicates \in Nat
        /\ index - duplicates <= index /\ reached + (missing - duplicates) = index - duplicates
    BY <1>2, <1>4
  <1> QED
    BY <1>3, <1>5

\* A frame the worker takes is skipped, or pushed from the end of the time line.
LEMMA FrameTaken ==
    ASSUME EngineParts, worker = "idle", NEW f \in EN!Commands, f.kind = "frame", EN!TakeFrame(f)
    PROVE  /\ origin' \subseteq 0 .. MaxClock /\ UNCHANGED <<pausedAt, pausedFor>>
           /\ \/ /\ spare' = Append(spare, f.slot) /\ reached # 0
                 /\ UNCHANGED <<worker, pushing, releases, unfilled>>
              \/ /\ unfilled' \in Nat /\ spare' = spare
                 /\ \E first, target \in Nat :
                       /\ EN!StartPush(f.slot, first, target)
                       /\ first <= target /\ written + unfilled' = first
  <1> USE DEF EngineParts
  <1>1. f.at \in 0 .. MaxClock
    BY CommandKinds
  <1> DEFINE index == EN!IndexAt(f.at)
  <1>2. /\ index \in Nat /\ reached \in Nat /\ written \in Nat /\ unfilled \in Nat
        /\ written + unfilled = reached /\ (reached = 0 => index = 0)
    BY <1>1, IndexFacts DEF Timeline
  <1>3. origin' \subseteq 0 .. MaxClock /\ UNCHANGED <<pausedAt, pausedFor>>
    BY <1>1 DEF EN!TakeFrame, Pauses
  <1>4. \/ /\ reached # 0 /\ spare' = Append(spare, f.slot)
           /\ UNCHANGED <<worker, pushing, releases, unfilled>>
        \/ /\ reached = 0 \/ index >= reached
           /\ EN!StartPush(f.slot, EN!CfrSpan(index).first, index)
           /\ unfilled' = unfilled + EN!CfrSpan(index).unfilled /\ spare' = spare
        \/ /\ EN!StartPush(f.slot, EN!Greater(index, reached), EN!Greater(index, reached))
           /\ unfilled' = unfilled + (IF reached = 0 THEN 0 ELSE EN!Greater(index, reached) - reached)
           /\ spare' = spare
    BY Zenon DEF EN!TakeFrame, EN!ReturnSkipped
  <1> HIDE DEF index
  <1>5. CASE /\ reached = 0 \/ index >= reached
             /\ EN!StartPush(f.slot, EN!CfrSpan(index).first, index)
             /\ unfilled' = unfilled + EN!CfrSpan(index).unfilled /\ spare' = spare
    <2> DEFINE first == EN!CfrSpan(index).first
               left == EN!CfrSpan(index).unfilled
    <2>1. reached <= index
      BY <1>2, <1>5
    <2>2. first \in Nat /\ left \in Nat /\ first <= index /\ reached + left = first
      BY <1>2, <2>1, SpanFacts
    <2>3. EN!StartPush(f.slot, first, index) /\ unfilled' = unfilled + left
      BY <1>5
    <2> HIDE DEF first, left
    <2>4. unfilled' \in Nat /\ written + unfilled' = first
      BY <1>2, <2>2, <2>3
    <2> QED
      BY <1>2, <1>3, <1>5, <2>2, <2>3, <2>4
  <1>6. CASE /\ EN!StartPush(f.slot, EN!Greater(index, reached), EN!Greater(index, reached))
             /\ unfilled' = unfilled + (IF reached = 0 THEN 0 ELSE EN!Greater(index, reached) - reached)
             /\ spare' = spare
    <2> DEFINE target == EN!Greater(index, reached)
    <2>1. target \in Nat /\ reached <= target /\ (reached = 0 => target = 0)
      BY <1>2 DEF EN!Greater
    <2>2. /\ EN!StartPush(f.slot, target, target)
          /\ unfilled' = unfilled + (IF reached = 0 THEN 0 ELSE target - reached)
      BY <1>6
    <2> HIDE DEF target
    <2>3. unfilled' \in Nat /\ written + unfilled' = target /\ target <= target
      BY <1>2, <2>1, <2>2
    <2> QED
      BY <1>3, <1>6, <2>1, <2>2, <2>3
  <1> QED
    BY <1>3, <1>4, <1>5, <1>6

\* What the worker leaves to the main thread.
Beside == UNCHANGED <<paced, told, clock, piped, spoken, orders, main, halted>>

LEMMA WorkerFrame ==
    ASSUME EngineParts, Beside, shot' = shot, mishaps' \in 0 .. MaxMishaps,
           file' \in {"none", "open", "indexed", "cut"},
           SparesOnce', BacklogOnce', Releases', Places', Pauses', Timeline'
    PROVE  EngineParts'
  <1> USE DEF EngineParts, Beside
  <1>1. EngineSwitches' /\ EngineLines' /\ EngineStages'
    BY DEF EngineSwitches, EngineLines, EngineStages, EN!Recording
  <1> QED
    BY <1>1

\* The worker starts to push the buffer of a frame.
LEMMA PushStarted ==
    ASSUME Releases, worker = "idle", NEW k \in 1 .. Pool, ~EN!Holding(k),
           NEW first \in Nat, NEW target \in Nat, EN!StartPush(k, first, target)
    PROVE  /\ Releases' /\ EN!Holding(k)'
           /\ \A s \in 1 .. Pool \ {k} : EN!Holding(s)' <=> EN!Holding(s)
           /\ worker' = "pushing" /\ pushing'.next = first /\ pushing'.target = target
  <1>1. /\ releases \in [1 .. Pool -> [inFlight : 0 .. InPipeline, checks : Nat,
                                       retired : BOOLEAN, returned : BOOLEAN]]
        /\ pushing.slot = 0 /\ EN!ReleasesInv
    BY DEF Releases
  <1>2. /\ worker' = "pushing" /\ pushing' = [slot |-> k, next |-> first, target |-> target]
        /\ releases' = [releases EXCEPT ![k].retired = FALSE, ![k].returned = FALSE]
    BY DEF EN!StartPush
  <1>3. releases[k].inFlight = 0 /\ releases[k].checks = 0
    BY <1>1 DEF EN!ReleasesInv, EN!Holding
  <1>4. releases'[k] = [inFlight |-> 0, checks |-> 0, retired |-> FALSE, returned |-> FALSE]
    BY <1>1, <1>2, <1>3
  <1>5. \A s \in 1 .. Pool \ {k} : releases'[s] = releases[s]
    BY <1>1, <1>2
  <1>6. releases' \in [1 .. Pool -> [inFlight : 0 .. InPipeline, checks : Nat,
                                     retired : BOOLEAN, returned : BOOLEAN]]
    BY <1>1, <1>2
  <1>7. pushing' \in [slot : 0 .. Pool, next : Nat, target : Nat] /\ pushing'.slot = k /\ k # 0
    BY <1>2
  <1>8. EN!ReleasesInv'
    <2> SUFFICES ASSUME NEW s \in 1 .. Pool
                 PROVE  /\ releases'[s].returned => releases'[s].inFlight = 0 /\ releases'[s].checks = 0
                        /\ ~releases'[s].retired /\ releases'[s].inFlight + releases'[s].checks > 0
                              => pushing'.slot = s
                        /\ worker' \in {"pushing", "retiring"} /\ pushing'.slot = s =>
                              ~releases'[s].retired /\ ~releases'[s].returned
                        /\ worker' = "returning" /\ pushing'.slot = s => releases'[s].retired
      BY DEF EN!ReleasesInv
    <2>1. CASE s = k
      BY <1>2, <1>4, <1>7, <2>1
    <2>2. CASE s # k
      BY <1>1, <1>2, <1>5, <1>7, <2>2 DEF EN!ReleasesInv
    <2> QED
      BY <2>1, <2>2
  <1>9. Releases'
    BY <1>2, <1>6, <1>7, <1>8 DEF Releases
  <1>10. EN!Holding(k)'
    BY <1>4, <1>7 DEF EN!Holding
  <1>11. \A s \in 1 .. Pool \ {k} : EN!Holding(s)' <=> EN!Holding(s)
    BY <1>1, <1>5, <1>7 DEF EN!Holding
  <1> QED
    BY <1>2, <1>9, <1>10, <1>11

\* push_latest and push_committed: the frame's buffer goes on into the pipeline or
\* back to the pool.
LEMMA TakesFrame ==
    ASSUME EngineParts, EN!Take, Head(backlog).kind = "frame"
    PROVE  EngineParts'
  <1> USE DEF EngineParts
  <1> DEFINE f == Head(backlog)
  <1>1. /\ Beside /\ shot' = shot /\ mishaps' = mishaps /\ file' = file
        /\ UNCHANGED <<reached, written>>
        /\ worker = "idle" /\ backlog # <<>> /\ backlog' = Tail(backlog) /\ EN!TakeFrame(f)
    BY DEF EN!Take, EN!given, Beside
  <1>2. PICK k \in 1 .. Pool : k = f.slot
    BY <1>1, CommandTaken, CommandKinds
  <1>3. /\ BacklogOnce' /\ f \in EN!Commands /\ f.kind = "frame" /\ EN!Queued(k)
        /\ \A s \in 1 .. Pool : EN!Queued(s)' <=> EN!Queued(s) /\ s # k
    BY <1>1, <1>2, CommandTaken
  <1> HIDE DEF f
  <1>4. /\ origin' \subseteq 0 .. MaxClock /\ UNCHANGED <<pausedAt, pausedFor>>
        /\ \/ /\ spare' = Append(spare, k) /\ reached # 0
              /\ UNCHANGED <<worker, pushing, releases, unfilled>>
           \/ /\ unfilled' \in Nat /\ spare' = spare
              /\ \E first, target \in Nat :
                    /\ EN!StartPush(k, first, target)
                    /\ first <= target /\ written + unfilled' = first
    BY <1>1, <1>2, <1>3, FrameTaken
  <1>5. ~EN!Spares(k) /\ shot.slot # k /\ ~EN!Holding(k)
    BY <1>2, <1>3 DEF Places, Apart
  <1>6. Pauses'
    BY <1>1, <1>4 DEF Pauses, Beside
  <1>7. mishaps' \in 0 .. MaxMishaps /\ file' \in {"none", "open", "indexed", "cut"}
    BY <1>1 DEF EngineLines
  <1>8. CASE /\ spare' = Append(spare, k) /\ reached # 0
             /\ UNCHANGED <<worker, pushing, releases, unfilled>>
    <2>1. SparesOnce' /\ \A s \in 1 .. Pool : EN!Spares(s)' <=> EN!Spares(s) \/ s = k
      BY <1>2, <1>3, <1>5, <1>8, SpareAppended
    <2>2. Releases' /\ Timeline'
      BY <1>1, <1>8 DEF Releases, EN!ReleasesInv, Timeline
    <2>3. Places'
      <3> SUFFICES ASSUME NEW s \in 1 .. Pool PROVE Apart(s)' /\ (Kept' => Somewhere(s)')
        BY DEF Places
      <3>1. /\ Apart(s) /\ (Kept => Somewhere(s))
            /\ (EN!Holding(s)' <=> EN!Holding(s)) /\ (Kept' => Kept)
        BY <1>1, <1>8 DEF Places, EN!Holding, Kept, EN!Recording, Beside
      <3> QED
        BY <1>1, <1>2, <1>3, <1>5, <2>1, <3>1 DEF Apart, Somewhere
    <2> QED
      BY <1>1, <1>2, <1>3, <1>6, <1>7, <2>1, <2>2, <2>3, WorkerFrame
  <1>9. ASSUME NEW first \in Nat, NEW target \in Nat, unfilled' \in Nat, spare' = spare,
               EN!StartPush(k, first, target), first <= target, written + unfilled' = first
        PROVE  EngineParts'
    <2>1. /\ Releases' /\ EN!Holding(k)'
          /\ \A s \in 1 .. Pool \ {k} : EN!Holding(s)' <=> EN!Holding(s)
          /\ worker' = "pushing" /\ pushing'.next = first /\ pushing'.target = target
      BY <1>1, <1>2, <1>3, <1>5, <1>9, PushStarted
    <2>2. SparesOnce'
      BY <1>9 DEF SparesOnce
    <2>3. Timeline'
      BY <1>1, <1>9, <2>1 DEF Timeline
    <2>4. Places'
      <3> SUFFICES ASSUME NEW s \in 1 .. Pool PROVE Apart(s)' /\ (Kept' => Somewhere(s)')
        BY DEF Places
      <3>1. /\ Apart(s) /\ (Kept => Somewhere(s))
            /\ (EN!Spares(s)' <=> EN!Spares(s)) /\ (Kept' => Kept)
        BY <1>1, <1>9 DEF Places, EN!Spares, Kept, EN!Recording, Beside
      <3>2. CASE s = k
        <4>1. ~EN!Spares(s)' /\ ~EN!Queued(s)' /\ EN!Holding(s)' /\ shot'.slot # s
          BY <1>1, <1>2, <1>3, <1>5, <2>1, <3>1, <3>2
        <4> QED
          BY <4>1, Zenon DEF Apart, Somewhere
      <3>3. CASE s # k
        BY <1>1, <1>2, <1>3, <2>1, <3>1, <3>3 DEF Apart, Somewhere
      <3> QED
        BY <3>2, <3>3
    <2> QED
      BY <1>1, <1>2, <1>3, <1>6, <1>7, <2>1, <2>2, <2>3, <2>4, WorkerFrame
  <1> QED
    BY <1>4, <1>8, <1>9

\* The pause of the pipeline and the request to finish.
LEMMA TakesOther ==
    ASSUME EngineParts, EN!Take, Head(backlog).kind # "frame"
    PROVE  EngineParts'
  <1> USE DEF EngineParts
  <1> DEFINE c == Head(backlog)
  <1>1. /\ Beside /\ shot' = shot /\ mishaps' = mishaps /\ file' = file /\ spare' = spare
        /\ UNCHANGED <<reached, written, unfilled, origin, releases, pushing>>
        /\ worker = "idle" /\ worker' \in {"idle", "draining"}
        /\ backlog # <<>> /\ backlog' = Tail(backlog)
    BY DEF EN!Take, EN!given, Beside, EN!SetPaused
  <1>2. BacklogOnce' /\ \A s \in 1 .. Pool : EN!Queued(s)' <=> EN!Queued(s)
    BY <1>1, CommandTaken
  <1>3. SparesOnce'
    BY <1>1 DEF SparesOnce
  <1>4. Releases' /\ Timeline'
    BY <1>1 DEF Releases, EN!ReleasesInv, Timeline
  <1>5. Places'
    BY <1>1, <1>2, PlacesKept DEF Kept, EN!Recording, Beside
  <1>6. Pauses'
    <2>1. \/ UNCHANGED <<pausedAt, pausedFor>>
          \/ pausedAt' = {clock} /\ pausedFor' = pausedFor
          \/ /\ pausedAt' = {}
             /\ pausedFor' = pausedFor
                    + (IF pausedAt = {} THEN 0 ELSE clock - (CHOOSE p \in pausedAt : TRUE))
      BY Zenon DEF EN!Take, EN!SetPaused
    <2>0. clock' = clock /\ origin' = origin /\ clock \in Nat /\ pausedFor \in Nat
      BY <1>1, RecordingAssumption DEF Pauses, Beside, EN!EngineAssumption
    <2>2. CASE UNCHANGED <<pausedAt, pausedFor>>
      BY <2>0, <2>2 DEF Pauses
    <2>4. CASE pausedAt' = {clock} /\ pausedFor' = pausedFor
      BY <2>0, <2>4 DEF Pauses
    <2>3. CASE /\ pausedAt' = {}
               /\ pausedFor' = pausedFor
                      + (IF pausedAt = {} THEN 0 ELSE clock - (CHOOSE p \in pausedAt : TRUE))
      <3> DEFINE q == CHOOSE p \in pausedAt : TRUE
      <3>1. pausedAt # {} => q \in pausedAt
        OBVIOUS
      <3>2. pausedFor' = pausedFor + (IF pausedAt = {} THEN 0 ELSE clock - q) /\ pausedAt' = {}
        BY <2>3
      <3> HIDE DEF q
      <3>3. /\ clock \in Nat /\ clock <= MaxClock /\ MaxClock \in Nat /\ pausedFor \in Nat
            /\ pausedFor <= clock
            /\ pausedAt # {} => q \in Nat /\ pausedFor <= q /\ q <= clock
        <4>1. MaxClock \in Nat /\ clock \in 0 .. MaxClock /\ pausedFor \in 0 .. MaxClock
          BY RecordingAssumption DEF Pauses, EN!EngineAssumption
        <4>2. pausedAt # {} => q \in 0 .. MaxClock /\ pausedFor <= q /\ q <= clock
          BY <3>1 DEF Pauses
        <4>3. pausedFor <= clock
          BY DEF Pauses
        <4> QED
          BY <4>1, <4>2, <4>3
      <3>4. pausedFor' \in 0 .. MaxClock /\ pausedFor' <= clock
        BY <3>2, <3>3
      <3> QED
        BY <1>1, <3>2, <3>4 DEF Pauses, Beside
    <2> QED
      BY <2>1, <2>2, <2>3, <2>4
  <1>7. mishaps' \in 0 .. MaxMishaps /\ file' \in {"none", "open", "indexed", "cut"}
    BY <1>1 DEF EngineLines
  <1> QED
    BY <1>1, <1>2, <1>3, <1>4, <1>5, <1>6, <1>7, WorkerFrame

\* No buffer moves, and the releases that are held stay the same.
LEMMA PlacesHeld ==
    ASSUME Places, UNCHANGED <<spare, shot>>, Kept' => Kept,
           \A s \in 1 .. Pool : EN!Queued(s)' <=> EN!Queued(s),
           \A s \in 1 .. Pool : EN!Holding(s)' <=> EN!Holding(s)
    PROVE  Places'
  <1> SUFFICES ASSUME NEW s \in 1 .. Pool
               PROVE  Apart(s)' /\ (Kept' => Somewhere(s)')
    BY DEF Places
  <1>1. /\ Apart(s) /\ (Kept => Somewhere(s)) /\ (EN!Queued(s)' <=> EN!Queued(s))
        /\ (EN!Holding(s)' <=> EN!Holding(s)) /\ (EN!Spares(s)' <=> EN!Spares(s))
    BY DEF Places, EN!Spares
  <1> QED
    BY <1>1 DEF Apart, Somewhere

\* A release that ends puts its buffer back into the pool.
LEMMA BufferReturned ==
    ASSUME SparesOnce, Places, shot' = shot, Kept' => Kept, NEW k \in 1 .. Pool,
           \A s \in 1 .. Pool : EN!Queued(s)' <=> EN!Queued(s),
           EN!Holding(k), ~EN!Holding(k)',
           \A s \in 1 .. Pool \ {k} : EN!Holding(s)' <=> EN!Holding(s),
           spare' = Append(spare, k)
    PROVE  SparesOnce' /\ Places'
  <1>1. ~EN!Spares(k) /\ shot.slot # k /\ ~EN!Queued(k)
    BY DEF Places, Apart
  <1>2. SparesOnce' /\ \A s \in 1 .. Pool : EN!Spares(s)' <=> EN!Spares(s) \/ s = k
    BY <1>1, SpareAppended
  <1>3. Places'
    <2> SUFFICES ASSUME NEW s \in 1 .. Pool PROVE Apart(s)' /\ (Kept' => Somewhere(s)')
      BY DEF Places
    <2>1. /\ Apart(s) /\ (Kept => Somewhere(s)) /\ (EN!Queued(s)' <=> EN!Queued(s))
          /\ (EN!Spares(s)' <=> EN!Spares(s) \/ s = k)
      BY <1>2 DEF Places
    <2>2. CASE s = k
      BY <1>1, <2>1, <2>2 DEF Apart, Somewhere
    <2>3. CASE s # k
      BY <2>1, <2>3 DEF Apart, Somewhere
    <2> QED
      BY <2>2, <2>3
  <1> QED
    BY <1>2, <1>3

\* push_one: one more buffer of the pipeline refers to the frame.
LEMMA WorkerPushes == EngineParts /\ EN!Push => EngineParts'
  <1> SUFFICES ASSUME EngineParts, EN!Push PROVE EngineParts'
      OBVIOUS
  <1> USE DEF EngineParts
  <1>1. /\ Beside /\ UNCHANGED <<shot, spare, mishaps, file, backlog, reached, origin, pausedAt,
                                 pausedFor, unfilled>>
        /\ worker = "pushing" /\ written' = written + 1
    BY DEF EN!Push, EN!given, EN!mainVars, Beside
  <1>2. /\ releases \in [1 .. Pool -> [inFlight : 0 .. InPipeline, checks : Nat,
                                       retired : BOOLEAN, returned : BOOLEAN]]
        /\ pushing \in [slot : 0 .. Pool, next : Nat, target : Nat]
        /\ pushing.slot # 0 /\ EN!ReleasesInv /\ InPipeline \in Nat /\ Pool \in Nat
    BY <1>1, RecordingAssumption DEF Releases, EN!EngineAssumption
  <1>3. PICK k \in 1 .. Pool : k = pushing.slot
    BY <1>2
  <1>4. /\ releases' = [releases EXCEPT ![k].inFlight = @ + 1]
        /\ pushing' = [pushing EXCEPT !.next = @ + 1]
        /\ worker' = IF pushing.next = pushing.target THEN "retiring" ELSE "pushing"
    BY <1>3 DEF EN!Push
  <1>5. releases[k].inFlight + 1 \in 0 .. InPipeline
    <2>1. \A s \in 1 .. Pool : releases[s].inFlight \in Nat
      BY <1>2
    <2>2. EN!InFlight \in Nat /\ releases[k].inFlight <= EN!InFlight
      BY <2>1, PartOfFlight
    <2>3. \A n \in Nat : n < InPipeline => n + 1 \in 0 .. InPipeline
      BY <1>2
    <2>4. EN!InFlight < InPipeline
      BY DEF EN!Push
    <2>5. releases[k].inFlight < InPipeline
      BY <1>2, <2>1, <2>2, <2>4
    <2> QED
      BY <2>1, <2>3, <2>5
  <1>6. /\ releases'[k].inFlight = releases[k].inFlight + 1 /\ releases'[k].checks = releases[k].checks
        /\ releases'[k].retired = releases[k].retired /\ releases'[k].returned = releases[k].returned
        /\ \A s \in 1 .. Pool \ {k} : releases'[s] = releases[s]
    BY <1>2, <1>4
  <1>7. releases' \in [1 .. Pool -> [inFlight : 0 .. InPipeline, checks : Nat,
                                     retired : BOOLEAN, returned : BOOLEAN]]
    BY <1>2, <1>4, <1>5
  <1>8. /\ pushing' \in [slot : 0 .. Pool, next : Nat, target : Nat]
        /\ pushing'.slot = k /\ pushing'.next = pushing.next + 1 /\ pushing'.target = pushing.target
        /\ pushing.next \in Nat /\ pushing.target \in Nat
    <2>1. pushing.slot \in 0 .. Pool /\ pushing.next \in Nat /\ pushing.target \in Nat
      BY <1>2
    <2>2. /\ pushing'.slot = pushing.slot /\ pushing'.next = pushing.next + 1
          /\ pushing'.target = pushing.target
      BY <1>2, <1>4
    <2>3. pushing.next + 1 \in Nat
      BY <2>1
    <2>4. pushing' \in [slot : 0 .. Pool, next : Nat, target : Nat]
      BY <1>2, <1>4, <2>3
    <2> QED
      BY <1>3, <2>1, <2>2, <2>4
  <1>9. ~releases[k].retired /\ ~releases[k].returned
    BY <1>1, <1>2, <1>3 DEF EN!ReleasesInv
  <1>10. EN!ReleasesInv'
    <2> SUFFICES ASSUME NEW s \in 1 .. Pool
                 PROVE  /\ releases'[s].returned => releases'[s].inFlight = 0 /\ releases'[s].checks = 0
                        /\ ~releases'[s].retired /\ releases'[s].inFlight + releases'[s].checks > 0
                              => pushing'.slot = s
                        /\ worker' \in {"pushing", "retiring"} /\ pushing'.slot = s =>
                              ~releases'[s].retired /\ ~releases'[s].returned
                        /\ worker' = "returning" /\ pushing'.slot = s => releases'[s].retired
      BY DEF EN!ReleasesInv
    <2>1. CASE s = k
      BY <1>4, <1>6, <1>8, <1>9, <2>1
    <2>2. CASE s # k
      BY <1>2, <1>3, <1>4, <1>6, <1>8, <2>2 DEF EN!ReleasesInv
    <2> QED
      BY <2>1, <2>2
  <1>11. Releases'
    BY <1>4, <1>7, <1>8, <1>10 DEF Releases
  <1>12. \A s \in 1 .. Pool : EN!Holding(s)' <=> EN!Holding(s)
    <2>1. EN!Holding(k)' /\ EN!Holding(k)
      BY <1>3, <1>6, <1>8, <1>9 DEF EN!Holding
    <2>2. \A s \in 1 .. Pool \ {k} : EN!Holding(s)' <=> EN!Holding(s)
      BY <1>3, <1>6, <1>8 DEF EN!Holding
    <2> QED
      BY <2>1, <2>2
  <1>13. Places'
    <2>1. (Kept' => Kept) /\ \A s \in 1 .. Pool : EN!Queued(s)' <=> EN!Queued(s)
      BY <1>1, <1>4 DEF Kept, EN!Recording, EN!Queued, Beside
    <2> QED
      BY <1>1, <1>12, <2>1, PlacesHeld
  <1>14. Timeline'
    <2>1. /\ reached \in Nat /\ written \in Nat /\ unfilled \in Nat
          /\ written + unfilled = pushing.next /\ pushing.next <= pushing.target
      BY <1>1 DEF Timeline
    <2>2. written' \in Nat /\ written' + unfilled = pushing'.next
      BY <1>1, <1>8, <2>1
    <2>3. \/ worker' = "retiring" /\ pushing'.next = pushing'.target + 1
          \/ worker' = "pushing" /\ pushing'.next <= pushing'.target
      BY <1>4, <1>8, <2>1
    <2> QED
      BY <1>1, <2>1, <2>2, <2>3 DEF Timeline
  <1>15. SparesOnce' /\ BacklogOnce' /\ Pauses'
    BY <1>1 DEF SparesOnce, BacklogOnce, Pauses, Beside
  <1>16. mishaps' \in 0 .. MaxMishaps /\ file' \in {"none", "open", "indexed", "cut"}
    BY <1>1 DEF EngineLines
  <1> QED
    BY <1>1, <1>11, <1>13, <1>14, <1>15, <1>16, WorkerFrame

\* retire: the worker holds the release no longer, somebody will look at it.
LEMMA WorkerRetires == EngineParts /\ EN!Retire => EngineParts'
  <1> SUFFICES ASSUME EngineParts, EN!Retire PROVE EngineParts'
      OBVIOUS
  <1> USE DEF EngineParts
  <1>1. /\ Beside /\ UNCHANGED <<shot, spare, mishaps, file, backlog, pushing, reached, origin,
                                 pausedAt, pausedFor, written, unfilled>>
        /\ worker = "retiring" /\ worker' = "returning"
    BY DEF EN!Retire, EN!given, EN!mainVars, EN!timing, Beside
  <1>2. /\ releases \in [1 .. Pool -> [inFlight : 0 .. InPipeline, checks : Nat,
                                       retired : BOOLEAN, returned : BOOLEAN]]
        /\ pushing \in [slot : 0 .. Pool, next : Nat, target : Nat]
        /\ pushing.slot # 0 /\ EN!ReleasesInv /\ Pool \in Nat
    BY <1>1, RecordingAssumption DEF Releases, EN!EngineAssumption
  <1>3. PICK k \in 1 .. Pool : k = pushing.slot
    BY <1>2
  <1>4. releases' = [releases EXCEPT ![k].retired = TRUE]
    BY <1>3 DEF EN!Retire
  <1>5. /\ releases'[k].inFlight = releases[k].inFlight /\ releases'[k].checks = releases[k].checks
        /\ releases'[k].retired /\ releases'[k].returned = releases[k].returned
        /\ \A s \in 1 .. Pool \ {k} : releases'[s] = releases[s]
    BY <1>2, <1>4
  <1>6. releases' \in [1 .. Pool -> [inFlight : 0 .. InPipeline, checks : Nat,
                                     retired : BOOLEAN, returned : BOOLEAN]]
    BY <1>2, <1>4
  <1>7. EN!ReleasesInv'
    <2> SUFFICES ASSUME NEW s \in 1 .. Pool
                 PROVE  /\ releases'[s].returned => releases'[s].inFlight = 0 /\ releases'[s].checks = 0
                        /\ ~releases'[s].retired /\ releases'[s].inFlight + releases'[s].checks > 0
                              => pushing'.slot = s
                        /\ worker' \in {"pushing", "retiring"} /\ pushing'.slot = s =>
                              ~releases'[s].retired /\ ~releases'[s].returned
                        /\ worker' = "returning" /\ pushing'.slot = s => releases'[s].retired
      BY DEF EN!ReleasesInv
    <2>1. CASE s = k
      BY <1>1, <1>2, <1>5, <2>1 DEF EN!ReleasesInv
    <2>2. CASE s # k
      BY <1>1, <1>2, <1>3, <1>5, <2>2 DEF EN!ReleasesInv
    <2> QED
      BY <2>1, <2>2
  <1>8. Releases'
    BY <1>1, <1>2, <1>6, <1>7 DEF Releases
  <1>9. \A s \in 1 .. Pool : EN!Holding(s)' <=> EN!Holding(s)
    <2>1. \A s \in 1 .. Pool : releases'[s].inFlight = releases[s].inFlight
                               /\ releases'[s].checks = releases[s].checks
                               /\ releases'[s].returned = releases[s].returned
      BY <1>5
    <2> QED
      BY <1>1, <2>1 DEF EN!Holding
  <1>10. Places'
    <2>1. (Kept' => Kept) /\ \A s \in 1 .. Pool : EN!Queued(s)' <=> EN!Queued(s)
      BY <1>1 DEF Kept, EN!Recording, EN!Queued, Beside
    <2> QED
      BY <1>1, <1>9, <2>1, PlacesHeld
  <1>11. SparesOnce' /\ BacklogOnce' /\ Pauses' /\ Timeline'
    BY <1>1 DEF SparesOnce, BacklogOnce, Pauses, Timeline, Beside
  <1>12. mishaps' \in 0 .. MaxMishaps /\ file' \in {"none", "open", "indexed", "cut"}
    BY <1>1 DEF EngineLines
  <1> QED
    BY <1>1, <1>8, <1>10, <1>11, <1>12, WorkerFrame

\* The worker's own look at the release, and the next frame.
LEMMA WorkerReturns == EngineParts /\ EN!Retired => EngineParts'
  <1> SUFFICES ASSUME EngineParts, EN!Retired PROVE EngineParts'
      OBVIOUS
  <1> USE DEF EngineParts
  <1>1. /\ Beside /\ UNCHANGED <<shot, mishaps, file, backlog, origin, pausedAt, pausedFor,
                                 written, unfilled>>
        /\ worker = "returning" /\ worker' = "idle"
        /\ reached' = pushing.target + 1 /\ pushing' = EN!NoPush
    BY DEF EN!Retired, EN!given, Beside
  <1>2. /\ releases \in [1 .. Pool -> [inFlight : 0 .. InPipeline, checks : Nat,
                                       retired : BOOLEAN, returned : BOOLEAN]]
        /\ pushing \in [slot : 0 .. Pool, next : Nat, target : Nat]
        /\ pushing.slot # 0 /\ EN!ReleasesInv /\ Pool \in Nat /\ InPipeline \in Nat
    BY <1>1, RecordingAssumption DEF Releases, EN!EngineAssumption
  <1>3. PICK k \in 1 .. Pool : k = pushing.slot
    BY <1>2
  <1>4. releases[k].retired
    BY <1>1, <1>2, <1>3 DEF EN!ReleasesInv
  <1>5. pushing' \in [slot : 0 .. Pool, next : Nat, target : Nat] /\ pushing'.slot = 0
    BY <1>1, <1>2 DEF EN!NoPush
  <1>6. Timeline'
    <2>1. /\ reached \in Nat /\ written \in Nat /\ unfilled \in Nat /\ pushing.target \in Nat
          /\ written + unfilled = pushing.next /\ pushing.next = pushing.target + 1
      BY <1>1, <1>2 DEF Timeline
    <2>2. reached' \in Nat /\ reached' # 0 /\ written' + unfilled' = reached'
      BY <1>1, <2>1
    <2> QED
      BY <1>1, <2>1, <2>2 DEF Timeline
  <1>7. (Kept' => Kept) /\ \A s \in 1 .. Pool : EN!Queued(s)' <=> EN!Queued(s)
    BY <1>1 DEF Kept, EN!Recording, EN!Queued, Beside
  <1>8. BacklogOnce' /\ Pauses'
    BY <1>1 DEF BacklogOnce, Pauses, Beside
  <1>9. mishaps' \in 0 .. MaxMishaps /\ file' \in {"none", "open", "indexed", "cut"}
    BY <1>1 DEF EngineLines
  <1>10. CASE /\ releases[k].inFlight = 0 /\ ~releases[k].returned
              /\ releases' = [releases EXCEPT ![k].returned = TRUE, ![k].checks = 0]
              /\ spare' = Append(spare, k)
    <2>1. /\ releases'[k] = [inFlight |-> 0, checks |-> 0, retired |-> TRUE, returned |-> TRUE]
          /\ \A s \in 1 .. Pool \ {k} : releases'[s] = releases[s]
      BY <1>2, <1>4, <1>10
    <2>2. releases' \in [1 .. Pool -> [inFlight : 0 .. InPipeline, checks : Nat,
                                       retired : BOOLEAN, returned : BOOLEAN]]
      <3>1. releases' = [s \in 1 .. Pool |-> releases'[s]]
        BY <1>2, <1>10
      <3>2. releases'[k] = [inFlight |-> 0, checks |-> 0, retired |-> TRUE, returned |-> TRUE]
        BY <2>1
      <3>3. \A s \in 1 .. Pool : releases'[s] \in [inFlight : 0 .. InPipeline, checks : Nat,
                                                    retired : BOOLEAN, returned : BOOLEAN]
        <4>1. 0 \in 0 .. InPipeline /\ 0 \in Nat
          BY <1>2
        <4>2. releases'[k] \in [inFlight : 0 .. InPipeline, checks : Nat,
                                retired : BOOLEAN, returned : BOOLEAN]
          BY <1>2, <1>4, <3>2, <4>1
        <4>3. \A s \in 1 .. Pool \ {k} : releases'[s] \in [inFlight : 0 .. InPipeline, checks : Nat,
                                                          retired : BOOLEAN, returned : BOOLEAN]
          BY <1>2, <2>1
        <4> QED
          BY <4>2, <4>3
      <3> QED
        BY <3>1, <3>3
    <2>3. EN!ReleasesInv'
      <3> SUFFICES ASSUME NEW s \in 1 .. Pool
                   PROVE  /\ releases'[s].returned => releases'[s].inFlight = 0 /\ releases'[s].checks = 0
                          /\ releases'[s].retired \/ ~(releases'[s].inFlight + releases'[s].checks > 0)
        BY <1>1 DEF EN!ReleasesInv
      <3>1. CASE s = k
        BY <2>1, <3>1
      <3>2. CASE s # k
        BY <1>2, <1>3, <2>1, <3>2 DEF EN!ReleasesInv
      <3> QED
        BY <3>1, <3>2
    <2>4. Releases'
      BY <1>1, <1>5, <2>2, <2>3 DEF Releases
    <2>5. /\ EN!Holding(k) /\ ~EN!Holding(k)'
          /\ \A s \in 1 .. Pool \ {k} : EN!Holding(s)' <=> EN!Holding(s)
      <3>1. EN!Holding(k)
        BY <1>3, <1>10 DEF EN!Holding
      <3>2. ~EN!Holding(k)'
        BY <2>1 DEF EN!Holding
      <3>3. ASSUME NEW s \in 1 .. Pool \ {k} PROVE EN!Holding(s)' <=> EN!Holding(s)
        <4>1. releases'[s] = releases[s] /\ pushing.slot # s /\ pushing'.slot # s
          BY <1>3, <1>5, <2>1, <3>3
        <4> QED
          BY <4>1, Zenon DEF EN!Holding
      <3> QED
        BY <3>1, <3>2, <3>3
    <2>6. SparesOnce' /\ Places'
      BY <1>1, <1>7, <1>10, <2>5, BufferReturned
    <2> QED
      BY <1>1, <1>6, <1>8, <1>9, <2>4, <2>6, WorkerFrame
  <1>11. CASE /\ releases[k].inFlight # 0 \/ releases[k].returned
              /\ releases' = releases /\ spare' = spare
    <2>1. EN!ReleasesInv'
      BY <1>1, <1>2, <1>3, <1>4, <1>5, <1>11 DEF EN!ReleasesInv
    <2>2. Releases'
      BY <1>1, <1>2, <1>5, <1>11, <2>1 DEF Releases
    <2>3. releases[k].inFlight \in Nat /\ releases[k].checks \in Nat
      BY <1>2
    <2>4. \A s \in 1 .. Pool : EN!Holding(s)' <=> EN!Holding(s)
      <3>1. ASSUME NEW s \in 1 .. Pool \ {k} PROVE EN!Holding(s)' <=> EN!Holding(s)
        <4>1. releases'[s] = releases[s] /\ pushing.slot # s /\ pushing'.slot # s
          BY <1>3, <1>5, <1>11, <3>1
        <4> QED
          BY <4>1, Zenon DEF EN!Holding
      <3>2. EN!Holding(k)' <=> EN!Holding(k)
        <4>1. CASE releases[k].returned
          BY <1>11, <4>1 DEF EN!Holding
        <4>2. CASE ~releases[k].returned
          BY <1>3, <1>11, <2>3, <4>2 DEF EN!Holding
        <4> QED
          BY <4>1, <4>2
      <3> QED
        BY <3>1, <3>2
    <2>5. Places'
      BY <1>1, <1>7, <1>11, <2>4, PlacesHeld
    <2>6. SparesOnce'
      BY <1>11 DEF SparesOnce
    <2> QED
      BY <1>1, <1>6, <1>8, <1>9, <2>2, <2>5, <2>6, WorkerFrame
  <1> QED
    BY <1>3, <1>4, <1>10, <1>11 DEF EN!Retired, EN!ReturnFrame, EN!MaybeReturn, EN!MayReturn

\* encoder_buffer_finalized counts a buffer down.
LEMMA PipelineDrops ==
    ASSUME EngineParts, NEW k \in 1 .. Pool, EN!Finalize(k)
    PROVE  EngineParts'
  <1> USE DEF EngineParts
  <1>1. /\ Beside /\ UNCHANGED <<shot, spare, mishaps, file, backlog, worker, pushing, reached,
                                 origin, pausedAt, pausedFor, written, unfilled>>
        /\ releases[k].inFlight > 0
        /\ releases' = [releases EXCEPT ![k].inFlight = @ - 1, ![k].checks = @ + 1]
    BY DEF EN!Finalize, EN!given, EN!mainVars, EN!timing, Beside
  <1>2. /\ releases \in [1 .. Pool -> [inFlight : 0 .. InPipeline, checks : Nat,
                                       retired : BOOLEAN, returned : BOOLEAN]]
        /\ EN!ReleasesInv /\ InPipeline \in Nat
    BY RecordingAssumption DEF Releases, EN!EngineAssumption
  <1>3. /\ releases[k].inFlight \in Nat /\ releases[k].checks \in Nat
        /\ releases[k].inFlight - 1 \in 0 .. InPipeline /\ releases[k].checks + 1 \in Nat
        /\ ~releases[k].returned
    BY <1>1, <1>2 DEF EN!ReleasesInv
  <1>4. /\ releases'[k].inFlight = releases[k].inFlight - 1
        /\ releases'[k].checks = releases[k].checks + 1
        /\ releases'[k].retired = releases[k].retired /\ releases'[k].returned = releases[k].returned
        /\ \A s \in 1 .. Pool \ {k} : releases'[s] = releases[s]
    BY <1>1, <1>2
  <1>5. releases' \in [1 .. Pool -> [inFlight : 0 .. InPipeline, checks : Nat,
                                     retired : BOOLEAN, returned : BOOLEAN]]
    BY <1>1, <1>2, <1>3
  <1>6. \A s \in 1 .. Pool :
            /\ releases'[s].returned = releases[s].returned
            /\ releases'[s].retired = releases[s].retired
            /\ releases'[s].inFlight + releases'[s].checks = releases[s].inFlight + releases[s].checks
    <2>1. releases'[k].inFlight + releases'[k].checks = releases[k].inFlight + releases[k].checks
      BY <1>3, <1>4
    <2> QED
      BY <1>4, <2>1
  <1>7. EN!ReleasesInv'
    BY <1>1, <1>2, <1>3, <1>4, <1>6 DEF EN!ReleasesInv
  <1>8. Releases'
    BY <1>1, <1>5, <1>7 DEF Releases
  <1>9. \A s \in 1 .. Pool : EN!Holding(s)' <=> EN!Holding(s)
    BY <1>1, <1>6, Zenon DEF EN!Holding
  <1>10. Places'
    <2>1. (Kept' => Kept) /\ \A s \in 1 .. Pool : EN!Queued(s)' <=> EN!Queued(s)
      BY <1>1 DEF Kept, EN!Recording, EN!Queued, Beside
    <2> QED
      BY <1>1, <1>9, <2>1, PlacesHeld
  <1>11. SparesOnce' /\ BacklogOnce' /\ Pauses' /\ Timeline'
    BY <1>1 DEF SparesOnce, BacklogOnce, Pauses, Timeline, Beside
  <1>12. mishaps' \in 0 .. MaxMishaps /\ file' \in {"none", "open", "indexed", "cut"}
    BY <1>1 DEF EngineLines
  <1> QED
    BY <1>1, <1>8, <1>10, <1>11, <1>12, WorkerFrame

\* ... and then looks whether it was the last.
LEMMA PipelineLooks ==
    ASSUME EngineParts, NEW k \in 1 .. Pool, EN!Finalized(k)
    PROVE  EngineParts'
  <1> USE DEF EngineParts
  <1>1. /\ Beside /\ UNCHANGED <<shot, mishaps, file, backlog, worker, pushing, reached,
                                 origin, pausedAt, pausedFor, written, unfilled>>
        /\ releases[k].checks > 0
    BY DEF EN!Finalized, EN!given, EN!timing, Beside
  <1>2. /\ releases \in [1 .. Pool -> [inFlight : 0 .. InPipeline, checks : Nat,
                                       retired : BOOLEAN, returned : BOOLEAN]]
        /\ EN!ReleasesInv /\ InPipeline \in Nat
    BY RecordingAssumption DEF Releases, EN!EngineAssumption
  <1>3. /\ releases[k].inFlight \in Nat /\ releases[k].checks \in Nat
        /\ releases[k].checks - 1 \in Nat /\ ~releases[k].returned
    BY <1>1, <1>2 DEF EN!ReleasesInv
  <1> DEFINE rs == [releases EXCEPT ![k].checks = @ - 1]
  <1>4. /\ rs \in [1 .. Pool -> [inFlight : 0 .. InPipeline, checks : Nat,
                                 retired : BOOLEAN, returned : BOOLEAN]]
        /\ rs[k].inFlight = releases[k].inFlight /\ rs[k].checks = releases[k].checks - 1
        /\ rs[k].retired = releases[k].retired /\ rs[k].returned = releases[k].returned
        /\ \A s \in 1 .. Pool \ {k} : rs[s] = releases[s]
    BY <1>2, <1>3
  <1>5. EN!MaybeReturn(k, rs)
    BY DEF EN!Finalized
  <1> HIDE DEF rs
  <1>6. (Kept' => Kept) /\ \A s \in 1 .. Pool : EN!Queued(s)' <=> EN!Queued(s)
    BY <1>1 DEF Kept, EN!Recording, EN!Queued, Beside
  <1>7. BacklogOnce' /\ Pauses' /\ Timeline'
    BY <1>1 DEF BacklogOnce, Pauses, Timeline, Beside
  <1>8. mishaps' \in 0 .. MaxMishaps /\ file' \in {"none", "open", "indexed", "cut"}
    BY <1>1 DEF EngineLines
  <1>9. EN!Holding(k)
    BY <1>1, <1>3 DEF EN!Holding
  <1>10. CASE /\ rs[k].inFlight = 0 /\ rs[k].retired
              /\ releases' = [rs EXCEPT ![k].returned = TRUE, ![k].checks = 0]
              /\ spare' = Append(spare, k)
    <2>1. /\ releases'[k].inFlight = 0 /\ releases'[k].checks = 0
          /\ releases'[k].retired = releases[k].retired /\ releases'[k].returned
          /\ \A s \in 1 .. Pool \ {k} : releases'[s] = releases[s]
      BY <1>4, <1>10
    <2>2. releases' \in [1 .. Pool -> [inFlight : 0 .. InPipeline, checks : Nat,
                                       retired : BOOLEAN, returned : BOOLEAN]]
      <3>1. releases' = [s \in 1 .. Pool |-> releases'[s]]
        BY <1>4, <1>10
      <3>2. releases'[k] = [inFlight |-> 0, checks |-> 0, retired |-> rs[k].retired, returned |-> TRUE]
        BY <1>4, <1>10
      <3>3. \A s \in 1 .. Pool : releases'[s] \in [inFlight : 0 .. InPipeline, checks : Nat,
                                                    retired : BOOLEAN, returned : BOOLEAN]
        <4>1. 0 \in 0 .. InPipeline /\ 0 \in Nat
          BY <1>2
        <4>2. releases'[k] \in [inFlight : 0 .. InPipeline, checks : Nat,
                                retired : BOOLEAN, returned : BOOLEAN]
          BY <1>4, <3>2, <4>1
        <4>3. \A s \in 1 .. Pool \ {k} : releases'[s] \in [inFlight : 0 .. InPipeline, checks : Nat,
                                                          retired : BOOLEAN, returned : BOOLEAN]
          BY <1>2, <2>1
        <4> QED
          BY <4>2, <4>3
      <3> QED
        BY <3>1, <3>3
    <2>3. EN!ReleasesInv'
      <3> SUFFICES ASSUME NEW s \in 1 .. Pool
                   PROVE  /\ releases'[s].returned => releases'[s].inFlight = 0 /\ releases'[s].checks = 0
                          /\ ~releases'[s].retired /\ releases'[s].inFlight + releases'[s].checks > 0
                                => pushing'.slot = s
                          /\ worker' \in {"pushing", "retiring"} /\ pushing'.slot = s =>
                                ~releases'[s].retired /\ ~releases'[s].returned
                          /\ worker' = "returning" /\ pushing'.slot = s => releases'[s].retired
        BY DEF EN!ReleasesInv
      <3>1. CASE s = k
        BY <1>1, <1>2, <1>4, <1>10, <2>1, <3>1 DEF EN!ReleasesInv
      <3>2. CASE s # k
        BY <1>1, <1>2, <2>1, <3>2 DEF EN!ReleasesInv
      <3> QED
        BY <3>1, <3>2
    <2>4. Releases'
      BY <1>1, <2>2, <2>3 DEF Releases
    <2>5. ~EN!Holding(k)'
      BY <2>1 DEF EN!Holding
    <2>6. \A s \in 1 .. Pool \ {k} : EN!Holding(s)' <=> EN!Holding(s)
      BY <1>1, <2>1, Zenon DEF EN!Holding
    <2>7. SparesOnce' /\ Places'
      BY <1>1, <1>6, <1>9, <1>10, <2>5, <2>6, BufferReturned
    <2> QED
      BY <1>1, <1>7, <1>8, <2>4, <2>7, WorkerFrame
  <1>11. CASE /\ rs[k].inFlight # 0 \/ ~rs[k].retired
              /\ releases' = rs /\ spare' = spare
    <2>1. EN!ReleasesInv'
      <3> SUFFICES ASSUME NEW s \in 1 .. Pool
                   PROVE  /\ releases'[s].returned => releases'[s].inFlight = 0 /\ releases'[s].checks = 0
                          /\ ~releases'[s].retired /\ releases'[s].inFlight + releases'[s].checks > 0
                                => pushing'.slot = s
                          /\ worker' \in {"pushing", "retiring"} /\ pushing'.slot = s =>
                                ~releases'[s].retired /\ ~releases'[s].returned
                          /\ worker' = "returning" /\ pushing'.slot = s => releases'[s].retired
        BY DEF EN!ReleasesInv
      <3>1. CASE s = k
        BY <1>1, <1>2, <1>3, <1>4, <1>11, <3>1 DEF EN!ReleasesInv
      <3>2. CASE s # k
        BY <1>1, <1>2, <1>4, <1>11, <3>2 DEF EN!ReleasesInv
      <3> QED
        BY <3>1, <3>2
    <2>2. Releases'
      BY <1>1, <1>4, <1>11, <2>1 DEF Releases
    <2>3. EN!Holding(k)'
      <3>1. CASE releases[k].inFlight # 0
        <4>1. ~releases'[k].returned
          BY <1>3, <1>4, <1>11
        <4>2. releases'[k].inFlight + releases'[k].checks > 0
          BY <1>3, <1>4, <1>11, <3>1
        <4> QED
          BY <4>1, <4>2, Zenon DEF EN!Holding
      <3>2. CASE ~releases[k].retired
        <4>1. pushing'.slot = k
          BY <1>1, <1>2, <1>3, <3>2 DEF EN!ReleasesInv
        <4> QED
          BY <1>3, <1>4, <1>11, <4>1 DEF EN!Holding
      <3> QED
        BY <1>4, <1>11, <3>1, <3>2
    <2>4. \A s \in 1 .. Pool \ {k} : EN!Holding(s)' <=> EN!Holding(s)
      <3>1. \A s \in 1 .. Pool \ {k} : releases'[s] = releases[s]
        BY <1>4, <1>11
      <3> QED
        BY <1>1, <3>1, Zenon DEF EN!Holding
    <2>5. Places'
      BY <1>1, <1>6, <1>9, <1>11, <2>3, <2>4, PlacesHeld
    <2>6. SparesOnce'
      BY <1>11 DEF SparesOnce
    <2> QED
      BY <1>1, <1>7, <1>8, <2>2, <2>5, <2>6, WorkerFrame
  <1> QED
    BY <1>3, <1>4, <1>5, <1>10, <1>11 DEF EN!MaybeReturn, EN!MayReturn

\* The end of the stream, of FFmpeg, and of a worker that fails.
LEMMA WorkerEnds ==
    ASSUME EngineParts, EN!Drain \/ EN!Mux \/ EN!Fault
    PROVE  EngineParts'
  <1> USE DEF EngineParts
  <1>1. /\ Beside /\ UNCHANGED <<shot, spare, backlog, pushing, releases, reached, origin, pausedAt,
                                 pausedFor, written, unfilled>>
        /\ file' \in {file, "indexed"}
        /\ \/ mishaps' = mishaps
           \/ mishaps < MaxMishaps /\ mishaps' = mishaps + 1
        /\ \/ worker' = "failed"
           \/ worker \in {"draining", "muxing"} /\ worker' \in {"muxing", "done"}
    BY DEF EN!Drain, EN!Mux, EN!Fault, EN!given, EN!mainVars, EN!timing, Beside
  <1>2. Releases' /\ Timeline'
    BY <1>1 DEF Releases, EN!ReleasesInv, Timeline
  <1>3. Places'
    BY <1>1, PlacesKept DEF Kept, EN!Recording, EN!Queued, Beside
  <1>4. SparesOnce' /\ BacklogOnce' /\ Pauses'
    BY <1>1 DEF SparesOnce, BacklogOnce, Pauses, Beside
  <1>5. mishaps' \in 0 .. MaxMishaps /\ file' \in {"none", "open", "indexed", "cut"}
    BY <1>1, RecordingAssumption DEF EngineLines, EN!EngineAssumption
  <1> QED
    BY <1>1, <1>2, <1>3, <1>4, <1>5, WorkerFrame

\* The invariant of the engine is inductive.
LEMMA EngineStep == EngineParts /\ EN!EngineNext => EngineParts'
  <1> SUFFICES ASSUME EngineParts, EN!EngineNext PROVE EngineParts'
      OBVIOUS
  <1>1. CASE EN!Take
    BY <1>1, TakesFrame, TakesOther
  <1>2. CASE EN!Push \/ EN!Retire \/ EN!Retired \/ EN!Drain \/ EN!Mux \/ EN!Fault
    BY <1>2, WorkerPushes, WorkerRetires, WorkerReturns, WorkerEnds
  <1>3. CASE \E s \in 1 .. Pool : EN!Finalize(s) \/ EN!Finalized(s)
    BY <1>3, PipelineDrops, PipelineLooks
  <1>4. CASE EN!Turn \/ EN!Await \/ EN!Pick \/ EN!Dispatch \/ EN!Submit \/ EN!PauseAfter
             \/ EN!FinishUp \/ EN!Join \/ EN!Killed
    BY <1>4, EngineTurns, EnginePicks, EngineDispatches, EngineSubmits, EngineFinishes
  <1>5. CASE \/ EN!Tick \/ EN!Forward \/ \E line \in EN!Lines : EN!Speak(line)
             \/ \E options \in EN!Options, offered \in SUBSET EN!Depths :
                    EN!StartUp(options, offered)
    BY <1>5, EngineWorld, EngineStarts
  <1> QED
    BY <1>1, <1>2, <1>3, <1>4, <1>5, Zenon DEF EN!EngineNext

\* No buffer that may be drawn into is still read.
LEMMA SparesUntouched == EngineParts => EN!BuffersUntouched
  <1> SUFFICES ASSUME EngineParts,
                      NEW s \in {spare[i] : i \in DOMAIN spare} \cup ({shot.slot} \ {0})
               PROVE  /\ releases[s].inFlight = 0
                      /\ worker \in {"pushing", "retiring"} => pushing.slot # s
                      /\ \A i \in DOMAIN backlog : backlog[i].kind = "frame" => backlog[i].slot # s
    BY DEF EN!BuffersUntouched
  <1> USE DEF EngineParts
  <1>1. s \in 1 .. Pool /\ (EN!Spares(s) \/ shot.slot = s)
    <2>1. CASE s \in {spare[i] : i \in DOMAIN spare}
      <3>1. PICK i \in DOMAIN spare : spare[i] = s
        BY <2>1
      <3>2. spare \in [1 .. Len(spare) -> 1 .. Pool]
        BY LenProperties DEF SparesOnce
      <3> QED
        BY <3>1, <3>2 DEF EN!Spares
    <2>2. CASE s \in {shot.slot} \ {0}
      <3>1. shot.slot \in 0 .. Pool /\ Pool \in Nat
        BY RecordingAssumption DEF EngineStages, EN!EngineAssumption
      <3> QED
        BY <2>2, <3>1
    <2> QED
      BY <2>1, <2>2
  <1>2. ~EN!Queued(s) /\ ~EN!Holding(s)
    BY <1>1 DEF Places, Apart
  <1>3. releases[s].inFlight \in Nat /\ releases[s].checks \in Nat /\ EN!ReleasesInv
    BY <1>1, RecordingAssumption DEF Releases, EN!EngineAssumption
  <1>4. releases[s].inFlight = 0
    BY <1>1, <1>2, <1>3 DEF EN!Holding, EN!ReleasesInv
  <1>5. worker \in {"pushing", "retiring"} => pushing.slot # s
    BY <1>1, <1>2, <1>3 DEF EN!Holding, EN!ReleasesInv
  <1> QED
    BY <1>2, <1>4, <1>5 DEF EN!Queued

\* The instance counts as FiniteSets does.
LEMMA EngineCounts ==
    ASSUME NEW S PROVE EN!Cardinality(S) = Cardinality(S)
  BY DEF EN!IsFiniteSet, IsFiniteSet, EN!Cardinality, Cardinality

\* A set of at most one index counts 1 or 0.
LEMMA CountOfOne ==
    ASSUME NEW S, \A i, j \in S : i = j
    PROVE  EN!Cardinality(S) = IF S = {} THEN 0 ELSE 1
  <1>1. CASE S = {}
    BY <1>1, FS_EmptySet, EngineCounts
  <1>2. CASE S # {}
    <2>1. PICK x : S = {x}
      BY <1>2
    <2> QED
      BY <2>1, FS_Singleton, EngineCounts
  <1> QED
    BY <1>1, <1>2

\* No buffer of the pool is lost or doubled.
LEMMA PoolCounted == EngineParts => EN!PoolIsWhole
  <1> SUFFICES ASSUME EngineParts, NEW s \in 1 .. Pool, worker # "failed",
                      main \in {"top", "waiting", "picking", "shooting", "shot", "halting"}
               PROVE  EN!Cardinality({i \in DOMAIN spare : spare[i] = s})
                      + (IF shot.slot = s THEN 1 ELSE 0)
                      + EN!Cardinality({i \in DOMAIN backlog :
                                            backlog[i].kind = "frame" /\ backlog[i].slot = s})
                      + (IF ~releases[s].returned
                            /\ (releases[s].inFlight + releases[s].checks > 0 \/ pushing.slot = s)
                         THEN 1 ELSE 0) = 1
    BY DEF EN!PoolIsWhole
  <1> USE DEF EngineParts
  <1>1. Apart(s) /\ Somewhere(s)
    BY DEF Places, Kept, EN!Recording
  <1> DEFINE S == {i \in DOMAIN spare : spare[i] = s}
             Q == {i \in DOMAIN backlog : backlog[i].kind = "frame" /\ backlog[i].slot = s}
  <1>2. /\ \A i, j \in S : i = j
        /\ S # {} <=> EN!Spares(s)
    BY DEF SparesOnce, EN!Spares
  <1>3. /\ \A i, j \in Q : i = j
        /\ Q # {} <=> EN!Queued(s)
    BY DEF BacklogOnce, EN!Queued
  <1>4. /\ EN!Cardinality(S) = IF EN!Spares(s) THEN 1 ELSE 0
        /\ EN!Cardinality(Q) = IF EN!Queued(s) THEN 1 ELSE 0
    <2> HIDE DEF S, Q
    <2> QED
      BY <1>2, <1>3, CountOfOne
  <1>5. (IF ~releases[s].returned
            /\ (releases[s].inFlight + releases[s].checks > 0 \/ pushing.slot = s)
         THEN 1 ELSE 0) = IF EN!Holding(s) THEN 1 ELSE 0
    BY DEF EN!Holding
  <1> HIDE DEF S, Q
  <1>6. EN!Cardinality(S) + (IF shot.slot = s THEN 1 ELSE 0) + EN!Cardinality(Q)
        + (IF EN!Holding(s) THEN 1 ELSE 0) = 1
    BY <1>1, <1>4 DEF Apart, Somewhere
  <1> QED
    BY <1>5, <1>6 DEF S, Q

-----------------------------------------------------------------------------
(* The three together.                                                     *)

\* A step of another part changes nothing here.
LEMMA PauseStays == PauseInv /\ UNCHANGED recVars => PauseInv'
  BY Zenon DEF recVars, controller, processes, capture, session, PauseInv, PauseAgrees

LEMMA EngineStays == EngineParts /\ UNCHANGED engineVars => EngineParts'
  <1> SUFFICES ASSUME EngineParts, UNCHANGED engineVars PROVE EngineParts'
      OBVIOUS
  <1> USE DEF EngineParts
  <1>1. Beside /\ UNCHANGED <<shot, spare, backlog, worker, pushing, releases, reached, origin,
                              pausedAt, pausedFor, written, unfilled, file, mishaps>>
    BY DEF engineVars, Beside
  <1>2. Releases' /\ Timeline' /\ Pauses'
    BY <1>1 DEF Releases, EN!ReleasesInv, Timeline, Pauses, Beside
  <1>3. Places'
    BY <1>1, PlacesKept DEF Kept, EN!Recording, EN!Queued, Beside
  <1>4. SparesOnce' /\ BacklogOnce'
    BY <1>1 DEF SparesOnce, BacklogOnce
  <1>5. mishaps' \in 0 .. MaxMishaps /\ file' \in {"none", "open", "indexed", "cut"}
    BY <1>1 DEF EngineLines
  <1> QED
    BY <1>1, <1>2, <1>3, <1>4, <1>5, WorkerFrame

LEMMA MuxerStays == MuxerParts /\ UNCHANGED muxerVars => MuxerParts'
  <1> SUFFICES ASSUME MuxerParts, UNCHANGED muxerVars PROVE MuxerParts'
      OBVIOUS
  <1> USE DEF muxerVars, MuxerParts
  <1>1. Switches'
    BY Zenon DEF Switches
  <1>2. Traffic'
    BY DEF Traffic
  <1>3. Delivery'
    BY DEF Delivery, GM!Undelivered, GM!Finishing, GM!Unstarted
  <1>4. Stages'
    BY DEF Stages, GM!Unstarted
  <1> QED
    BY <1>1, <1>2, <1>3, <1>4

\* The invariants of the three programs.
RecordingInv == RecInv /\ PauseInv /\ EngineParts /\ MuxerParts

\* They make up what the runs check.
LEMMA RecordingInvSound == RecordingInv => RecordingSound
  <1>1. EngineParts => EN!TimelineAddsUp
    BY DEF EngineParts, Timeline, EN!TimelineAddsUp
  <1> QED
    BY <1>1, SparesUntouched, PoolCounted, EngineInvParts, MuxerInvParts
       DEF RecordingInv, RecordingSound, EN!PoolSound

\* "Paused" is shown while the pipeline is paused; no buffer of the engine's pool
\* is drawn into while it is read, none is lost, and the frames written and left
\* out account for the whole time line; a session of the muxer that reports
\* success has an indexed file with every unit that was received, one that
\* failed leaves none unless FFmpeg itself broke.
THEOREM RecordingIsSound == RecordingSpec => []RecordingSound
  <1>1. RecordingInit => RecordingInv
    <2> SUFFICES ASSUME RecordingInit PROVE RecordingInv
        OBVIOUS
    <2>1. RecInv
      BY RecInitInv DEF RecordingInit
    <2>2. PauseInv
      BY RecorderAssumption DEF RecordingInit, RecInit, PauseInv, PauseAgrees
    <2>3. EngineParts
      BY EngineStart DEF RecordingInit
    <2>4. MuxerParts
      BY MuxerStart DEF RecordingInit
    <2> QED
      BY <2>1, <2>2, <2>3, <2>4 DEF RecordingInv
  <1>2. RecordingInv /\ [RecordingNext]_recordingVars => RecordingInv'
    <2> SUFFICES ASSUME RecordingInv, [RecordingNext]_recordingVars PROVE RecordingInv'
        OBVIOUS
    <2> USE DEF RecordingInv
    <2>1. RecInv'
      <3>1. RecNext \/ UNCHANGED recVars
        BY DEF RecordingNext, recordingVars
      <3> QED
        BY <3>1, CommandsInv, OthersInv, RecStutterInv DEF RecNext
    <2>2. PauseInv'
      <3>1. RecNext \/ UNCHANGED recVars
        BY DEF RecordingNext, recordingVars
      <3> QED
        BY <3>1, PauseStep, PauseStays
    <2>3. EngineParts'
      <3>1. EN!EngineNext \/ UNCHANGED engineVars
        BY DEF RecordingNext, recordingVars
      <3> QED
        BY <3>1, EngineStep, EngineStays
    <2>4. MuxerParts'
      <3>1. GM!MuxerNext \/ UNCHANGED muxerVars
        BY DEF RecordingNext, recordingVars
      <3> QED
        BY <3>1, MuxerStep, MuxerStays
    <2> QED
      BY <2>1, <2>2, <2>3, <2>4
  <1> QED
    BY <1>1, <1>2, RecordingInvSound, PTL DEF RecordingSpec
=============================================================================
