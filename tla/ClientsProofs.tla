--------------------------- MODULE ClientsProofs ---------------------------
(***************************************************************************)
(* Safety of the two conversations of MCClients for any number of outputs, *)
(* lockers, callers and subscribers.  Of the session lock: the inductive   *)
(* invariant LockInv, what it implies, and the refinement of LockPromise.  *)
(* Of the control socket: IpcInv is proved inductive, one step per action  *)
(* of ipc.rs and of the event loop.                                        *)
(***************************************************************************)
EXTENDS MCClients, TLAPS, FiniteSetTheorems

-----------------------------------------------------------------------------
(* The session lock.                                                       *)

IdleEntries == [output : Outputs \cup {Gone}, generation : Generation]

\* Shortening the callback queue keeps every callback but the first.
LEMMA IdleTail ==
    ASSUME idle \in Seq(IdleEntries), idle # <<>>
    PROVE  /\ Tail(idle) \in Seq(IdleEntries)
           /\ Len(Tail(idle)) = Len(idle) - 1
           /\ \A i \in 1 .. Len(Tail(idle)) : Tail(idle)[i] = idle[i + 1]
           /\ Head(idle) = idle[1]
           /\ 1 \in 1 .. Len(idle)
           /\ \A i \in 1 .. Len(Tail(idle)) : i + 1 \in 1 .. Len(idle)
  OBVIOUS

\* Appending a callback adds it at the end.
LEMMA IdleAppend ==
    ASSUME idle \in Seq(IdleEntries), NEW e \in IdleEntries
    PROVE  /\ Append(idle, e) \in Seq(IdleEntries)
           /\ Len(Append(idle, e)) = Len(idle) + 1
           /\ \A i \in 1 .. Len(idle) : Append(idle, e)[i] = idle[i]
           /\ Append(idle, e)[Len(idle) + 1] = e
  OBVIOUS

\* The LockOutput values the handlers write.
LEMMA LockOutputTypes ==
    ASSUME NEW g \in Generation
    PROVE  /\ Unlocked \in LockOutputs
           /\ FreshLock(g) \in LockOutputs
  BY LockAssumption DEF Unlocked, FreshLock, LockOutputs, Generation, Presentations

\* The initial state satisfies the invariant.
LEMMA LockInvInit == Init => LockInv
  <1> SUFFICES ASSUME Init PROVE LockInv
    OBVIOUS
  <1>1. TypeOK
    <2>1. 0 \in Generation /\ NoFrame \in Frame /\ Desktop \in Frame
      BY LockAssumption DEF Generation, Frame
    <2>2. Unlocked \in LockOutputs
      BY <2>1, LockOutputTypes
    <2>3. /\ screen \in [Outputs -> Frame]
          /\ pending \in [Outputs -> Frame]
          /\ queued \in [Outputs -> Frame]
      BY <2>1 DEF Init
    <2>4. idle \in Seq([output : Outputs \cup {Gone}, generation : Generation])
      BY DEF Init
    <2>5. hotplugs \in 0 .. MaxHotplug /\ switches \in 0 .. MaxSwitch
      BY LockAssumption DEF Init
    <2> QED
      BY <2>1, <2>2, <2>3, <2>4, <2>5 DEF Init, TypeOK, ClientStates
  <1>2. LockCoversOutputs /\ CountedFramesAreOnScreen /\ FlipsInOrder
        /\ CallbacksAreOnScreen /\ ConfirmedMeansClean /\ OneHolder /\ UnlockUncovers
    BY DEF Init, UnlockUncovers, Unlocked, OneHolder, LockCoversOutputs, CountedFramesAreOnScreen, FlipsInOrder,
       CallbacksAreOnScreen, ConfirmedMeansClean
  <1>3. NoFutureFrames /\ UnmappedIsEmpty
    BY DEF Init, NoFutureFrames, UnmappedIsEmpty, Unlocked, NoFrame, Desktop
  <1> QED
    BY <1>1, <1>2, <1>3 DEF LockInv

-----------------------------------------------------------------------------
(* Type correctness, one step per action.                                  *)

LEMMA TypeStep == TypeOK /\ [Next]_vars => TypeOK'
  <1> SUFFICES ASSUME TypeOK, [Next]_vars PROVE TypeOK'
    OBVIOUS
  <1> USE LockAssumption DEF TypeOK, kms, env
  <1>1. ASSUME NEW c \in Clients, LockDenied(c) PROVE TypeOK'
    BY <1>1 DEF LockDenied, ClientStates
  <1>2. ASSUME NEW c \in Clients, Lock(c) PROVE TypeOK'
    <2>1. generation' \in Generation
      BY <1>2 DEF Lock, Generation
    <2>2. lockOutput' \in [Outputs -> LockOutputs]
      BY <1>2, <2>1, LockOutputTypes DEF Lock
    <2> QED
      BY <1>2, <2>1, <2>2 DEF Lock, ResetBuffers, ClientStates
  <1>3. ASSUME NEW c \in Clients, Unlock(c) PROVE TypeOK'
    <2>1. lockOutput' \in [Outputs -> LockOutputs]
      BY <1>3, LockOutputTypes DEF Unlock, Uncovered
    <2> QED
      BY <1>3, <2>1 DEF Unlock, ResetBuffers, ClientStates
  <1>4. ASSUME NEW c \in Clients, ClientGone(c) PROVE TypeOK'
    BY <1>4 DEF ClientGone, ClientStates
  <1>5. ASSUME NEW c \in Clients, NEW o \in Outputs, NewSurface(c, o) PROVE TypeOK'
    BY <1>5 DEF NewSurface, LockOutputs
  <1>6. ASSUME NEW o \in Outputs, Commit(o) PROVE TypeOK'
    BY <1>6 DEF Commit
  <1>7. ASSUME NEW o \in Outputs PROVE FrameOf(o) \in Frame
    BY DEF FrameOf, Frame, LockOutputs
  <1>8. ASSUME NEW o \in Outputs, Repaint(o) PROVE TypeOK'
    BY <1>7, <1>8 DEF Repaint, RenderSurfaces
  <1>9. CASE RedrawPass
    BY <1>7, <1>9 DEF RedrawPass, RenderSurfaces
  <1>10. ASSUME NEW o \in Outputs, FrameFinish(o) PROVE TypeOK'
    <2>1. pending[o] \in Generation
            => [output |-> o, generation |-> pending[o]] \in IdleEntries
      BY DEF IdleEntries
    <2>2. idle' \in Seq(IdleEntries)
      BY <1>10, <2>1, IdleAppend DEF FrameFinish, FlipTag, IdleEntries
    <2> QED
      BY <1>10, <2>2 DEF FrameFinish, Frame, IdleEntries
  <1>11. CASE LockPresented
    <2>1. idle' \in Seq(IdleEntries)
      BY <1>11, IdleTail DEF LockPresented, IdleEntries
    <2>2. lockOutput' \in [Outputs -> LockOutputs]
      <3>1. \A l \in LockOutputs : Counted(l) \in LockOutputs
        BY DEF LockOutputs, Counted, Bump, Presentations
      <3> QED
        BY <1>11, <3>1 DEF LockPresented
    <2>3. redraw' \in BOOLEAN
      BY <1>11 DEF LockPresented
    <2> QED
      BY <1>11, <2>1, <2>2, <2>3 DEF LockPresented, ClientStates, IdleEntries
  <1>12. ASSUME NEW o \in Outputs, Plug(o) PROVE TypeOK'
    BY <1>12 DEF Plug, PlugLockOutput, FreshLock, Unlocked, LockOutputs, Generation,
       Presentations
  <1>13. ASSUME NEW o \in Outputs, Unplug(o) PROVE TypeOK'
    <2>1. idle' \in Seq(IdleEntries)
      <3> DEFINE entry(i) == IF idle[i].output = o
                             THEN [output |-> Gone, generation |-> idle[i].generation]
                             ELSE idle[i]
      <3>1. idle \in Seq(IdleEntries)
        BY DEF IdleEntries
      <3>2. Len(idle) \in Nat /\ DOMAIN idle = 1 .. Len(idle)
        BY <3>1
      <3>3. \A i \in 1 .. Len(idle) : entry(i) \in IdleEntries
        <4> TAKE i \in 1 .. Len(idle)
        <4>1. idle[i] \in IdleEntries
          BY <3>1
        <4> QED
          BY <4>1 DEF IdleEntries
      <3> HIDE DEF entry
      <3>4. [i \in 1 .. Len(idle) |-> entry(i)] \in Seq(IdleEntries)
        BY <3>2, <3>3
      <3> QED
        BY <1>13, <3>2, <3>4 DEF Unplug, entry
    <2> QED
      BY <1>13, <2>1 DEF Unplug, Frame, Unlocked, LockOutputs, Generation,
         Presentations, IdleEntries
  <1>14. CASE PauseSession
    <2>1. switches' \in 0 .. MaxSwitch
      BY <1>14 DEF PauseSession
    <2> QED
      BY <1>14, <2>1 DEF PauseSession
  <1>15. CASE ActivateSession
    BY <1>15 DEF ActivateSession, Frame
  <1>16. CASE UNCHANGED vars
    BY <1>16 DEF vars
  <1> QED
    BY <1>1, <1>2, <1>3, <1>4, <1>5, <1>6, <1>8, <1>9, <1>10, <1>11, <1>12, <1>13,
       <1>14, <1>15, <1>16 DEF Next

-----------------------------------------------------------------------------
(* The inductive step, one step per action.                                *)

\* What LockInv says beyond the types.
Core ==
    /\ LockCoversOutputs
    /\ CountedFramesAreOnScreen
    /\ NoFutureFrames
    /\ UnmappedIsEmpty
    /\ FlipsInOrder
    /\ CallbacksAreOnScreen
    /\ ConfirmedMeansClean
    /\ OneHolder

LEMMA CoreStep == LockInv /\ [Next]_vars => Core'
  <1> SUFFICES ASSUME LockInv, [Next]_vars PROVE Core'
    OBVIOUS
  <1> USE LockAssumption DEF kms, env, Clean, NoFrame, Desktop
  <1>a. TypeOK /\ Core
    BY DEF LockInv, Core
  <1>1. ASSUME NEW c \in Clients, LockDenied(c) PROVE Core'
    BY <1>a, <1>1 DEF TypeOK, Core, LockCoversOutputs, CountedFramesAreOnScreen,
       NoFutureFrames, UnmappedIsEmpty, FlipsInOrder, CallbacksAreOnScreen,
       ConfirmedMeansClean, OneHolder,
       LockDenied
  <1>2. ASSUME NEW c \in Clients, Lock(c) PROVE Core'
    <2>a. \A o \in mapped : o \in Outputs /\ pending[o] # generation' /\ screen[o] # generation'
      BY <1>a, <1>2 DEF TypeOK, Core, NoFutureFrames, Lock, Generation, Frame
    <2>b. /\ generation \in Int /\ generation' = generation + 1
          /\ \A o \in Outputs : /\ lockOutput[o].generation \in Int
                               /\ pending[o] \in Int /\ queued[o] \in Int /\ screen[o] \in Int
          /\ \A i \in 1 .. Len(idle) : idle[i].generation \in Int
      <3>1. \A f \in Frame : f \in Int
        BY DEF Frame, Generation
      <3>2. \A o \in Outputs : lockOutput[o].generation \in Generation
        BY <1>a DEF TypeOK, LockOutputs
      <3>3. \A i \in 1 .. Len(idle) : idle[i].generation \in Generation
        <4>1. idle \in Seq(IdleEntries)
          BY <1>a DEF TypeOK, IdleEntries
        <4>2. \A i \in 1 .. Len(idle) : idle[i] \in IdleEntries
          BY <4>1
        <4> QED
          BY <4>2 DEF IdleEntries
      <3>4. \A o \in Outputs : pending[o] \in Frame /\ queued[o] \in Frame /\ screen[o] \in Frame
        BY <1>a DEF TypeOK
      <3> QED
        BY <1>a, <1>2, <3>1, <3>2, <3>3, <3>4 DEF TypeOK, Lock, Generation
    <2>1. LockCoversOutputs'
      BY <1>a, <1>2, <2>a, <2>b DEF TypeOK, Core, LockCoversOutputs, Lock, MayLock,
         FreshLock, Generation, Frame, LockOutputs
    <2>2. CountedFramesAreOnScreen'
      BY <1>a, <1>2, <2>a, <2>b DEF TypeOK, Core, CountedFramesAreOnScreen,
         LockCoversOutputs, FlipsInOrder, CallbacksAreOnScreen, UnmappedIsEmpty, Lock,
         MayLock, FreshLock, Generation, Frame, LockOutputs
    <2>3. NoFutureFrames'
      <3>1. \A o \in Outputs : lockOutput'[o].generation <= generation'
        BY <1>a, <1>2, <2>b DEF TypeOK, Core, NoFutureFrames, Lock, FreshLock
      <3> QED
        BY <1>a, <1>2, <2>b, <3>1 DEF Core, NoFutureFrames, Lock
    <2>4. UnmappedIsEmpty'
      BY <1>a, <1>2, <2>a, <2>b DEF TypeOK, Core, UnmappedIsEmpty, Lock, MayLock,
         FreshLock, Generation, Frame, LockOutputs
    <2>5. FlipsInOrder'
      BY <1>a, <1>2, <2>a, <2>b DEF TypeOK, Core, FlipsInOrder, LockCoversOutputs,
         NoFutureFrames, UnmappedIsEmpty, Lock, MayLock, FreshLock, Generation, Frame,
         LockOutputs
    <2>6. CallbacksAreOnScreen'
      BY <1>a, <1>2, <2>a, <2>b DEF TypeOK, Core, CallbacksAreOnScreen, FlipsInOrder,
         NoFutureFrames, UnmappedIsEmpty, Lock, MayLock, FreshLock, Generation, Frame,
         LockOutputs
    <2>7. ConfirmedMeansClean'
      BY <1>a, <1>2, <2>a, <2>b DEF TypeOK, Core, ConfirmedMeansClean, LockCoversOutputs,
         CountedFramesAreOnScreen, FlipsInOrder, UnmappedIsEmpty, Lock, MayLock,
         FreshLock, Generation, Frame, LockOutputs
    <2>8. OneHolder'
      BY <1>a, <1>2, <2>a, <2>b DEF TypeOK, Core, OneHolder, Lock, MayLock, FreshLock,
         Generation, Frame, LockOutputs
    <2> QED
      BY <2>1, <2>2, <2>3, <2>4, <2>5, <2>6, <2>7, <2>8 DEF Core
  <1>3. ASSUME NEW c \in Clients, Unlock(c) PROVE Core'
    <2>1. LockCoversOutputs'
      BY <1>a, <1>3 DEF TypeOK, Core, LockCoversOutputs, Unlock, Uncovered, Unlocked,
         Generation
    <2>2. CountedFramesAreOnScreen'
      BY <1>a, <1>3 DEF TypeOK, Core, CountedFramesAreOnScreen, LockCoversOutputs,
         FlipsInOrder, CallbacksAreOnScreen, UnmappedIsEmpty, Unlock, Uncovered,
         Unlocked, Generation
    <2>3. NoFutureFrames'
      BY <1>a, <1>3 DEF TypeOK, Core, NoFutureFrames, LockCoversOutputs, Unlock,
         Uncovered, Unlocked, Generation
    <2>4. UnmappedIsEmpty'
      BY <1>a, <1>3 DEF TypeOK, Core, UnmappedIsEmpty, Unlock, Uncovered, Unlocked,
         Generation
    <2>5. FlipsInOrder'
      BY <1>a, <1>3 DEF TypeOK, Core, FlipsInOrder, LockCoversOutputs, NoFutureFrames,
         UnmappedIsEmpty, Unlock, Uncovered, Unlocked, Generation
    <2>6. CallbacksAreOnScreen'
      BY <1>a, <1>3 DEF TypeOK, Core, CallbacksAreOnScreen, FlipsInOrder, NoFutureFrames,
         UnmappedIsEmpty, Unlock, Uncovered, Unlocked, Generation
    <2>7. ConfirmedMeansClean'
      BY <1>a, <1>3 DEF TypeOK, Core, ConfirmedMeansClean, LockCoversOutputs,
         CountedFramesAreOnScreen, FlipsInOrder, UnmappedIsEmpty, Unlock, Uncovered,
         Unlocked, Generation
    <2>8. OneHolder'
      BY <1>a, <1>3 DEF TypeOK, Core, OneHolder, Unlock, Uncovered, Unlocked, Generation
    <2> QED
      BY <2>1, <2>2, <2>3, <2>4, <2>5, <2>6, <2>7, <2>8 DEF Core
  <1>4. ASSUME NEW c \in Clients, ClientGone(c) PROVE Core'
    BY <1>a, <1>4 DEF TypeOK, Core, LockCoversOutputs, CountedFramesAreOnScreen,
       NoFutureFrames, UnmappedIsEmpty, FlipsInOrder, CallbacksAreOnScreen,
       ConfirmedMeansClean, OneHolder,
       ClientGone
  <1>5. ASSUME NEW c \in Clients, NEW o \in Outputs, NewSurface(c, o) PROVE Core'
    <2>1. LockCoversOutputs'
      BY <1>a, <1>5 DEF TypeOK, Core, LockCoversOutputs, NewSurface, Generation,
         LockOutputs
    <2>2. CountedFramesAreOnScreen'
      BY <1>a, <1>5 DEF TypeOK, Core, CountedFramesAreOnScreen, LockCoversOutputs,
         FlipsInOrder, CallbacksAreOnScreen, UnmappedIsEmpty, NewSurface, Generation,
         LockOutputs
    <2>3. NoFutureFrames'
      BY <1>a, <1>5 DEF TypeOK, Core, NoFutureFrames, LockCoversOutputs, NewSurface,
         Generation, LockOutputs
    <2>4. UnmappedIsEmpty'
      BY <1>a, <1>5 DEF TypeOK, Core, UnmappedIsEmpty, NewSurface, Generation, LockOutputs
    <2>5. FlipsInOrder'
      BY <1>a, <1>5 DEF TypeOK, Core, FlipsInOrder, LockCoversOutputs, NoFutureFrames,
         UnmappedIsEmpty, NewSurface, Generation, LockOutputs
    <2>6. CallbacksAreOnScreen'
      BY <1>a, <1>5 DEF TypeOK, Core, CallbacksAreOnScreen, FlipsInOrder, NoFutureFrames,
         UnmappedIsEmpty, NewSurface, Generation, LockOutputs
    <2>7. ConfirmedMeansClean'
      BY <1>a, <1>5 DEF TypeOK, Core, ConfirmedMeansClean, LockCoversOutputs,
         CountedFramesAreOnScreen, FlipsInOrder, UnmappedIsEmpty, NewSurface, Generation,
         LockOutputs
    <2>8. OneHolder'
      BY <1>a, <1>5 DEF TypeOK, Core, OneHolder, NewSurface, Generation, LockOutputs
    <2> QED
      BY <2>1, <2>2, <2>3, <2>4, <2>5, <2>6, <2>7, <2>8 DEF Core
  <1>6. ASSUME NEW o \in Outputs, Commit(o) PROVE Core'
    BY <1>a, <1>6 DEF TypeOK, Core, LockCoversOutputs, CountedFramesAreOnScreen,
       NoFutureFrames, UnmappedIsEmpty, FlipsInOrder, CallbacksAreOnScreen,
       ConfirmedMeansClean, OneHolder,
       Commit
  <1>7. ASSUME NEW o \in Outputs, Repaint(o) PROVE Core'
    <2>1. LockCoversOutputs'
      BY <1>a, <1>7 DEF TypeOK, Core, LockCoversOutputs, Repaint, RenderSurfaces,
         FrameOf, Generation, Frame, LockOutputs
    <2>2. CountedFramesAreOnScreen'
      BY <1>a, <1>7 DEF TypeOK, Core, CountedFramesAreOnScreen, LockCoversOutputs,
         FlipsInOrder, CallbacksAreOnScreen, UnmappedIsEmpty, Repaint, RenderSurfaces,
         FrameOf, Generation, Frame, LockOutputs
    <2>3. NoFutureFrames'
      BY <1>a, <1>7 DEF TypeOK, Core, NoFutureFrames, LockCoversOutputs, Repaint,
         RenderSurfaces, FrameOf, Generation, Frame, LockOutputs
    <2>4. UnmappedIsEmpty'
      BY <1>a, <1>7 DEF TypeOK, Core, UnmappedIsEmpty, Repaint, RenderSurfaces, FrameOf,
         Generation, Frame, LockOutputs
    <2>5. FlipsInOrder'
      BY <1>a, <1>7 DEF TypeOK, Core, FlipsInOrder, LockCoversOutputs, NoFutureFrames,
         UnmappedIsEmpty, Repaint, RenderSurfaces, FrameOf, Generation, Frame, LockOutputs
    <2>6. CallbacksAreOnScreen'
      BY <1>a, <1>7 DEF TypeOK, Core, CallbacksAreOnScreen, FlipsInOrder, NoFutureFrames,
         UnmappedIsEmpty, Repaint, RenderSurfaces, FrameOf, Generation, Frame, LockOutputs
    <2>7. ConfirmedMeansClean'
      BY <1>a, <1>7 DEF TypeOK, Core, ConfirmedMeansClean, LockCoversOutputs,
         CountedFramesAreOnScreen, FlipsInOrder, UnmappedIsEmpty, Repaint,
         RenderSurfaces, FrameOf, Generation, Frame, LockOutputs
    <2>8. OneHolder'
      BY <1>a, <1>7 DEF TypeOK, Core, OneHolder, Repaint, RenderSurfaces, FrameOf,
         Generation, Frame, LockOutputs
    <2> QED
      BY <2>1, <2>2, <2>3, <2>4, <2>5, <2>6, <2>7, <2>8 DEF Core
  <1>8. ASSUME NEW o \in Outputs, FrameFinish(o) PROVE Core'
    <2>a. idle \in Seq(IdleEntries)
      BY <1>a DEF TypeOK, IdleEntries
    <2>b. pending[o] \in Generation => [output |-> o,
    generation |-> pending[o]] \in IdleEntries
      BY DEF IdleEntries
    <2>1. LockCoversOutputs'
      BY <1>a, <1>8, <2>a, <2>b, IdleAppend DEF TypeOK, Core, LockCoversOutputs,
         FrameFinish, FlipTag, Generation, Frame, IdleEntries
    <2>2. CountedFramesAreOnScreen'
      BY <1>a, <1>8, <2>a, <2>b, IdleAppend DEF TypeOK, Core, CountedFramesAreOnScreen,
         LockCoversOutputs, FlipsInOrder, CallbacksAreOnScreen, UnmappedIsEmpty,
         FrameFinish, FlipTag, Generation, Frame, IdleEntries
    <2>3. NoFutureFrames'
      BY <1>a, <1>8, <2>a, <2>b, IdleAppend DEF TypeOK, Core, NoFutureFrames,
         LockCoversOutputs, FrameFinish, FlipTag, Generation, Frame, IdleEntries
    <2>4. UnmappedIsEmpty'
      BY <1>a, <1>8, <2>a, <2>b, IdleAppend DEF TypeOK, Core, UnmappedIsEmpty,
         FrameFinish, FlipTag, Generation, Frame, IdleEntries
    <2>5. FlipsInOrder'
      BY <1>a, <1>8, <2>a, <2>b, IdleAppend DEF TypeOK, Core, FlipsInOrder,
         LockCoversOutputs, NoFutureFrames, UnmappedIsEmpty, FrameFinish, FlipTag,
         Generation, Frame, IdleEntries
    <2>6. CallbacksAreOnScreen'
      BY <1>a, <1>8, <2>a, <2>b, IdleAppend DEF TypeOK, Core, CallbacksAreOnScreen,
         FlipsInOrder, NoFutureFrames, UnmappedIsEmpty, FrameFinish, FlipTag, Generation,
         Frame, IdleEntries
    <2>7. ConfirmedMeansClean'
      BY <1>a, <1>8, <2>a, <2>b, IdleAppend DEF TypeOK, Core, ConfirmedMeansClean,
         LockCoversOutputs, CountedFramesAreOnScreen, FlipsInOrder, UnmappedIsEmpty,
         FrameFinish, FlipTag, Generation, Frame, IdleEntries
    <2>8. OneHolder'
      BY <1>a, <1>8, <2>a, <2>b, IdleAppend DEF TypeOK, Core, OneHolder, FrameFinish,
         FlipTag, Generation, Frame, IdleEntries
    <2> QED
      BY <2>1, <2>2, <2>3, <2>4, <2>5, <2>6, <2>7, <2>8 DEF Core
  <1>9. ASSUME NEW o \in Outputs, Plug(o) PROVE Core'
    <2>1. LockCoversOutputs'
      BY <1>a, <1>9 DEF TypeOK, Core, LockCoversOutputs, Plug, PlugLockOutput, FreshLock,
         Unlocked, Generation
    <2>2. CountedFramesAreOnScreen'
      BY <1>a, <1>9 DEF TypeOK, Core, CountedFramesAreOnScreen, LockCoversOutputs,
         FlipsInOrder, CallbacksAreOnScreen, UnmappedIsEmpty, Plug, PlugLockOutput,
         FreshLock, Unlocked, Generation
    <2>3. NoFutureFrames'
      BY <1>a, <1>9 DEF TypeOK, Core, NoFutureFrames, LockCoversOutputs, Plug,
         PlugLockOutput, FreshLock, Unlocked, Generation
    <2>4. UnmappedIsEmpty'
      BY <1>a, <1>9 DEF TypeOK, Core, UnmappedIsEmpty, Plug, PlugLockOutput, FreshLock,
         Unlocked, Generation
    <2>5. FlipsInOrder'
      BY <1>a, <1>9 DEF TypeOK, Core, FlipsInOrder, LockCoversOutputs, NoFutureFrames,
         UnmappedIsEmpty, Plug, PlugLockOutput, FreshLock, Unlocked, Generation
    <2>6. CallbacksAreOnScreen'
      BY <1>a, <1>9 DEF TypeOK, Core, CallbacksAreOnScreen, FlipsInOrder, NoFutureFrames,
         UnmappedIsEmpty, Plug, PlugLockOutput, FreshLock, Unlocked, Generation
    <2>7. ConfirmedMeansClean'
      BY <1>a, <1>9 DEF TypeOK, Core, ConfirmedMeansClean, LockCoversOutputs,
         CountedFramesAreOnScreen, FlipsInOrder, UnmappedIsEmpty, Plug, PlugLockOutput,
         FreshLock, Unlocked, Generation
    <2>8. OneHolder'
      BY <1>a, <1>9 DEF TypeOK, Core, OneHolder, Plug, PlugLockOutput, FreshLock,
         Unlocked, Generation
    <2> QED
      BY <2>1, <2>2, <2>3, <2>4, <2>5, <2>6, <2>7, <2>8 DEF Core
  <1>10. ASSUME NEW o \in Outputs, Unplug(o) PROVE Core'
    <2>a. Len(idle') = Len(idle) /\ DOMAIN idle = 1 .. Len(idle)
      BY <1>a, <1>10 DEF TypeOK, Unplug
    <2>1. LockCoversOutputs'
      BY <1>a, <1>10, <2>a DEF TypeOK, Core, LockCoversOutputs, Unplug, Unlocked,
         Generation, IdleEntries
    <2>2. CountedFramesAreOnScreen'
      BY <1>a, <1>10, <2>a DEF TypeOK, Core, CountedFramesAreOnScreen, LockCoversOutputs,
         FlipsInOrder, CallbacksAreOnScreen, UnmappedIsEmpty, Unplug, Unlocked,
         Generation, IdleEntries
    <2>3. NoFutureFrames'
      BY <1>a, <1>10, <2>a DEF TypeOK, Core, NoFutureFrames, LockCoversOutputs, Unplug,
         Unlocked, Generation, IdleEntries
    <2>4. UnmappedIsEmpty'
      BY <1>a, <1>10, <2>a DEF TypeOK, Core, UnmappedIsEmpty, Unplug, Unlocked,
         Generation, IdleEntries
    <2>5. FlipsInOrder'
      BY <1>a, <1>10, <2>a DEF TypeOK, Core, FlipsInOrder, LockCoversOutputs,
         NoFutureFrames, UnmappedIsEmpty, Unplug, Unlocked, Generation, IdleEntries
    <2>6. CallbacksAreOnScreen'
      BY <1>a, <1>10, <2>a DEF TypeOK, Core, CallbacksAreOnScreen, FlipsInOrder,
         NoFutureFrames, UnmappedIsEmpty, Unplug, Unlocked, Generation, IdleEntries
    <2>7. ConfirmedMeansClean'
      BY <1>a, <1>10, <2>a DEF TypeOK, Core, ConfirmedMeansClean, LockCoversOutputs,
         CountedFramesAreOnScreen, FlipsInOrder, UnmappedIsEmpty, Unplug, Unlocked,
         Generation, IdleEntries
    <2>8. OneHolder'
      BY <1>a, <1>10, <2>a DEF TypeOK, Core, OneHolder, Unplug, Unlocked, Generation,
         IdleEntries
    <2> QED
      BY <2>1, <2>2, <2>3, <2>4, <2>5, <2>6, <2>7, <2>8 DEF Core
  <1>11. CASE RedrawPass
    <2>1. LockCoversOutputs'
      BY <1>a, <1>11 DEF TypeOK, Core, LockCoversOutputs, RedrawPass, RenderSurfaces,
         FrameOf, Generation, Frame, LockOutputs
    <2>2. CountedFramesAreOnScreen'
      BY <1>a, <1>11 DEF TypeOK, Core, CountedFramesAreOnScreen, LockCoversOutputs,
         FlipsInOrder, CallbacksAreOnScreen, UnmappedIsEmpty, RedrawPass, RenderSurfaces,
         FrameOf, Generation, Frame, LockOutputs
    <2>3. NoFutureFrames'
      BY <1>a, <1>11 DEF TypeOK, Core, NoFutureFrames, LockCoversOutputs, RedrawPass,
         RenderSurfaces, FrameOf, Generation, Frame, LockOutputs
    <2>4. UnmappedIsEmpty'
      BY <1>a, <1>11 DEF TypeOK, Core, UnmappedIsEmpty, RedrawPass, RenderSurfaces,
         FrameOf, Generation, Frame, LockOutputs
    <2>5. FlipsInOrder'
      BY <1>a, <1>11 DEF TypeOK, Core, FlipsInOrder, LockCoversOutputs, NoFutureFrames,
         UnmappedIsEmpty, RedrawPass, RenderSurfaces, FrameOf, Generation, Frame,
         LockOutputs
    <2>6. CallbacksAreOnScreen'
      BY <1>a, <1>11 DEF TypeOK, Core, CallbacksAreOnScreen, FlipsInOrder,
         NoFutureFrames, UnmappedIsEmpty, RedrawPass, RenderSurfaces, FrameOf,
         Generation, Frame, LockOutputs
    <2>7. ConfirmedMeansClean'
      BY <1>a, <1>11 DEF TypeOK, Core, ConfirmedMeansClean, LockCoversOutputs,
         CountedFramesAreOnScreen, FlipsInOrder, UnmappedIsEmpty, RedrawPass,
         RenderSurfaces, FrameOf, Generation, Frame, LockOutputs
    <2>8. OneHolder'
      BY <1>a, <1>11 DEF TypeOK, Core, OneHolder, RedrawPass, RenderSurfaces, FrameOf,
         Generation, Frame, LockOutputs
    <2> QED
      BY <2>1, <2>2, <2>3, <2>4, <2>5, <2>6, <2>7, <2>8 DEF Core
  <1>12. CASE LockPresented
    <2>a. /\ idle \in Seq(IdleEntries) /\ idle # <<>>
      BY <1>a, <1>12 DEF TypeOK, IdleEntries, LockPresented
    <2>b. idle' = Tail(idle) /\ UNCHANGED <<locked, generation, mapped, pending, queued, screen>>
      BY <1>12 DEF LockPresented
    <2>c. \/ lockOutput' = lockOutput
          \/ /\ Records(Head(idle)) /\ generation = Head(idle).generation
             /\ lockOutput' = [lockOutput EXCEPT ![Head(idle).output] = Counted(@)]
      BY <1>12 DEF LockPresented
    <2>d. \A o \in mapped : /\ lockOutput'[o].locked = lockOutput[o].locked
                            /\ lockOutput'[o].generation = lockOutput[o].generation
      BY <1>a, <2>c DEF TypeOK, LockOutputs, Records, Counted
    <2>e. \A o \in mapped : \/ lockOutput'[o] = lockOutput[o]
                            \/ o = Head(idle).output /\ generation = Head(idle).generation
      BY <1>a, <2>c DEF TypeOK, LockOutputs, Records, Counted
    <2>1. LockCoversOutputs'
      BY <1>a, <2>b, <2>d DEF Core, LockCoversOutputs
    <2>2. CountedFramesAreOnScreen'
      BY <1>a, <2>a, <2>b, <2>d, <2>e, IdleTail DEF TypeOK, Core, CountedFramesAreOnScreen,
         LockCoversOutputs, CallbacksAreOnScreen, IdleEntries
    <2>3. NoFutureFrames'
      <3>1. \A o \in Outputs : lockOutput'[o].generation = lockOutput[o].generation
        BY <1>a, <2>c DEF TypeOK, LockOutputs, Records, Counted
      <3> QED
        BY <1>a, <2>a, <2>b, <3>1, IdleTail DEF Core, NoFutureFrames
    <2>4. UnmappedIsEmpty'
      BY <1>a, <2>a, <2>b, IdleTail DEF Core, UnmappedIsEmpty
    <2>5. FlipsInOrder'
      BY <1>a, <2>b DEF Core, FlipsInOrder, Clean
    <2>6. CallbacksAreOnScreen'
      BY <1>a, <2>a, <2>b, IdleTail DEF Core, CallbacksAreOnScreen
    <2>7. ConfirmedMeansClean'
      <3> SUFFICES ASSUME locked', confirmation' = NoClient, NEW o \in mapped'
                   PROVE  Clean(screen[o]) /\ Clean(pending[o]) /\ Clean(queued[o])
        BY <1>12 DEF ConfirmedMeansClean, LockPresented
      <3>1. CASE confirmation = NoClient
        BY <1>a, <1>12, <3>1 DEF Core, ConfirmedMeansClean, LockPresented
      <3>2. CASE confirmation # NoClient
        <4>1. Ready(lockOutput'[o], generation)
          BY <1>12, <3>2 DEF LockPresented
        <4>2. lockOutput'[o].presentations > 0
          <5>1. lockOutput'[o].presentations \in Presentations
            BY <1>a, TypeStep DEF TypeOK, LockOutputs
          <5> QED
            BY <4>1, <5>1 DEF Ready, Presentations
        <4>3. screen[o] = generation
          BY <1>12, <2>2, <4>2 DEF CountedFramesAreOnScreen, LockPresented
        <4> QED
          BY <1>a, <1>12, <4>3 DEF Core, FlipsInOrder, LockPresented
      <3> QED
        BY <3>1, <3>2
    <2>8. OneHolder'
      <3>1. \/ UNCHANGED <<client, confirmation>>
            \/ /\ confirmation' = NoClient
               /\ client' = [c \in Clients |->
                       IF c = confirmation /\ client[c] = "waiting" THEN "locked" ELSE client[c]]
        BY <1>a, <1>12 DEF TypeOK, LockPresented
      <3> QED
        BY <1>a, <2>b, <3>1, LockAssumption DEF TypeOK, Core, OneHolder
    <2> QED
      BY <2>1, <2>2, <2>3, <2>4, <2>5, <2>6, <2>7, <2>8 DEF Core
  <1>13. CASE PauseSession
    BY <1>a, <1>13 DEF TypeOK, Core, LockCoversOutputs, CountedFramesAreOnScreen,
       NoFutureFrames, UnmappedIsEmpty, FlipsInOrder, CallbacksAreOnScreen,
       ConfirmedMeansClean, OneHolder,
       PauseSession
  <1>14. CASE ActivateSession
    <2>1. LockCoversOutputs'
      BY <1>a, <1>14 DEF TypeOK, Core, LockCoversOutputs, ActivateSession, Frame,
         Generation
    <2>2. CountedFramesAreOnScreen'
      BY <1>a, <1>14 DEF TypeOK, Core, CountedFramesAreOnScreen, LockCoversOutputs,
         FlipsInOrder, CallbacksAreOnScreen, UnmappedIsEmpty, ActivateSession, Frame,
         Generation
    <2>3. NoFutureFrames'
      BY <1>a, <1>14 DEF TypeOK, Core, NoFutureFrames, LockCoversOutputs,
         ActivateSession, Frame, Generation
    <2>4. UnmappedIsEmpty'
      BY <1>a, <1>14 DEF TypeOK, Core, UnmappedIsEmpty, ActivateSession, Frame, Generation
    <2>5. FlipsInOrder'
      BY <1>a, <1>14 DEF TypeOK, Core, FlipsInOrder, LockCoversOutputs, NoFutureFrames,
         UnmappedIsEmpty, ActivateSession, Frame, Generation
    <2>6. CallbacksAreOnScreen'
      BY <1>a, <1>14 DEF TypeOK, Core, CallbacksAreOnScreen, FlipsInOrder,
         NoFutureFrames, UnmappedIsEmpty, ActivateSession, Frame, Generation
    <2>7. ConfirmedMeansClean'
      BY <1>a, <1>14 DEF TypeOK, Core, ConfirmedMeansClean, LockCoversOutputs,
         CountedFramesAreOnScreen, FlipsInOrder, UnmappedIsEmpty, ActivateSession, Frame,
         Generation
    <2>8. OneHolder'
      BY <1>a, <1>14 DEF TypeOK, Core, OneHolder, ActivateSession, Frame, Generation
    <2> QED
      BY <2>1, <2>2, <2>3, <2>4, <2>5, <2>6, <2>7, <2>8 DEF Core
  <1>15. CASE UNCHANGED vars
    BY <1>a, <1>15 DEF TypeOK, Core, LockCoversOutputs, CountedFramesAreOnScreen,
       NoFutureFrames, UnmappedIsEmpty, FlipsInOrder, CallbacksAreOnScreen,
       ConfirmedMeansClean, OneHolder,
       vars
  <1> QED
    BY <1>1, <1>2, <1>3, <1>4, <1>5, <1>6, <1>7, <1>8, <1>9, <1>10, <1>11, <1>12, <1>13,
       <1>14, <1>15 DEF Next

-----------------------------------------------------------------------------
(* Of an unlocked session only the surfaces of denied clients cover an     *)
(* output.                                                                 *)

LEMMA UncoversStep ==
    ASSUME LockInv, [Next]_vars
    PROVE  UnlockUncovers'
  <1> USE LockAssumption DEF UnlockUncovers, kms, env
  <1>a. /\ mapped \subseteq Outputs /\ lockOutput \in [Outputs -> LockOutputs]
        /\ client \in [Clients -> ClientStates]
        /\ OneHolder /\ UnlockUncovers
    BY DEF LockInv, TypeOK
  <1>1. ASSUME NEW c \in Clients, LockDenied(c) \/ Lock(c) \/ Unlock(c) \/ ClientGone(c)
        PROVE  UnlockUncovers'
    BY <1>a, <1>1 DEF LockDenied, Lock, Unlock, Uncovered, Unlocked, ClientGone
  <1>2. ASSUME NEW c \in Clients, NEW o \in Outputs, NewSurface(c, o) PROVE UnlockUncovers'
    \* On an unlocked session a client with a lock object was denied.
    <2>1. ~locked => client[c] = "finished"
      BY <1>a, <1>2 DEF NewSurface, OneHolder, ClientStates
    <2> QED
      BY <1>a, <1>2, <2>1 DEF NewSurface
  <1>3. ASSUME NEW o \in Outputs, Commit(o) \/ Repaint(o) \/ FrameFinish(o)
        PROVE  UnlockUncovers'
    BY <1>a, <1>3 DEF Commit, Repaint, FrameFinish
  <1>4. ASSUME NEW o \in Outputs, Plug(o) \/ Unplug(o) PROVE UnlockUncovers'
    BY <1>a, <1>4 DEF Plug, PlugLockOutput, Unlocked, Unplug
  <1>5. CASE LockPresented
    BY <1>a, <1>5 DEF LockPresented
  <1>6. CASE RedrawPass \/ PauseSession \/ ActivateSession \/ UNCHANGED vars
    BY <1>a, <1>6 DEF RedrawPass, PauseSession, ActivateSession, vars
  <1> QED
    BY <1>1, <1>2, <1>3, <1>4, <1>5, <1>6 DEF Next

\* LockInv holds in every reachable state.
THEOREM LockInvariant == Spec => []LockInv
  <1>1. LockInv /\ [Next]_vars => LockInv'
    BY TypeStep, CoreStep, UncoversStep DEF LockInv, Core
  <1> QED
    BY LockInvInit, <1>1, PTL DEF Spec

\* For any number of outputs, clients, hotplugs and VT switches, the locker is
\* told "locked" only when, and stays locked only while, no mapped output scans
\* out the desktop (lock_presented, new_surface, connector_connected).
THEOREM ConfirmedHidden == Spec => []ConfirmedMeansHidden
  <1>1. LockInv => ConfirmedMeansHidden
    <2>1. LockInv => Desktop # NoFrame /\ Desktop # generation
      BY DEF LockInv, TypeOK, Generation, Desktop, NoFrame
    <2> QED
      BY <2>1 DEF LockInv, ConfirmedMeansClean, ConfirmedMeansHidden, Clean
  <1> QED
    BY LockInvariant, <1>1, PTL

\* A late report of an older frame never counts for the current lock.
THEOREM CountedOnScreen == Spec => []CountedFramesAreOnScreen
  <1>1. LockInv => CountedFramesAreOnScreen
    BY DEF LockInv
  <1> QED
    BY LockInvariant, <1>1, PTL

\* A locked session covers every mapped output, hotplugged ones included.
THEOREM LockCovers == Spec => []LockCoversOutputs
  <1>1. LockInv => LockCoversOutputs
    BY DEF LockInv
  <1> QED
    BY LockInvariant, <1>1, PTL

\* The lock handlers keep the promise of LockPromise to the locker.
THEOREM PromiseKept == Spec => ImplementsPromise
  <1>1. Init => Promise!Init
    BY DEF Init, Promise!Init
  <1>2. LockInv /\ LockInv' /\ [Next]_vars => [Promise!Next]_(Promise!vars)
    <2> SUFFICES ASSUME LockInv, LockInv', [Next]_vars
                 PROVE  [Promise!Next]_(Promise!vars)
      OBVIOUS
    <2> USE LockAssumption DEF kms, env, Promise!vars, Promise!Next
    <2>a. ConfirmedMeansHidden /\ ConfirmedMeansHidden'
      <3>1. Desktop # NoFrame /\ Desktop # generation /\ Desktop # generation'
        BY DEF LockInv, TypeOK, Generation, Desktop, NoFrame
      <3> QED
        BY <3>1 DEF LockInv, ConfirmedMeansClean, ConfirmedMeansHidden, Clean
    \* A step that moves neither the phase nor, once confirmed, the screens.
    <2>b. ASSUME UNCHANGED <<locked, confirmation>>
          PROVE  [Promise!Next]_(Promise!vars)
      BY <2>a, <2>b DEF ConfirmedMeansHidden, Promise!Flip
    <2>1. ASSUME NEW c \in Clients, Lock(c) PROVE [Promise!Next]_(Promise!vars)
      BY <2>1 DEF Lock, MayLock, Promise!Accept
    <2>2. ASSUME NEW c \in Clients, Unlock(c) PROVE [Promise!Next]_(Promise!vars)
      BY <2>2 DEF Unlock, LockInv, OneHolder, Promise!Unlock
    <2>3. CASE LockPresented
      BY <2>3, <2>a, <2>b DEF LockPresented, ConfirmedMeansHidden, Promise!Confirm
    <2>4. CASE \E c \in Clients : LockDenied(c) \/ ClientGone(c)
      BY <2>4, <2>b DEF LockDenied, ClientGone
    <2>5. CASE \E c \in Clients, o \in Outputs : NewSurface(c, o)
      BY <2>5, <2>b DEF NewSurface
    <2>6. CASE \E o \in Outputs : Commit(o) \/ Repaint(o) \/ FrameFinish(o) \/ Plug(o) \/ Unplug(o)
      BY <2>6, <2>b DEF Commit, Repaint, FrameFinish, Plug, Unplug
    <2>7. CASE RedrawPass \/ PauseSession \/ ActivateSession
      BY <2>7, <2>b DEF RedrawPass, PauseSession, ActivateSession
    <2>8. CASE UNCHANGED vars
      BY <2>8, <2>b DEF vars
    <2> QED
      BY <2>1, <2>2, <2>3, <2>4, <2>5, <2>6, <2>7, <2>8 DEF Next
  <1> QED
    BY <1>1, <1>2, LockInvariant, PTL DEF Spec, ImplementsPromise, Promise!Spec

-----------------------------------------------------------------------------
(* The control socket.                                                     *)

\* What IpcInv says of commands, beyond the types and the counter.
Commands == IPC!OnePlace /\ IPC!RunBefore /\ IPC!ReplyIsFresh

-----------------------------------------------------------------------------
(* The counter of connections.                                             *)

\* The instance counts as FiniteSets does.
LEMMA SameCount ==
    ASSUME NEW S
    PROVE  (IPC!IsFiniteSet(S) <=> IsFiniteSet(S)) /\ IPC!Cardinality(S) = Cardinality(S)
  BY DEF IPC!IsFiniteSet, IsFiniteSet, IPC!Cardinality, Cardinality

\* The counter of connections is unmoved where no connection enters or leaves.
LEMMA LiveKept ==
    ASSUME IPC!LiveCounts, IPC!Handled' = IPC!Handled, live' = live
    PROVE  IPC!LiveCounts'
  BY DEF IPC!LiveCounts

\* An accepted connection counts one more.
LEMMA LiveEnters ==
    ASSUME IPC!LiveCounts, NEW c, c \notin IPC!Handled,
           IPC!Handled' = IPC!Handled \cup {c}, live' = live + 1
    PROVE  IPC!LiveCounts'
  BY FS_AddElement, SameCount DEF IPC!LiveCounts

\* A thread that returns counts one less, and the counter was not zero.
LEMMA LiveLeaves ==
    ASSUME IPC!LiveCounts, NEW c \in IPC!Handled, IPC!Handled' = IPC!Handled \ {c},
           live' = live - 1
    PROVE  IPC!LiveCounts' /\ live > 0
  <1>1. /\ IsFiniteSet(IPC!Handled \ {c})
        /\ Cardinality(IPC!Handled \ {c}) = Cardinality(IPC!Handled) - 1
    BY FS_RemoveElement, SameCount DEF IPC!LiveCounts
  <1>2. Cardinality(IPC!Handled \ {c}) \in Nat /\ Cardinality(IPC!Handled) \in Nat
    BY <1>1, FS_CardinalityType, SameCount DEF IPC!LiveCounts
  <1> QED
    BY <1>1, <1>2, SameCount DEF IPC!LiveCounts

\* Return(c) is such a return.
LEMMA LiveReturn ==
    ASSUME IPC!IpcTypeOK, IPC!LiveCounts, NEW c \in IPC!Handled, IPC!Return(c)
    PROVE  IPC!LiveCounts' /\ live' \in 0 .. MaxLive
           /\ conn' \in [IPC!Conns -> {"idle", "reading", "waiting", "subscribed", "closed",
                                       "refused"}]
  <1>1. IPC!Handled' = IPC!Handled \ {c}
    BY DEF IPC!Handled, IPC!Return, IPC!IpcTypeOK
  <1>2. IPC!LiveCounts' /\ live > 0
    BY <1>1, LiveLeaves DEF IPC!Return
  <1>3. live' \in 0 .. MaxLive
    BY <1>2, ClientsAssumption DEF IPC!IpcTypeOK, IPC!Return, IPC!IpcAssumption
  <1> QED
    BY <1>2, <1>3 DEF IPC!IpcTypeOK, IPC!Return, IPC!Handled

-----------------------------------------------------------------------------
(* Types of the control socket, one step per action.                       *)

LEMMA QueueTail ==
    ASSUME queue \in Seq(Callers), queue # <<>>
    PROVE  /\ Tail(queue) \in Seq(Callers)
           /\ Len(Tail(queue)) = Len(queue) - 1
           /\ \A i \in 1 .. Len(Tail(queue)) : Tail(queue)[i] = queue[i + 1]
           /\ Head(queue) = queue[1] /\ Head(queue) \in Callers
           /\ 1 \in 1 .. Len(queue)
           /\ \A i \in 1 .. Len(Tail(queue)) : i + 1 \in 1 .. Len(queue)
  OBVIOUS

LEMMA QueueAppend ==
    ASSUME queue \in Seq(Callers), NEW c \in Callers
    PROVE  /\ Append(queue, c) \in Seq(Callers)
           /\ Len(Append(queue, c)) = Len(queue) + 1
           /\ \A i \in 1 .. Len(queue) : Append(queue, c)[i] = queue[i]
           /\ Append(queue, c)[Len(queue) + 1] = c
  OBVIOUS

\* Publishing keeps the snapshot and the subscribers' queues in their types.
LEMMA PublishTypes ==
    ASSUME IPC!IpcTypeOK, version < MaxVersion, NEW ui \in BOOLEAN, IPC!Publish(ui)
    PROVE  /\ version' \in IPC!Versions /\ version' = version + 1
           /\ subscribers' \subseteq Subs
           /\ inbox' \in [Subs -> Seq(IPC!Versions)]
           /\ \A s \in Subs : Len(inbox'[s]) <= QueueCap
  <1> USE ClientsAssumption DEF IPC!IpcAssumption
  <1>1. version' \in IPC!Versions /\ version' = version + 1
    BY DEF IPC!IpcTypeOK, IPC!Publish, IPC!Versions
  <1>2. subscribers' \subseteq Subs
    BY DEF IPC!IpcTypeOK, IPC!Publish
  <1>3. \A s \in Subs : /\ Append(inbox[s], version + 1) \in Seq(IPC!Versions)
                        /\ Len(Append(inbox[s], version + 1)) = Len(inbox[s]) + 1
                        /\ Len(inbox[s]) \in Nat
    BY <1>1 DEF IPC!IpcTypeOK
  <1>4. inbox' = [s \in Subs |-> inbox'[s]]
    BY DEF IPC!Publish
  <1>5. ASSUME NEW s \in Subs PROVE inbox'[s] \in Seq(IPC!Versions) /\ Len(inbox'[s]) <= QueueCap
    BY <1>3 DEF IPC!IpcTypeOK, IPC!Publish
  <1> QED
    BY <1>1, <1>2, <1>4, <1>5

LEMMA IpcTypeInit == IPC!IpcInit => IPC!IpcTypeOK
  <1> SUFFICES ASSUME IPC!IpcInit PROVE IPC!IpcTypeOK
    OBVIOUS
  <1> USE ClientsAssumption DEF IPC!IpcAssumption, IPC!IpcInit, IPC!Versions, IPC!Results
  <1>1. \A s \in Subs : inbox[s] = <<>> /\ Len(inbox[s]) = 0 /\ inbox[s] \in Seq(IPC!Versions)
    OBVIOUS
  <1>2. IPC!NoResponse \in [ok : BOOLEAN, version : IPC!Versions]
    BY DEF IPC!NoResponse
  <1>3. inbox \in [Subs -> Seq(IPC!Versions)]
    OBVIOUS
  <1> QED
    BY <1>1, <1>2, <1>3 DEF IPC!IpcTypeOK, IPC!NoCommand

LEMMA IpcTypeStep ==
    ASSUME IPC!IpcTypeOK, IPC!LiveCounts, [IPC!IpcNext]_(IPC!ipcVars)
    PROVE  IPC!IpcTypeOK' /\ IPC!LiveCounts'
  <1> USE ClientsAssumption DEF IPC!IpcAssumption, IPC!commands, IPC!subs, IPC!Conns
  <1>1. ASSUME NEW c \in IPC!Conns, IPC!Accept(c) PROVE IPC!IpcTypeOK' /\ IPC!LiveCounts'
    <2>1. CASE IPC!MayAccept
      <3>1. IPC!Handled' = IPC!Handled \cup {c} /\ c \notin IPC!Handled
        BY <1>1, <2>1 DEF IPC!Accept, IPC!Handled, IPC!IpcTypeOK
      <3>2. IPC!LiveCounts'
        BY <1>1, <2>1, <3>1, LiveEnters DEF IPC!Accept
      <3>3. live' \in 0 .. MaxLive
        BY <1>1, <2>1 DEF IPC!Accept, IPC!MayAccept, IPC!IpcTypeOK
      <3>4. IPC!IpcTypeOK'
        BY <1>1, <2>1, <3>3 DEF IPC!Accept, IPC!IpcTypeOK
      <3> QED
        BY <3>2, <3>4
    <2>2. CASE ~IPC!MayAccept
      <3>1. IPC!Handled' = IPC!Handled
        BY <1>1, <2>2 DEF IPC!Accept, IPC!Handled, IPC!IpcTypeOK
      <3>2. IPC!LiveCounts'
        BY <1>1, <2>2, <3>1, LiveKept DEF IPC!Accept
      <3>3. IPC!IpcTypeOK'
        BY <1>1, <2>2 DEF IPC!Accept, IPC!IpcTypeOK
      <3> QED
        BY <3>2, <3>3
    <2> QED
      BY <2>1, <2>2
  <1>2. ASSUME NEW c \in IPC!Conns, IPC!BadRequest(c) PROVE IPC!IpcTypeOK' /\ IPC!LiveCounts'
    <2>1. c \in IPC!Handled
      BY <1>2 DEF IPC!BadRequest, IPC!Handled
    <2> QED
      BY <1>2, <2>1, LiveReturn DEF IPC!BadRequest, IPC!IpcTypeOK
  <1>3. ASSUME NEW c \in Callers, IPC!SendCommand(c) PROVE IPC!IpcTypeOK' /\ IPC!LiveCounts'
    <2>1. IPC!Handled' = IPC!Handled
      BY <1>3 DEF IPC!SendCommand, IPC!Handled, IPC!IpcTypeOK
    <2>2. IPC!LiveCounts'
      BY <1>3, <2>1, LiveKept DEF IPC!SendCommand
    <2>3. queue' \in Seq(Callers)
      BY <1>3, QueueAppend DEF IPC!SendCommand, IPC!IpcTypeOK
    <2> QED
      BY <1>3, <2>2, <2>3 DEF IPC!SendCommand, IPC!IpcTypeOK
  <1>4. ASSUME NEW c \in Callers, IPC!Answer(c) \/ IPC!GiveUp(c)
        PROVE  IPC!IpcTypeOK' /\ IPC!LiveCounts'
    <2>1. c \in IPC!Handled /\ IPC!Return(c)
      BY <1>4 DEF IPC!Answer, IPC!GiveUp, IPC!Handled
    <2>2. response' \in [Callers -> [ok : BOOLEAN, version : IPC!Versions]]
      <3>1. PICK ok \in BOOLEAN : response' = [response EXCEPT ![c] = [ok |-> ok, version |-> version]]
        BY <1>4 DEF IPC!Answer, IPC!GiveUp
      <3> QED
        BY <3>1 DEF IPC!IpcTypeOK
    <2> QED
      BY <1>4, <2>1, <2>2, LiveReturn DEF IPC!Answer, IPC!GiveUp, IPC!IpcTypeOK
  <1>5. ASSUME NEW s \in Subs, IPC!Subscribe(s) PROVE IPC!IpcTypeOK' /\ IPC!LiveCounts'
    <2>1. IPC!Handled' = IPC!Handled
      BY <1>5 DEF IPC!Subscribe, IPC!Handled, IPC!IpcTypeOK
    <2>2. IPC!LiveCounts'
      BY <1>5, <2>1, LiveKept DEF IPC!Subscribe
    <2> QED
      BY <1>5, <2>2 DEF IPC!Subscribe, IPC!IpcTypeOK
  <1>6. ASSUME NEW s \in Subs, IPC!FirstState(s) \/ IPC!HangUp(s)
        PROVE  IPC!IpcTypeOK' /\ IPC!LiveCounts'
    <2>1. IPC!Handled' = IPC!Handled /\ live' = live
      BY <1>6 DEF IPC!FirstState, IPC!HangUp, IPC!Handled
    <2>2. IPC!LiveCounts'
      BY <2>1, LiveKept
    <2>3. CASE IPC!FirstState(s)
      BY <2>2, <2>3 DEF IPC!FirstState, IPC!IpcTypeOK
    <2>4. CASE IPC!HangUp(s)
      BY <2>2, <2>4 DEF IPC!HangUp, IPC!IpcTypeOK
    <2> QED
      BY <1>6, <2>3, <2>4
  <1>a. ASSUME NEW s \in Subs, inbox' = [inbox EXCEPT ![s] = <<>>], IPC!IpcTypeOK
         PROVE  /\ inbox' \in [Subs -> Seq(IPC!Versions)]
                /\ \A t \in Subs : Len(inbox'[t]) <= QueueCap
    <2>1. <<>> \in Seq(IPC!Versions) /\ Len(<<>>) = 0
      OBVIOUS
    <2>2. inbox' \in [Subs -> Seq(IPC!Versions)]
      BY <1>a, <2>1 DEF IPC!IpcTypeOK
    <2>3. ASSUME NEW t \in Subs PROVE Len(inbox'[t]) <= QueueCap
      <3>1. CASE t = s
        BY <1>a, <2>1, <3>1 DEF IPC!IpcTypeOK
      <3>2. CASE t # s
        BY <1>a, <3>2 DEF IPC!IpcTypeOK
      <3> QED
        BY <3>1, <3>2
    <2> QED
      BY <2>2, <2>3
  <1>7. ASSUME NEW s \in Subs, IPC!Wake(s) PROVE IPC!IpcTypeOK' /\ IPC!LiveCounts'
    <2>1. IPC!Handled' = IPC!Handled /\ live' = live
      BY <1>7 DEF IPC!Wake, IPC!Handled
    <2>2. IPC!LiveCounts'
      BY <2>1, LiveKept
    <2> QED
      BY <1>7, <1>a, <2>2 DEF IPC!Wake, IPC!StateToSend, IPC!IpcTypeOK
  <1>8. ASSUME NEW s \in Subs, IPC!WakeFails(s) PROVE IPC!IpcTypeOK' /\ IPC!LiveCounts'
    <2>1. s \in IPC!Handled /\ IPC!Return(s)
      BY <1>8 DEF IPC!WakeFails, IPC!Handled
    <2> QED
      BY <1>8, <1>a, <2>1, LiveReturn DEF IPC!WakeFails, IPC!IpcTypeOK
  <1>9. ASSUME NEW ui \in BOOLEAN, IPC!Change(ui) PROVE IPC!IpcTypeOK' /\ IPC!LiveCounts'
    <2>1. IPC!Handled' = IPC!Handled /\ live' = live
      BY <1>9 DEF IPC!Change, IPC!Handled
    <2>2. IPC!LiveCounts'
      BY <2>1, LiveKept
    <2> QED
      BY <1>9, <2>2, PublishTypes DEF IPC!Change, IPC!IpcTypeOK
  <1>10. ASSUME NEW ui \in BOOLEAN, IPC!Run(ui) PROVE IPC!IpcTypeOK' /\ IPC!LiveCounts'
    <2>1. IPC!Handled' = IPC!Handled /\ live' = live
      BY <1>10 DEF IPC!Run, IPC!Handled
    <2>2. IPC!LiveCounts'
      BY <2>1, LiveKept
    <2>3. queue' \in Seq(Callers) /\ Head(queue) \in Callers
      BY <1>10, QueueTail DEF IPC!Run, IPC!IpcTypeOK
    <2>4. version' \in IPC!Versions /\ version' = version + 1
      BY <1>10, PublishTypes DEF IPC!Run
    <2>5. ran' \in [Callers -> IPC!Versions]
      BY <1>10, <2>4 DEF IPC!Run, IPC!IpcTypeOK
    <2>6. running' \in [by : Callers \cup {Nobody}, result : IPC!Results]
      BY <1>10, <2>3 DEF IPC!Run, IPC!Results
    <2> QED
      BY <1>10, <2>2, <2>3, <2>4, <2>5, <2>6, PublishTypes DEF IPC!Run, IPC!IpcTypeOK
  <1>11. CASE IPC!RunFails
    <2>1. IPC!Handled' = IPC!Handled /\ live' = live
      BY <1>11 DEF IPC!RunFails, IPC!Handled
    <2>2. IPC!LiveCounts'
      BY <2>1, LiveKept
    <2>3. queue' \in Seq(Callers) /\ Head(queue) \in Callers
      BY <1>11, QueueTail DEF IPC!RunFails, IPC!IpcTypeOK
    <2>6. running' \in [by : Callers \cup {Nobody}, result : IPC!Results]
      BY <1>11, <2>3 DEF IPC!RunFails, IPC!Results
    <2> QED
      BY <1>11, <2>2, <2>3, <2>6 DEF IPC!RunFails, IPC!IpcTypeOK
  <1>12. CASE IPC!Reply
    <2>1. IPC!Handled' = IPC!Handled /\ live' = live
      BY <1>12 DEF IPC!Reply, IPC!Handled
    <2>2. IPC!LiveCounts'
      BY <2>1, LiveKept
    <2> QED
      BY <1>12, <2>2 DEF IPC!Reply, IPC!NoCommand, IPC!Results, IPC!IpcTypeOK
  <1>13. CASE UNCHANGED IPC!ipcVars
    <2>1. IPC!Handled' = IPC!Handled /\ live' = live
      BY <1>13 DEF IPC!ipcVars, IPC!Handled
    <2> QED
      BY <1>13, <2>1, LiveKept DEF IPC!ipcVars, IPC!IpcTypeOK
  <1> QED
    BY <1>1, <1>2, <1>3, <1>4, <1>5, <1>6, <1>7, <1>8, <1>9, <1>10, <1>11, <1>12,
       <1>13 DEF IPC!IpcNext

-----------------------------------------------------------------------------
(* A command is in one place, and reported only once it has run.           *)

LEMMA CommandsInit == IPC!IpcInit => Commands
  BY ClientsAssumption DEF IPC!IpcAssumption, IPC!IpcInit, Commands, IPC!OnePlace, IPC!RunBefore,
     IPC!ReplyIsFresh, IPC!NoCommand, IPC!NoResponse

LEMMA CommandsStep ==
    ASSUME IPC!IpcTypeOK, Commands, [IPC!IpcNext]_(IPC!ipcVars)
    PROVE  Commands'
  <1> USE ClientsAssumption DEF IPC!IpcAssumption, IPC!commands, IPC!subs, IPC!Conns, Commands,
      IPC!Sent, IPC!OnePlace, IPC!RunBefore, IPC!ReplyIsFresh
  <1>a. /\ \A i \in 1 .. Len(queue) : queue[i] \in Callers
        /\ \A c \in Callers : ran[c] \in Nat /\ response[c].version \in Nat
        /\ version \in Nat /\ Len(queue) \in Nat
    BY DEF IPC!IpcTypeOK, IPC!Versions
  <1>1. ASSUME NEW c \in IPC!Conns, IPC!Accept(c) \/ IPC!BadRequest(c) PROVE Commands'
    <2>1. UNCHANGED <<IPC!commands, version>>
      BY <1>1 DEF IPC!Accept, IPC!BadRequest
    <2>2. \A d \in Callers : conn[d] \notin {"idle", "reading"} => conn'[d] = conn[d]
      BY <1>1 DEF IPC!Accept, IPC!BadRequest, IPC!Return, IPC!IpcTypeOK
    <2>3. \A d \in Callers : conn'[d] \in {"idle", "reading"} => conn[d] \in {"idle", "reading"}
      BY <1>1 DEF IPC!Accept, IPC!BadRequest, IPC!Return, IPC!IpcTypeOK
    <2> QED
      BY <1>a, <2>1, <2>2, <2>3 DEF IPC!NoCommand
  <1>2. ASSUME NEW c \in Callers, IPC!SendCommand(c) PROVE Commands'
    <2>1. /\ Len(queue') = Len(queue) + 1
          /\ \A i \in 1 .. Len(queue) : queue'[i] = queue[i]
          /\ queue'[Len(queue) + 1] = c
      BY <1>2, QueueAppend DEF IPC!SendCommand, IPC!IpcTypeOK
    <2>2. /\ conn[c] = "reading" /\ ~IPC!Sent(c)
          /\ conn' = [conn EXCEPT ![c] = "waiting"] /\ IPC!Sent(c)'
          /\ \A d \in Callers : IPC!Sent(d) => IPC!Sent(d)'
          /\ UNCHANGED <<running, ran, reply, response, version>>
      BY <1>2 DEF IPC!SendCommand, IPC!IpcTypeOK
    <2>3. c # running.by
      BY <1>a, <2>2 DEF IPC!NoCommand, IPC!IpcTypeOK
    <2> HIDE DEF IPC!Sent
    <2>4. IPC!OnePlace'
      BY <1>a, <2>1, <2>2, <2>3
    <2>5. IPC!RunBefore' /\ IPC!ReplyIsFresh'
      BY <1>a, <2>2 DEF IPC!IpcTypeOK
    <2> QED
      BY <2>4, <2>5
  <1>3. ASSUME NEW c \in Callers, IPC!Answer(c) \/ IPC!GiveUp(c) PROVE Commands'
    <2>1. UNCHANGED <<queue, running, ran, reply, version>>
      BY <1>3 DEF IPC!Answer, IPC!GiveUp
    <2>2. conn[c] = "waiting" /\ conn' = [conn EXCEPT ![c] = "closed"]
      BY <1>3 DEF IPC!Answer, IPC!GiveUp, IPC!Return
    <2>3. response' = [response EXCEPT ![c] = [ok |-> reply[c] = "ok", version |-> version]]
      BY <1>3 DEF IPC!Answer, IPC!GiveUp
    <2>4. \A d \in Callers : IPC!Sent(d) => IPC!Sent(d)'
      BY <2>1, <2>2, <2>3 DEF IPC!IpcTypeOK
    <2>5. IPC!OnePlace'
      <3> HIDE DEF IPC!Sent
      <3> QED
        BY <1>a, <2>1, <2>4
    <2>6. IPC!RunBefore' /\ IPC!ReplyIsFresh'
      BY <1>a, <2>1, <2>2, <2>3 DEF IPC!IpcTypeOK
    <2> QED
      BY <2>5, <2>6
  <1>4. ASSUME NEW s \in Subs, \/ IPC!Subscribe(s) \/ IPC!FirstState(s) \/ IPC!Wake(s)
                               \/ IPC!WakeFails(s) \/ IPC!HangUp(s)
        PROVE  Commands'
    <2>1. UNCHANGED <<IPC!commands, version>>
      BY <1>4 DEF IPC!Subscribe, IPC!FirstState, IPC!Wake, IPC!WakeFails, IPC!HangUp
    <2>2. \A d \in Callers : conn'[d] = conn[d]
      BY <1>4 DEF IPC!Subscribe, IPC!FirstState, IPC!Wake, IPC!WakeFails, IPC!HangUp,
         IPC!Return, IPC!IpcTypeOK
    <2> QED
      BY <1>a, <2>1, <2>2 DEF IPC!NoCommand
  <1>5. ASSUME NEW ui \in BOOLEAN, IPC!Change(ui) PROVE Commands'
    <2>1. UNCHANGED <<IPC!commands, conn>> /\ version' = version + 1
      BY <1>5 DEF IPC!Change, IPC!Publish
    <2> QED
      BY <1>a, <2>1 DEF IPC!NoCommand
  \* The command at the head of the channel runs, and leaves the channel.
  <1>b. ASSUME queue # <<>>, queue' = Tail(queue), running'.by = Head(queue),
               IPC!OnePlace, UNCHANGED <<conn, reply, response>>
        PROVE  IPC!OnePlace'
    <2>1. /\ Len(queue') = Len(queue) - 1
          /\ \A i \in 1 .. Len(queue') : queue'[i] = queue[i + 1] /\ i + 1 \in 1 .. Len(queue)
          /\ Head(queue) = queue[1] /\ Head(queue) \in Callers
          /\ 1 \in 1 .. Len(queue)
      BY <1>b, QueueTail DEF IPC!IpcTypeOK
    <2>2. IPC!Sent(Head(queue))
      BY <2>1
    <2>3. \A d : IPC!Sent(d)' <=> IPC!Sent(d)
      BY <1>b
    <2> HIDE DEF IPC!Sent
    <2>4. \A i, j \in 1 .. Len(queue') : queue'[i] = queue'[j] => i = j
      <3> SUFFICES ASSUME NEW i \in 1 .. Len(queue'), NEW j \in 1 .. Len(queue'),
                          queue'[i] = queue'[j]
                   PROVE  i = j
        OBVIOUS
      <3>1. i + 1 = j + 1
        BY <2>1
      <3> QED
        BY <3>1, <2>1
    <2>5. \A i \in 1 .. Len(queue') : queue'[i] # Head(queue)
      <3> SUFFICES ASSUME NEW i \in 1 .. Len(queue'), queue'[i] = Head(queue) PROVE FALSE
        OBVIOUS
      <3>1. i + 1 = 1
        BY <2>1
      <3> QED
        BY <3>1, <2>1
    <2> QED
      BY <1>b, <2>1, <2>2, <2>3, <2>4, <2>5
  <1>6. ASSUME NEW ui \in BOOLEAN, IPC!Run(ui) PROVE Commands'
    <2>1. IPC!OnePlace'
      BY <1>6, <1>b DEF IPC!Run
    <2>2. Head(queue) = queue[1] /\ 1 \in 1 .. Len(queue) /\ Head(queue) \in Callers
      BY <1>6, QueueTail DEF IPC!Run, IPC!IpcTypeOK
    <2>3. IPC!Sent(Head(queue))
      BY <2>2
    <2>4. version' = version + 1 /\ ran' = [ran EXCEPT ![Head(queue)] = version + 1]
      BY <1>6 DEF IPC!Run, IPC!Publish
    <2>5. IPC!RunBefore'
      BY <1>6, <1>a, <2>2, <2>4 DEF IPC!Run, IPC!IpcTypeOK
    <2>6. IPC!ReplyIsFresh'
      BY <1>6, <1>a, <2>3, <2>4 DEF IPC!Run, IPC!IpcTypeOK
    <2> QED
      BY <2>1, <2>5, <2>6
  <1>7. CASE IPC!RunFails
    <2>1. IPC!OnePlace'
      BY <1>7, <1>b DEF IPC!RunFails
    <2>2. Head(queue) = queue[1] /\ 1 \in 1 .. Len(queue) /\ Head(queue) \in Callers
      BY <1>7, QueueTail DEF IPC!RunFails, IPC!IpcTypeOK
    <2>3. IPC!Sent(Head(queue))
      BY <2>2
    <2>5. IPC!RunBefore'
      BY <1>7, <1>a, <2>2 DEF IPC!RunFails, IPC!IpcTypeOK
    <2>6. IPC!ReplyIsFresh'
      BY <1>7, <1>a, <2>3 DEF IPC!RunFails, IPC!IpcTypeOK
    <2> QED
      BY <2>1, <2>5, <2>6
  <1>8. CASE IPC!Reply
    <2>1. running' = IPC!NoCommand /\ UNCHANGED <<conn, queue, ran, response, version>>
      BY <1>8 DEF IPC!Reply
    <2>2. /\ running.by \in Callers /\ IPC!Sent(running.by)
          /\ \A c \in Callers \ {running.by} : reply'[c] = reply[c]
          /\ reply'[running.by] \in {reply[running.by], running.result}
          /\ conn[running.by] \in {"waiting", "closed"}
      BY <1>8 DEF IPC!Reply, IPC!IpcTypeOK
    <2>3. \A c \in Callers : IPC!Sent(c) /\ c # running.by => IPC!Sent(c)'
      BY <2>1, <2>2
    <2>4. IPC!OnePlace'
      <3> HIDE DEF IPC!Sent
      <3> QED
        BY <1>a, <2>1, <2>3 DEF IPC!NoCommand
    <2>5. IPC!RunBefore' /\ IPC!ReplyIsFresh'
      BY <1>a, <2>1, <2>2 DEF IPC!NoCommand
    <2> QED
      BY <2>4, <2>5
  <1>9. CASE UNCHANGED IPC!ipcVars
    BY <1>9 DEF IPC!ipcVars, IPC!NoCommand
  <1> QED
    BY <1>1, <1>2, <1>3, <1>4, <1>5, <1>6, <1>7, <1>8, <1>9 DEF IPC!IpcNext

\* IpcInv is inductive.
LEMMA IpcInvStep ==
    ASSUME IPC!IpcInv, [IPC!IpcNext]_(IPC!ipcVars)
    PROVE  IPC!IpcInv'
  BY IpcTypeStep, CommandsStep DEF IPC!IpcInv, Commands

LEMMA IpcInvInit == IPC!IpcInit => IPC!IpcInv
  <1> SUFFICES ASSUME IPC!IpcInit PROVE IPC!IpcInv
    OBVIOUS
  <1>1. IPC!Handled = {}
    BY DEF IPC!IpcInit, IPC!Handled
  <1>2. IPC!LiveCounts
    BY <1>1, FS_EmptySet, SameCount DEF IPC!IpcInit, IPC!LiveCounts
  <1> QED
    BY <1>2, IpcTypeInit, CommandsInit DEF IPC!IpcInv, Commands

-----------------------------------------------------------------------------
\* For any number of outputs, lockers, callers and subscribers: of an unlocked
\* session only surfaces that a denied client asked for cover an output (lock.rs,
\* unlock and new_surface; udev.rs, connector_connected), and on the control socket (ipc.rs) a command reported to have worked has run, its response
\* is not older than its effect, and the limit counts the threads that run.
THEOREM ClientsInvariant == ClientsSpec => []ClientsSound
  <1> DEFINE Inv == LockInv /\ IPC!IpcInv
  <1>1. ClientsInit => Inv
    BY LockInvInit, IpcInvInit DEF ClientsInit
  <1>2. Inv /\ [ClientsNext]_clientsVars => Inv'
    <2> SUFFICES ASSUME Inv, [ClientsNext]_clientsVars PROVE Inv'
      OBVIOUS
    <2>1. [Next]_vars
      BY DEF ClientsNext, clientsVars
    <2>2. [IPC!IpcNext]_(IPC!ipcVars)
      BY DEF ClientsNext, clientsVars, socketVars, IPC!ipcVars
    <2>3. LockInv'
      BY <2>1, TypeStep, CoreStep, UncoversStep DEF LockInv, Core
    <2> QED
      BY <2>1, <2>2, <2>3, IpcInvStep
  <1>3. Inv => ClientsSound
    BY DEF ClientsSound, LockInv
  <1> QED
    BY <1>1, <1>2, <1>3, PTL DEF ClientsSpec
=============================================================================
