--------------------------- MODULE ProgressProofs ---------------------------
(***************************************************************************)
(* Safety of the parts that time and hardware drive, for any constants:    *)
(* the processes of the session, what moves on an output, the rendering of *)
(* an output, the outputs of a device, and the pairing of a Bluetooth      *)
(* device.  Each part's invariant is proved inductive for its own module's *)
(* step; the steps of MCProgress are those of one part.                    *)
(***************************************************************************)
EXTENDS MCProgress, TLAPS, FiniteSetTheorems

-----------------------------------------------------------------------------
(* The processes of the session.                                           *)

\* An application is no service, and a process is named once.
LEMMA ProcessNames ==
    /\ \A s \in Services, n \in 1 .. MaxServiceStarts : <<s, n>> \in Process \ App
    /\ \A n \in 1 .. MaxApps : <<"app", n>> \in App \ ServiceStart
    /\ App \subseteq Process /\ App \cap ServiceStart = {}
  BY SupervisorAssumption DEF Process, App, ServiceStart

LEMMA SupervisorStart == SupervisorInit => SupervisorInv
  <1> SUFFICES ASSUME SupervisorInit PROVE SupervisorInv
    OBVIOUS
  <1>1. SupervisorTypeOK
    BY SupervisorAssumption DEF SupervisorInit, SupervisorTypeOK
  <1>2. NothingOutlives
    BY ProcessNames DEF SupervisorInit, NothingOutlives, Alive
  <1> QED
    BY <1>1, <1>2 DEF SupervisorInv

\* supervise: the starts that are due, and what has ended reaped.
LEMMA SuperviseStep == ASSUME SupervisorInv, Supervise PROVE SupervisorInv'
  <1> DEFINE due == {s \in Services : MayStart(s)}
  <1> USE SupervisorAssumption DEF SupervisorInv, SupervisorTypeOK
  <1>1. /\ sessionRuns /\ UNCHANGED <<sessionRuns, apps>>
        /\ children' = {p \in children : Alive(p)}
        /\ attempts' = [s \in Services |-> IF s \in due THEN attempts[s] + 1 ELSE attempts[s]]
    BY DEF Supervise
  <1>2. PICK started \in SUBSET due :
        /\ service' = [s \in Services |-> IF s \in started THEN attempts'[s] ELSE service[s]]
        /\ process' = [p \in Process |->
                IF \E s \in started : p = <<s, attempts'[s]>> THEN "alive"
                ELSE IF p \in Held /\ process[p] = "zombie" THEN "reaped"
                ELSE process[p]]
    BY DEF Supervise
  <1>3. \A s \in due : s \in Services /\ Dead(s) /\ attempts[s] < MaxServiceStarts
    BY DEF MayStart
  <1> HIDE DEF due
  <1>4. \A s \in Services : attempts'[s] \in 0 .. MaxServiceStarts
    BY <1>1, <1>3
  <1>5. \A s \in started : attempts'[s] \in 1 .. MaxServiceStarts
    BY <1>1, <1>2, <1>3
  <1>6. SupervisorTypeOK'
    <2>1. attempts' \in [Services -> 0 .. MaxServiceStarts]
      BY <1>1, <1>4
    <2>2. service' \in [Services -> 0 .. MaxServiceStarts]
      BY <1>2, <1>4
    <2>3. process' \in [Process -> {"unused", "alive", "zombie", "reaped"}]
      BY <1>2
    <2> QED
      BY <1>1, <2>1, <2>2, <2>3
  <1>7. \A s \in Services : \A m, n \in 1 .. MaxServiceStarts :
            Alive(<<s, m>>)' /\ Alive(<<s, n>>)' => m = n
    <2> SUFFICES ASSUME NEW s \in Services, NEW m \in 1 .. MaxServiceStarts,
                        NEW n \in 1 .. MaxServiceStarts,
                        process'[<<s, m>>] = "alive", process'[<<s, n>>] = "alive"
                 PROVE  m = n
      BY DEF Alive
    <2>1. <<s, m>> \in Process /\ <<s, n>> \in Process
      BY ProcessNames
    <2>2. CASE s \in started
      <3>1. \A k \in 1 .. MaxServiceStarts : process[<<s, k>>] # "alive"
        BY <1>3, <2>2, ProcessNames DEF Dead, Alive, NothingOutlives, Held, App
      <3> QED
        BY <1>2, <2>1, <2>2, <3>1
    <2>3. CASE s \notin started
      <3>1. process[<<s, m>>] = "alive" /\ process[<<s, n>>] = "alive"
        BY <1>2, <2>1, <2>3
      <3> QED
        BY <3>1 DEF NothingOutlives, Alive
    <2> QED
      BY <2>2, <2>3
  <1>8. ASSUME NEW p \in Process, process'[p] \in {"alive", "zombie"} PROVE p \in Held'
    <2>1. Held' = children' \cup {<<s, service'[s]>> : s \in {t \in Services : service'[t] # 0}}
      BY DEF Held
    <2>2. CASE \E s \in started : p = <<s, attempts'[s]>>
      <3>1. PICK s \in started : p = <<s, attempts'[s]>>
        BY <2>2
      <3>2. s \in Services /\ service'[s] = attempts'[s] /\ service'[s] # 0
        BY <1>2, <1>3, <1>5
      <3> QED
        BY <2>1, <3>1, <3>2
    <2>3. CASE ~\E s \in started : p = <<s, attempts'[s]>>
      <3>1. process[p] = "alive" /\ p \in Held
        <4>1. process'[p] = IF p \in Held /\ process[p] = "zombie" THEN "reaped" ELSE process[p]
          BY <1>2, <2>3
        <4> QED
          BY <4>1, <1>8 DEF NothingOutlives
      <3>2. CASE p \in children
        BY <1>1, <2>1, <3>1, <3>2 DEF Alive
      <3>3. CASE p \notin children
        <4>1. PICK s \in Services : service[s] # 0 /\ p = <<s, service[s]>>
          BY <3>1, <3>3 DEF Held
        <4>2. s \notin started
          BY <1>3, <3>1, <4>1 DEF Dead, Alive
        <4> QED
          BY <1>2, <2>1, <4>1, <4>2
      <3> QED
        BY <3>2, <3>3
    <2> QED
      BY <2>2, <2>3
  <1> QED
    BY <1>1, <1>6, <1>7, <1>8 DEF NothingOutlives

\* No process outlives the session, and no service runs twice.
LEMMA SupervisorStep == SupervisorInv /\ [SupervisorNext]_supervisorVars => SupervisorInv'
  <1> SUFFICES ASSUME SupervisorInv, [SupervisorNext]_supervisorVars PROVE SupervisorInv'
    OBVIOUS
  <1> USE SupervisorAssumption, ProcessNames
          DEF SupervisorInv, SupervisorTypeOK, NothingOutlives, Alive, Held
  <1>1. CASE SpawnApp
    <2> DEFINE new == <<"app", apps + 1>>
    <2>1. apps + 1 \in 1 .. MaxApps /\ new \in App /\ new \notin ServiceStart
      BY <1>1 DEF SpawnApp, App
    <2>2. \A s \in Services, n \in 1 .. MaxServiceStarts : new # <<s, n>>
      OBVIOUS
    <2> HIDE DEF new
    <2>3. /\ sessionRuns /\ UNCHANGED <<sessionRuns, service, attempts>> /\ apps' = apps + 1
          /\ process' = [process EXCEPT ![new] = "alive"] /\ children' = children \cup {new}
      BY <1>1 DEF SpawnApp, new
    <2> QED
      BY <2>1, <2>2, <2>3
  <1>2. CASE Supervise
    BY <1>2, SuperviseStep
  <1>3. ASSUME NEW p \in Process, ProcessEnds(p) PROVE SupervisorInv'
    BY <1>3 DEF ProcessEnds
  <1>4. CASE EndSession
    BY <1>4 DEF EndSession, Killed
  <1>5. CASE UNCHANGED supervisorVars
    BY <1>5 DEF supervisorVars
  <1> QED
    BY <1>1, <1>2, <1>3, <1>4, <1>5 DEF SupervisorNext

-----------------------------------------------------------------------------
(* The rendering of an output.                                             *)

LEMMA LoopStart == RL!LoopInit => RL!LoopInv
  <1> SUFFICES ASSUME RL!LoopInit PROVE RL!LoopInv
    OBVIOUS
  <1>1. commits \in 0 .. MaxCommits /\ faults \in 0 .. MaxFaults /\ switches \in 0 .. MaxSwitches
    BY ProgressAssumption DEF RL!LoopInit, RL!RenderLoopAssumption
  <1>2. orphans \in Nat /\ loose \in Nat /\ pending \in RL!Flight
    BY DEF RL!LoopInit, RL!Flight
  <1>3. RL!LoopTypeOK
    BY <1>1, <1>2 DEF RL!LoopInit, RL!LoopTypeOK
  <1> QED
    BY <1>3 DEF RL!LoopInit, RL!LoopInv, RL!ChangeRemembered, RL!FlightRemembered

\* What rendering can leave: a screen that is still out of date has a timer, or
\* has failed for good.
LEMMA RenderLeaves ==
    ASSUME RL!LoopTypeOK, NEW looseLeft \in Nat, RL!Render(looseLeft)
    PROVE  /\ undrawn' \in BOOLEAN /\ pending' \in RL!Flight /\ queued' \in BOOLEAN
           /\ loose' \in Nat /\ failed' \in BOOLEAN /\ faults' \in 0 .. MaxFaults
           /\ plugged /\ undrawn' => failed' \/ loose' > 0
  <1> USE ProgressAssumption DEF RL!LoopTypeOK, RL!RenderLoopAssumption
  <1>1. CASE ~plugged
    BY <1>1 DEF RL!Render, RL!frameVars
  <1>2. CASE plugged
    <2>1. PICK outcome \in RL!Outcomes :
         /\ undrawn' = (undrawn /\ outcome # "drawn")
         /\ pending' = IF outcome = "drawn" /\ pending = "none" THEN "flying" ELSE pending
         /\ queued' = (queued \/ (outcome = "drawn" /\ pending # "none"))
         /\ loose' = looseLeft + (IF RL!Rescheduled(outcome) THEN 1 ELSE 0)
         /\ failed' = (outcome = "other" \/ (failed /\ outcome = "empty"))
         /\ faults' = IF outcome \in {"testFailed", "other"} THEN faults + 1 ELSE faults
      BY <1>2 DEF RL!Render
    <2>2. /\ outcome \in {"empty", "inactive", "denied", "drawn", "testFailed", "other"}
          /\ outcome = "empty" => ~undrawn
          /\ outcome \in {"testFailed", "other"} => faults < MaxFaults
      BY DEF RL!Outcomes
    <2>3. undrawn' \in BOOLEAN /\ queued' \in BOOLEAN /\ failed' \in BOOLEAN
      BY <2>1
    <2>4. pending' \in RL!Flight /\ loose' \in Nat /\ faults' \in 0 .. MaxFaults
      BY <2>1, <2>2 DEF RL!Flight
    <2>5. undrawn' => failed' \/ loose' > 0
      BY <2>1, <2>2 DEF RL!Rescheduled
    <2> QED
      BY <1>2, <2>3, <2>4, <2>5
  <1> QED
    BY <1>1, <1>2

\* The passes and timers that render, and the events that change what there is
\* to render.
LEMMA LoopStep == RL!LoopInv /\ [RL!LoopNext]_loopVars => RL!LoopInv'
  <1> SUFFICES ASSUME RL!LoopInv, [RL!LoopNext]_loopVars PROVE RL!LoopInv'
    OBVIOUS
  <1> USE ProgressAssumption
          DEF RL!LoopInv, RL!LoopTypeOK, RL!ChangeRemembered, RL!FlightRemembered,
              RL!RenderLoopAssumption, RL!frameVars, RL!loopBounds
  <1>1. CASE RL!RedrawPass
    BY <1>1, RenderLeaves DEF RL!RedrawPass
  <1>2. CASE RL!RepaintFires
    BY <1>2, RenderLeaves DEF RL!RepaintFires
  <1>3. CASE RL!OrphanFires
    <2>1. orphans' \in Nat
      BY <1>3 DEF RL!OrphanFires
    <2> QED
      BY <1>3, <2>1, RenderLeaves DEF RL!OrphanFires
  <1>4. CASE RL!LooseFires
    <2>1. loose - 1 \in Nat
      BY <1>4 DEF RL!LooseFires
    <2> QED
      BY <1>4, <2>1, RenderLeaves DEF RL!LooseFires
  <1>5. CASE RL!IdleRender
    BY <1>5, RenderLeaves DEF RL!IdleRender
  <1>6. CASE RL!Flip
    BY <1>6 DEF RL!Flip, RL!Flight
  <1>7. CASE RL!Throttle
    BY <1>7 DEF RL!Throttle, RL!Flight
  <1>8. CASE RL!FrameFinish
    BY <1>8 DEF RL!FrameFinish, RL!Flight, RL!NextRepaint
  <1>9. CASE RL!SceneChanges
    <2>1. commits' \in 0 .. MaxCommits
      BY <1>9 DEF RL!SceneChanges
    <2>2. undrawn' \in BOOLEAN /\ redraw' = TRUE /\ failed' = FALSE
          /\ UNCHANGED <<plugged, sessionActive, master, pending, queued, repaint, orphans, loose,
                         idleRender, faults, switches>>
      BY <1>9 DEF RL!SceneChanges
    <2> QED
      BY <2>1, <2>2
  <1>10. CASE RL!LoseMaster
    <2>1. switches' \in 0 .. MaxSwitches
      BY <1>10 DEF RL!LoseMaster
    <2>2. master' \in BOOLEAN
      BY <1>10 DEF RL!LoseMaster
    <2> QED
      BY <1>10, <2>1, <2>2 DEF RL!LoseMaster
  <1>11. CASE RL!PauseSession
    BY <1>11 DEF RL!PauseSession
  <1>12. CASE RL!ActivateSession
    BY <1>12 DEF RL!ActivateSession, RL!Flight
  <1>13. CASE RL!Unplug
    <2>1. switches' \in 0 .. MaxSwitches /\ orphans' \in Nat /\ pending' \in RL!Flight
      BY <1>13 DEF RL!Unplug, RL!Flight
    <2>2. plugged' = FALSE /\ undrawn' = FALSE /\ queued' = FALSE /\ repaint' = FALSE
          /\ failed' = FALSE
          /\ UNCHANGED <<redraw, sessionActive, master, loose, idleRender, commits, faults>>
      BY <1>13 DEF RL!Unplug
    <2> QED
      BY <2>1, <2>2
  <1>14. CASE RL!Plug
    BY <1>14 DEF RL!Plug
  <1>15. CASE UNCHANGED loopVars
    BY <1>15 DEF loopVars
  <1> QED
    BY <1>1, <1>2, <1>3, <1>4, <1>5, <1>6, <1>7, <1>8, <1>9, <1>10, <1>11, <1>12, <1>13, <1>14,
       <1>15 DEF RL!LoopNext

-----------------------------------------------------------------------------
(* The pairing of a Bluetooth device.                                      *)

LEMMA PairingStart == PA!PairingInit => PA!PairingInv
  <1> SUFFICES ASSUME PA!PairingInit PROVE PA!PairingInv
    OBVIOUS
  <1> USE ProgressAssumption DEF PA!PairingInit, PA!PairingAssumption
  <1>1. bluez \in 0 .. MaxRestarts /\ owner \in 0 .. MaxRestarts /\ current \in 0 .. MaxPairings
        /\ unanswered \in Nat /\ shown \in PA!Texts
    BY DEF PA!Texts
  <1>2. /\ tasks \in [PA!Numbers -> {"new", "connecting", "registering", "pairing", "over"}]
        /\ links \in [PA!Numbers -> {"none", "open", "cancelling", "closed"}]
        /\ asked \in [PA!Numbers -> BOOLEAN]
        /\ \A g \in PA!Numbers : tasks[g] = "new" /\ links[g] = "none" /\ asked[g] = FALSE
    OBVIOUS
  <1>3. PA!PairingTypeOK
    BY <1>1, <1>2 DEF PA!PairingTypeOK
  <1>4. PA!LinksReleased /\ PA!TaskFollows
    BY <1>2 DEF PA!LinksReleased, PA!TaskFollows
  <1>5. PA!AnswersTheQuestion
    BY DEF PA!AnswersTheQuestion
  <1> QED
    BY <1>3, <1>4, <1>5 DEF PA!PairingInv

\* What finish leaves: the connection is closed or waits for CancelPairing, and
\* the call that waited is answered.
Ended ==
    /\ pairActive' = FALSE /\ linked' = FALSE
    /\ pairPending' = "none" /\ unanswered' = 0
    /\ panel' = (panel /\ ~pairActive)
    /\ links' \in [PA!Numbers -> {"none", "open", "cancelling", "closed"}]
    /\ \A g \in PA!Numbers :
        /\ links'[g] # "open"
        /\ links[g] # "none" => links'[g] \in {"cancelling", "closed"}

\* Finishing a pairing, or one that has ended already, comes to the same.
LEMMA FinishEnds ==
    ASSUME PA!PairingInv, NEW cancel \in BOOLEAN, PA!Finish(cancel)
    PROVE  Ended
  <1> USE DEF Ended, PA!PairingInv, PA!PairingTypeOK, PA!LinksReleased, PA!AnswersTheQuestion, PA!TaskFollows
  <1>1. CASE pairActive
    <2>1. /\ pairActive' = FALSE /\ linked' = FALSE /\ panel' = FALSE /\ pairPending' = "none"
          /\ unanswered' = IF pairPending = "none" THEN unanswered ELSE unanswered - 1
          /\ links' = IF linked THEN [links EXCEPT ![current] = PA!Closing(cancel)] ELSE links
      BY <1>1 DEF PA!Finish, PA!Dropped, PA!Hung
    <2>2. unanswered' = 0
      BY <2>1
    <2>3. PA!Closing(cancel) \in {"cancelling", "closed"} /\ current \in PA!Numbers
      BY <1>1 DEF PA!Closing, PA!Numbers
    <2>4. CASE linked
      <3>1. links' = [links EXCEPT ![current] = PA!Closing(cancel)]
        BY <2>1, <2>4
      <3> QED
        BY <1>1, <2>1, <2>2, <2>3, <3>1
    <2>5. CASE ~linked
      BY <1>1, <2>1, <2>2, <2>5
    <2> QED
      BY <2>4, <2>5
  <1>2. CASE ~pairActive
    <2>1. UNCHANGED <<pairActive, linked, panel, pairPending, unanswered, links>>
      BY <1>2 DEF PA!Finish
    <2>2. pairActive = FALSE /\ linked = FALSE /\ pairPending = "none" /\ unanswered = 0
      BY <1>2
    <2>3. panel' = (panel /\ ~pairActive)
      BY <1>2, <2>1
    <2>4. \A g \in PA!Numbers : links[g] # "open"
      BY <1>2
    <2> QED
      BY <2>1, <2>2, <2>3, <2>4
  <1> QED
    BY <1>1, <1>2

\* A pairing that has ended and whose tasks and questions are as they were.
LEMMA EndedIsSound ==
    ASSUME PA!PairingInv, NEW cancel \in BOOLEAN, PA!Finish(cancel),
           UNCHANGED <<device, owner, shown, accept, entry, tasks, asked>>,
           bluez' \in 0 .. MaxRestarts, devices' \subseteq Gadgets, pairQueued' \in BOOLEAN,
           current' \in 0 .. MaxPairings
    PROVE  PA!PairingInv'
  <1> USE DEF Ended
  <1>0. Ended
    BY FinishEnds
  <1> USE <1>0
  <1>1. panel' \in BOOLEAN
    BY DEF PA!PairingInv, PA!PairingTypeOK
  <1>2. PA!PairingTypeOK'
    <2>1. pairActive' \in BOOLEAN /\ linked' \in BOOLEAN
      OBVIOUS
    <2>2. /\ pairPending' \in PA!Kinds \cup {"none"} /\ unanswered' \in Nat
          /\ links' \in [PA!Numbers -> {"none", "open", "cancelling", "closed"}]
      OBVIOUS
    <2> QED
      BY <1>1, <2>1, <2>2 DEF PA!PairingInv, PA!PairingTypeOK
  <1>3. PA!LinksReleased'
    BY DEF PA!PairingInv, PA!PairingTypeOK, PA!LinksReleased, PA!TaskFollows
  <1>4. PA!AnswersTheQuestion'
    <2>1. panel' => panel /\ ~pairActive
      OBVIOUS
    <2> QED
      BY <2>1 DEF PA!PairingInv, PA!AnswersTheQuestion
  <1>5. PA!TaskFollows'
    BY DEF PA!PairingInv, PA!PairingTypeOK, PA!TaskFollows, PA!LinksReleased
  <1> QED
    BY <1>2, <1>3, <1>4, <1>5 DEF PA!PairingInv

\* The task of a pairing: its continuations find the pairing or find it gone.
LEMMA TaskStep == ASSUME PA!PairingInv, NEW g \in PA!Numbers, PA!Step(g) PROVE PA!PairingInv'
  <1> USE DEF PA!PairingTypeOK
  <1>0. /\ PA!PairingTypeOK /\ PA!LinksReleased /\ PA!AnswersTheQuestion /\ PA!TaskFollows
        /\ g \in 1 .. MaxPairings
    BY DEF PA!PairingInv, PA!Numbers
  <1>1. ASSUME tasks' = [tasks EXCEPT ![g] = "over"], tasks[g] # "new",
               NEW cancel \in BOOLEAN, PA!Finish(cancel), current = g,
               asked' = asked \/ asked' = [asked EXCEPT ![g] = FALSE],
               UNCHANGED <<bluez, devices, pairQueued, current, device, owner, shown, accept, entry>>
        PROVE  PA!PairingInv'
    <2>0. Ended
      BY <1>1, FinishEnds
    <2> USE <1>0, <1>1, <2>0 DEF Ended
    <2>1. panel' \in BOOLEAN /\ (panel' => panel /\ ~pairActive)
      OBVIOUS
    <2>2. asked' \in [PA!Numbers -> BOOLEAN] /\ \A h \in PA!Numbers : asked'[h] => asked[h]
      OBVIOUS
    <2>3. PA!PairingTypeOK'
      <3>1. pairActive' \in BOOLEAN /\ linked' \in BOOLEAN
        OBVIOUS
      <3>2. /\ pairPending' \in PA!Kinds \cup {"none"} /\ unanswered' \in Nat
            /\ links' \in [PA!Numbers -> {"none", "open", "cancelling", "closed"}]
            /\ tasks' \in [PA!Numbers -> {"new", "connecting", "registering", "pairing", "over"}]
        OBVIOUS
      <3> QED
        BY <2>1, <2>2, <3>1, <3>2
    <2>4. PA!LinksReleased'
      BY <2>2 DEF PA!LinksReleased, PA!TaskFollows
    <2>5. PA!AnswersTheQuestion'
      BY <2>1 DEF PA!AnswersTheQuestion
    <2>6. PA!TaskFollows'
      BY <2>2 DEF PA!TaskFollows
    <2> QED
      BY <2>3, <2>4, <2>5, <2>6 DEF PA!PairingInv
  <1>2. ASSUME tasks' = [tasks EXCEPT ![g] = "over"], tasks[g] # "new", ~(current = g /\ pairActive),
               links' = links \/ links' = [links EXCEPT ![g] = "closed"],
               asked' = asked \/ asked' = [asked EXCEPT ![g] = FALSE],
               UNCHANGED <<bluez, devices, pairQueued, current, pairActive, device, owner, linked,
                           pairPending, shown, accept, entry, panel, unanswered>>
        PROVE  PA!PairingInv'
    <2> USE <1>0, <1>2
    <2>1. /\ links' \in [PA!Numbers -> {"none", "open", "cancelling", "closed"}]
          /\ \A h \in PA!Numbers : links'[h] = links[h] \/ (h = g /\ links'[h] = "closed")
          /\ links[g] # "open"
      BY DEF PA!LinksReleased
    <2>2. asked' \in [PA!Numbers -> BOOLEAN] /\ \A h \in PA!Numbers : asked'[h] => asked[h]
      OBVIOUS
    <2>3. PA!PairingTypeOK'
      <3>1. tasks' \in [PA!Numbers -> {"new", "connecting", "registering", "pairing", "over"}]
        OBVIOUS
      <3> QED
        BY <2>1, <2>2, <3>1
    <2>4. PA!LinksReleased'
      BY <2>1, <2>2 DEF PA!LinksReleased, PA!TaskFollows
    <2>5. PA!AnswersTheQuestion'
      BY DEF PA!AnswersTheQuestion
    <2>6. PA!TaskFollows'
      BY <2>1, <2>2 DEF PA!TaskFollows
    <2> QED
      BY <2>3, <2>4, <2>5, <2>6 DEF PA!PairingInv
  <1>3. CASE PA!Connected(g)
    <2> USE DEF PA!world, PA!fields, PA!widgets, PA!Over
    <2>1. tasks[g] = "connecting"
          /\ UNCHANGED <<bluez, devices, pairQueued, current, device, owner, shown, accept, entry, asked>>
      BY <1>3 DEF PA!Connected
    <2>2. CASE ~PA!Wanted(g)
      BY <1>2, <1>3, <2>1, <2>2 DEF PA!Connected, PA!Wanted
    <2>3. CASE PA!Wanted(g) /\ PA!Over(g) /\ PA!Finish(FALSE)
      BY <1>1, <2>1, <2>3 DEF PA!Wanted
    <2>4. CASE /\ PA!Wanted(g)
               /\ linked' = TRUE /\ links' = [links EXCEPT ![g] = "open"]
               /\ tasks' = [tasks EXCEPT ![g] = "registering"]
               /\ UNCHANGED <<pairActive, panel, pairPending, unanswered>>
      <3> USE <1>0, <2>1, <2>4 DEF PA!Wanted
      <3>1. PA!PairingTypeOK'
        <4>1. linked' \in BOOLEAN
          OBVIOUS
        <4>2. /\ tasks' \in [PA!Numbers -> {"new", "connecting", "registering", "pairing", "over"}]
              /\ links' \in [PA!Numbers -> {"none", "open", "cancelling", "closed"}]
          OBVIOUS
        <4> QED
          BY <4>1, <4>2
      <3>2. PA!LinksReleased'
        BY DEF PA!LinksReleased, PA!TaskFollows
      <3>3. PA!AnswersTheQuestion'
        BY DEF PA!AnswersTheQuestion
      <3>4. PA!TaskFollows'
        BY DEF PA!TaskFollows
      <3> QED
        BY <3>1, <3>2, <3>3, <3>4 DEF PA!PairingInv
    <2> QED
      BY <1>3, <2>2, <2>3, <2>4 DEF PA!Connected
  <1>4. CASE PA!Registered(g)
    <2> USE DEF PA!world, PA!fields, PA!widgets, PA!Over, PA!RefusedAgent
    <2>1. tasks[g] = "registering"
          /\ UNCHANGED <<bluez, devices, pairQueued, current, device, owner, shown, accept, entry>>
      BY <1>4 DEF PA!Registered
    <2>2. CASE ~(current = g /\ pairActive)
      BY <1>2, <1>4, <2>1, <2>2 DEF PA!Registered
    <2>3. CASE current = g /\ PA!Over(g) /\ PA!Finish(FALSE) /\ UNCHANGED asked
      BY <1>1, <2>1, <2>3
    <2>4. CASE /\ current = g /\ pairActive
               /\ tasks' = [tasks EXCEPT ![g] = "pairing"]
               /\ asked' = [asked EXCEPT ![g] = TRUE]
               /\ UNCHANGED <<pairActive, linked, panel, pairPending, unanswered, links>>
      <3> USE <1>0, <2>1, <2>4
      <3>1. PA!PairingTypeOK'
        OBVIOUS
      <3>2. PA!LinksReleased'
        BY DEF PA!LinksReleased
      <3>3. PA!AnswersTheQuestion'
        BY DEF PA!AnswersTheQuestion
      <3>4. PA!TaskFollows'
        BY DEF PA!TaskFollows, PA!LinksReleased
      <3> QED
        BY <3>1, <3>2, <3>3, <3>4 DEF PA!PairingInv
    <2> QED
      BY <1>4, <2>2, <2>3, <2>4 DEF PA!Registered
  <1>5. CASE PA!PairReturns(g)
    <2> USE DEF PA!world, PA!fields, PA!widgets, PA!Over
    <2>1. /\ tasks[g] = "pairing" /\ tasks' = [tasks EXCEPT ![g] = "over"]
          /\ UNCHANGED <<bluez, devices, pairQueued, current, device, owner, shown, accept, entry>>
          /\ asked' = asked \/ asked' = [asked EXCEPT ![g] = FALSE]
      BY <1>5 DEF PA!PairReturns
    <2>2. PICK failure \in BOOLEAN :
            IF current = g THEN PA!Finish(failure)
            ELSE UNCHANGED <<pairActive, linked, panel, pairPending, unanswered, links>>
      BY <1>5 DEF PA!PairReturns
    <2>3. CASE current = g
      BY <1>1, <2>1, <2>2, <2>3
    <2>4. CASE current # g
      BY <1>2, <2>1, <2>2, <2>4
    <2> QED
      BY <2>3, <2>4
  <1> QED
    BY <1>3, <1>4, <1>5 DEF PA!Step

\* The user, BlueZ and its objects.
LEMMA PairingStep == PA!PairingInv /\ [PA!PairingNext]_pairingVars => PA!PairingInv'
  <1> SUFFICES ASSUME PA!PairingInv, [PA!PairingNext]_pairingVars PROVE PA!PairingInv'
    OBVIOUS
  <1> USE DEF PA!world, PA!fields, PA!widgets
  <1>0. /\ PA!PairingTypeOK /\ PA!LinksReleased /\ PA!AnswersTheQuestion /\ PA!TaskFollows
    BY DEF PA!PairingInv
  <1>1. ASSUME NEW d \in Gadgets, PA!Start(d) PROVE PA!PairingInv'
    <2>1. PICK g \in PA!Numbers : tasks[g] = "new" /\ current' = g
                                  /\ tasks' = [tasks EXCEPT ![g] = "connecting"]
      BY <1>1 DEF PA!Start
    <2>2. /\ ~pairActive /\ pairActive' = TRUE /\ linked' = FALSE /\ pairPending' = "none"
          /\ device' = d /\ owner' = bluez
          /\ shown' = "pairing" /\ accept' = FALSE /\ entry' = FALSE /\ panel' = TRUE
          /\ UNCHANGED <<bluez, devices, pairQueued, links, asked, unanswered>>
      BY <1>1 DEF PA!Start, PA!MayStart
    <2>3. PA!PairingTypeOK'
      <3>1. g \in 0 .. MaxPairings /\ shown' \in PA!Texts
        BY <2>2, ProgressAssumption DEF PA!Numbers, PA!PairingAssumption, PA!Texts
      <3> QED
        BY <1>0, <2>1, <2>2, <3>1 DEF PA!PairingTypeOK
    <2>4. PA!LinksReleased'
      BY <1>0, <2>1, <2>2 DEF PA!LinksReleased, PA!PairingTypeOK
    <2>5. PA!AnswersTheQuestion'
      <3>1. unanswered' = 0
        BY <1>0, <2>2 DEF PA!AnswersTheQuestion
      <3>2. ~entry' /\ entry' \in BOOLEAN /\ pairPending' \notin {"pin", "passkey"}
        BY <2>2
      <3>3. entry' = (pairPending' \in {"pin", "passkey"})
        BY <3>2
      <3> QED
        BY <2>2, <3>1, <3>3 DEF PA!AnswersTheQuestion
    <2>6. PA!TaskFollows'
      <3>1. g # 0
        BY DEF PA!Numbers
      <3> QED
        BY <1>0, <2>1, <2>2, <3>1 DEF PA!TaskFollows, PA!PairingTypeOK
    <2> QED
      BY <2>3, <2>4, <2>5, <2>6 DEF PA!PairingInv
  <1>2. ASSUME NEW d \in Gadgets, PA!DevicesChange(d) PROVE PA!PairingInv'
    <2>1. devices' \subseteq Gadgets /\ pairQueued' = TRUE
          /\ UNCHANGED <<bluez, current, pairActive, device, owner, linked, pairPending, shown,
                         accept, entry, panel, tasks, links, asked, unanswered>>
      BY <1>0, <1>2 DEF PA!DevicesChange, PA!PairingTypeOK
    <2> QED
      BY <2>1 DEF PA!PairingInv, PA!PairingTypeOK, PA!LinksReleased, PA!AnswersTheQuestion,
                  PA!TaskFollows
  <1>3. ASSUME NEW k \in PA!Kinds, PA!Question(k) PROVE PA!PairingInv'
    <2>1. /\ linked /\ pairActive /\ pairPending = "none" /\ k # "none"
          /\ pairPending' = k /\ unanswered' = unanswered + 1
          /\ shown' = k /\ accept' = TRUE /\ entry' = (k \in {"pin", "passkey"})
          /\ UNCHANGED <<bluez, devices, pairQueued, current, pairActive, device, owner, linked,
                         panel, tasks, links, asked>>
      BY <1>3 DEF PA!Question, PA!Accepts, PA!Kinds
    <2>2. entry' \in BOOLEAN /\ shown' \in PA!Texts
      BY <2>1 DEF PA!Texts
    <2>3. PA!PairingTypeOK'
      BY <1>0, <2>1, <2>2 DEF PA!PairingTypeOK
    <2>4. PA!AnswersTheQuestion'
      BY <1>0, <2>1 DEF PA!AnswersTheQuestion, PA!TaskFollows
    <2> QED
      BY <1>0, <2>1, <2>3, <2>4 DEF PA!PairingInv, PA!LinksReleased, PA!TaskFollows
  <1>4. ASSUME NEW g \in PA!Numbers, PA!CancelReturns(g) PROVE PA!PairingInv'
    <2>1. /\ links[g] = "cancelling" /\ links' = [links EXCEPT ![g] = "closed"]
          /\ UNCHANGED <<bluez, devices, pairQueued, current, pairActive, device, owner, linked,
                         pairPending, shown, accept, entry, panel, tasks, asked, unanswered>>
      BY <1>4 DEF PA!CancelReturns
    <2> QED
      BY <1>0, <2>1 DEF PA!PairingInv, PA!PairingTypeOK, PA!LinksReleased, PA!AnswersTheQuestion,
                        PA!TaskFollows
  <1>5. CASE PA!Respond
    <2>1. /\ panel /\ accept /\ pairPending # "none"
          /\ pairPending' = "none" /\ unanswered' = unanswered - 1
          /\ shown' = "pairing" /\ accept' = FALSE /\ entry' = FALSE
          /\ UNCHANGED <<bluez, devices, pairQueued, current, pairActive, device, owner, linked,
                         panel, tasks, links, asked>>
      BY <1>5 DEF PA!Respond
    <2>2. shown' \in PA!Texts /\ unanswered' = 0
      BY <1>0, <2>1 DEF PA!Texts, PA!AnswersTheQuestion
    <2>3. ~entry' /\ entry' \in BOOLEAN /\ accept' \in BOOLEAN
          /\ pairPending' \notin {"pin", "passkey"}
      BY <2>1
    <2>4. PA!PairingTypeOK'
      BY <1>0, <2>1, <2>2, <2>3 DEF PA!PairingTypeOK
    <2>5. entry' = (pairPending' \in {"pin", "passkey"})
      BY <2>3
    <2>6. PA!AnswersTheQuestion'
      BY <2>1, <2>2, <2>5 DEF PA!AnswersTheQuestion
    <2> QED
      BY <1>0, <2>1, <2>4, <2>6 DEF PA!PairingInv, PA!LinksReleased, PA!TaskFollows
  <1>6. CASE PA!Cancel
    BY <1>0, <1>6, EndedIsSound DEF PA!Cancel, PA!PairingTypeOK
  <1>7. CASE PA!Unmap \/ PA!NewService
    <2>1. 0 \in 0 .. MaxPairings
      BY ProgressAssumption DEF PA!PairingAssumption
    <2>2. bluez' \in 0 .. MaxRestarts
      <3>1. bluez \in 0 .. MaxRestarts /\ MaxRestarts \in Nat
        BY <1>0, ProgressAssumption DEF PA!PairingTypeOK, PA!PairingAssumption
      <3>2. bluez' = bluez \/ (bluez < MaxRestarts /\ bluez' = bluez + 1)
        BY <1>7 DEF PA!Unmap, PA!NewService
      <3> QED
        BY <3>1, <3>2
    <2>3. UNCHANGED <<devices, pairQueued, device, owner, shown, accept, entry, tasks, asked>>
      BY <1>7 DEF PA!Unmap, PA!NewService
    <2>4. CASE PA!Abandoned
      BY <1>0, <2>1, <2>2, <2>3, <2>4, EndedIsSound DEF PA!Abandoned, PA!PairingTypeOK
    <2>5. CASE UNCHANGED <<pairActive, linked, panel, pairPending, unanswered, links, current>>
      BY <1>0, <2>2, <2>3, <2>5 DEF PA!PairingInv, PA!PairingTypeOK, PA!LinksReleased,
                                    PA!AnswersTheQuestion, PA!TaskFollows
    <2> QED
      BY <1>7, <2>4, <2>5 DEF PA!Unmap, PA!NewService
  <1>8. CASE PA!Display
    <2>1. /\ pairPending = "none" /\ shown' \in PA!Texts /\ accept' = FALSE /\ entry' = FALSE
          /\ UNCHANGED <<bluez, devices, pairQueued, current, pairActive, device, owner, linked,
                         pairPending, panel, tasks, links, asked, unanswered>>
      BY <1>8 DEF PA!Display, PA!Accepts, PA!Texts
    <2> QED
      BY <1>0, <2>1 DEF PA!PairingInv, PA!PairingTypeOK, PA!LinksReleased,
                        PA!AnswersTheQuestion, PA!TaskFollows
  <1>9. CASE PA!CancelQuestion
    <2>1. /\ pairPending' = "none" /\ shown' \in PA!Texts /\ accept' = FALSE /\ entry' = FALSE
          /\ unanswered' = IF pairPending = "none" THEN unanswered ELSE unanswered - 1
          /\ UNCHANGED <<bluez, devices, pairQueued, current, pairActive, device, owner, linked,
                         panel, tasks, links, asked>>
      BY <1>9 DEF PA!CancelQuestion, PA!TakenBack, PA!Dropped, PA!Texts
    <2>2. unanswered' = 0
      BY <1>0, <2>1 DEF PA!AnswersTheQuestion
    <2>3. ~entry' /\ entry' \in BOOLEAN /\ accept' \in BOOLEAN
          /\ pairPending' \notin {"pin", "passkey"}
      BY <2>1
    <2>4. PA!PairingTypeOK'
      BY <1>0, <2>1, <2>2, <2>3 DEF PA!PairingTypeOK
    <2>5. entry' = (pairPending' \in {"pin", "passkey"})
      BY <2>3
    <2>6. PA!AnswersTheQuestion'
      BY <2>1, <2>2, <2>5 DEF PA!AnswersTheQuestion
    <2> QED
      BY <1>0, <2>1, <2>4, <2>6 DEF PA!PairingInv, PA!LinksReleased, PA!TaskFollows
  <1>10. CASE PA!Release
    BY <1>0, <1>10, EndedIsSound DEF PA!Release, PA!PairingTypeOK
  <1>11. CASE PA!Update
    <2>1. pairQueued' = FALSE
          /\ UNCHANGED <<bluez, devices, current, device, owner, shown, accept, entry, tasks, asked>>
      BY <1>11 DEF PA!Update
    <2>2. CASE PA!Finish(TRUE)
      BY <1>0, <2>1, <2>2, EndedIsSound DEF PA!PairingTypeOK
    <2>3. CASE UNCHANGED <<pairActive, linked, panel, pairPending, unanswered, links>>
      BY <1>0, <2>1, <2>3 DEF PA!PairingInv, PA!PairingTypeOK, PA!LinksReleased,
                              PA!AnswersTheQuestion, PA!TaskFollows
    <2> QED
      BY <1>11, <2>2, <2>3 DEF PA!Update
  <1>12. CASE UNCHANGED pairingVars
    BY <1>0, <1>12 DEF pairingVars, PA!PairingInv, PA!PairingTypeOK, PA!LinksReleased,
                       PA!AnswersTheQuestion, PA!TaskFollows
  <1> QED
    BY <1>1, <1>2, <1>3, <1>4, <1>5, <1>6, <1>7, <1>8, <1>9, <1>10, <1>11, <1>12, TaskStep
       DEF PA!PairingNext

-----------------------------------------------------------------------------
(* The outputs of a device.                                                *)

\* The clients of an output know its mode and no stranger.
Told(s) == s.mode \in s.announced /\ s.announced \subseteq DV!ToSet(s.modes) \cup {s.mode}
\* An output has the mode its section asks for.
AsAsked(s, req) ==
    /\ req.size \in {0, s.mode.size}
    /\ req.refresh = 0 \/ DV!AbsDiff(s.mode.refresh, req.refresh) <= 500
    /\ {s.mode} = DV!Select(s.modes, req)

LEMMA ModeLaw ==
    DV!ModeAsRequested <=>
        \A c \in DV!Shown : /\ Told(surface[c])
                            /\ DV!Select(surface[c].modes, wanted[c]) # {} /\ ~refused[c]
                                    => AsAsked(surface[c], wanted[c])
  BY DEF DV!ModeAsRequested, Told, AsAsked

\* max_by_key picks at most one mode, of those that are near enough.
LEMMA OneMode ==
    ASSUME NEW l \in Seq(DV!Mode), NEW req
    PROVE  /\ \A m, n \in DV!Select(l, req) : m = n
           /\ \A m \in DV!Select(l, req) :
                /\ m \in DV!Mode /\ m \in DV!ToSet(l)
                /\ req.size \in {0, m.size}
                /\ req.refresh = 0 \/ DV!AbsDiff(m.refresh, req.refresh) <= 500
  <1> DEFINE fit == DV!Acceptable(l, req)
             best == {i \in fit : \A j \in fit : ~DV!Preferable(l[j], l[i], req)}
             first == {k \in best : \A j \in best : k <= j}
  <1>1. DV!Select(l, req) = {l[i] : i \in first}
    BY DEF DV!Select
  <1>2. fit \subseteq 1 .. Len(l) /\ DOMAIN l = 1 .. Len(l)
        /\ \A i \in fit : /\ req.size \in {0, l[i].size}
                          /\ req.refresh = 0 \/ DV!AbsDiff(l[i].refresh, req.refresh) <= 500
    BY DEF DV!Acceptable
  <1> HIDE DEF fit
  <1>3. first \subseteq fit /\ \A i, j \in first : i <= j /\ j <= i
    OBVIOUS
  <1>4. \A i, j \in first : i = j
    BY <1>2, <1>3
  <1> HIDE DEF first
  <1>5. \A i \in first : l[i] \in DV!Mode /\ l[i] \in DV!ToSet(l)
    BY <1>2, <1>3 DEF DV!ToSet
  <1> QED
    BY <1>1, <1>2, <1>3, <1>4, <1>5

\* synchronize_output_modes of an output that was in order.
LEMMA AnnounceTells ==
    ASSUME NEW s \in DV!SurfaceData,
           s.mode \in s.announced \/ s.mode \in DV!ToSet(s.modes)
    PROVE  LET t == DV!Announce(s) IN
           t \in DV!SurfaceData /\ Told(t) /\ t.modes = s.modes /\ t.mode = s.mode /\ t.hdr = s.hdr
  <1> DEFINE t == DV!Announce(s)
             a == DV!ToSet(s.modes) \cup {m \in s.announced : m = s.mode}
  <1>1. t = [s EXCEPT !.announced = a]
    BY DEF DV!Announce
  <1>2. s.modes \in Seq(DV!Mode)
    BY ProgressAssumption DEF DV!SurfaceData, DV!DevicesAssumption
  <1>3. DV!ToSet(s.modes) \subseteq DV!Mode
    BY <1>2 DEF DV!ToSet
  <1>4. a \in SUBSET DV!Mode /\ s.mode \in a /\ a \subseteq DV!ToSet(s.modes) \cup {s.mode}
    BY <1>3 DEF DV!SurfaceData
  <1> HIDE DEF a, t
  <1>5. t \in DV!SurfaceData /\ t.modes = s.modes /\ t.mode = s.mode /\ t.hdr = s.hdr
        /\ t.announced = a
    BY <1>1, <1>4 DEF DV!SurfaceData
  <1>6. Told(t)
    BY <1>4, <1>5 DEF Told
  <1> QED
    BY <1>5, <1>6 DEF t

\* configure_hdr changes nothing but the HDR state.
LEMMA HdrKeeps ==
    ASSUME NEW s \in DV!SurfaceData, NEW req \in DV!OutputConfig, NEW taken
    PROVE  LET t == DV!Hdr(s, req, taken) IN
           /\ t \in DV!SurfaceData
           /\ t.modes = s.modes /\ t.mode = s.mode /\ t.announced = s.announced
  <1> DEFINE h == IF taken THEN req.hdr ELSE s.hdr
  <1>1. DV!Hdr(s, req, taken) = [s EXCEPT !.hdr = h]
    BY DEF DV!Hdr
  <1>2. h \in BOOLEAN
    BY DEF DV!OutputConfig, DV!SurfaceData
  <1> HIDE DEF h
  <1> QED
    BY <1>1, <1>2 DEF DV!SurfaceData

\* apply_output_config of one output.
LEMMA ConfiguredWell ==
    ASSUME NEW s \in DV!SurfaceData, Told(s), NEW req \in DV!OutputConfig, NEW ok
    PROVE  LET t == DV!Configured(s, req, ok) IN
           /\ t \in DV!SurfaceData /\ Told(t) /\ t.modes = s.modes
           /\ DV!Select(s.modes, req) # {} /\ ~DV!Denied(s, req, ok) => AsAsked(t, req)
  <1> DEFINE choice == DV!Select(s.modes, req)
             moves == choice # {} /\ choice # {s.mode} /\ ok.mode
             m == CHOOSE n \in choice : TRUE
             moved == [s EXCEPT !.mode = m]
             moded == IF moves THEN DV!Announce(moved) ELSE s
             t == DV!Configured(s, req, ok)
  <1>0. s.modes \in Seq(DV!Mode)
    BY ProgressAssumption DEF DV!SurfaceData, DV!DevicesAssumption
  <1>1. /\ \A a, b \in choice : a = b
        /\ \A a \in choice : /\ a \in DV!Mode /\ a \in DV!ToSet(s.modes)
                             /\ req.size \in {0, a.size}
                             /\ req.refresh = 0 \/ DV!AbsDiff(a.refresh, req.refresh) <= 500
    BY <1>0, OneMode
  <1>2. t = DV!Hdr(moded, req, ok.hdr)
    BY DEF DV!Configured
  <1>3. DV!Denied(s, req, ok) <=> (choice # {} /\ choice # {s.mode} /\ ~ok.mode)
    BY DEF DV!Denied
  <1>4. DV!Select(s.modes, req) = choice
    OBVIOUS
  <1> HIDE DEF choice
  <1>5. choice # {} => m \in choice /\ choice = {m}
    BY <1>1
  <1>6. /\ moded \in DV!SurfaceData /\ Told(moded) /\ moded.modes = s.modes
        /\ choice # {} /\ ~DV!Denied(s, req, ok) => {moded.mode} = choice
    <2>1. CASE moves
      <3>1. m \in choice /\ choice = {m} /\ m \in DV!Mode /\ m \in DV!ToSet(s.modes)
        BY <1>1, <1>5, <2>1
      <3> HIDE DEF m
      <3>2. moved \in DV!SurfaceData /\ moved.mode = m /\ moved.modes = s.modes
        BY <3>1 DEF DV!SurfaceData
      <3> HIDE DEF moved
      <3>3. LET u == DV!Announce(moved) IN
            u \in DV!SurfaceData /\ Told(u) /\ u.modes = moved.modes /\ u.mode = moved.mode
        BY <3>1, <3>2, AnnounceTells
      <3> QED
        BY <2>1, <3>1, <3>2, <3>3
    <2>2. CASE ~moves
      BY <1>3, <2>2
    <2> QED
      BY <2>1, <2>2
  <1> HIDE DEF moded
  <1>7. t \in DV!SurfaceData /\ t.modes = moded.modes /\ t.mode = moded.mode
        /\ t.announced = moded.announced
    BY <1>2, <1>6, HdrKeeps
  <1> HIDE DEF t
  <1>8. Told(t) /\ t.modes = s.modes
    BY <1>6, <1>7 DEF Told
  <1>9. ASSUME choice # {}, ~DV!Denied(s, req, ok) PROVE AsAsked(t, req)
    <2>1. {t.mode} = choice /\ t.mode \in choice
      BY <1>6, <1>7, <1>9
    <2> QED
      BY <1>1, <1>4, <1>8, <2>1 DEF AsAsked
  <1> QED
    BY <1>4, <1>7, <1>8, <1>9, <1>6 DEF t

\* connector_connected: an output comes up as its section asks, if it can.
LEMMA SetUpWell ==
    ASSUME NEW c \in Connectors, cable[c] \in ModeLists, wanted[c] \in DV!OutputConfig, NEW ok,
           DV!SetUp(c, ok) # NoSurface
    PROVE  LET t == DV!SetUp(c, ok) IN
           /\ t \in DV!SurfaceData /\ Told(t)
           /\ DV!Select(t.modes, wanted[c]) # {} => AsAsked(t, wanted[c])
  <1> DEFINE modes == cable[c]
             req == wanted[c]
             choice == DV!FirstChoice(modes, req)
             m == CHOOSE n \in choice : TRUE
             fresh == [modes |-> modes, mode |-> m, announced |-> DV!ToSet(modes), hdr |-> FALSE]
             taken == req.hdr /\ ok.hdr
             t == DV!SetUp(c, ok)
  <1>0. modes \in Seq(DV!Mode)
    BY ProgressAssumption DEF DV!DevicesAssumption
  <1>1. choice # {} /\ t = DV!Hdr(fresh, req, taken)
    BY DEF DV!SetUp
  <1>2. m \in choice
    BY <1>1
  <1>3. choice = DV!Select(modes, req) \/ (DV!Select(modes, req) = {} /\ choice = DV!Select(modes, DV!Auto))
    BY DEF DV!FirstChoice
  <1> HIDE DEF choice
  <1>4. m \in DV!Mode /\ m \in DV!ToSet(modes)
    BY <1>0, <1>2, <1>3, OneMode
  <1>5. ASSUME DV!Select(modes, req) # {}
        PROVE  /\ req.size \in {0, m.size}
               /\ req.refresh = 0 \/ DV!AbsDiff(m.refresh, req.refresh) <= 500
               /\ {m} = DV!Select(modes, req)
    BY <1>0, <1>2, <1>3, <1>5, OneMode
  <1> HIDE DEF m
  <1>6. DV!ToSet(modes) \subseteq DV!Mode
    BY <1>0 DEF DV!ToSet
  <1>7. fresh \in DV!SurfaceData /\ fresh.mode = m /\ fresh.modes = modes
        /\ fresh.announced = DV!ToSet(modes)
    BY <1>4, <1>6 DEF DV!SurfaceData
  <1> HIDE DEF fresh
  <1>8. t \in DV!SurfaceData /\ t.mode = m /\ t.modes = modes /\ t.announced = DV!ToSet(modes)
    BY <1>1, <1>7, HdrKeeps
  <1> HIDE DEF t
  <1>9. Told(t) /\ (DV!Select(t.modes, req) # {} => AsAsked(t, req))
    BY <1>4, <1>5, <1>8 DEF Told, AsAsked
  <1> QED
    BY <1>8, <1>9 DEF t

LEMMA DevicesStart == DV!DevicesInit => DV!DevicesInv
  <1> SUFFICES ASSUME DV!DevicesInit PROVE DV!DevicesInv
    OBVIOUS
  <1> USE DEF DV!DevicesInit
  <1>1. DV!Shown = {}
    BY DEF DV!Shown
  <1>2. DV!DevicesTypeOK
    <2>1. cables \in 0 .. MaxCables /\ reconfigs \in 0 .. MaxReloads /\ aways \in 0 .. MaxAway
      BY ProgressAssumption DEF DV!DevicesAssumption
    <2> QED
      BY <2>1 DEF DV!DevicesTypeOK
  <1>3. DV!NoPhantoms
    <2>1. offered = {c \in Headsets : scanned[c] # Unplugged}
      BY ProgressAssumption DEF DV!DevicesAssumption
    <2> QED
      BY <1>1, <2>1 DEF DV!NoPhantoms
  <1>4. DV!ModeAsRequested
    BY <1>1 DEF DV!ModeAsRequested
  <1> QED
    BY <1>2, <1>3, <1>4 DEF DV!DevicesInv

\* What is asked for is a section of the file or the automatic one.
LEMMA SectionsAreConfigs == Requests \cup {DV!Auto} \subseteq DV!OutputConfig
  <1>1. DV!Auto \in DV!OutputConfig
    BY DEF DV!Auto, DV!OutputConfig
  <1> QED
    BY <1>1, ProgressAssumption DEF DV!DevicesAssumption

\* What the device and its connectors come to when the surfaces change.
SurfacesWell ==
    /\ surface' \in [Connectors -> DV!SurfaceData \cup {NoSurface}]
    /\ refused' \in [Connectors -> BOOLEAN]
    /\ kmsHdr' \in [Connectors -> BOOLEAN]
    /\ \A c \in Connectors : surface'[c] # NoSurface =>
            /\ Told(surface'[c])
            /\ DV!Select(surface'[c].modes, wanted'[c]) # {} /\ ~refused'[c]
                    => AsAsked(surface'[c], wanted'[c])

LEMMA ModeLawNext == ASSUME SurfacesWell PROVE DV!ModeAsRequested'
  BY DEF SurfacesWell, Told, AsAsked, DV!ModeAsRequested, DV!Shown

\* The HDR properties of a connector after its output was configured.
LEMMA HdrAfterType ==
    ASSUME DV!DevicesTypeOK, NEW c \in Connectors,
           NEW old \in DV!SurfaceData \cup {NoSurface}, NEW new \in DV!SurfaceData \cup {NoSurface}
    PROVE  DV!HdrAfter(c, old, new) \in BOOLEAN
  <1>1. kmsHdr[c] \in BOOLEAN /\ (new # NoSurface => new.hdr \in BOOLEAN)
    BY DEF DV!DevicesTypeOK, DV!SurfaceData
  <1>2. CASE new = NoSurface
    BY <1>1, <1>2 DEF DV!HdrAfter
  <1>3. CASE new # NoSurface /\ old = NoSurface
    BY <1>3 DEF DV!HdrAfter
  <1>4. CASE new # NoSurface /\ old # NoSurface
    BY <1>1, <1>4 DEF DV!HdrAfter
  <1> QED
    BY <1>2, <1>3, <1>4

\* A scan: displays that came, went, or have other modes now.
LEMMA ScanStep ==
    ASSUME DV!DevicesInv, DV!Scan, gpu' = TRUE
    PROVE  DV!DevicesInv'
  <1> DEFINE came == {c \in Connectors : scanned[c] = Unplugged /\ cable[c] # Unplugged}
             went == {c \in Connectors : scanned[c] # Unplugged /\ cable[c] = Unplugged}
             differs == {c \in Connectors \ (came \cup went) : scanned[c] # cable[c]}
             starts == (came \cup {c \in differs : surface[c] = NoSurface}) \ Headsets
             again == \E c \in differs : surface[c] # NoSurface
             updated(c) == IF c \in differs
                           THEN DV!Announce([surface[c] EXCEPT !.modes = cable[c]])
                           ELSE surface[c]
  <1>0. DV!DevicesTypeOK /\ DV!NoPhantoms /\ DV!ModeAsRequested
    BY DEF DV!DevicesInv
  <1>1. /\ uevent' = FALSE /\ scanned' = cable
        /\ space' = DV!SpaceAfter(surface')
        /\ offered' = (offered \ went) \cup (came \cap Headsets)
        /\ kmsHdr' = [c \in Connectors |-> DV!HdrAfter(c, surface[c], surface'[c])]
        /\ UNCHANGED <<cable, cables, reconfigs, aways, seated, wanted, leases>>
    BY DEF DV!Scan, DV!deviceEnv
  <1>2. PICK ok \in [(IF again THEN DV!Shown \ went ELSE {}) \cup starts -> DV!KernelSays] :
        /\ surface' = [c \in Connectors |->
                CASE c \in went -> NoSurface
                  [] c \in starts -> DV!SetUp(c, ok[c])
                  [] c \in DV!Shown \ went -> IF again
                        THEN DV!Configured(updated(c), wanted[c], ok[c]) ELSE surface[c]
                  [] OTHER -> NoSurface]
        /\ refused' = [c \in Connectors |->
                IF c \in DV!Shown \ went THEN IF again THEN DV!Denied(updated(c), wanted[c], ok[c])
                                              ELSE refused[c]
                ELSE FALSE]
    BY DEF DV!Scan
  <1>3. \A c \in Connectors : /\ cable[c] \in ModeLists \cup {Unplugged}
                              /\ wanted[c] \in DV!OutputConfig
                              /\ surface[c] \in DV!SurfaceData \cup {NoSurface}
    BY <1>0, SectionsAreConfigs DEF DV!DevicesTypeOK
  <1>4. \A c \in DV!Shown : /\ c \in Connectors /\ surface[c] # NoSurface
                            /\ scanned[c] # Unplugged /\ c \notin Headsets /\ gpu
                            /\ c \notin starts
    BY <1>0 DEF DV!NoPhantoms, DV!Shown
  <1>5. \A c \in starts : c \in Connectors /\ cable[c] \in ModeLists /\ c \notin Headsets
                          /\ c \notin went
    BY <1>3
  <1>6. ASSUME NEW c \in DV!Shown \ went, again
        PROVE  updated(c) \in DV!SurfaceData /\ Told(updated(c))
    <2>1. surface[c] \in DV!SurfaceData /\ Told(surface[c])
      BY <1>0, <1>3, <1>4, ModeLaw
    <2>2. CASE c \in differs
      <3> DEFINE s == [surface[c] EXCEPT !.modes = cable[c]]
      <3>1. cable[c] \in ModeLists
        BY <1>3, <1>4
      <3>2. s \in DV!SurfaceData /\ s.mode \in s.announced
        BY <2>1, <3>1 DEF DV!SurfaceData, Told
      <3>3. updated(c) = DV!Announce(s)
        BY <2>2
      <3> HIDE DEF s
      <3> QED
        BY <3>2, <3>3, AnnounceTells
    <2>3. CASE c \notin differs
      BY <2>1, <2>3
    <2> QED
      BY <2>2, <2>3
  <1>7. ASSUME NEW c \in Connectors
        PROVE  /\ surface'[c] \in DV!SurfaceData \cup {NoSurface}
               /\ refused'[c] \in BOOLEAN
               /\ surface'[c] # NoSurface =>
                    /\ c \notin Headsets /\ cable[c] # Unplugged
                    /\ Told(surface'[c])
                    /\ DV!Select(surface'[c].modes, wanted[c]) # {} /\ ~refused'[c]
                            => AsAsked(surface'[c], wanted[c])
    <2>1. CASE c \in went
      <3>1. surface'[c] = NoSurface /\ refused'[c] = FALSE
        BY <1>2, <2>1
      <3> QED
        BY <3>1
    <2>2. CASE c \in starts
      <3>1. surface'[c] = DV!SetUp(c, ok[c]) /\ refused'[c] = FALSE
        BY <1>2, <1>4, <1>5, <2>2
      <3>2. cable[c] \in ModeLists /\ cable[c] # Unplugged /\ c \notin Headsets
        BY <1>5, <2>2, ProgressAssumption DEF DV!DevicesAssumption
      <3>3. CASE surface'[c] # NoSurface
        <4>1. LET t == DV!SetUp(c, ok[c]) IN
              /\ t \in DV!SurfaceData /\ Told(t)
              /\ DV!Select(t.modes, wanted[c]) # {} => AsAsked(t, wanted[c])
          BY <1>3, <3>1, <3>2, <3>3, SetUpWell
        <4> QED
          BY <3>1, <3>2, <4>1
      <3> QED
        BY <3>1, <3>3
    <2>3. CASE c \in DV!Shown \ went
      <3>0. c \notin starts /\ c \notin went /\ c \notin Headsets /\ cable[c] # Unplugged
        BY <1>4, <2>3
      <3>1. CASE again
        <4>1. surface'[c] = DV!Configured(updated(c), wanted[c], ok[c])
              /\ refused'[c] = DV!Denied(updated(c), wanted[c], ok[c])
          BY <1>2, <2>3, <3>0, <3>1
        <4>2. updated(c) \in DV!SurfaceData /\ Told(updated(c))
          BY <1>6, <2>3, <3>1
        <4> DEFINE u == updated(c)
        <4> HIDE DEF updated, u
        <4>3. u = updated(c)
          BY DEF u
        <4>4. LET t == DV!Configured(u, wanted[c], ok[c]) IN
              /\ t \in DV!SurfaceData /\ Told(t) /\ t.modes = u.modes
              /\ DV!Select(u.modes, wanted[c]) # {} /\ ~DV!Denied(u, wanted[c], ok[c])
                    => AsAsked(t, wanted[c])
          BY <1>3, <4>2, <4>3, ConfiguredWell
        <4>5. refused'[c] \in BOOLEAN
          BY <4>1 DEF DV!Denied
        <4> QED
          BY <3>0, <4>1, <4>3, <4>4, <4>5
      <3>2. CASE ~again
        <4>1. surface'[c] = surface[c] /\ refused'[c] = refused[c]
          BY <1>2, <2>3, <3>0, <3>2
        <4>2. refused[c] \in BOOLEAN
          BY <1>0 DEF DV!DevicesTypeOK
        <4> QED
          BY <1>0, <1>3, <2>3, <3>0, <4>1, <4>2, ModeLaw
      <3> QED
        BY <3>1, <3>2
    <2>4. CASE c \notin went /\ c \notin starts /\ c \notin DV!Shown
      <3>1. surface'[c] = NoSurface /\ refused'[c] = FALSE
        BY <1>2, <2>4
      <3> QED
        BY <3>1
    <2> QED
      BY <2>1, <2>2, <2>3, <2>4
  <1> HIDE DEF updated, starts, again, differs
  <1>8. SurfacesWell
    <2>1. \A c \in Connectors : kmsHdr'[c] \in BOOLEAN
      BY <1>0, <1>1, <1>3, <1>7, HdrAfterType
    <2>2. surface' = [c \in Connectors |-> surface'[c]] /\ refused' = [c \in Connectors |-> refused'[c]]
          /\ kmsHdr' = [c \in Connectors |-> kmsHdr'[c]]
      BY <1>1, <1>2
    <2>3. UNCHANGED wanted
      BY <1>1
    <2> QED
      BY <1>7, <2>1, <2>2, <2>3 DEF SurfacesWell
  <1>9. /\ space' = DV!Shown' /\ space' \subseteq Connectors
        /\ offered' = {c \in Headsets : scanned'[c] # Unplugged}
    <2>1. Headsets \subseteq Connectors /\ offered = {c \in Headsets : scanned[c] # Unplugged}
      BY <1>0, ProgressAssumption DEF DV!NoPhantoms, DV!DevicesAssumption
    <2> QED
      BY <1>1, <2>1 DEF DV!SpaceAfter, DV!Shown
  <1>10. DV!DevicesTypeOK'
    BY <1>0, <1>1, <1>8, <1>9 DEF DV!DevicesTypeOK, SurfacesWell
  <1>11. DV!NoPhantoms'
    <2>1. \A c \in space' : gpu' /\ scanned'[c] # Unplugged /\ c \notin Headsets
      BY <1>1, <1>7, <1>9 DEF DV!Shown
    <2>2. ~(gpu' /\ seated') => leases' = {}
      BY <1>0, <1>1 DEF DV!NoPhantoms
    <2>3. \A k, l \in leases' : k # l => k \cap l = {}
      BY <1>0, <1>1 DEF DV!NoPhantoms
    <2> QED
      BY <1>9, <2>1, <2>2, <2>3 DEF DV!NoPhantoms
  <1> QED
    BY <1>8, <1>10, <1>11, ModeLawNext DEF DV!DevicesInv

\* The reload command and apply_output_config.
LEMMA ReconfigureStep ==
    ASSUME DV!DevicesInv, NEW c \in Connectors, NEW req \in Requests \cup {DV!Auto},
           DV!Reconfigure(c, req)
    PROVE  DV!DevicesInv'
  <1> DEFINE now == [wanted EXCEPT ![c] = req]
  <1>0. DV!DevicesTypeOK /\ DV!NoPhantoms /\ DV!ModeAsRequested
    BY DEF DV!DevicesInv
  <1>1. /\ reconfigs < MaxReloads /\ reconfigs' = reconfigs + 1 /\ wanted' = now
        /\ kmsHdr' = [d \in Connectors |-> DV!HdrAfter(d, surface[d], surface'[d])]
        /\ UNCHANGED <<cable, cables, aways, uevent, gpu, seated, scanned, space, offered, leases>>
    BY DEF DV!Reconfigure
  <1>2. PICK ok \in [DV!Shown -> DV!KernelSays] :
        /\ surface' = [d \in Connectors |->
                IF d \in DV!Shown THEN DV!Configured(surface[d], now[d], ok[d]) ELSE NoSurface]
        /\ refused' = [d \in Connectors |->
                d \in DV!Shown /\ DV!Denied(surface[d], now[d], ok[d])]
    BY DEF DV!Reconfigure
  <1>3. now \in [Connectors -> Requests \cup {DV!Auto}]
        /\ \A d \in Connectors : now[d] \in DV!OutputConfig
    BY <1>0, SectionsAreConfigs DEF DV!DevicesTypeOK
  <1> HIDE DEF now
  <1>4. ASSUME NEW d \in Connectors
        PROVE  /\ surface'[d] \in DV!SurfaceData \cup {NoSurface}
               /\ surface'[d] # NoSurface <=> d \in DV!Shown
               /\ refused'[d] \in BOOLEAN
               /\ surface'[d] # NoSurface =>
                    /\ Told(surface'[d])
                    /\ DV!Select(surface'[d].modes, now[d]) # {} /\ ~refused'[d]
                            => AsAsked(surface'[d], now[d])
    <2>1. CASE d \in DV!Shown
      <3>1. surface'[d] = DV!Configured(surface[d], now[d], ok[d])
            /\ refused'[d] = (d \in DV!Shown /\ DV!Denied(surface[d], now[d], ok[d]))
        BY <1>2, <2>1
      <3>2. surface[d] \in DV!SurfaceData /\ Told(surface[d])
        BY <1>0, <2>1, ModeLaw DEF DV!DevicesTypeOK, DV!Shown
      <3>3. LET t == DV!Configured(surface[d], now[d], ok[d]) IN
            /\ t \in DV!SurfaceData /\ Told(t) /\ t.modes = surface[d].modes
            /\ DV!Select(surface[d].modes, now[d]) # {} /\ ~DV!Denied(surface[d], now[d], ok[d])
                  => AsAsked(t, now[d])
        BY <1>3, <3>2, ConfiguredWell
      <3>4. refused'[d] \in BOOLEAN /\ (refused'[d] <=> DV!Denied(surface[d], now[d], ok[d]))
        BY <2>1, <3>1
      <3>5. NoSurface \notin DV!SurfaceData
        BY ProgressAssumption DEF DV!DevicesAssumption
      <3> QED
        BY <2>1, <3>1, <3>3, <3>4, <3>5
    <2>2. CASE d \notin DV!Shown
      <3>1. surface'[d] = NoSurface /\ refused'[d] = FALSE
        BY <1>2, <2>2
      <3> QED
        BY <2>2, <3>1
    <2> QED
      BY <2>1, <2>2
  <1>5. SurfacesWell
    <2>1. \A d \in Connectors : kmsHdr'[d] \in BOOLEAN
      <3>1. \A d \in Connectors : surface[d] \in DV!SurfaceData \cup {NoSurface}
        BY <1>0 DEF DV!DevicesTypeOK
      <3> QED
        BY <1>0, <1>1, <1>4, <3>1, HdrAfterType
    <2>2. surface' = [d \in Connectors |-> surface'[d]] /\ refused' = [d \in Connectors |-> refused'[d]]
          /\ kmsHdr' = [d \in Connectors |-> kmsHdr'[d]]
      BY <1>1, <1>2
    <2> QED
      BY <1>1, <1>4, <2>1, <2>2 DEF SurfacesWell
  <1>6. DV!Shown' = DV!Shown
    BY <1>4 DEF DV!Shown
  <1>7. reconfigs' \in 0 .. MaxReloads
    BY <1>0, <1>1, ProgressAssumption DEF DV!DevicesTypeOK, DV!DevicesAssumption
  <1>8. DV!DevicesTypeOK'
    BY <1>0, <1>1, <1>3, <1>5, <1>7 DEF DV!DevicesTypeOK, SurfacesWell
  <1>9. DV!NoPhantoms'
    BY <1>0, <1>1, <1>6 DEF DV!NoPhantoms
  <1> QED
    BY <1>5, <1>8, <1>9, ModeLawNext DEF DV!DevicesInv

\* Cables, the GPU, leases and VT switches.
LEMMA DevicesStep == DV!DevicesInv /\ [DV!DevicesNext]_deviceVars => DV!DevicesInv'
  <1> SUFFICES ASSUME DV!DevicesInv, [DV!DevicesNext]_deviceVars PROVE DV!DevicesInv'
    OBVIOUS
  <1>0. DV!DevicesTypeOK /\ DV!NoPhantoms /\ DV!ModeAsRequested
    BY DEF DV!DevicesInv
  <1> USE DEF DV!deviceEnv
  <1>1. ASSUME UNCHANGED <<surface, wanted, refused>>, DV!DevicesTypeOK', DV!NoPhantoms'
        PROVE  DV!DevicesInv'
    BY <1>0, <1>1 DEF DV!DevicesInv, DV!ModeAsRequested, DV!Shown
  <1>2. ASSUME NEW c \in Connectors, NEW w \in ModeLists \cup {Unplugged}, DV!Cable(c, w)
        PROVE  DV!DevicesInv'
    <2>1. /\ cables' \in 0 .. MaxCables /\ cable' \in [Connectors -> ModeLists \cup {Unplugged}]
          /\ UNCHANGED <<reconfigs, aways, gpu, seated, wanted, scanned, surface, space, offered,
                         leases, kmsHdr, refused>>
      BY <1>0, <1>2, ProgressAssumption DEF DV!Cable, DV!DevicesTypeOK, DV!DevicesAssumption
    <2>2. uevent' \in BOOLEAN
      BY <1>0, <1>2 DEF DV!Cable, DV!DevicesTypeOK
    <2>3. DV!DevicesTypeOK' /\ DV!NoPhantoms'
      BY <1>0, <2>1, <2>2 DEF DV!DevicesTypeOK, DV!NoPhantoms, DV!Shown
    <2> QED
      BY <1>1, <2>1, <2>3
  <1>3. ASSUME NEW c \in Connectors, NEW r \in Requests \cup {DV!Auto}, DV!Reconfigure(c, r)
        PROVE  DV!DevicesInv'
    BY <1>3, ReconfigureStep
  <1>4. CASE DV!DeviceChanged
    <2>1. DV!Scan /\ gpu' = TRUE
      BY <1>0, <1>4 DEF DV!DeviceChanged, DV!DevicesTypeOK
    <2> QED
      BY <2>1, ScanStep
  <1>5. CASE DV!GpuAdded
    BY <1>5, ScanStep DEF DV!GpuAdded
  <1>6. CASE DV!GpuRemoved
    <2>1. /\ aways < MaxAway /\ aways' = aways + 1 /\ gpu' = FALSE /\ uevent' = FALSE
          /\ scanned' = [c \in Connectors |-> Unplugged]
          /\ surface' = [c \in Connectors |-> NoSurface]
          /\ space' = DV!SpaceAfter(surface')
          /\ offered' = {} /\ leases' = {}
          /\ kmsHdr' = [c \in Connectors |-> FALSE] /\ refused' = [c \in Connectors |-> FALSE]
          /\ UNCHANGED <<cable, cables, reconfigs, seated, wanted>>
      BY <1>6 DEF DV!GpuRemoved
    <2>2. DV!Shown' = {} /\ space' = {}
      BY <2>1 DEF DV!Shown, DV!SpaceAfter
    <2>3. aways' \in 0 .. MaxAway
      BY <1>0, <2>1, ProgressAssumption DEF DV!DevicesTypeOK, DV!DevicesAssumption
    <2>4. DV!DevicesTypeOK'
      BY <1>0, <2>1, <2>2, <2>3 DEF DV!DevicesTypeOK
    <2>5. DV!NoPhantoms'
      <3>1. offered' = {c \in Headsets : scanned'[c] # Unplugged}
        BY <2>1, ProgressAssumption DEF DV!DevicesAssumption
      <3> QED
        BY <2>1, <2>2, <3>1 DEF DV!NoPhantoms
    <2>6. DV!ModeAsRequested'
      BY <2>2 DEF DV!ModeAsRequested
    <2> QED
      BY <2>4, <2>5, <2>6 DEF DV!DevicesInv
  <1>7. ASSUME NEW conns \in SUBSET Headsets, DV!Lease(conns) PROVE DV!DevicesInv'
    <2>1. DV!DevicesTypeOK' /\ DV!NoPhantoms'
      BY <1>0, <1>7 DEF DV!Lease, DV!Granted, DV!DevicesTypeOK, DV!NoPhantoms, DV!Shown
    <2> QED
      BY <1>1, <1>7, <2>1 DEF DV!Lease
  <1>8. ASSUME NEW l \in leases, DV!LeaseDestroyed(l) PROVE DV!DevicesInv'
    <2>1. DV!DevicesTypeOK' /\ DV!NoPhantoms'
      BY <1>0, <1>8 DEF DV!LeaseDestroyed, DV!DevicesTypeOK, DV!NoPhantoms, DV!Shown
    <2> QED
      BY <1>1, <1>8, <2>1 DEF DV!LeaseDestroyed
  <1>9. CASE DV!SwitchAway
    <2>1. aways' \in 0 .. MaxAway /\ seated' = FALSE /\ leases' = {}
          /\ UNCHANGED <<cable, cables, reconfigs, uevent, gpu, wanted, scanned, surface, space,
                         offered, kmsHdr, refused>>
      BY <1>0, <1>9, ProgressAssumption
         DEF DV!SwitchAway, DV!Revoked, DV!DevicesTypeOK, DV!DevicesAssumption
    <2>2. DV!DevicesTypeOK' /\ DV!NoPhantoms'
      BY <1>0, <2>1 DEF DV!DevicesTypeOK, DV!NoPhantoms, DV!Shown
    <2> QED
      BY <1>1, <2>1, <2>2
  <1>10. CASE DV!SwitchBack
    <2>1. DV!DevicesTypeOK' /\ DV!NoPhantoms'
      BY <1>0, <1>10 DEF DV!SwitchBack, DV!DevicesTypeOK, DV!NoPhantoms, DV!Shown
    <2> QED
      BY <1>1, <1>10, <2>1 DEF DV!SwitchBack
  <1>11. CASE UNCHANGED deviceVars
    <2>1. DV!DevicesTypeOK' /\ DV!NoPhantoms'
      BY <1>0, <1>11 DEF deviceVars, DV!DevicesTypeOK, DV!NoPhantoms, DV!Shown
    <2> QED
      BY <1>1, <1>11, <2>1 DEF deviceVars
  <1> QED
    BY <1>2, <1>3, <1>4, <1>5, <1>6, <1>7, <1>8, <1>9, <1>10, <1>11 DEF DV!DevicesNext

-----------------------------------------------------------------------------
(* What moves on an output.                                                *)

\* A list of closing images that the output may keep: no image of a window that
\* is on screen again is in it.
Kept(s) == s \in Seq(Image) /\ Len(s) <= MaxImages
Gone(s, ws) == \A k \in 1 .. Len(s) : s[k].closed =>
                    ws[s[k].source].captured /\ ~ws[s[k].source].content
\* No image of s is new.
Among(s, t) == \A k \in 1 .. Len(s) : \E j \in 1 .. Len(t) : s[k] = t[j]

LEMMA KeptImages ==
    ASSUME NEW s, Kept(s), NEW k \in 1 .. Len(s)
    PROVE  s[k] \in Image /\ s[k].source \in SceneWindows
  <1>1. s[k] \in Image
    BY DEF Kept
  <1> QED
    BY <1>1 DEF Image

LEMMA SceneStart == SceneInit => SceneInv
  <1> SUFFICES ASSUME SceneInit PROVE SceneInv
    OBVIOUS
  <1> USE SceneAssumption DEF SceneInit
  <1> DEFINE p == CHOOSE q \in Places : TRUE
  <1>1. p \in Places
    OBVIOUS
  <1> HIDE DEF p
  <1>2. Unmanaged(p) \in WindowState /\ Unmanaged(p).opening = 0 /\ Unmanaged(p).movement = 0
    <2>1. NewWindow(1, p) \in WindowState
          /\ NewWindow(1, p).opening = 0 /\ NewWindow(1, p).movement = 0
      BY <1>1 DEF NewWindow, WindowState, Time, Ws
    <2> QED
      BY <2>1 DEF Unmanaged, WindowState
  <1>3. win = [w \in SceneWindows |-> Unmanaged(p)]
    BY DEF p
  <1>4. images \in Seq(Image) /\ Len(images) = 0
    OBVIOUS
  <1>5. win \in [SceneWindows -> WindowState] /\ shownWs \in Ws /\ stirs \in 0 .. MaxStirs
    BY <1>2, <1>3 DEF Ws
  <1>6. SceneTypeOK
    <2>1. sceneLocked \in BOOLEAN /\ sceneActive \in BOOLEAN /\ gaming \in BOOLEAN
          /\ timer \in BOOLEAN /\ settled \in BOOLEAN
      OBVIOUS
    <2> QED
      BY <1>4, <1>5, <2>1 DEF SceneTypeOK
  <1>7. \A w \in SceneWindows : win[w].opening = 0 /\ win[w].movement = 0
    BY <1>2, <1>3
  <1>8. SceneSound
    BY <1>4, <1>7 DEF SceneSound, Hidden
  <1>9. ImagesOfTheGone
    BY <1>4, <1>7 DEF ImagesOfTheGone
  <1> QED
    BY <1>6, <1>8, <1>9 DEF SceneInv

\* retain and capture_closing_window: the list stays short, and what is new in it
\* is the image of the window that goes.
LEMMA CloseImages ==
    ASSUME SceneTypeOK, NEW w \in SceneWindows
    PROVE  /\ Kept(ImagesAfterClose(w))
           /\ \A k \in 1 .. Len(ImagesAfterClose(w)) :
                \/ \E j \in 1 .. Len(images) : ImagesAfterClose(w)[k] = images[j]
                \/ Captures(w) /\ ImagesAfterClose(w)[k].source = w
  <1> DEFINE image == [source |-> w, ws |-> win[w].ws, left |-> Duration, closed |-> TRUE]
             rest == IF Len(images) >= MaxImages THEN Tail(images) ELSE images
  <1> USE SceneAssumption
  <1>1. CASE ~Captures(w)
    BY <1>1 DEF ImagesAfterClose, SceneTypeOK, Kept
  <1>2. CASE Captures(w)
    <2>1. ImagesAfterClose(w) = Append(rest, image)
      BY <1>2 DEF ImagesAfterClose, Retained
    <2>2. image \in Image /\ image.source = w
      BY DEF SceneTypeOK, WindowState, Image, Time
    <2>3. images \in Seq(Image) /\ Len(images) \in Nat /\ Len(images) <= MaxImages
      BY DEF SceneTypeOK
    <2> HIDE DEF image
    <2>4. /\ rest \in Seq(Image) /\ Len(rest) + 1 <= MaxImages /\ Len(rest) \in Nat
          /\ \A k \in 1 .. Len(rest) : \E j \in 1 .. Len(images) : rest[k] = images[j]
      <3>1. CASE Len(images) >= MaxImages
        <4>1. rest = Tail(images) /\ images # <<>>
          BY <2>3, <3>1
        <4>2. /\ rest \in Seq(Image) /\ Len(rest) = Len(images) - 1
              /\ \A k \in 1 .. Len(rest) : rest[k] = images[k + 1]
          BY <2>3, <4>1
        <4> QED
          BY <2>3, <4>2
      <3>2. CASE ~(Len(images) >= MaxImages)
        BY <2>3, <3>2
      <3> QED
        BY <3>1, <3>2
    <2> HIDE DEF rest
    <2>5. /\ Append(rest, image) \in Seq(Image) /\ Len(Append(rest, image)) = Len(rest) + 1
          /\ \A k \in 1 .. Len(rest) : Append(rest, image)[k] = rest[k]
          /\ Append(rest, image)[Len(rest) + 1] = image
      BY <2>2, <2>4
    <2> QED
      BY <1>2, <2>1, <2>2, <2>4, <2>5 DEF Kept
  <1> QED
    BY <1>1, <1>2

\* cancel_closing_window and transitions::tick only drop images.
LEMMA RetainedImages ==
    ASSUME SceneTypeOK, NEW S
    PROVE  /\ Kept(Retain(images, S)) /\ Among(Retain(images, S), images)
           /\ \A k \in 1 .. Len(Retain(images, S)) : Retain(images, S)[k] \in S
  <1> DEFINE r == Retain(images, S)
  <1>1. r \in Seq(Image) /\ Keeps(images, S, Len(images), r)
    BY RetainFacts DEF SceneTypeOK
  <1> HIDE DEF r
  <1>2. Kept(r) /\ Among(r, images) /\ \A k \in 1 .. Len(r) : r[k] \in S
    BY <1>1, SceneAssumption DEF Keeps, SceneTypeOK, Kept, Among
  <1> QED
    BY <1>2 DEF r

\* The images of a change of workspace.
LEMMA LeavingImages ==
    ASSUME SceneTypeOK, NEW S \in SUBSET SceneWindows
    PROVE  LET leaving == SetToSeq(S)
               kept == images \o [k \in 1 .. Len(leaving) |->
                    [source |-> leaving[k], ws |-> 3 - shownWs, left |-> Duration, closed |-> FALSE]]
               s == SubSeq(kept, IF Len(kept) > MaxImages THEN Len(kept) - MaxImages + 1 ELSE 1,
                           Len(kept))
           IN  /\ Kept(s)
               /\ \A k \in 1 .. Len(s) : \/ \E j \in 1 .. Len(images) : s[k] = images[j]
                                         \/ ~s[k].closed
  <1> DEFINE leaving == SetToSeq(S)
             left == [k \in 1 .. Len(leaving) |->
                    [source |-> leaving[k], ws |-> 3 - shownWs, left |-> Duration, closed |-> FALSE]]
             kept == images \o left
             first == IF Len(kept) > MaxImages THEN Len(kept) - MaxImages + 1 ELSE 1
             s == SubSeq(kept, first, Len(kept))
  <1>1. leaving \in Seq(SceneWindows)
    <2> DEFINE n == Cardinality(S)
    <2>1. IsFiniteSet(S)
      BY SceneAssumption, FS_Subset
    <2>2. n \in Nat /\ ExistsBijection(1 .. n, S)
      BY <2>1, FS_CardinalityType
    <2>3. \E g \in [1 .. n -> S] : IsInjective(g)
      <3>1. PICK g \in [1 .. n -> S] : \A a, b \in 1 .. n : g[a] = g[b] => a = b
        BY <2>2 DEF ExistsBijection, Bijection, Injection, IsInjective
      <3>2. DOMAIN g = 1 .. n
        OBVIOUS
      <3> QED
        BY <3>1, <3>2 DEF IsInjective
    <2>4. leaving = CHOOSE g \in [1 .. n -> S] : IsInjective(g)
      BY DEF SetToSeq
    <2> HIDE DEF leaving, n
    <2>5. leaving \in [1 .. n -> S]
      BY <2>3, <2>4
    <2> QED
      BY <2>2, <2>5
  <1> HIDE DEF leaving
  <1>2. Len(leaving) \in Nat /\ \A k \in 1 .. Len(leaving) : leaving[k] \in SceneWindows
    BY <1>1
  <1>3. left \in [1 .. Len(leaving) -> Image]
    BY <1>2, SceneAssumption DEF SceneTypeOK, Image, Ws, Time
  <1>4. \A k \in 1 .. Len(leaving) : ~left[k].closed
    OBVIOUS
  <1> HIDE DEF left
  <1>5. left \in Seq(Image) /\ Len(left) = Len(leaving)
    BY <1>2, <1>3
  <1>6. images \in Seq(Image) /\ Len(images) \in Nat
    BY DEF SceneTypeOK
  <1>7. /\ kept \in Seq(Image) /\ Len(kept) = Len(images) + Len(left)
        /\ \A k \in 1 .. Len(kept) : kept[k] = IF k <= Len(images) THEN images[k]
                                               ELSE left[k - Len(images)]
    BY <1>5, <1>6
  <1> HIDE DEF kept
  <1>8. \A k \in 1 .. Len(kept) : \/ \E j \in 1 .. Len(images) : kept[k] = images[j]
                                  \/ ~kept[k].closed
    <2> SUFFICES ASSUME NEW k \in 1 .. Len(kept)
                 PROVE  \/ \E j \in 1 .. Len(images) : kept[k] = images[j]
                        \/ ~kept[k].closed
      OBVIOUS
    <2>1. CASE k <= Len(images)
      BY <1>6, <1>7, <2>1
    <2>2. CASE ~(k <= Len(images))
      <3>1. k - Len(images) \in 1 .. Len(leaving) /\ kept[k] = left[k - Len(images)]
        BY <1>2, <1>5, <1>6, <1>7, <2>2
      <3> QED
        BY <1>4, <3>1
    <2> QED
      BY <2>1, <2>2
  <1>9. first \in 1 .. Len(kept) + 1 /\ Len(kept) \in Nat /\ Len(kept) - first + 1 <= MaxImages
    BY <1>2, <1>5, <1>6, <1>7, SceneAssumption
  <1> HIDE DEF first
  <1>10. /\ s \in Seq(Image) /\ Len(s) = Len(kept) - first + 1
         /\ \A k \in 1 .. Len(s) : s[k] = kept[first + k - 1] /\ first + k - 1 \in 1 .. Len(kept)
    BY <1>7, <1>9
  <1> HIDE DEF s
  <1>11. Kept(s) /\ \A k \in 1 .. Len(s) : \/ \E j \in 1 .. Len(images) : s[k] = images[j]
                                           \/ ~s[k].closed
    BY <1>8, <1>9, <1>10 DEF Kept
  <1> QED
    BY <1>11 DEF s, first, kept, left, leaving

\* A window that is not in the Space has nothing to move.
Still(ws) == \A w \in SceneWindows : ~ws[w].inSpace => ws[w].opening = 0 /\ ws[w].movement = 0

LEMMA GoneLaw == ImagesOfTheGone <=> Still(win) /\ Gone(images, win)
  BY DEF ImagesOfTheGone, Still, Gone

\* An event only has to leave windows and images in order: the turn it starts
\* has not ended yet.
LEMMA EventIsSound ==
    ASSUME SceneInv, settled' = FALSE, stirs' \in 0 .. MaxStirs, shownWs' \in Ws,
           sceneLocked' \in BOOLEAN, sceneActive' \in BOOLEAN, gaming' \in BOOLEAN, timer' = timer,
           win' \in [SceneWindows -> WindowState], Still(win'), Kept(images'), Gone(images', win')
    PROVE  SceneInv'
  <1>1. SceneTypeOK'
    <2>1. settled' \in BOOLEAN /\ timer' \in BOOLEAN
      BY DEF SceneInv, SceneTypeOK
    <2> QED
      BY <2>1 DEF SceneTypeOK, Kept
  <1>2. SceneSound'
    BY DEF SceneSound
  <1>3. ImagesOfTheGone'
    BY DEF ImagesOfTheGone, Still, Gone
  <1> QED
    BY <1>1, <1>2, <1>3 DEF SceneInv

\* Windows: they come, commit and go, and the layout moves them.
LEMMA WindowEvent ==
    ASSUME SceneInv, NEW w \in SceneWindows,
           \/ \E p \in Places : Map(w, p) \/ MoveTarget(w, p)
           \/ CommitBuffer(w) \/ CommitNull(w) \/ Close(w)
    PROVE  SceneInv'
  <1>0. /\ SceneTypeOK /\ Still(win) /\ Gone(images, win) /\ Kept(images)
        /\ win[w] \in WindowState
    BY GoneLaw DEF SceneInv, SceneTypeOK, Kept
  <1>1. stirs' \in 0 .. MaxStirs /\ settled' = FALSE
        /\ UNCHANGED <<sceneLocked, sceneActive, shownWs, gaming, timer>>
    BY <1>0, SceneAssumption DEF Map, MoveTarget, CommitBuffer, CommitNull, Close, Stir, SceneTypeOK
  <1>2. ASSUME NEW r \in WindowState, win' = [win EXCEPT ![w] = r],
               ~r.inSpace => r.opening = 0 /\ r.movement = 0,
               Kept(images'),
               \A k \in 1 .. Len(images') : images'[k].closed =>
                    \/ images'[k].source = w /\ r.captured /\ ~r.content
                    \/ images'[k].source # w /\ \E j \in 1 .. Len(images) : images'[k] = images[j]
        PROVE  SceneInv'
    <2>1. win' \in [SceneWindows -> WindowState]
      BY <1>0, <1>2 DEF SceneTypeOK
    <2>2. win'[w] = r /\ \A v \in SceneWindows : v # w => win'[v] = win[v]
      BY <1>0, <1>2 DEF SceneTypeOK
    <2>3. Still(win')
      BY <1>0, <1>2, <2>2 DEF Still
    <2>4. Gone(images', win')
      <3> SUFFICES ASSUME NEW k \in 1 .. Len(images'), images'[k].closed
                   PROVE  win'[images'[k].source].captured /\ ~win'[images'[k].source].content
        BY DEF Gone
      <3>1. images'[k].source \in SceneWindows
        BY <1>2, KeptImages
      <3> QED
        BY <1>0, <1>2, <2>2, <3>1 DEF Gone
    <2>5. sceneLocked \in BOOLEAN /\ sceneActive \in BOOLEAN /\ gaming \in BOOLEAN /\ shownWs \in Ws
      BY <1>0 DEF SceneTypeOK
    <2> HIDE <1>2
    <2> QED
      BY <1>1, <1>2, <2>1, <2>3, <2>4, <2>5, EventIsSound
  <1>3. ASSUME NEW p \in Places, Map(w, p) PROVE SceneInv'
    <2> DEFINE new == NewWindow(shownWs, p)
               r == [new EXCEPT !.captured = win[w].captured]
    <2>1. new \in WindowState /\ new.opening = 0 /\ new.movement = 0 /\ ~new.content
      BY <1>0, SceneAssumption DEF NewWindow, WindowState, Time, SceneTypeOK
    <2>2. win' = [win EXCEPT ![w] = r] /\ images' = images
      BY <1>3 DEF Map
    <2> HIDE DEF new
    <2>3. r \in WindowState /\ r.opening = 0 /\ r.movement = 0 /\ ~r.content
          /\ r.captured = win[w].captured
      BY <1>0, <2>1 DEF WindowState
    <2> HIDE DEF r
    <2> QED
      BY <1>0, <1>2, <2>2, <2>3 DEF Gone
  <1>4. ASSUME NEW p \in Places, MoveTarget(w, p) PROVE SceneInv'
    <2> DEFINE r == [win[w] EXCEPT !.target = p]
    <2>1. win' = [win EXCEPT ![w] = r] /\ images' = images
      BY <1>0, <1>4 DEF MoveTarget, SceneTypeOK
    <2>2. r \in WindowState /\ r.opening = win[w].opening /\ r.movement = win[w].movement
          /\ r.inSpace = win[w].inSpace /\ r.content = win[w].content
          /\ r.captured = win[w].captured
      BY <1>0 DEF WindowState
    <2> HIDE DEF r
    <2> QED
      BY <1>0, <1>2, <2>1, <2>2 DEF Gone, Still
  <1>5. CASE CommitBuffer(w)
    <2> DEFINE r == [win[w] EXCEPT !.content = TRUE, !.captured = FALSE]
               others == {i \in Image : i.source # w}
    <2>1. win' = [win EXCEPT ![w] = r]
          /\ images' = IF win[w].captured THEN Retain(images, others) ELSE images
      BY <1>0, <1>5 DEF CommitBuffer, WithoutImages, SceneTypeOK
    <2>2. r \in WindowState /\ r.opening = win[w].opening /\ r.movement = win[w].movement
          /\ r.inSpace = win[w].inSpace
      BY <1>0 DEF WindowState
    <2> HIDE DEF r
    <2>3. CASE win[w].captured
      <3>1. images' = Retain(images, others)
        BY <2>1, <2>3
      <3>2. Kept(images') /\ Among(images', images) /\ \A k \in 1 .. Len(images') : images'[k] \in others
        BY <1>0, <3>1, RetainedImages
      <3> QED
        BY <1>0, <1>2, <2>1, <2>2, <3>2 DEF Among, Still
    <2>4. CASE ~win[w].captured
      <3>1. images' = images
        BY <2>1, <2>4
      <3>2. \A k \in 1 .. Len(images) : images[k].closed => images[k].source # w
        BY <1>0, <2>4 DEF Gone
      <3> QED
        BY <1>0, <1>2, <2>1, <2>2, <3>1, <3>2 DEF Still
    <2> QED
      BY <2>3, <2>4
  <1>6. ASSUME NEW r \in WindowState, win' = [win EXCEPT ![w] = r], images' = ImagesAfterClose(w),
               r.opening = 0, r.movement = 0, ~r.content,
               r.captured = (win[w].captured \/ Captures(w))
        PROVE  SceneInv'
    <2>1. /\ Kept(images')
          /\ \A k \in 1 .. Len(images') : \/ \E j \in 1 .. Len(images) : images'[k] = images[j]
                                          \/ Captures(w) /\ images'[k].source = w
      BY <1>0, <1>6, CloseImages
    <2>2. \A k \in 1 .. Len(images') : images'[k].closed =>
                    \/ images'[k].source = w /\ r.captured /\ ~r.content
                    \/ images'[k].source # w /\ \E j \in 1 .. Len(images) : images'[k] = images[j]
      <3> SUFFICES ASSUME NEW k \in 1 .. Len(images'), images'[k].closed
                   PROVE  \/ images'[k].source = w /\ r.captured /\ ~r.content
                          \/ images'[k].source # w /\ \E j \in 1 .. Len(images) : images'[k] = images[j]
        OBVIOUS
      <3>1. CASE \E j \in 1 .. Len(images) : images'[k] = images[j]
        <4>1. win[images'[k].source].captured
          BY <1>0, <3>1 DEF Gone
        <4> QED
          BY <1>6, <3>1, <4>1
      <3>2. CASE Captures(w) /\ images'[k].source = w
        BY <1>6, <3>2
      <3> QED
        BY <2>1, <3>1, <3>2
    <2> QED
      BY <1>2, <1>6, <2>1, <2>2
  <1>7. CASE CommitNull(w)
    <2> DEFINE c == win[w].captured \/ Captures(w)
               r == [win[w] EXCEPT !.content = FALSE, !.opened = FALSE, !.opening = 0,
                                   !.movement = 0, !.captured = c]
    <2>1. win' = [win EXCEPT ![w] = r] /\ images' = ImagesAfterClose(w)
      BY <1>0, <1>7 DEF CommitNull, SceneTypeOK
    <2>2. c \in BOOLEAN
      OBVIOUS
    <2>3. c = (win[w].captured \/ Captures(w))
      OBVIOUS
    <2> HIDE DEF c
    <2>4. 0 \in Time
      BY SceneAssumption DEF Time
    <2>5. r \in WindowState /\ r.opening = 0 /\ r.movement = 0 /\ ~r.content /\ r.captured = c
      BY <1>0, <2>2, <2>4 DEF WindowState
    <2> HIDE DEF r
    <2> QED
      BY <1>6, <2>1, <2>3, <2>5
  <1>8. CASE Close(w)
    <2> DEFINE c == win[w].captured \/ Captures(w)
               gone == Unmanaged(win[w].rect)
               r == [gone EXCEPT !.captured = c]
    <2>1. win' = [win EXCEPT ![w] = r] /\ images' = ImagesAfterClose(w)
      BY <1>0, <1>8 DEF Close, SceneTypeOK
    <2>2. c \in BOOLEAN
      OBVIOUS
    <2>3. c = (win[w].captured \/ Captures(w))
      OBVIOUS
    <2> HIDE DEF c
    <2>4. gone \in WindowState /\ gone.opening = 0 /\ gone.movement = 0 /\ ~gone.content
      <3> DEFINE new == NewWindow(1, win[w].rect)
      <3>1. new \in WindowState /\ new.opening = 0 /\ new.movement = 0 /\ ~new.content
        BY <1>0, SceneAssumption DEF NewWindow, WindowState, Time, Ws
      <3>2. gone = [new EXCEPT !.mapped = FALSE]
        BY DEF Unmanaged
      <3> HIDE DEF new, gone
      <3> QED
        BY <3>1, <3>2 DEF WindowState
    <2> HIDE DEF gone
    <2>5. r \in WindowState /\ r.opening = 0 /\ r.movement = 0 /\ ~r.content /\ r.captured = c
      BY <2>2, <2>4 DEF WindowState
    <2> HIDE DEF r
    <2> QED
      BY <1>6, <2>1, <2>3, <2>5
  <1> QED
    BY <1>3, <1>4, <1>5, <1>7, <1>8

\* What maintain_desktop makes of a window that is shown, and of one that is not.
LEMMA MaintainedWindow ==
    ASSUME NEW s \in WindowState
    PROVE  /\ LET t == Moved(Faded(s)) IN
              /\ t \in WindowState /\ t.inSpace
              /\ t.mapped = s.mapped /\ t.ws = s.ws
              /\ t.content = s.content /\ t.captured = s.captured
              /\ Hidden => t.opening = 0 /\ t.movement = 0
           /\ LET t == Left(s) IN
              /\ t \in WindowState
              /\ t.mapped = s.mapped /\ t.ws = s.ws
              /\ t.content = s.content /\ t.captured = s.captured
              /\ (~s.inSpace => s.opening = 0 /\ s.movement = 0) => t.opening = 0 /\ t.movement = 0
  <1>0. 0 \in Time /\ Duration \in Time
    BY SceneAssumption DEF Time
  <1> USE <1>0 DEF WindowState
  <1> DEFINE f == Faded(s)
             m == Moved(f)
             l == Left(s)
  <1>1. /\ f \in WindowState
        /\ f.mapped = s.mapped /\ f.ws = s.ws /\ f.content = s.content /\ f.captured = s.captured
        /\ Hidden => f.opening = 0
    <2>1. CASE s.opened \/ Hidden
      <3>1. f = [s EXCEPT !.opened = TRUE, !.opening = 0]
        BY <2>1 DEF Faded
      <3> HIDE DEF f
      <3> QED
        BY <3>1
    <2>2. CASE ~(s.opened \/ Hidden) /\ ~s.content
      BY <2>2 DEF Faded
    <2>3. CASE ~(s.opened \/ Hidden) /\ s.content
      <3>1. f = [s EXCEPT !.opening = Duration] \/ f = s
        BY <2>3 DEF Faded
      <3> HIDE DEF f
      <3> QED
        BY <2>3, <3>1
    <2> QED
      BY <2>1, <2>2, <2>3
  <1> HIDE DEF f
  <1>2. /\ m \in WindowState /\ m.inSpace
        /\ m.mapped = f.mapped /\ m.ws = f.ws /\ m.content = f.content /\ m.captured = f.captured
        /\ m.opening = f.opening
        /\ Hidden => m.movement = 0
    <2> DEFINE left == IF ~MayMove \/ ~f.inSpace THEN 0
                       ELSE IF f.target # f.rect THEN Duration ELSE f.movement
    <2>1. left \in Time /\ (Hidden => left = 0)
      BY <1>1 DEF MayMove
    <2>2. m = [f EXCEPT !.movement = left, !.rect = f.target, !.inSpace = TRUE]
      BY DEF Moved
    <2> HIDE DEF left, m
    <2> QED
      BY <1>1, <2>1, <2>2
  <1>3. /\ l \in WindowState
        /\ l.mapped = s.mapped /\ l.ws = s.ws /\ l.content = s.content /\ l.captured = s.captured
        /\ (~s.inSpace => s.opening = 0 /\ s.movement = 0) => l.opening = 0 /\ l.movement = 0
    <2>1. CASE s.inSpace
      <3>1. l = [s EXCEPT !.inSpace = FALSE, !.movement = 0, !.opened = FALSE, !.opening = 0]
        BY <2>1 DEF Left
      <3> HIDE DEF l
      <3> QED
        BY <3>1
    <2>2. CASE ~s.inSpace
      BY <2>2 DEF Left
    <2> QED
      BY <2>1, <2>2
  <1> HIDE DEF m, l
  <1> QED
    BY <1>1, <1>2, <1>3 DEF f, m, l

\* The end of a turn.
LEMMA MaintainStep == ASSUME SceneInv, Maintain PROVE SceneInv'
  <1>0. SceneTypeOK /\ Still(win) /\ Gone(images, win)
    BY GoneLaw DEF SceneInv
  <1>1. /\ settled' = TRUE
        /\ win' = [w \in SceneWindows |-> IF Visible(w) THEN Moved(Faded(win[w])) ELSE Left(win[w])]
        /\ images' = Ticked /\ timer' = TimerNeeded(images', win')
        /\ UNCHANGED <<sceneLocked, sceneActive, shownWs, gaming, stirs>>
    BY DEF Maintain
  <1>2. ASSUME NEW w \in SceneWindows
        PROVE  /\ win'[w] \in WindowState
               /\ win'[w].mapped = win[w].mapped /\ win'[w].ws = win[w].ws
               /\ win'[w].content = win[w].content /\ win'[w].captured = win[w].captured
               /\ Visible(w) => win'[w].inSpace
               /\ ~Visible(w) => win'[w].opening = 0 /\ win'[w].movement = 0
               /\ Hidden => win'[w].opening = 0 /\ win'[w].movement = 0
    <2>1. win[w] \in WindowState /\ (~win[w].inSpace => win[w].opening = 0 /\ win[w].movement = 0)
      BY <1>0 DEF SceneTypeOK, Still
    <2>2. CASE Visible(w)
      <3>1. win'[w] = Moved(Faded(win[w]))
        BY <1>1, <2>2
      <3> QED
        BY <2>1, <2>2, <3>1, MaintainedWindow
    <2>3. CASE ~Visible(w)
      <3>1. win'[w] = Left(win[w])
        BY <1>1, <2>3
      <3> QED
        BY <2>1, <2>3, <3>1, MaintainedWindow
    <2> QED
      BY <2>2, <2>3
  <1>3. /\ Kept(images') /\ Among(images', images)
        /\ \A k \in 1 .. Len(images') : MayMove /\ images'[k].ws = shownWs
    BY <1>0, <1>1, RetainedImages DEF Ticked
  <1>4. Still(win')
    BY <1>2 DEF Still
  <1>5. Gone(images', win')
    <2> SUFFICES ASSUME NEW k \in 1 .. Len(images'), images'[k].closed
                 PROVE  win'[images'[k].source].captured /\ ~win'[images'[k].source].content
      BY DEF Gone
    <2>1. PICK j \in 1 .. Len(images) : images'[k] = images[j]
      BY <1>3 DEF Among
    <2>2. images'[k].source \in SceneWindows
      BY <1>3, KeptImages
    <2> QED
      BY <1>0, <1>2, <2>1, <2>2 DEF Gone
  <1>6. timer' = (images' # <<>> \/ \E w \in SceneWindows : Visible(w) /\ Animating(w, win'))
    BY <1>1 DEF TimerNeeded
  <1>7. Hidden' = Hidden
    BY <1>1 DEF Hidden
  <1>8. SceneSound'
    <2>1. ASSUME Hidden
          PROVE  /\ images' = <<>> /\ ~timer'
                 /\ \A w \in SceneWindows : win'[w].movement = 0 /\ win'[w].opening = 0
      <3>1. Len(images') = 0
        <4>1. Len(images') \in Nat /\ \A k \in 1 .. Len(images') : FALSE
          BY <1>3, <2>1 DEF Kept, MayMove
        <4> QED
          BY <4>1
      <3>2. images' = <<>>
        BY <1>3, <3>1 DEF Kept
      <3>3. \A w \in SceneWindows : win'[w].movement = 0 /\ win'[w].opening = 0
        BY <1>2, <2>1
      <3>4. ~\E w \in SceneWindows : Visible(w) /\ Animating(w, win')
        BY <3>3 DEF Animating
      <3>5. ~timer'
        BY <1>6, <3>2, <3>4
      <3> QED
        BY <3>2, <3>3, <3>5
    <2>2. \A k \in 1 .. Len(images') : images'[k].ws = shownWs'
      BY <1>1, <1>3
    <2>3. (\E w \in SceneWindows : Visible(w)' /\ win'[w].opening + win'[w].movement > 0) => timer'
      <3> SUFFICES ASSUME NEW w \in SceneWindows, Visible(w)',
                          win'[w].opening + win'[w].movement > 0
                   PROVE  timer'
        OBVIOUS
      <3>1. Visible(w)
        BY <1>1, <1>2 DEF Visible
      <3>2. win'[w].opening > 0 \/ win'[w].movement > 0
        BY <1>2, SceneAssumption DEF WindowState, Time
      <3> QED
        BY <1>6, <3>1, <3>2 DEF Animating
    <2>4. \A k \in 1 .. Len(images') :
                timer' /\ ~(images'[k].closed /\ win'[images'[k].source].content)
      <3> SUFFICES ASSUME NEW k \in 1 .. Len(images')
                   PROVE  timer' /\ ~(images'[k].closed /\ win'[images'[k].source].content)
        OBVIOUS
      <3>1. images' # <<>>
        BY <1>3 DEF Kept
      <3> QED
        BY <1>5, <1>6, <3>1 DEF Gone
    <2> QED
      BY <1>7, <2>1, <2>2, <2>3, <2>4 DEF SceneSound
  <1>9. SceneTypeOK'
    <2>1. settled' \in BOOLEAN /\ timer' \in BOOLEAN
      BY <1>1, <1>6
    <2>2. win' = [w \in SceneWindows |-> win'[w]]
      BY <1>1
    <2>3. win' \in [SceneWindows -> WindowState]
      BY <1>2, <2>2
    <2> QED
      BY <1>0, <1>1, <1>3, <2>1, <2>3 DEF SceneTypeOK, Kept
  <1>10. ImagesOfTheGone'
    BY <1>4, <1>5 DEF ImagesOfTheGone, Still, Gone
  <1> QED
    BY <1>8, <1>9, <1>10 DEF SceneInv

\* Time passes between two turns.
LEMMA ElapseStep == ASSUME SceneInv, Elapse PROVE SceneInv'
  <1>0. SceneTypeOK /\ SceneSound /\ Still(win) /\ Gone(images, win) /\ settled
    BY GoneLaw DEF SceneInv, Elapse
  <1>1. /\ images' = [k \in 1 .. Len(images) |-> [images[k] EXCEPT !.left = Less(@)]]
        /\ win' = [w \in SceneWindows |-> [win[w] EXCEPT
                    !.opening = Less(win[w].opening), !.movement = Less(win[w].movement),
                    !.opened = win[w].opened \/ win[w].opening = 1]]
        /\ UNCHANGED <<sceneLocked, sceneActive, shownWs, gaming, timer, settled, stirs>>
    BY DEF Elapse
  <1>2. \A n \in Time : Less(n) \in Time /\ Less(n) <= n
    BY SceneAssumption DEF Time, Less
  <1>3. ASSUME NEW w \in SceneWindows
        PROVE  /\ win'[w] \in WindowState
               /\ win'[w].mapped = win[w].mapped /\ win'[w].ws = win[w].ws
               /\ win'[w].inSpace = win[w].inSpace
               /\ win'[w].content = win[w].content /\ win'[w].captured = win[w].captured
               /\ win'[w].opening <= win[w].opening /\ win'[w].movement <= win[w].movement
               /\ win'[w].opening \in Time /\ win'[w].movement \in Time
               /\ win[w].opening \in Time /\ win[w].movement \in Time
    <2> DEFINE o == win[w].opened \/ win[w].opening = 1
    <2>1. win[w] \in WindowState
      BY <1>0 DEF SceneTypeOK
    <2>2. win'[w] = [win[w] EXCEPT !.opening = Less(win[w].opening),
                                   !.movement = Less(win[w].movement), !.opened = o]
      BY <1>1
    <2>3. o \in BOOLEAN
      OBVIOUS
    <2> HIDE DEF o
    <2> QED
      BY <1>2, <2>1, <2>2, <2>3 DEF WindowState
  <1>4. /\ Kept(images') /\ Len(images') = Len(images)
        /\ \A k \in 1 .. Len(images) : images'[k].source = images[k].source
                /\ images'[k].ws = images[k].ws /\ images'[k].closed = images[k].closed
    <2>1. images \in [1 .. Len(images) -> Image] /\ Len(images) \in Nat /\ Len(images) <= MaxImages
      BY <1>0 DEF SceneTypeOK
    <2>2. ASSUME NEW k \in 1 .. Len(images)
          PROVE  /\ images'[k] \in Image /\ images'[k].source = images[k].source
                 /\ images'[k].ws = images[k].ws /\ images'[k].closed = images[k].closed
      <3>1. images[k] \in Image /\ images'[k] = [images[k] EXCEPT !.left = Less(images[k].left)]
        BY <1>1, <2>1
      <3> QED
        BY <1>2, <3>1 DEF Image
    <2>3. images' = [k \in 1 .. Len(images) |-> images'[k]]
      BY <1>1
    <2>4. images' \in [1 .. Len(images) -> Image]
      BY <2>2, <2>3
    <2>5. images' \in Seq(Image) /\ Len(images') = Len(images)
      BY <2>1, <2>4
    <2> QED
      BY <2>1, <2>2, <2>5 DEF Kept
  <1>5. Still(win')
    BY <1>0, <1>3, SceneAssumption DEF Still, Time
  <1>6. Gone(images', win')
    <2> SUFFICES ASSUME NEW k \in 1 .. Len(images'), images'[k].closed
                 PROVE  win'[images'[k].source].captured /\ ~win'[images'[k].source].content
      BY DEF Gone
    <2>1. images'[k].source \in SceneWindows
      BY <1>4, KeptImages
    <2> QED
      BY <1>0, <1>3, <1>4, <2>1 DEF Gone
  <1>7. SceneTypeOK'
    <2>1. win' = [w \in SceneWindows |-> win'[w]]
      BY <1>1
    <2>2. win' \in [SceneWindows -> WindowState]
      BY <1>3, <2>1
    <2> QED
      BY <1>0, <1>1, <1>4, <2>2 DEF SceneTypeOK, Kept
  <1>8. SceneSound'
    <2>1. Hidden' => images' = <<>> /\ ~timer'
                     /\ \A w \in SceneWindows : win'[w].movement = 0 /\ win'[w].opening = 0
      <3> SUFFICES ASSUME Hidden
                   PROVE  /\ images' = <<>> /\ ~timer'
                          /\ \A w \in SceneWindows : win'[w].movement = 0 /\ win'[w].opening = 0
        BY <1>1 DEF Hidden
      <3>1. /\ images = <<>> /\ ~timer
            /\ \A w \in SceneWindows : win[w].movement = 0 /\ win[w].opening = 0
        BY <1>0 DEF SceneSound
      <3>2. images' = <<>>
        BY <1>4, <3>1 DEF Kept
      <3>3. \A w \in SceneWindows : win'[w].movement = 0 /\ win'[w].opening = 0
        BY <1>3, <3>1, SceneAssumption DEF Time
      <3> QED
        BY <1>1, <3>1, <3>2, <3>3
    <2>2. \A k \in 1 .. Len(images') : images'[k].ws = shownWs'
      BY <1>0, <1>1, <1>4 DEF SceneSound
    <2>3. (\E w \in SceneWindows : Visible(w)' /\ win'[w].opening + win'[w].movement > 0) => timer'
      <3> SUFFICES ASSUME NEW w \in SceneWindows, Visible(w)',
                          win'[w].opening + win'[w].movement > 0
                   PROVE  timer'
        OBVIOUS
      <3>1. Visible(w)
        BY <1>1, <1>3 DEF Visible
      <3>2. win[w].opening + win[w].movement > 0
        BY <1>3, SceneAssumption DEF Time
      <3> QED
        BY <1>0, <1>1, <3>1, <3>2 DEF SceneSound
    <2>4. \A k \in 1 .. Len(images') :
                timer' /\ ~(images'[k].closed /\ win'[images'[k].source].content)
      BY <1>0, <1>1, <1>4, <1>6 DEF SceneSound, Gone
    <2> QED
      BY <2>1, <2>2, <2>3, <2>4 DEF SceneSound
  <1>9. ImagesOfTheGone'
    BY <1>5, <1>6 DEF ImagesOfTheGone, Still, Gone
  <1> QED
    BY <1>7, <1>8, <1>9 DEF SceneInv

\* Events, turns and time.
LEMMA SceneStep == SceneInv /\ [SceneNext]_sceneVars => SceneInv'
  <1> SUFFICES ASSUME SceneInv, [SceneNext]_sceneVars PROVE SceneInv'
    OBVIOUS
  <1>0. SceneTypeOK /\ Still(win) /\ Gone(images, win) /\ Kept(images)
    BY GoneLaw DEF SceneInv, SceneTypeOK, Kept
  <1>1. ASSUME UNCHANGED win, settled' = FALSE, timer' = timer, stirs' \in 0 .. MaxStirs,
               sceneLocked' \in BOOLEAN, sceneActive' \in BOOLEAN, gaming' \in BOOLEAN,
               shownWs' \in Ws, Kept(images'),
               \A k \in 1 .. Len(images') : \/ \E j \in 1 .. Len(images) : images'[k] = images[j]
                                            \/ ~images'[k].closed
        PROVE  SceneInv'
    <2>1. Gone(images', win') /\ Still(win') /\ win' \in [SceneWindows -> WindowState]
      BY <1>0, <1>1 DEF Gone, SceneTypeOK
    <2> QED
      BY <1>1, <2>1, EventIsSound
  <1>2. CASE ShowWorkspace
    <2> DEFINE S == {w \in SceneWindows : Visible(w) /\ win[w].inSpace /\ win[w].content}
    <2>1. /\ stirs' \in 0 .. MaxStirs /\ settled' = FALSE /\ shownWs' \in Ws
          /\ UNCHANGED <<sceneLocked, sceneActive, gaming, win, timer>>
      BY <1>0, <1>2, SceneAssumption DEF ShowWorkspace, Stir, SceneTypeOK, Ws
    <2>2. /\ Kept(images')
          /\ \A k \in 1 .. Len(images') : \/ \E j \in 1 .. Len(images) : images'[k] = images[j]
                                          \/ ~images'[k].closed
      <3>1. CASE ~sceneActive \/ sceneLocked
        <4>1. images' = images
          BY <1>2, <3>1 DEF ShowWorkspace
        <4> QED
          BY <1>0, <4>1
      <3>2. CASE ~(~sceneActive \/ sceneLocked)
        <4>1. S \in SUBSET SceneWindows
          OBVIOUS
        <4>2. LET leaving == SetToSeq(S)
                  kept == images \o [k \in 1 .. Len(leaving) |->
                    [source |-> leaving[k], ws |-> 3 - shownWs, left |-> Duration, closed |-> FALSE]]
              IN  images' = SubSeq(kept, IF Len(kept) > MaxImages THEN Len(kept) - MaxImages + 1 ELSE 1,
                                   Len(kept))
          BY <1>2, <3>2 DEF ShowWorkspace
        <4> HIDE DEF S
        <4> QED
          BY <1>0, <4>1, <4>2, LeavingImages
      <3> QED
        BY <3>1, <3>2
    <2> QED
      BY <1>0, <1>1, <2>1, <2>2 DEF SceneTypeOK
  <1>3. CASE ToggleLock \/ ToggleActive \/ ToggleGaming
    <2>1. stirs' \in 0 .. MaxStirs /\ settled' = FALSE /\ UNCHANGED <<shownWs, win, images, timer>>
      BY <1>0, <1>3, SceneAssumption DEF ToggleLock, ToggleActive, ToggleGaming, Stir, SceneTypeOK
    <2>2. sceneLocked' \in BOOLEAN /\ sceneActive' \in BOOLEAN /\ gaming' \in BOOLEAN
      BY <1>0, <1>3 DEF ToggleLock, ToggleActive, ToggleGaming, SceneTypeOK
    <2> QED
      BY <1>0, <1>1, <2>1, <2>2 DEF SceneTypeOK
  <1>4. CASE TimerFires
    <2>1. /\ settled' = FALSE /\ timer' = FALSE
          /\ UNCHANGED <<sceneLocked, sceneActive, shownWs, gaming, win, images, stirs>>
      BY <1>4 DEF TimerFires
    <2>2. SceneTypeOK'
      <3>1. settled' \in BOOLEAN /\ timer' \in BOOLEAN
        BY <2>1
      <3> QED
        BY <1>0, <2>1, <3>1 DEF SceneTypeOK
    <2>3. SceneSound'
      BY <2>1 DEF SceneSound
    <2>4. ImagesOfTheGone'
      BY <1>0, <2>1 DEF ImagesOfTheGone, Still, Gone
    <2> QED
      BY <2>2, <2>3, <2>4 DEF SceneInv
  <1>5. CASE UNCHANGED sceneVars
    BY <1>5 DEF sceneVars, SceneInv, SceneTypeOK, SceneSound, ImagesOfTheGone, Hidden, Visible
  <1> QED
    BY <1>2, <1>3, <1>4, <1>5, WindowEvent, MaintainStep, ElapseStep DEF SceneNext

-----------------------------------------------------------------------------
(* The parts together.                                                     *)

LEMMA ProgressStarts == ProgressInit => DesktopSound /\ PairingSound
  BY SupervisorStart, SceneStart, LoopStart, DevicesStart, PairingStart
     DEF ProgressInit, DesktopSound, PairingSound

LEMMA DesktopKept == DesktopSound /\ [ProgressNext]_progressVars => DesktopSound'
  <1> SUFFICES ASSUME DesktopSound, [ProgressNext]_progressVars PROVE DesktopSound'
    OBVIOUS
  <1>1. /\ part' = part
        /\ In("supervisor") => [SupervisorNext]_supervisorVars
        /\ In("scene") => [SceneNext]_sceneVars
        /\ In("render") => [RL!LoopNext]_loopVars
        /\ In("devices") => [DV!DevicesNext]_deviceVars
    BY DEF ProgressNext, progressVars
  <1> QED
    BY <1>1, SupervisorStep, SceneStep, LoopStep, DevicesStep DEF DesktopSound, In

LEMMA PairingKept == PairingSound /\ [ProgressNext]_progressVars => PairingSound'
  <1> SUFFICES ASSUME PairingSound, [ProgressNext]_progressVars PROVE PairingSound'
    OBVIOUS
  <1>1. part' = part /\ (In("pairing") => [PA!PairingNext]_pairingVars)
    BY DEF ProgressNext, progressVars
  <1> QED
    BY <1>1, PairingStep DEF PairingSound, In

\* No process outlives the session and no service runs twice; what moves on an
\* output belongs to what it shows and has its timer; no change of the scene is
\* forgotten; an output has its connector and the mode asked for (policy.rs,
\* transitions.rs, udev.rs).
THEOREM DesktopStaysSound == ProgressSpec => []DesktopSound
  <1> QED
    BY ProgressStarts, DesktopKept, PTL DEF ProgressSpec

\* A pairing keeps its connection while it lasts and no longer, and the answer of
\* the user goes to the question that is shown (bluetooth_pairing.rs).
THEOREM PairingStaysSound == ProgressSpec => []PairingSound
  <1> QED
    BY ProgressStarts, PairingKept, PTL DEF ProgressSpec
=============================================================================
