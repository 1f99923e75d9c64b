---------------------------- MODULE MediaPosition ----------------------------
(***************************************************************************)
(* The position slider of a media player in the GTK shell (shell/src/      *)
(* media_position.rs).  The position is never polled: it is read when the  *)
(* slider appears and when the player's properties change, follows the     *)
(* player's Seeked signals, and is extrapolated in between.  A reading     *)
(* that was overtaken is thrown away; one that is asked for while another  *)
(* is under way follows it.                                                *)
(*                                                                         *)
(* The player and the bus are external.  A position is abstracted to the   *)
(* jump it comes after (their number): the extrapolation from there is the *)
(* clock's.  The bus delivers in order; calls fail when the player ends.   *)
(* That a name has no owner for a while is left out.                       *)
(***************************************************************************)
EXTENDS Naturals, Sequences, FiniteSets

CONSTANTS
    MaxJumps,           \* bound: jumps of the player
    MaxMail,            \* bound: messages on their way to the shell
    MaxLives            \* bound: lives of the player

PositionAssumption == MaxJumps \in Nat /\ MaxMail \in Nat /\ MaxLives \in Nat \ {0}

VARIABLES
    life, track, spot,  \* the player: its life, track, and the jump it is after
    mail,               \* signals and replies on their way
    calls,              \* what the player was asked, in order
    owner,              \* the proxy's name_owner
    shown, base,        \* its track (the jump it began with) and jump, as the slider shows them
    overtaken,          \* revision has changed since the reading was asked for
    mapped, reading, reread, pending,
    readOwner, seekOwner,       \* what the callbacks captured
    missed              \* history: a reading failed, none succeeded since

positionVars == <<life, track, spot, mail, calls, owner, shown, base, overtaken, mapped,
                  reading, reread, pending, readOwner, seekOwner, missed>>

player == <<life, track, spot>>
slider == <<owner, shown, base, overtaken, mapped, reading, reread, pending, readOwner,
            seekOwner, missed>>
Jumps == 0..MaxJumps
Messages ==
    [type : {"seeked"}, spot : Jumps] \cup [type : {"properties"}, track : Jumps]
    \cup [type : {"position"}, spot : Jumps, ok : BOOLEAN] \cup [type : {"sought"}]
    \cup [type : {"owner"}, owner : 1..MaxLives]
Calls == [type : {"read"}] \cup [type : {"seek"}, track : Jumps]

PositionTypeOK ==
    /\ {life, owner, readOwner, seekOwner} \subseteq 1..MaxLives /\ {track, shown, spot, base} \subseteq Jumps
    /\ {overtaken, mapped, reading, reread, pending, missed} \subseteq BOOLEAN
    /\ mail \in Seq(Messages) /\ calls \in Seq(Calls)

\* widget: refresh, and nothing read before it is mapped.
PositionInit ==
    /\ life = 1 /\ track = 0 /\ spot \in Jumps /\ mail = <<>> /\ calls = <<>>
    /\ owner = 1 /\ shown = 0 /\ base = 0
    /\ overtaken = FALSE /\ mapped = FALSE
    /\ reading = FALSE /\ reread = FALSE /\ pending = FALSE
    /\ readOwner = 1 /\ seekOwner = 1 /\ missed = FALSE

-----------------------------------------------------------------------------
(* The player (external).                                                  *)

Says(message) == Len(mail) < MaxMail /\ mail' = Append(mail, message)
Moved == spot < MaxJumps /\ spot' = spot + 1

\* Another client moves the position, or the track changes.
Seeks == Moved /\ Says([type |-> "seeked", spot |-> spot']) /\ UNCHANGED <<life, track, calls, slider>>
ChangesTrack ==
    /\ Moved /\ track' = spot' /\ Says([type |-> "properties", track |-> track'])
    /\ UNCHANGED <<life, calls, slider>>
Asked(call) == calls # <<>> /\ calls[1].type = call /\ calls' = Tail(calls)
\* The player answers a reading, or moves as it was asked to (not every player
\* emits Seeked then), if it was asked for the track that it plays.
AnswersRead ==
    /\ Asked("read")
    /\ Says([type |-> "position", spot |-> spot, ok |-> TRUE])
    /\ UNCHANGED <<player, slider>>
AnswersSeek ==
    /\ Asked("seek") /\ Says([type |-> "sought"])
    /\ IF calls[1].track = track THEN Moved ELSE UNCHANGED spot
    /\ UNCHANGED <<life, track, slider>>
Failed(call) ==
    IF call.type = "read" THEN [type |-> "position", spot |-> 0, ok |-> FALSE] ELSE [type |-> "sought"]
\* It ends and another takes the name: the calls fail.
Restarts ==
    /\ life < MaxLives /\ life' = life + 1 /\ Moved /\ track' = spot'
    /\ calls' = <<>> /\ Len(mail) < MaxMail
    /\ mail' = mail \o [i \in 1..Len(calls) |-> Failed(calls[i])]
        \o <<[type |-> "owner", owner |-> life'], [type |-> "properties", track |-> track']>>
    /\ UNCHANGED slider

-----------------------------------------------------------------------------
(* The slider.  Operators named Mut... are slips of the definition below   *)
(* them that the properties must catch; no specification uses them.        *)

Arrives(type) == mail # <<>> /\ mail[1].type = type /\ mail' = Tail(mail)

\* anchor
Anchor(value) == base' = value /\ overtaken' = TRUE

\* read, where "busy" and "next" are what the handler left in reading and
\* reread, and "old" says that it has anchored the slider.
MutNoted(next) == next
Noted(next) == TRUE
Read(busy, next, old) ==
    IF mapped' /\ ~busy
    THEN /\ reading' = TRUE /\ reread' = next
         /\ overtaken' = FALSE /\ readOwner' = owner'
         /\ calls' = Append(calls, [type |-> "read"])
    ELSE /\ reading' = busy /\ reread' = IF mapped' THEN Noted(next) ELSE next
         /\ overtaken' = old /\ UNCHANGED <<readOwner, calls>>

\* g-properties-changed: refresh, then read.
Refresh ==
    /\ Arrives("properties")
    /\ shown' = mail[1].track
    /\ base' = IF shown' # shown THEN 0 ELSE base
    /\ UNCHANGED <<mapped, owner>> /\ Read(reading, reread, TRUE)
    /\ UNCHANGED <<player, pending, seekOwner, missed>>
Seeked ==
    /\ Arrives("seeked") /\ Anchor(mail[1].spot)
    /\ UNCHANGED <<player, calls, owner, shown, mapped, reading, reread, pending, readOwner,
                   seekOwner, missed>>
OwnerChanges ==
    /\ Arrives("owner") /\ owner' = mail[1].owner
    /\ UNCHANGED <<player, calls, shown, base, overtaken, mapped, reading, reread, pending,
                   readOwner, seekOwner, missed>>

\* The reading's callback: good if nothing happened since.
Fresh == ~overtaken /\ owner = readOwner
PositionRead ==
    /\ Arrives("position")
    /\ base' = IF Fresh /\ mail[1].ok THEN mail[1].spot ELSE base
    /\ missed' = (Fresh /\ ~mail[1].ok)
    /\ UNCHANGED <<mapped, owner>>
    /\ IF reread THEN Read(FALSE, FALSE, TRUE)
       ELSE reading' = FALSE /\ UNCHANGED <<reread, overtaken, readOwner, calls>>
    /\ UNCHANGED <<player, shown, pending, seekOwner>>

\* The user moves the slider, which is insensitive until the player answered.
Seek ==
    /\ mapped /\ ~pending /\ pending' = TRUE
    /\ overtaken' = TRUE /\ seekOwner' = owner
    /\ calls' = Append(calls, [type |-> "seek", track |-> shown])
    /\ UNCHANGED <<player, mail, owner, shown, base, mapped, reading, reread, readOwner, missed>>
MutReads == UNCHANGED <<reading, reread, overtaken, readOwner, calls>>
Reads == Read(reading, reread, overtaken)
Sought ==
    /\ Arrives("sought") /\ pending' = FALSE
    /\ UNCHANGED <<mapped, owner>>
    /\ IF owner = seekOwner THEN Reads
       ELSE UNCHANGED <<reading, reread, overtaken, readOwner, calls>>
    /\ UNCHANGED <<player, shown, base, seekOwner, missed>>

Map ==
    /\ ~mapped /\ mapped' = TRUE
    /\ UNCHANGED owner /\ Read(reading, reread, overtaken)
    /\ UNCHANGED <<player, mail, shown, base, pending, seekOwner, missed>>
Unmap ==
    /\ mapped /\ mapped' = FALSE /\ overtaken' = TRUE
    /\ UNCHANGED <<player, mail, calls, owner, shown, base, reading, reread, pending, readOwner,
                   seekOwner, missed>>

PositionNext ==
    \/ Seeks \/ ChangesTrack \/ AnswersRead \/ AnswersSeek \/ Restarts
    \/ Refresh \/ Seeked \/ OwnerChanges \/ PositionRead \/ Seek \/ Sought \/ Map \/ Unmap
PositionSpec == PositionInit /\ [][PositionNext]_positionVars

-----------------------------------------------------------------------------
(* Properties.                                                             *)

\* The slider on the screen settles on where the player is: when every call was
\* answered and every signal handled, nothing it shows is older than the player's
\* last jump - unless the last reading failed.
SettlesOnPosition ==
    mapped /\ mail = <<>> /\ calls = <<>> /\ ~missed => base = spot /\ shown = track

\* Why it holds.  A reading and a seek each have one call or one answer that is
\* on its way.
Of(q, type) == {i \in DOMAIN q : q[i].type = type}
OneAnswer(busy, call, answer) ==
    Cardinality(Of(calls, call)) + Cardinality(Of(mail, answer)) = IF busy THEN 1 ELSE 0
AnswersCome ==
    /\ OneAnswer(reading, "read", "position") /\ OneAnswer(pending, "seek", "sought")
    /\ reread => reading

\* What is on its way about an older jump is followed by news of the last one.
Settles(j) ==
    \/ mail[j].type = "properties"
    \/ mail[j].type = "seeked" /\ mail[j].spot = spot
    \/ mail[j].type = "sought" /\ owner = seekOwner /\ \A i \in 1..j : mail[i].type # "owner"
Tells(m) == m.type = "seeked" \/ (m.type = "position" /\ m.ok)
OldIsFollowed ==
    \A i \in DOMAIN mail : Tells(mail[i]) /\ mail[i].spot # spot => \E j \in DOMAIN mail : j > i /\ Settles(j)
PositionIsDue == mapped =>
    \/ base = spot
    \/ \E j \in DOMAIN mail : Settles(j)
    \/ reading /\ (reread \/ Fresh)
    \/ pending /\ owner = seekOwner /\ Of(calls, "seek") # {}
    \/ missed /\ ~reading

\* The same for tracks.  A new owner comes with its own track, so what was asked
\* for the track that plays was asked of the player that plays it.
TracksBounded ==
    /\ shown <= spot /\ track <= spot
    /\ \A i \in Of(mail, "properties") : mail[i].track <= spot
    /\ \A i \in Of(calls, "seek") : calls[i].track <= spot
TrackIsDue ==
    /\ shown # track => Of(mail, "properties") # {}
    /\ \A i \in Of(mail, "properties") :
            mail[i].track # track => \E j \in Of(mail, "properties") : j > i
OwnersTrack ==
    /\ \A i \in Of(mail, "owner") :
        /\ i + 1 \in Of(mail, "properties") /\ shown # track
        /\ \A k \in Of(mail, "properties") : k < i => mail[k].track # track
    /\ \A i \in Of(calls, "seek") :
            calls[i].track = track => owner = seekOwner /\ Of(mail, "owner") = {}

PositionInv ==
    /\ PositionTypeOK /\ SettlesOnPosition
    /\ AnswersCome /\ OldIsFollowed /\ PositionIsDue
    /\ TracksBounded /\ TrackIsDue /\ OwnersTrack
=============================================================================
