------------------------------ MODULE Settings ------------------------------
(***************************************************************************)
(* The configuration: config.toml, the overlay of the recorder settings,   *)
(* the live copy the compositor works with, and the watcher that asks for  *)
(* a reload (core/src/lib.rs, policy.rs).                                  *)
(*                                                                         *)
(* A file is a record of its [recorder] section and of the rest; what      *)
(* does not parse or validate is Bad.  The commands run one at a time on   *)
(* the compositor thread, but a write of the overlay has three steps on    *)
(* the disk, and the compositor can die between them.                      *)
(***************************************************************************)
EXTENDS Naturals

CONSTANTS
    Values,             \* values of the [recorder] section, all valid
    Defaults,           \* the section Config::default() and an empty file have
    Rests,              \* contents of the other sections
    NoFile,             \* the file does not exist
    Bad,                \* a file that does not parse or validate
    Torn,               \* a file that is only partly written
    MaxEdits,           \* bound: edits of the two files by the user
    MaxSets,            \* bound: recorder set commands
    MaxRestarts,        \* bound: crashes
    MaxConfigLocks      \* bound: session locks

ASSUME SettingsAssumption ==
    /\ Defaults \in Values /\ Rests # {}
    /\ {NoFile, Bad, Torn} \cap Values = {} /\ NoFile # Bad /\ Torn \notin {NoFile, Bad}
    /\ MaxEdits \in Nat /\ MaxSets \in Nat /\ MaxRestarts \in Nat
    /\ MaxConfigLocks \in Nat

VARIABLES
    file,               \* config.toml
    overlay,            \* recorder-settings.toml
    temporary,          \* recorder-settings.toml.tmp
    config,             \* desktop.config
    writing,            \* step of write_recorder_settings
    reloads,            \* reload messages in the channel, saturated
    configLocked,       \* lock.locked
    promised,           \* history: the settings the last accepted set stored
    missed,             \* history: the last reload did not take the file over
    edits, sets, restarts, configLocks

bounds == <<edits, sets, restarts, configLocks>>
settingsVars == <<file, overlay, temporary, config, writing, reloads, configLocked,
                  promised, missed, bounds>>

Files == [recorder : Values, rest : Rests]

SettingsTypeOK ==
    /\ file \in Files \cup {Bad, NoFile}
    /\ overlay \in Values \cup {Bad, Torn, NoFile}
    /\ temporary \in Values \cup {Torn, NoFile}
    /\ config \in Files
    /\ writing \in {"no", "created", "written"}
    /\ reloads \in 0 .. 2
    /\ configLocked \in BOOLEAN
    /\ promised \in Values \cup {NoFile}
    /\ missed \in BOOLEAN
    /\ edits \in 0 .. MaxEdits /\ sets \in 0 .. MaxSets
    /\ restarts \in 0 .. MaxRestarts /\ configLocks \in 0 .. MaxConfigLocks

-----------------------------------------------------------------------------
(* Config::load.                                                           *)

DefaultConfig == [recorder |-> Defaults, rest |-> CHOOSE r \in Rests : TRUE]

\* parse_with_settings: both files must be valid; the overlay replaces the
\* whole recorder section.
Loads == file # Bad /\ overlay \notin {Bad, Torn}
Base == IF file = NoFile THEN DefaultConfig ELSE file
Loaded == IF overlay = NoFile THEN Base
          ELSE [recorder |-> overlay, rest |-> Base.rest]

\* Desktop::default: a configuration that does not load is replaced by the
\* defaults.
AtStart == IF Loads THEN Loaded ELSE DefaultConfig

SettingsInit ==
    /\ file \in Files \cup {Bad, NoFile}
    /\ overlay = NoFile /\ temporary = NoFile
    /\ config = AtStart
    /\ writing = "no"
    /\ reloads = 0
    /\ configLocked = FALSE
    /\ promised = NoFile
    /\ missed = ~Loads
    /\ edits = 0 /\ sets = 0 /\ restarts = 0 /\ configLocks = 0

-----------------------------------------------------------------------------
(* The user and the watcher.                                               *)
(* Operators named Mut... are slips of the definition below them that the  *)
(* properties must catch; no specification uses them.                      *)

\* Every change of config.toml is reported by the watcher thread, which posts
\* a reload.  An edit is several writes: it may pass through a Bad file.
MutNotified == reloads
Notified == IF reloads < 2 THEN reloads + 1 ELSE 2

EditFile(f) ==
    /\ edits < MaxEdits /\ f # file /\ f # NoFile
    /\ edits' = edits + 1
    /\ file' = f
    /\ reloads' = Notified
    /\ UNCHANGED <<overlay, temporary, config, writing, configLocked, promised, missed,
                   sets, restarts, configLocks>>

\* The user damages the overlay by hand; nothing watches it.
DamageOverlay ==
    /\ edits < MaxEdits /\ writing = "no" /\ overlay # Bad
    /\ edits' = edits + 1
    /\ overlay' = Bad
    /\ promised' = NoFile
    /\ UNCHANGED <<file, temporary, config, writing, reloads, configLocked, missed, sets,
                   restarts, configLocks>>

ConfigLock ==
    /\ ~configLocked => configLocks < MaxConfigLocks
    /\ configLocked' = ~configLocked
    /\ configLocks' = IF configLocked THEN configLocks ELSE configLocks + 1
    /\ UNCHANGED <<file, overlay, temporary, config, writing, reloads, promised, missed,
                   edits, sets, restarts>>

-----------------------------------------------------------------------------
(* Commands.  None runs while the compositor writes the overlay.           *)

Idle == writing = "no"

\* The reload command.  A locked session refuses every command; a
\* configuration that does not load keeps the live one.
Reload ==
    /\ Idle /\ reloads > 0
    /\ reloads' = reloads - 1
    /\ config' = IF ~configLocked /\ Loads THEN Loaded ELSE config
    /\ missed' = (configLocked \/ ~Loads)
    /\ UNCHANGED <<file, overlay, temporary, writing, configLocked, promised, bounds>>

\* recorder set: Recorder::apply validates a copy and stores it, ...
Set(v) ==
    /\ Idle /\ ~configLocked
    /\ sets < MaxSets /\ v # config.recorder
    /\ sets' = sets + 1
    /\ config' = [config EXCEPT !.recorder = v]
    /\ writing' = "created"
    /\ temporary' = Torn
    /\ UNCHANGED <<file, overlay, reloads, configLocked, promised, missed, edits, restarts,
                   configLocks>>

\* ... and write_recorder_settings fills a temporary file ...
WriteTemporary ==
    /\ writing = "created"
    /\ writing' = "written"
    /\ temporary' = config.recorder
    /\ UNCHANGED <<file, overlay, config, reloads, configLocked, promised, missed, bounds>>

\* ... that replaces the overlay: the command is accepted.
Rename ==
    /\ writing = "written"
    /\ writing' = "no"
    /\ overlay' = temporary
    /\ temporary' = NoFile
    /\ promised' = temporary
    /\ UNCHANGED <<file, config, reloads, configLocked, missed, bounds>>

\* A step of the write fails: the command is refused, but the live settings
\* have changed already.
WriteFails ==
    /\ writing # "no"
    /\ writing' = "no"
    /\ UNCHANGED <<file, overlay, temporary, config, reloads, configLocked, promised,
                   missed, bounds>>

\* recorder settings-reset: the overlay goes first; of the configuration that
\* is then loaded only the recorder section is taken over.
SettingsReset ==
    /\ Idle /\ ~configLocked
    /\ overlay # NoFile
    /\ overlay' = NoFile
    /\ config' = IF file = Bad THEN config ELSE [config EXCEPT !.recorder = Base.recorder]
    /\ promised' = NoFile
    /\ UNCHANGED <<file, temporary, writing, reloads, configLocked, missed, bounds>>

\* The compositor dies and is started again; it reads what the disk holds.
Restart ==
    /\ restarts < MaxRestarts
    /\ restarts' = restarts + 1
    /\ writing' = "no"
    /\ config' = AtStart
    /\ reloads' = 0
    /\ configLocked' = FALSE
    /\ missed' = ~Loads
    /\ UNCHANGED <<file, overlay, temporary, promised, edits, sets, configLocks>>

SettingsNext ==
    \/ \E f \in Files \cup {Bad} : EditFile(f)
    \/ DamageOverlay
    \/ ConfigLock
    \/ Reload
    \/ \E v \in Values : Set(v)
    \/ WriteTemporary
    \/ Rename
    \/ WriteFails
    \/ SettingsReset
    \/ Restart

SettingsSpec == SettingsInit /\ [][SettingsNext]_settingsVars

-----------------------------------------------------------------------------
(* Properties.                                                             *)

\* A setting that was accepted is on the disk until it is replaced, reset or
\* damaged by the user, whatever is refused, fails or dies after it, and the
\* overlay is never partly written (write_recorder_settings).
AcceptedSurvives ==
    /\ promised # NoFile => overlay = promised
    /\ overlay # Torn

\* When no reload is outstanding and the last one could be carried out, the
\* sections outside [recorder] are the file's: the last of several edits, or
\* of several states of one edit, is the one that counts (reload).
SettledMatchesFile ==
    (reloads = 0 /\ ~missed) => file # Bad /\ config.rest = Base.rest

\* The file that is about to replace the overlay is complete; with it the two are
\* inductive.
WrittenIsWhole == writing = "written" => temporary \in Values

SettingsInv == SettingsTypeOK /\ AcceptedSurvives /\ SettledMatchesFile /\ WrittenIsWhole
=============================================================================
