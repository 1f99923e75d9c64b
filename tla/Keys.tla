-------------------------------- MODULE Keys --------------------------------
(***************************************************************************)
(* Keyboard events of the seat (input_handler.rs): shortcuts and the       *)
(* releases they suppress, the tap of Super that opens the launcher, layer *)
(* surfaces with an exclusive claim to the keyboard, shortcut inhibitors   *)
(* and the session lock.                                                   *)
(*                                                                         *)
(* The user presses and releases keys in any order.  A key symbol is a key *)
(* with the level Shift selects.  The toolkit tracks which keys are down   *)
(* and which of them clients have been told of; who has the focus is       *)
(* modelled in Pointing.                                                   *)
(***************************************************************************)
EXTENDS FiniteSets

CONSTANTS
    Letters,            \* keys whose symbol depends on Shift
    Chords              \* bindings: sets of modifiers with a letter

Super == "Super"
Shift == "Shift"
Keyboard == Letters \cup {Super, Shift}

KeysAssumption ==
    /\ {Super, Shift} \cap Letters = {}
    /\ Chords \subseteq [mods : SUBSET {Super, Shift}, letter : Letters]

VARIABLES
    held,               \* keys the user's fingers are on
    pressed,            \* keys the seat takes to be down
    forwarded,          \* pressed keys that clients have been told of
    suppressed,         \* suppressed_keys
    tapPending,         \* super_tap_pending
    tapUsed,            \* super_tap_used
    keysLocked,         \* lock.locked
    exclusive,          \* a Top or Overlay layer claims the keyboard
    inhibited,          \* the window under the pointer inhibits shortcuts
    ran,                \* the action of the last event
    clean               \* history: Super went down here, and nothing happened since

keyState == <<held, pressed, forwarded>>
tap == <<tapPending, tapUsed>>
keysVars == <<keyState, suppressed, tap, keysLocked, exclusive, inhibited, ran, clean>>

-----------------------------------------------------------------------------
Symbol(k, down) == <<k, k \in Letters /\ Shift \in down>>
Symbols == Keyboard \X BOOLEAN

KeysTypeOK ==
    /\ held \subseteq Keyboard /\ pressed \subseteq Keyboard
    /\ forwarded \subseteq Keyboard /\ suppressed \subseteq Symbols
    /\ tapPending \in BOOLEAN /\ tapUsed \in BOOLEAN
    /\ keysLocked \in BOOLEAN /\ exclusive \in BOOLEAN /\ inhibited \in BOOLEAN
    /\ ran \in {"nothing", "shortcut", "launcher"} /\ clean \in BOOLEAN

KeysInit ==
    /\ held = {} /\ pressed = {} /\ forwarded = {} /\ suppressed = {}
    /\ tapPending = FALSE /\ tapUsed = FALSE
    /\ keysLocked = FALSE /\ exclusive = FALSE /\ inhibited = FALSE
    /\ ran = "nothing" /\ clean = FALSE

\* AnvilState::shortcut: the modifiers must be exactly those of the binding.
Bound(k, down) == [mods |-> down \cap {Super, Shift}, letter |-> k] \in Chords

-----------------------------------------------------------------------------
(* What the seat does with an event that the filter forwards or intercepts.*)
(* Operators named Mut... are slips of the definition below them that the  *)
(* properties must catch; no specification uses them.                      *)

ForwardPress(k) == forwarded' = forwarded \cup {k} /\ ran' = "nothing"
ForwardRelease(k) == forwarded' = forwarded \ {k} /\ ran' = "nothing"
Intercept(action) == forwarded' = forwarded /\ ran' = action

\* The release of a symbol whose press was a shortcut is not forwarded.
PlainRelease(k) ==
    LET sym == Symbol(k, pressed \ {k}) IN
    IF sym \in suppressed
    THEN suppressed' = suppressed \ {sym} /\ Intercept("nothing")
    ELSE ForwardRelease(k) /\ UNCHANGED suppressed

\* While locked only VT switches are shortcuts; they are left out.
LockedPress(k) == ForwardPress(k) /\ UNCHANGED <<suppressed, tap, clean>>
LockedRelease(k) == PlainRelease(k) /\ UNCHANGED <<tap, clean>>

\* An exclusive layer gets the focus and every key; nothing else is looked at.
ExclusivePress(k) == ForwardPress(k) /\ UNCHANGED <<suppressed, tap, clean>>
ExclusiveRelease(k) == ForwardRelease(k) /\ UNCHANGED <<suppressed, tap, clean>>

MutTapAfterPress(k) == [pending |-> IF k = Super THEN ~inhibited ELSE tapPending,
                        used |-> k # Super /\ (tapUsed \/ (tapPending /\ ~inhibited))]
TapAfterPress(k) == [pending |-> IF k = Super THEN ~inhibited ELSE tapPending,
                     used |-> k # Super /\ (tapPending \/ tapUsed)]

DesktopPress(k) ==
    LET next == TapAfterPress(k) IN
    /\ tapPending' = next.pending /\ tapUsed' = next.used
    /\ IF ~inhibited /\ Bound(k, pressed)
       THEN suppressed' = suppressed \cup {Symbol(k, pressed)} /\ Intercept("shortcut")
       ELSE ForwardPress(k) /\ UNCHANGED suppressed
    /\ clean' = (k = Super /\ ~inhibited)

DesktopRelease(k) ==
    \/ /\ k = Super /\ tapPending
       /\ tapPending' = FALSE /\ tapUsed' = FALSE
       /\ IF tapUsed THEN ForwardRelease(k) ELSE Intercept("launcher")
       /\ clean' = FALSE
       /\ UNCHANGED suppressed
    \/ /\ ~(k = Super /\ tapPending)
       /\ PlainRelease(k)
       /\ UNCHANGED <<tap, clean>>

\* keyboard_key_to_action.
Press(k) ==
    /\ k \notin held
    /\ held' = held \cup {k} /\ pressed' = pressed \cup {k}
    /\ IF keysLocked THEN LockedPress(k)
       ELSE IF exclusive THEN ExclusivePress(k)
       ELSE DesktopPress(k)
    /\ UNCHANGED <<keysLocked, exclusive, inhibited>>
Release(k) ==
    /\ k \in held
    /\ held' = held \ {k} /\ pressed' = pressed \ {k}
    /\ IF keysLocked THEN LockedRelease(k)
       ELSE IF exclusive THEN ExclusiveRelease(k)
       ELSE DesktopRelease(k)
    /\ UNCHANGED <<keysLocked, exclusive, inhibited>>

-----------------------------------------------------------------------------
(* What happens around the keyboard.                                       *)

\* lock: the keys that are down are released for the session's clients, and
\* no release that comes later is taken for a shortcut's or a tap's.
KeysLock ==
    /\ ~keysLocked
    /\ keysLocked' = TRUE
    /\ pressed' = {} /\ forwarded' = forwarded \ pressed
    /\ suppressed' = {}
    /\ tapPending' = FALSE /\ tapUsed' = FALSE
    /\ ran' = "nothing" /\ clean' = FALSE
    /\ UNCHANGED <<held, exclusive, inhibited>>
KeysUnlock ==
    /\ keysLocked
    /\ keysLocked' = FALSE
    /\ ran' = "nothing"
    /\ UNCHANGED <<keyState, suppressed, tap, exclusive, inhibited, clean>>

\* A shell opens or closes its launcher; the pointer enters or leaves a window
\* with an active inhibitor.
Around ==
    /\ \/ exclusive' = ~exclusive /\ UNCHANGED inhibited
       \/ inhibited' = ~inhibited /\ UNCHANGED exclusive
    /\ ran' = "nothing"
    /\ UNCHANGED <<keyState, suppressed, tap, keysLocked, clean>>

KeysNext ==
    \/ \E k \in Keyboard : Press(k) \/ Release(k)
    \/ KeysLock \/ KeysUnlock
    \/ Around

KeysSpec == KeysInit /\ [][KeysNext]_keysVars

-----------------------------------------------------------------------------
(* Properties.                                                             *)

\* The launcher opens on a tap: Super went down on the desktop, not inhibited,
\* and until it came up the desktop saw no other key and no lock, whatever an
\* exclusive layer or the lock screen saw in between (keyboard_key_to_action,
\* SessionLockHandler::lock).
TapStep == ran' = "launcher" => clean
TapOpensLauncher == [][TapStep]_keysVars

\* The inductive invariant behind it: a tap that is pending and unused is clean.
KeysInv == KeysTypeOK /\ (tapPending /\ ~tapUsed => clean)
=============================================================================
