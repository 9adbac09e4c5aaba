--------------------------- MODULE KeyboardStream ---------------------------
(***************************************************************************)
(* What the keyboard driver promises: get_key() returns the strokes in the *)
(* order they were typed, each with the modifiers that were held then,     *)
(* except those for which there was no room.                               *)
(***************************************************************************)
EXTENDS Naturals, Sequences

CONSTANTS
  Stroke,        \* [key, kind]: what can be typed
  ModifierKey,   \* keys that programs are told about with every other key
  ShiftKey,      \* those that give a key its other meaning
  Shifted,       \* the other meaning of the keys that have one
  IsDebug(_),    \* events for the kernel itself
  Room,          \* how many events wait at most
  NULL

VARIABLES
  stroke,   \* being typed, or NULL
  down,     \* the keys that are held
  keys      \* the events that get_key() will return

vars == <<stroke, down, keys>>

Init == stroke = NULL /\ down = {} /\ keys = <<>>

\* A key is pressed, repeats, or is released.
Type(s) ==
  /\ stroke = NULL
  /\ s.kind = "Released" => s.key \in down
  /\ stroke' = s
  /\ UNCHANGED <<down, keys>>

EventOf(s) ==
  [unshifted_key |-> s.key, kind |-> s.kind, modifiers |-> down \cap ModifierKey,
   key |-> IF s.key \in DOMAIN Shifted /\ down \cap ShiftKey # {} THEN Shifted[s.key] ELSE s.key]

Arrive ==
  /\ stroke # NULL
  /\ stroke' = NULL
  /\ down' = CASE stroke.kind = "Pressed" -> down \cup {stroke.key}
               [] stroke.kind = "Released" -> down \ {stroke.key}
               [] OTHER -> down
  /\ keys' = IF Len(keys) = Room \/ IsDebug(EventOf(stroke)) THEN keys
             ELSE Append(keys, EventOf(stroke))

Take == keys # <<>> /\ keys' = Tail(keys) /\ UNCHANGED <<stroke, down>>

Next == (\E s \in Stroke : Type(s)) \/ Arrive \/ Take

Spec == Init /\ [][Next]_vars
=============================================================================
