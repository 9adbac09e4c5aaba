-------------------------------- MODULE PS2 --------------------------------
(***************************************************************************)
(* kernel/platform/ps2.zig: the keyboard and the mouse behind one          *)
(* controller with one byte of output, their interrupt handlers and the    *)
(* circular buffers that programs read.  A key, in either meaning, is a    *)
(* string; bytes are numbers.                                              *)
(***************************************************************************)
EXTENDS CircularBuffer, FiniteSets

CONSTANTS
  one_byte,     \* scan_codes.one_byte: byte |-> [key, shifted_key, kind], where not null
  two_byte,     \* scan_codes.two_byte, likewise
  Packet,       \* what the mouse may report: <<flags, x, y>>
  SameTime,     \* BOOLEAN: are the keyboard and the mouse used at the same time?
  NULL,
  MaxInputs      \* bound on what the user does

Byte == 0..255

Entries == {one_byte[b] : b \in DOMAIN one_byte} \cup {two_byte[b] : b \in DOMAIN two_byte}

Key ==
  {e.key : e \in Entries} \cup ({e.shifted_key : e \in Entries} \ {NULL})
  \cup {"PrintScreen", "Pause"}

ASSUME PS2Assumption ==
  /\ Discard = "DiscardNewest"
  /\ SameTime \in BOOLEAN
  /\ Packet \subseteq Byte \X Byte \X Byte
  /\ MaxInputs \in Nat
  /\ NULL \notin Key /\ NULL \notin [from : {1, 12}, byte : Byte]

\* The tables have no byte that the patterns go on with, no PrintScreen and no Pause,
\* and one other meaning at most for each key; the keys of two_byte have none.
ASSUME ScanCodeAssumption ==
  /\ DOMAIN one_byte \subseteq Byte \ {\hE0, \hE1}
  /\ DOMAIN two_byte \subseteq Byte \ {\h2A, \hB7}
  /\ \A e \in Entries : e.kind \in {"Pressed", "Released"} /\ e.key \notin {"PrintScreen", "Pause"}
  /\ \A e, f \in Entries : e.key = f.key => e.shifted_key = f.shifted_key
  /\ \A b \in DOMAIN two_byte : two_byte[b].shifted_key = NULL

VARIABLES
  stroke,          \* what is being typed, or NULL
  down,            \* the keys that are held
  keyboard_wire,   \* the bytes that the keyboard has still to send
  mouse_wire,      \* the bytes that the mouse has still to send
  inputs,          \* how often the user did something
  output,          \* the controller's byte for data_port, with its sender, or NULL
  irqs,            \* raised and not yet handled: 1 and 12
  handler,         \* which interrupt handler runs
  data,            \* the bytes of MouseData that read_data_as() has
  initialized,     \* keyboard_initialized and mouse_initialized
  byte_count, pattern,
  keyboard_modifiers,   \* those that are pressed
  keyboard_buffer, mouse_buffer

userVars == <<stroke, down, inputs>>
wireVars == <<keyboard_wire, mouse_wire>>
recogniser == <<byte_count, pattern, keyboard_modifiers>>
vars == <<userVars, wireVars, output, irqs, handler, data, initialized, recogniser,
          keyboard_buffer, mouse_buffer>>

ModifierKey == {"LeftShift", "RightShift", "LeftAlt", "RightAlt", "LeftControl", "RightControl"}

Init ==
  /\ stroke = NULL /\ down = {}
  /\ keyboard_wire = <<>> /\ mouse_wire = <<>>
  /\ inputs = 0
  /\ output = NULL /\ irqs = {} /\ handler = "none" /\ data = <<>>
  /\ initialized = FALSE
  /\ byte_count = 0 /\ pattern \in {"TwoBytePrintScreen", "Pause"}
  /\ keyboard_modifiers = {}
  /\ keyboard_buffer = EmptyRing(NULL) /\ mouse_buffer = EmptyRing(NULL)

-----------------------------------------------------------------------------
(* The devices and the controller *)

\* Scan code set 1.
Code(s) ==
  CASE s = [key |-> "PrintScreen", kind |-> "Pressed"] -> <<\hE0, \h2A, \hE0, \h37>>
    [] s = [key |-> "PrintScreen", kind |-> "Released"] -> <<\hE0, \hB7, \hE0, \hAA>>
    [] s = [key |-> "Pause", kind |-> "Hit"] -> <<\hE1, \h1D, \h45, \hE1, \h9D, \hC5>>
    [] OTHER ->
         LET sends(table) == {b \in DOMAIN table : table[b].key = s.key /\ table[b].kind = s.kind}
         IN IF sends(one_byte) # {} THEN <<CHOOSE b \in sends(one_byte) : TRUE>>
            ELSE <<\hE0, CHOOSE b \in sends(two_byte) : TRUE>>

Stroke ==
  {[key |-> "PrintScreen", kind |-> k] : k \in {"Pressed", "Released"}}
  \cup {[key |-> "Pause", kind |-> "Hit"]}
  \cup UNION {{[key |-> table[b].key, kind |-> table[b].kind] : b \in DOMAIN table} :
                table \in {one_byte, two_byte}}

KeyboardIdle ==
  /\ stroke = NULL
  /\ 1 \notin irqs /\ handler # "keyboard"

MouseIdle ==
  /\ mouse_wire = <<>> /\ (output # NULL => output.from # 12)
  /\ 12 \notin irqs /\ handler # "mouse"

Type(s) ==
  /\ inputs < MaxInputs /\ inputs' = inputs + 1
  /\ stroke = NULL
  /\ s.kind = "Released" => s.key \in down
  /\ SameTime \/ MouseIdle
  /\ stroke' = s /\ keyboard_wire' = Code(s)
  /\ UNCHANGED <<down, mouse_wire, output, irqs, handler, data, initialized, recogniser,
                 keyboard_buffer, mouse_buffer>>

Move(p) ==
  /\ inputs < MaxInputs /\ inputs' = inputs + 1
  /\ mouse_wire = <<>>
  /\ SameTime \/ KeyboardIdle
  /\ mouse_wire' = p
  /\ UNCHANGED <<stroke, down, keyboard_wire, output, irqs, handler, data, initialized, recogniser,
                 keyboard_buffer, mouse_buffer>>

\* The controller takes the next byte of a device and raises its interrupt.
Send(irq, byte) ==
  /\ output = NULL
  /\ output' = [from |-> irq, byte |-> byte]
  /\ irqs' = irqs \cup {irq}
  /\ UNCHANGED <<userVars, handler, data, initialized, recogniser, keyboard_buffer, mouse_buffer>>

KeyboardSends ==
  /\ keyboard_wire # <<>> /\ Send(1, Head(keyboard_wire))
  /\ keyboard_wire' = Tail(keyboard_wire) /\ UNCHANGED mouse_wire

MouseSends ==
  /\ mouse_wire # <<>> /\ Send(12, Head(mouse_wire))
  /\ mouse_wire' = Tail(mouse_wire) /\ UNCHANGED keyboard_wire

\* read_data() of whatever byte there is.  The last of a stroke ends it.
ReadData ==
  /\ output # NULL
  /\ output' = NULL
  /\ IF output.from = 1 /\ keyboard_wire = <<>>
     THEN /\ stroke' = NULL
          /\ down' = CASE stroke.kind = "Pressed" -> down \cup {stroke.key}
                       [] stroke.kind = "Released" -> down \ {stroke.key}
                       [] OTHER -> down
     ELSE UNCHANGED <<stroke, down>>
  /\ UNCHANGED <<wireVars, inputs>>

\* Mutant: the interrupt is not acknowledged.
StartHandlerAgain(irq, name) ==
  /\ irq \in irqs /\ handler = "none"
  /\ handler' = name
  /\ UNCHANGED <<userVars, wireVars, output, irqs, data, initialized, recogniser, keyboard_buffer, mouse_buffer>>

StartHandler(irq, name) ==
  /\ irq \in irqs /\ handler = "none"
  /\ irqs' = irqs \ {irq}
  /\ handler' = name
  /\ UNCHANGED <<userVars, wireVars, output, data, initialized, recogniser, keyboard_buffer, mouse_buffer>>

\* The handlers do not read before the end of init(), which allows their interrupts first.
ReturnEarly ==
  /\ ~initialized /\ handler # "none"
  /\ handler' = "none"
  /\ UNCHANGED <<userVars, wireVars, output, irqs, data, initialized, recogniser, keyboard_buffer, mouse_buffer>>

Initialize ==
  /\ ~initialized /\ handler = "none" /\ initialized' = TRUE
  /\ UNCHANGED <<userVars, wireVars, output, irqs, handler, data, recogniser, keyboard_buffer, mouse_buffer>>

-----------------------------------------------------------------------------
(* The keyboard *)

Pressed(keys) == keyboard_modifiers \cap keys # {}

\* Mutant: the modifiers are not looked at.
EventUnshifted(key, shifted_key, kind) ==
  [unshifted_key |-> key, kind |-> kind, modifiers |-> keyboard_modifiers, key |-> key]

\* Event.new()
Event(key, shifted_key, kind) ==
  [unshifted_key |-> key, kind |-> kind, modifiers |-> keyboard_modifiers,
   key |-> IF shifted_key # NULL /\ Pressed({"LeftShift", "RightShift"}) THEN shifted_key
           ELSE key]

EntryEvent(table, byte) ==
  IF byte \in DOMAIN table
  THEN Event(table[byte].key, table[byte].shifted_key, table[byte].kind)
  ELSE NULL

\* The event that a byte completes.
Reached(byte) ==
  CASE byte_count = 0 /\ byte \notin {\hE0, \hE1} -> EntryEvent(one_byte, byte)
    [] byte_count = 1 /\ pattern = "TwoBytePrintScreen" /\ byte \notin {\h2A, \hB7} ->
         EntryEvent(two_byte, byte)
    [] byte_count = 3 /\ pattern = "PrintScreenPressed" /\ byte = \h37 ->
         Event("PrintScreen", NULL, "Pressed")
    [] byte_count = 3 /\ pattern = "PrintScreenReleased" /\ byte = \hAA ->
         Event("PrintScreen", NULL, "Released")
    [] byte_count = 5 /\ pattern = "Pause" /\ byte = \hC5 -> Event("Pause", NULL, "Hit")
    [] OTHER -> NULL

\* Mutant: the last byte of Pause does not reset the count.
TowardsForEver(byte) ==
  \/ byte_count = 0 /\ byte \in {\hE0, \hE1}
  \/ byte_count = 1 /\ pattern = "TwoBytePrintScreen" /\ byte \in {\h2A, \hB7}
  \/ byte_count = 2 /\ pattern \in {"PrintScreenPressed", "PrintScreenReleased"} /\ byte = \hE0
  \/ byte_count \in 1..5 /\ pattern = "Pause" /\ byte = <<\h1D, \h45, \hE1, \h9D, \hC5>>[byte_count]

\* A byte that some pattern goes on with; any other resets the count.
Towards(byte) ==
  \/ byte_count = 0 /\ byte \in {\hE0, \hE1}
  \/ byte_count = 1 /\ pattern = "TwoBytePrintScreen" /\ byte \in {\h2A, \hB7}
  \/ byte_count = 2 /\ pattern \in {"PrintScreenPressed", "PrintScreenReleased"} /\ byte = \hE0
  \/ byte_count \in 1..4 /\ pattern = "Pause" /\ byte = <<\h1D, \h45, \hE1, \h9D>>[byte_count]

NarrowedPattern(byte) ==
  CASE byte_count = 0 /\ byte = \hE0 -> "TwoBytePrintScreen"
    [] byte_count = 0 /\ byte = \hE1 -> "Pause"
    [] byte_count = 1 /\ pattern = "TwoBytePrintScreen" /\ byte = \h2A -> "PrintScreenPressed"
    [] byte_count = 1 /\ pattern = "TwoBytePrintScreen" /\ byte = \hB7 -> "PrintScreenReleased"
    [] OTHER -> pattern

\* Modifiers.update()
Updated(event) ==
  IF event.unshifted_key \notin ModifierKey THEN keyboard_modifiers
  ELSE IF event.kind = "Pressed" THEN keyboard_modifiers \cup {event.unshifted_key}
  ELSE keyboard_modifiers \ {event.unshifted_key}

\* quick_debug() is called, and the key goes no further.
IsDebug(event) ==
  /\ event.kind = "Pressed" /\ event.key = "D"
  /\ event.modifiers \cap {"LeftAlt", "RightAlt"} # {}
  /\ event.modifiers \cap {"LeftControl", "RightControl"} # {}

\* keyboard_event_occurred(), which waits for its byte.  The threads it wakes are in Threading.
KeyboardEventOccurred ==
  /\ initialized /\ handler = "keyboard" /\ ReadData /\ handler' = "none"
  /\ LET byte == output.byte
         event == Reached(byte)
     IN /\ byte_count' = IF Towards(byte) THEN byte_count + 1 ELSE 0
        /\ pattern' = NarrowedPattern(byte)
        /\ keyboard_modifiers' = IF event = NULL THEN keyboard_modifiers ELSE Updated(event)
        /\ keyboard_buffer' = IF event = NULL \/ IsDebug(event) THEN keyboard_buffer
                              ELSE Push(keyboard_buffer, event)
  /\ UNCHANGED <<irqs, data, initialized, mouse_buffer>>

GetKey ==
  /\ handler = "none" /\ keyboard_buffer.len # 0
  /\ keyboard_buffer' = Pop(keyboard_buffer)
  /\ UNCHANGED <<userVars, wireVars, output, irqs, handler, data, initialized, recogniser, mouse_buffer>>

-----------------------------------------------------------------------------
(* The mouse *)

Bit(byte, n) == (byte \div 2^n) % 2

\* to_mouse_event(): nine bits, the sign among the flags.
MouseEvent(bytes) ==
  [lmb_pressed |-> Bit(bytes[1], 0), rmb_pressed |-> Bit(bytes[1], 1), mmb_pressed |-> Bit(bytes[1], 2),
   x |-> [value |-> bytes[2], less256 |-> Bit(bytes[1], 4)],
   y |-> [value |-> bytes[3], less256 |-> Bit(bytes[1], 5)]]

\* mouse_event_occurred() polls for three bytes.  The interrupts of those it did not
\* wait for may be gone with them or not.
MouseEventOccurred ==
  /\ initialized /\ handler = "mouse" /\ ReadData
  /\ irqs' \in {irqs, irqs \ {12}}
  /\ LET bytes == Append(data, output.byte)
     IN IF Len(bytes) < 3
        THEN data' = bytes /\ UNCHANGED <<handler, mouse_buffer>>
        ELSE /\ data' = <<>> /\ handler' = "none"
             /\ mouse_buffer' = Push(mouse_buffer, MouseEvent(bytes))
  /\ UNCHANGED <<initialized, recogniser, keyboard_buffer>>

\* Mutant: the bytes that are missing are left at zero.
MouseReportsAnyway ==
  /\ initialized /\ handler = "mouse" /\ output = NULL
  /\ handler' = "none" /\ data' = <<>>
  /\ mouse_buffer' = Push(mouse_buffer, MouseEvent(data \o <<0, 0, 0>>))
  /\ UNCHANGED <<userVars, wireVars, output, irqs, initialized, recogniser, keyboard_buffer>>

\* The limit on polling passes before the next byte, whatever the mouse is still going to
\* send.  The bytes read are lost, and those that come will be the first of a report.
MouseGivesUp ==
  /\ initialized /\ handler = "mouse" /\ output = NULL
  /\ handler' = "none" /\ data' = <<>>
  /\ UNCHANGED <<userVars, wireVars, output, irqs, initialized, recogniser, keyboard_buffer, mouse_buffer>>

GetMouseEvent ==
  /\ handler = "none" /\ mouse_buffer.len # 0
  /\ mouse_buffer' = Pop(mouse_buffer)
  /\ UNCHANGED <<userVars, wireVars, output, irqs, handler, data, initialized, recogniser, keyboard_buffer>>

\* A byte of a report, in whatever place it is taken for.
MouseByte == UNION {{p[1], p[2], p[3]} : p \in Packet}

\* What programs are told.
KeyEvent ==
  [unshifted_key : Key, kind : {"Pressed", "Released", "Hit"}, modifiers : SUBSET ModifierKey,
   key : Key]

ASSUME EventAssumption ==
  /\ KeyEvent \cup {NULL} \subseteq Value
  /\ \A a, b, c \in MouseByte : MouseEvent(<<a, b, c>>) \in Value
  /\ NULL \notin KeyEvent /\ NULL \notin Stroke

-----------------------------------------------------------------------------
Kernel ==
  \/ Initialize \/ ReturnEarly
  \/ StartHandler(1, "keyboard") \/ KeyboardEventOccurred
  \/ StartHandler(12, "mouse") \/ MouseEventOccurred \/ MouseGivesUp

Devices == KeyboardSends \/ MouseSends

Next ==
  \/ \E s \in Stroke : Type(s)
  \/ \E p \in Packet : Move(p)
  \/ Devices
  \/ Kernel
  \/ GetKey \/ GetMouseEvent

Spec == Init /\ [][Next]_vars /\ WF_vars(Devices) /\ WF_vars(Kernel)

-----------------------------------------------------------------------------
TypeOK ==
  /\ keyboard_buffer \in Ring /\ mouse_buffer \in Ring
  /\ byte_count \in 0..5
  /\ pattern \in {"TwoBytePrintScreen", "PrintScreenPressed", "PrintScreenReleased", "Pause"}
  /\ keyboard_modifiers \subseteq ModifierKey
  /\ irqs \subseteq {1, 12} /\ handler \in {"none", "keyboard", "mouse"}

Shifted ==
  [key \in {one_byte[b].key : b \in {c \in DOMAIN one_byte : one_byte[c].shifted_key # NULL}} |->
     one_byte[CHOOSE b \in DOMAIN one_byte : one_byte[b].key = key].shifted_key]

Keys == INSTANCE KeyboardStream
  WITH ShiftKey <- {"LeftShift", "RightShift"}, Room <- MaxLen, keys <- Queue(keyboard_buffer)

\* The driver delivers what is typed: from one byte at a time, whose meaning depends on
\* those before, and a ring of slots, programs get each stroke once, in order, with the
\* modifiers that were held.
DeliversKeys == Keys!Spec

\* Between two strokes the recogniser is at its beginning and knows the modifiers.
RecogniserInStep ==
  /\ TypeOK
  /\ stroke = NULL => byte_count = 0 /\ keyboard_modifiers = down \cap ModifierKey

\* The bytes that the mouse has sent or will send and nobody has read.
Unread == Len(mouse_wire) + IF output # NULL /\ output.from = 12 THEN 1 ELSE 0

\* The handler takes the next byte for the place that it has in its report.
InReport == Len(data) + Unread \in {0, 3, 6}

\* No event is put together from bytes of two reports, or from a part of one, except
\* between giving up in the middle of a report that is still coming and the next rest of
\* the mouse.
MousePacketsAreWhole ==
  [][/\ InReport =>
          /\ mouse_buffer'.len > mouse_buffer.len =>
               Queue(mouse_buffer')[mouse_buffer'.len] \in {MouseEvent(p) : p \in Packet}
          /\ InReport' \/ (Len(data) \in 1..2 /\ Unread # 0 /\ data' = <<>> /\ handler' = "none")
     /\ MouseIdle' => InReport']_vars

\* Every interrupt handler returns: none waits, with interrupts disabled, for a byte that
\* another has taken or that is not on its way.
HandlersReturn == handler # "none" ~> handler = "none"
=============================================================================
