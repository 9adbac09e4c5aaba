------------------------------ MODULE PS2Proofs ------------------------------
(***************************************************************************)
(* The driver of the keyboard and the mouse, for any scan code tables that *)
(* keep apart what the patterns tell apart, any keys typed and any reports *)
(* of the mouse, while the two are not used at the same time; and, first,  *)
(* that a circular buffer of any size and of either kind is a bounded      *)
(* queue.                                                                  *)
(***************************************************************************)
EXTENDS PS2, SequenceTheorems, TLAPS

-----------------------------------------------------------------------------
(* The circular buffer *)

\* One turn of the ring at most: the remainder is a subtraction.
LEMMA Wrap ==
  ASSUME NEW n \in 0..(2 * MaxLen - 1)
  PROVE  n % MaxLen = IF n < MaxLen THEN n ELSE n - MaxLen
  BY CircularBufferAssumption

\* Different offsets are different slots.
LEMMA WrapIsInjective ==
  ASSUME NEW start \in 0..(MaxLen - 1), NEW i \in 0..(MaxLen - 1), NEW j \in 0..(MaxLen - 1)
  PROVE  /\ WrappedOffset(start, i) \in 0..(MaxLen - 1)
         /\ WrappedOffset(start, i) = WrappedOffset(start, j) => i = j
<1>1. start + i \in 0..(2 * MaxLen - 1) /\ start + j \in 0..(2 * MaxLen - 1)
  BY CircularBufferAssumption
<1>2. WrappedOffset(start, i) = IF start + i < MaxLen THEN start + i ELSE start + i - MaxLen
  BY <1>1, Wrap, CircularBufferAssumption DEF WrappedOffset
<1>3. WrappedOffset(start, j) = IF start + j < MaxLen THEN start + j ELSE start + j - MaxLen
  BY <1>1, Wrap, CircularBufferAssumption DEF WrappedOffset
<1>4. QED BY <1>1, <1>2, <1>3, CircularBufferAssumption

\* One slot on: the offset after start is the start of the offset after.
LEMMA WrapShifts ==
  ASSUME NEW start \in 0..(MaxLen - 1), NEW i \in 0..(MaxLen - 1)
  PROVE  /\ WrappedOffset(start, 1) \in 0..(MaxLen - 1)
         /\ WrappedOffset(WrappedOffset(start, 1), i) = (start + 1 + i) % MaxLen
<1>1. start + 1 \in 0..(2 * MaxLen - 1)
  BY CircularBufferAssumption
<1>2. WrappedOffset(start, 1) = IF start + 1 < MaxLen THEN start + 1 ELSE 0
  BY <1>1, Wrap, CircularBufferAssumption DEF WrappedOffset
<1>3. CASE start + 1 < MaxLen
  BY <1>2, <1>3, CircularBufferAssumption DEF WrappedOffset
<1>4. CASE ~(start + 1 < MaxLen)
  <2>1. start = MaxLen - 1 /\ WrappedOffset(start, 1) = 0
    BY <1>2, <1>4, CircularBufferAssumption
  <2>2. start + 1 + i \in 0..(2 * MaxLen - 1) /\ start + 1 + i = MaxLen + i
    BY <2>1, CircularBufferAssumption
  <2>3. (start + 1 + i) % MaxLen = i
    BY <2>2, Wrap, CircularBufferAssumption
  <2>4. i \in 0..(2 * MaxLen - 1) /\ i % MaxLen = i
    BY Wrap, CircularBufferAssumption
  <2>5. QED BY <2>1, <2>3, <2>4, CircularBufferAssumption DEF WrappedOffset
<1>5. QED BY <1>3, <1>4

\* A ring's fields and what its queue is made of.
LEMMA RingFields ==
  ASSUME NEW ring \in Ring
  PROVE  /\ ring.contents \in [0..(MaxLen - 1) -> Value]
         /\ ring.start \in 0..(MaxLen - 1)
         /\ ring.len \in 0..MaxLen
         /\ ring.len \in Nat /\ MaxLen \in Nat \ {0}
         /\ Queue(ring) \in Seq(Value) /\ Len(Queue(ring)) = ring.len
         /\ DOMAIN Queue(ring) = 1..ring.len
<1>1. /\ ring.contents \in [0..(MaxLen - 1) -> Value]
      /\ ring.start \in 0..(MaxLen - 1)
      /\ ring.len \in 0..MaxLen
      /\ ring.len \in Nat /\ MaxLen \in Nat \ {0}
  BY CircularBufferAssumption DEF Ring
<1>2. \A i \in 1..ring.len : ring.contents[WrappedOffset(ring.start, i - 1)] \in Value
  <2> SUFFICES ASSUME NEW i \in 1..ring.len
               PROVE  ring.contents[WrappedOffset(ring.start, i - 1)] \in Value
    OBVIOUS
  <2>1. i - 1 \in 0..(MaxLen - 1)
    BY <1>1
  <2>2. QED BY <1>1, <2>1, WrapIsInjective
<1>3. Queue(ring) \in [1..ring.len -> Value]
  BY <1>2 DEF Queue
<1>4. QED BY <1>1, <1>3

\* Writing the slot after the values that stay appends the new value to them.
LEMMA PutAppends ==
  ASSUME NEW ring \in Ring, NEW value \in Value, NEW kept \in Seq(Value),
         ring.len = Len(kept) + 1,
         \A i \in 1..Len(kept) : Queue(ring)[i] = kept[i]
  PROVE  Put(ring, value) \in Ring /\ Queue(Put(ring, value)) = Append(kept, value)
<1> DEFINE slot == WrappedOffset(ring.start, ring.len - 1)
           new == Put(ring, value)
<1>1. /\ ring.contents \in [0..(MaxLen - 1) -> Value]
      /\ ring.start \in 0..(MaxLen - 1)
      /\ ring.len \in 1..MaxLen /\ MaxLen \in Nat \ {0}
      /\ Len(kept) \in Nat /\ DOMAIN kept = 1..Len(kept)
  BY RingFields
<1>2. slot \in 0..(MaxLen - 1)
  <2>1. ring.len - 1 \in 0..(MaxLen - 1)
    BY <1>1
  <2>2. QED BY <1>1, <2>1, WrapIsInjective
<1>3. /\ new.start = ring.start /\ new.len = ring.len
      /\ new.contents = [ring.contents EXCEPT ![slot] = value]
  BY DEF Put, Ring
<1>4. new \in Ring
  BY <1>1, <1>2, <1>3 DEF Put, Ring
<1>5. /\ Queue(new) \in Seq(Value) /\ Len(Queue(new)) = Len(kept) + 1
      /\ DOMAIN Queue(new) = 1..(Len(kept) + 1)
  BY <1>3, <1>4, RingFields
<1>6. ASSUME NEW i \in 1..Len(kept) PROVE Queue(new)[i] = kept[i]
  <2>1. i - 1 \in 0..(MaxLen - 1) /\ ring.len - 1 \in 0..(MaxLen - 1) /\ i - 1 # ring.len - 1
    BY <1>1
  <2>2. WrappedOffset(ring.start, i - 1) \in 0..(MaxLen - 1) /\ WrappedOffset(ring.start, i - 1) # slot
    BY <1>1, <2>1, WrapIsInjective
  <2>3. i \in 1..ring.len
    BY <1>1
  <2>4. Queue(new)[i] = new.contents[WrappedOffset(ring.start, i - 1)]
    BY <1>3, <2>3 DEF Queue
  <2>5. Queue(ring)[i] = ring.contents[WrappedOffset(ring.start, i - 1)]
    BY <2>3 DEF Queue
  <2>6. QED BY <1>1, <1>2, <1>3, <2>2, <2>4, <2>5
<1>7. Queue(new)[Len(kept) + 1] = value
  <2>1. Len(kept) + 1 \in 1..ring.len /\ Len(kept) + 1 - 1 = ring.len - 1
    BY <1>1
  <2>2. Queue(new)[Len(kept) + 1] = new.contents[slot]
    BY <1>3, <2>1 DEF Queue
  <2>3. QED BY <1>1, <1>2, <1>3, <2>2
<1> HIDE DEF new, slot
<1>8. Queue(new) = Append(kept, value)
  <2>1. /\ Append(kept, value) \in Seq(Value) /\ Len(Append(kept, value)) = Len(kept) + 1
        /\ \A i \in 1..Len(kept) : Append(kept, value)[i] = kept[i]
        /\ Append(kept, value)[Len(kept) + 1] = value
    BY <1>1
  <2>2. \A i \in 1..(Len(kept) + 1) : i \in 1..Len(kept) \/ i = Len(kept) + 1
    BY <1>1
  <2>3. \A i \in 1..(Len(kept) + 1) : Queue(new)[i] = Append(kept, value)[i]
    BY <1>6, <1>7, <2>1, <2>2
  <2>4. QED BY <1>5, <2>1, <2>3, SeqEqual
<1>9. QED BY <1>4, <1>8 DEF new

\* The ring that starts one slot later, with one value less to come.
LEMMA ShiftDropsHead ==
  ASSUME NEW ring \in Ring, NEW next \in Ring, NEW i \in 1..(ring.len - 1),
         next.start = WrappedOffset(ring.start, 1), next.contents = ring.contents,
         i \in 1..next.len
  PROVE  Queue(next)[i] = Tail(Queue(ring))[i]
<1>1. /\ ring.start \in 0..(MaxLen - 1) /\ ring.len \in 0..MaxLen /\ MaxLen \in Nat \ {0}
      /\ Queue(ring) \in Seq(Value) /\ Len(Queue(ring)) = ring.len
  BY RingFields
<1>2. i - 1 \in 0..(MaxLen - 1) /\ i + 1 \in 1..ring.len /\ (i + 1) - 1 = i
  BY <1>1
<1>3. WrappedOffset(next.start, i - 1) = (ring.start + 1 + (i - 1)) % MaxLen
  BY <1>1, <1>2, WrapShifts
<1>4. ring.start + 1 + (i - 1) = ring.start + i
  BY <1>1
<1>5. Queue(next)[i] = ring.contents[WrappedOffset(ring.start, i)]
  BY <1>3, <1>4 DEF Queue, WrappedOffset
<1>6. Queue(ring)[i + 1] = ring.contents[WrappedOffset(ring.start, i)]
  BY <1>2 DEF Queue
<1>7. Tail(Queue(ring))[i] = Queue(ring)[i + 1]
  BY <1>1, <1>2
<1>8. QED BY <1>5, <1>6, <1>7

\* push() appends the value to what get() and pop() see.  A full ring drops the value,
\* or the oldest one, as its kind says, and nothing else.
THEOREM PushQueues ==
  ASSUME NEW ring \in Ring, NEW value \in Value
  PROVE  /\ Push(ring, value) \in Ring
         /\ Queue(Push(ring, value)) =
              IF ring.len < MaxLen THEN Append(Queue(ring), value)
              ELSE IF Discard = "DiscardNewest" THEN Queue(ring)
              ELSE Append(Tail(Queue(ring)), value)
<1>1. /\ ring.contents \in [0..(MaxLen - 1) -> Value]
      /\ ring.start \in 0..(MaxLen - 1)
      /\ ring.len \in 0..MaxLen /\ MaxLen \in Nat \ {0}
      /\ Queue(ring) \in Seq(Value) /\ Len(Queue(ring)) = ring.len
  BY RingFields
<1>2. CASE ring.len < MaxLen
  <2> DEFINE longer == [ring EXCEPT !.len = @ + 1]
  <2>1. /\ longer \in Ring /\ longer.len = ring.len + 1
        /\ longer.start = ring.start /\ longer.contents = ring.contents
    <3>1. ring.len + 1 \in 0..MaxLen
      BY <1>1, <1>2
    <3>2. QED BY <3>1 DEF Ring
  <2>2. \A i \in 1..ring.len : Queue(longer)[i] = Queue(ring)[i]
    BY <1>1, <2>1 DEF Queue
  <2>3. Push(ring, value) = Put(longer, value)
    BY <1>2 DEF Push
  <2> HIDE DEF longer
  <2>4. QED BY <1>1, <1>2, <2>1, <2>2, <2>3, PutAppends
<1>3. CASE ~(ring.len < MaxLen) /\ Discard = "DiscardNewest"
  BY <1>3 DEF Push
<1>4. CASE ~(ring.len < MaxLen) /\ Discard # "DiscardNewest"
  <2> DEFINE next == [ring EXCEPT !.start = WrappedOffset(@, 1)]
  <2>1. WrappedOffset(ring.start, 1) \in 0..(MaxLen - 1)
    BY <1>1, WrapShifts
  <2>2. /\ next \in Ring /\ next.len = ring.len
        /\ next.start = WrappedOffset(ring.start, 1) /\ next.contents = ring.contents
    BY <1>1, <2>1 DEF Ring
  <2>3. Push(ring, value) = Put(next, value)
    BY <1>4 DEF Push
  <2> HIDE DEF next
  <2>4. ring.len = MaxLen
    BY <1>1, <1>4
  <2>5. /\ Tail(Queue(ring)) \in Seq(Value) /\ Len(Tail(Queue(ring))) = ring.len - 1
    BY <1>1, <2>4
  <2>6. \A i \in 1..(ring.len - 1) : i \in 1..next.len
    BY <1>1, <2>2
  <2>7. \A i \in 1..Len(Tail(Queue(ring))) : Queue(next)[i] = Tail(Queue(ring))[i]
    BY <2>2, <2>5, <2>6, ShiftDropsHead
  <2>8. next.len = Len(Tail(Queue(ring))) + 1
    BY <1>1, <2>2, <2>5
  <2>9. QED BY <1>4, <2>2, <2>3, <2>5, <2>7, <2>8, PutAppends
<1>5. QED BY <1>2, <1>3, <1>4

\* pop() returns the oldest value and leaves the others in their order.
THEOREM PopDequeues ==
  ASSUME NEW ring \in Ring, ring.len # 0
  PROVE  /\ Pop(ring) \in Ring
         /\ Popped(ring) = Head(Queue(ring))
         /\ Queue(Pop(ring)) = Tail(Queue(ring))
<1>1. /\ ring.contents \in [0..(MaxLen - 1) -> Value]
      /\ ring.start \in 0..(MaxLen - 1)
      /\ ring.len \in 1..MaxLen /\ MaxLen \in Nat \ {0}
      /\ Queue(ring) \in Seq(Value) /\ Len(Queue(ring)) = ring.len
  BY RingFields
<1>2. WrappedOffset(ring.start, 1) \in 0..(MaxLen - 1)
  BY <1>1, WrapShifts
<1>3. /\ Pop(ring) \in Ring /\ Pop(ring).len = ring.len - 1
      /\ Pop(ring).start = WrappedOffset(ring.start, 1) /\ Pop(ring).contents = ring.contents
  <2>1. ring.len - 1 \in 0..MaxLen
    BY <1>1
  <2>2. QED BY <1>2, <2>1 DEF Ring, Pop
<1>4. Popped(ring) = Head(Queue(ring))
  <2>1. ring.start \in 0..(2 * MaxLen - 1) /\ ring.start % MaxLen = ring.start
    <3>1. ring.start \in 0..(2 * MaxLen - 1) /\ ring.start < MaxLen
      BY <1>1
    <3>2. QED BY <3>1, Wrap
  <2>2. WrappedOffset(ring.start, 0) = ring.start
    BY <1>1, <2>1 DEF WrappedOffset
  <2>3. 1 \in 1..ring.len /\ 1 - 1 = 0
    BY <1>1
  <2>4. Queue(ring)[1] = ring.contents[ring.start]
    BY <2>2, <2>3 DEF Queue
  <2>5. QED BY <1>1, <2>4 DEF Popped
<1>5. Queue(Pop(ring)) = Tail(Queue(ring))
  <2>1. /\ Tail(Queue(ring)) \in Seq(Value) /\ Len(Tail(Queue(ring))) = ring.len - 1
    BY <1>1
  <2>2. Queue(Pop(ring)) \in Seq(Value) /\ Len(Queue(Pop(ring))) = ring.len - 1
    BY <1>3, RingFields
  <2>3. \A i \in 1..(ring.len - 1) : Queue(Pop(ring))[i] = Tail(Queue(ring))[i]
    BY <1>3, ShiftDropsHead
  <2>4. QED BY <2>1, <2>2, <2>3, SeqEqual
<1>6. QED BY <1>3, <1>4, <1>5

-----------------------------------------------------------------------------
(* The invariant of the driver *)

OneAtATime == SameTime = FALSE

\* The controller holds a byte of this device.
Holds(irq) == output # NULL /\ output.from = irq

\* What any byte, stroke and report is.
Typed ==
  /\ TypeOK
  /\ stroke \in Stroke \cup {NULL}
  /\ keyboard_wire \in Seq(Byte) /\ mouse_wire \in Seq(Byte) /\ data \in Seq(Byte)
  /\ output \in [from : {1, 12}, byte : Byte] \cup {NULL}

\* One of the devices is at rest, and so is its handler.
OneRests == KeyboardIdle \/ MouseIdle

\* Where the recogniser is after n bytes of a stroke.
Fits(s, n, where) ==
  n # 0 => where = IF s.key = "Pause" THEN "Pause"
                   ELSE IF s.key = "PrintScreen" /\ n > 1
                   THEN (IF s.kind = "Pressed" THEN "PrintScreenPressed" ELSE "PrintScreenReleased")
                   ELSE "TwoBytePrintScreen"

\* What of the stroke the handler has not read is held by the controller and on the wire.
StrokeArrives ==
  LET code == Code(stroke)
      sent == IF Holds(1) THEN byte_count + 1 ELSE byte_count
  IN /\ byte_count < Len(code)
     /\ Fits(stroke, byte_count, pattern)
     /\ Holds(1) => output.byte = code[byte_count + 1]
     /\ Len(keyboard_wire) + sent = Len(code)
     /\ \A i \in 1..Len(keyboard_wire) : keyboard_wire[i] = code[sent + i]

KeyboardInStep ==
  /\ stroke = NULL => keyboard_wire = <<>> /\ ~Holds(1) /\ byte_count = 0
  /\ stroke # NULL => StrokeArrives
  /\ keyboard_modifiers = down \cap ModifierKey

\* The bytes read so far, the controller's and those on the wire are those of a report, or
\* the last report has been sent and the next may be on the wire.
Report(p, got, sent) ==
  /\ \A i \in 1..got : data[i] = p[i]
  /\ Holds(12) => output.byte = p[got + 1]
  /\ \A i \in 1..(3 - sent) : mouse_wire[i] = p[sent + i]

\* The handler has less than a report, a whole report on the wire is one, and every byte is
\* of some report.
MouseBytes ==
  /\ Len(data) \in 0..2
  /\ Len(data) # 0 => handler = "mouse" /\ initialized
  /\ Len(mouse_wire) \in 0..3
  /\ Len(mouse_wire) = 3 => mouse_wire \in Packet
  /\ \A i \in 1..Len(data) : data[i] \in MouseByte
  /\ \A i \in 1..Len(mouse_wire) : mouse_wire[i] \in MouseByte
  /\ Holds(12) => output.byte \in MouseByte

MouseInStep ==
  LET got == Len(data)
      sent == IF Holds(12) THEN got + 1 ELSE got
  IN InReport => sent = 0 \/ \E p \in Packet : Report(p, got, sent)

PS2Inv == Typed /\ OneRests /\ KeyboardInStep /\ MouseBytes /\ MouseInStep

-----------------------------------------------------------------------------
(* The recogniser, byte by byte *)

\* A stroke other than PrintScreen and Pause is one of the tables'.
LEMMA StrokeOfTables ==
  ASSUME NEW s \in Stroke
  PROVE  \/ s = [key |-> "PrintScreen", kind |-> "Pressed"]
         \/ s = [key |-> "PrintScreen", kind |-> "Released"]
         \/ s = [key |-> "Pause", kind |-> "Hit"]
         \/ \E e \in Entries : s = [key |-> e.key, kind |-> e.kind]
BY DEF Stroke, Entries

\* An entry's key has a code of one byte that stands for it, or one of two.
LEMMA CodeOfEntry ==
  ASSUME NEW e \in Entries, NEW s, s = [key |-> e.key, kind |-> e.kind]
  PROVE  \/ \E b \in DOMAIN one_byte :
              one_byte[b].key = s.key /\ one_byte[b].kind = s.kind /\ Code(s) = <<b>>
         \/ \E b \in DOMAIN two_byte :
              two_byte[b].key = s.key /\ two_byte[b].kind = s.kind /\ Code(s) = <<\hE0, b>>
<1> DEFINE sends(table) == {b \in DOMAIN table : table[b].key = s.key /\ table[b].kind = s.kind}
<1>1. s.key \notin {"PrintScreen", "Pause"}
  BY ScanCodeAssumption
<1>2. Code(s) = IF sends(one_byte) # {} THEN <<CHOOSE b \in sends(one_byte) : TRUE>>
                ELSE <<\hE0, CHOOSE b \in sends(two_byte) : TRUE>>
  BY <1>1 DEF Code
<1>3. sends(one_byte) # {} \/ sends(two_byte) # {}
  BY DEF Entries
<1>4. CASE sends(one_byte) # {}
  <2>1. PICK b \in sends(one_byte) : b = CHOOSE c \in sends(one_byte) : TRUE
    BY <1>4
  <2>2. Code(s) = <<b>>
    BY <1>2, <1>4, <2>1
  <2>3. QED BY <2>1, <2>2
<1>5. CASE sends(one_byte) = {}
  <2>1. PICK b \in sends(two_byte) : b = CHOOSE c \in sends(two_byte) : TRUE
    BY <1>3, <1>5
  <2>2. Code(s) = <<\hE0, b>>
    BY <1>2, <1>5, <2>1
  <2>3. QED BY <2>1, <2>2
<1>6. QED BY <1>4, <1>5
\* What Event.new() and the stream mean by the other meaning of a key is the same.
LEMMA ShiftedMeaning ==
  ASSUME NEW e \in Entries
  PROVE  /\ e.key \in DOMAIN Shifted <=> e.shifted_key # NULL
         /\ e.shifted_key # NULL => Shifted[e.key] = e.shifted_key
<1> DEFINE shifting == {c \in DOMAIN one_byte : one_byte[c].shifted_key # NULL}
<1>1. DOMAIN Shifted = {one_byte[b].key : b \in shifting}
  BY DEF Shifted
<1>2. e.key \in DOMAIN Shifted => e.shifted_key # NULL
  <2> SUFFICES ASSUME NEW c \in shifting, e.key = one_byte[c].key PROVE e.shifted_key # NULL
    BY <1>1
  <2>1. one_byte[c] \in Entries
    BY DEF Entries
  <2>2. QED BY <2>1, ScanCodeAssumption
<1>3. ASSUME e.shifted_key # NULL PROVE e.key \in DOMAIN Shifted /\ Shifted[e.key] = e.shifted_key
  <2>1. PICK b \in DOMAIN one_byte : e = one_byte[b]
    BY <1>3, ScanCodeAssumption DEF Entries
  <2>2. e.key \in DOMAIN Shifted
    BY <1>1, <1>3, <2>1
  <2>3. PICK c \in DOMAIN one_byte :
          one_byte[c].key = e.key /\ c = CHOOSE d \in DOMAIN one_byte : one_byte[d].key = e.key
    BY <2>1
  <2>4. one_byte[c] \in Entries
    BY DEF Entries
  <2>5. one_byte[c].shifted_key = e.shifted_key
    BY <2>3, <2>4, ScanCodeAssumption
  <2>6. Shifted[e.key] = one_byte[c].shifted_key
    BY <1>1, <2>2, <2>3 DEF Shifted
  <2>7. QED BY <2>2, <2>5, <2>6
<1>4. QED BY <1>2, <1>3

\* An event of the driver is the one of the stream, if it knows the modifiers.
LEMMA EventOfEntry ==
  ASSUME NEW e \in Entries, NEW s, s = [key |-> e.key, kind |-> e.kind],
         keyboard_modifiers = down \cap ModifierKey
  PROVE  Event(e.key, e.shifted_key, e.kind) = Keys!EventOf(s)
<1>1. Pressed({"LeftShift", "RightShift"}) <=> down \cap {"LeftShift", "RightShift"} # {}
  BY DEF Pressed, ModifierKey
<1>2. (IF e.shifted_key # NULL /\ Pressed({"LeftShift", "RightShift"}) THEN e.shifted_key ELSE e.key)
      = (IF s.key \in DOMAIN Shifted /\ down \cap {"LeftShift", "RightShift"} # {}
         THEN Shifted[s.key] ELSE s.key)
  BY <1>1, ShiftedMeaning
<1>3. QED BY <1>2 DEF Event, Keys!EventOf

\* PrintScreen and Pause have no other meaning.
LEMMA EventOfSpecial ==
  ASSUME NEW s, s.key \in {"PrintScreen", "Pause"}, keyboard_modifiers = down \cap ModifierKey
  PROVE  Event(s.key, NULL, s.kind) = Keys!EventOf(s)
<1>1. s.key \notin DOMAIN Shifted
  <2> SUFFICES ASSUME NEW b \in DOMAIN one_byte, one_byte[b].key = s.key PROVE FALSE
    BY DEF Shifted
  <2>1. one_byte[b] \in Entries
    BY DEF Entries
  <2>2. QED BY <2>1, ScanCodeAssumption
<1>2. QED BY <1>1 DEF Event, Keys!EventOf

\* A byte before the last of a stroke completes nothing and narrows the pattern.
LEMMA MiddleByte ==
  ASSUME NEW s \in Stroke, byte_count \in Nat, byte_count + 1 < Len(Code(s)),
         Fits(s, byte_count, pattern), NEW byte, byte = Code(s)[byte_count + 1]
  PROVE  /\ Reached(byte) = NULL
         /\ Towards(byte)
         /\ Fits(s, byte_count + 1, NarrowedPattern(byte))
<1>1. CASE s = [key |-> "PrintScreen", kind |-> "Pressed"]
  <2>1. Code(s) = <<\hE0, \h2A, \hE0, \h37>>
    BY <1>1 DEF Code
  <2>2. byte_count \in 0..2
    BY <2>1
  <2>3. CASE byte_count = 0
    BY <1>1, <2>1, <2>3 DEF Reached, Towards, NarrowedPattern, Fits
  <2>4. CASE byte_count = 1
    BY <1>1, <2>1, <2>4 DEF Reached, Towards, NarrowedPattern, Fits
  <2>5. CASE byte_count = 2
    BY <1>1, <2>1, <2>5 DEF Reached, Towards, NarrowedPattern, Fits
  <2>6. QED BY <2>2, <2>3, <2>4, <2>5
<1>2. CASE s = [key |-> "PrintScreen", kind |-> "Released"]
  <2>1. Code(s) = <<\hE0, \hB7, \hE0, \hAA>>
    BY <1>2 DEF Code
  <2>2. byte_count \in 0..2
    BY <2>1
  <2>3. CASE byte_count = 0
    BY <1>2, <2>1, <2>3 DEF Reached, Towards, NarrowedPattern, Fits
  <2>4. CASE byte_count = 1
    BY <1>2, <2>1, <2>4 DEF Reached, Towards, NarrowedPattern, Fits
  <2>5. CASE byte_count = 2
    BY <1>2, <2>1, <2>5 DEF Reached, Towards, NarrowedPattern, Fits
  <2>6. QED BY <2>2, <2>3, <2>4, <2>5
<1>3. CASE s = [key |-> "Pause", kind |-> "Hit"]
  <2>1. Code(s) = <<\hE1, \h1D, \h45, \hE1, \h9D, \hC5>>
    BY <1>3 DEF Code
  <2>2. byte_count \in 0..4
    BY <2>1
  <2>3. CASE byte_count = 0
    BY <1>3, <2>1, <2>3 DEF Reached, Towards, NarrowedPattern, Fits
  <2>4. CASE byte_count = 1
    BY <1>3, <2>1, <2>4 DEF Reached, Towards, NarrowedPattern, Fits
  <2>5. CASE byte_count \in 2..4
    BY <1>3, <2>1, <2>5 DEF Reached, Towards, NarrowedPattern, Fits
  <2>6. QED BY <2>2, <2>3, <2>4, <2>5
<1>4. ASSUME NEW e \in Entries, s = [key |-> e.key, kind |-> e.kind]
      PROVE  /\ Reached(byte) = NULL
             /\ Towards(byte)
             /\ Fits(s, byte_count + 1, NarrowedPattern(byte))
  <2>1. byte_count + 1 < Len(Code(s)) => byte_count = 0 /\ byte = \hE0
    <3>1. CASE \E b \in DOMAIN one_byte :
                 one_byte[b].key = s.key /\ one_byte[b].kind = s.kind /\ Code(s) = <<b>>
      BY <3>1
    <3>2. CASE \E b \in DOMAIN two_byte :
                 two_byte[b].key = s.key /\ two_byte[b].kind = s.kind /\ Code(s) = <<\hE0, b>>
      BY <3>2
    <3>3. QED BY <1>4, <3>1, <3>2, CodeOfEntry
  <2>2. byte_count = 0 /\ byte = \hE0
    BY <2>1
  <2>3. s.key \notin {"PrintScreen", "Pause"}
    BY <1>4, ScanCodeAssumption
  <2>4. QED BY <2>2, <2>3 DEF Reached, Towards, NarrowedPattern, Fits
<1>5. QED BY <1>1, <1>2, <1>3, <1>4, StrokeOfTables

\* The last byte of a stroke leaves the recogniser at its beginning, with the stroke's event.
LEMMA LastByte ==
  ASSUME NEW s \in Stroke, byte_count \in Nat, byte_count + 1 = Len(Code(s)),
         Fits(s, byte_count, pattern), NEW byte, byte = Code(s)[byte_count + 1],
         keyboard_modifiers = down \cap ModifierKey
  PROVE  ~Towards(byte) /\ Reached(byte) = Keys!EventOf(s)
<1>1. CASE s = [key |-> "PrintScreen", kind |-> "Pressed"]
  <2>1. Code(s) = <<\hE0, \h2A, \hE0, \h37>>
    BY <1>1 DEF Code
  <2>2. byte_count = 3 /\ byte = \h37 /\ pattern = "PrintScreenPressed"
    <3>1. byte_count = 3 /\ byte = \h37
      BY <2>1
    <3>2. pattern = "PrintScreenPressed"
      BY <1>1, <3>1 DEF Fits
    <3>3. QED BY <3>1, <3>2
  <2>3. Reached(byte) = Event(s.key, NULL, s.kind)
    BY <1>1, <2>2 DEF Reached
  <2>4. QED BY <1>1, <2>2, <2>3, EventOfSpecial DEF Towards
<1>2. CASE s = [key |-> "PrintScreen", kind |-> "Released"]
  <2>1. Code(s) = <<\hE0, \hB7, \hE0, \hAA>>
    BY <1>2 DEF Code
  <2>2. byte_count = 3 /\ byte = \hAA /\ pattern = "PrintScreenReleased"
    <3>1. byte_count = 3 /\ byte = \hAA
      BY <2>1
    <3>2. pattern = "PrintScreenReleased"
      BY <1>2, <3>1 DEF Fits
    <3>3. QED BY <3>1, <3>2
  <2>3. Reached(byte) = Event(s.key, NULL, s.kind)
    BY <1>2, <2>2 DEF Reached
  <2>4. QED BY <1>2, <2>2, <2>3, EventOfSpecial DEF Towards
<1>3. CASE s = [key |-> "Pause", kind |-> "Hit"]
  <2>1. Code(s) = <<\hE1, \h1D, \h45, \hE1, \h9D, \hC5>>
    BY <1>3 DEF Code
  <2>2. byte_count = 5 /\ byte = \hC5 /\ pattern = "Pause"
    <3>1. byte_count = 5 /\ byte = \hC5
      BY <2>1
    <3>2. pattern = "Pause"
      BY <1>3, <3>1 DEF Fits
    <3>3. QED BY <3>1, <3>2
  <2>3. Reached(byte) = Event(s.key, NULL, s.kind)
    BY <1>3, <2>2 DEF Reached
  <2>4. QED BY <1>3, <2>2, <2>3, EventOfSpecial DEF Towards
<1>4. ASSUME NEW e \in Entries, s = [key |-> e.key, kind |-> e.kind]
      PROVE  ~Towards(byte) /\ Reached(byte) = Keys!EventOf(s)
  <2>1. s.key \notin {"PrintScreen", "Pause"}
    BY <1>4, ScanCodeAssumption
  <2>2. CASE \E b \in DOMAIN one_byte :
               one_byte[b].key = s.key /\ one_byte[b].kind = s.kind /\ Code(s) = <<b>>
    <3>1. PICK b \in DOMAIN one_byte :
            one_byte[b].key = s.key /\ one_byte[b].kind = s.kind /\ Code(s) = <<b>>
      BY <2>2
    <3>2. byte_count = 0 /\ byte = b /\ b \notin {\hE0, \hE1}
      BY <3>1, ScanCodeAssumption
    <3>3. Reached(byte) = Event(one_byte[b].key, one_byte[b].shifted_key, one_byte[b].kind)
      BY <3>1, <3>2 DEF Reached, EntryEvent
    <3>4. one_byte[b] \in Entries /\ s = [key |-> one_byte[b].key, kind |-> one_byte[b].kind]
      BY <1>4, <3>1 DEF Entries
    <3>5. QED BY <3>2, <3>3, <3>4, EventOfEntry DEF Towards
  <2>3. CASE \E b \in DOMAIN two_byte :
               two_byte[b].key = s.key /\ two_byte[b].kind = s.kind /\ Code(s) = <<\hE0, b>>
    <3>1. PICK b \in DOMAIN two_byte :
            two_byte[b].key = s.key /\ two_byte[b].kind = s.kind /\ Code(s) = <<\hE0, b>>
      BY <2>3
    <3>2. byte_count = 1 /\ byte = b /\ b \notin {\h2A, \hB7} /\ pattern = "TwoBytePrintScreen"
      BY <2>1, <3>1, ScanCodeAssumption DEF Fits
    <3>3. Reached(byte) = Event(two_byte[b].key, two_byte[b].shifted_key, two_byte[b].kind)
      BY <3>1, <3>2 DEF Reached, EntryEvent
    <3>4. two_byte[b] \in Entries /\ s = [key |-> two_byte[b].key, kind |-> two_byte[b].kind]
      BY <1>4, <3>1 DEF Entries
    <3>5. QED BY <3>2, <3>3, <3>4, EventOfEntry DEF Towards
  <2>4. QED BY <1>4, <2>2, <2>3, CodeOfEntry
<1>5. QED BY <1>1, <1>2, <1>3, <1>4, StrokeOfTables
\* A stroke has one to six bytes.
LEMMA CodeIsBytes ==
  ASSUME NEW s \in Stroke
  PROVE  Code(s) \in Seq(Byte) /\ Len(Code(s)) \in 1..6
<1>1. CASE s = [key |-> "PrintScreen", kind |-> "Pressed"]
  <2>1. Code(s) = <<\hE0, \h2A, \hE0, \h37>>
    BY <1>1 DEF Code
  <2>2. QED BY <2>1 DEF Byte
<1>2. CASE s = [key |-> "PrintScreen", kind |-> "Released"]
  <2>1. Code(s) = <<\hE0, \hB7, \hE0, \hAA>>
    BY <1>2 DEF Code
  <2>2. QED BY <2>1 DEF Byte
<1>3. CASE s = [key |-> "Pause", kind |-> "Hit"]
  <2>1. Code(s) = <<\hE1, \h1D, \h45, \hE1, \h9D, \hC5>>
    BY <1>3 DEF Code
  <2>2. QED BY <2>1 DEF Byte
<1>4. ASSUME NEW e \in Entries, s = [key |-> e.key, kind |-> e.kind]
      PROVE  Code(s) \in Seq(Byte) /\ Len(Code(s)) \in 1..6
  <2>1. CASE \E b \in DOMAIN one_byte :
               one_byte[b].key = s.key /\ one_byte[b].kind = s.kind /\ Code(s) = <<b>>
    BY <2>1, ScanCodeAssumption
  <2>2. CASE \E b \in DOMAIN two_byte :
               two_byte[b].key = s.key /\ two_byte[b].kind = s.kind /\ Code(s) = <<\hE0, b>>
    BY <2>2, ScanCodeAssumption DEF Byte
  <2>3. QED BY <1>4, <2>1, <2>2, CodeOfEntry
<1>5. QED BY <1>1, <1>2, <1>3, <1>4, StrokeOfTables

\* What programs are told of a stroke is an event, whatever keys are held.
LEMMA EventOfStroke ==
  ASSUME NEW s \in Stroke
  PROVE  Keys!EventOf(s) \in KeyEvent
<1>1. /\ s.key \in Key /\ s.kind \in {"Pressed", "Released", "Hit"}
      /\ s.key \in DOMAIN Shifted => Shifted[s.key] \in Key
  <2>1. CASE s.key \in {"PrintScreen", "Pause"}
    <3>1. s.key \notin DOMAIN Shifted
      <4> SUFFICES ASSUME NEW b \in DOMAIN one_byte, one_byte[b].key = s.key PROVE FALSE
        BY DEF Shifted
      <4>1. one_byte[b] \in Entries
        BY DEF Entries
      <4>2. QED BY <2>1, <4>1, ScanCodeAssumption
    <3>2. s.kind \in {"Pressed", "Released", "Hit"}
      BY StrokeOfTables, ScanCodeAssumption
    <3>3. QED BY <2>1, <3>1, <3>2 DEF Key
  <2>2. ASSUME NEW e \in Entries, s = [key |-> e.key, kind |-> e.kind]
        PROVE  /\ s.key \in Key /\ s.kind \in {"Pressed", "Released", "Hit"}
               /\ s.key \in DOMAIN Shifted => Shifted[s.key] \in Key
    BY <2>2, ShiftedMeaning, ScanCodeAssumption DEF Key
  <2>3. QED BY <2>1, <2>2, StrokeOfTables
<1>2. down \cap ModifierKey \in SUBSET ModifierKey
  OBVIOUS
<1>3. QED BY <1>1, <1>2 DEF KeyEvent, Keys!EventOf

\* The modifiers that the driver knows are those held when the stroke has been read.
LEMMA ModifiersFollow ==
  ASSUME NEW s \in Stroke, keyboard_modifiers = down \cap ModifierKey
  PROVE  Updated(Keys!EventOf(s))
           = (CASE s.kind = "Pressed" -> down \cup {s.key}
                [] s.kind = "Released" -> down \ {s.key}
                [] OTHER -> down) \cap ModifierKey
<1>1. Keys!EventOf(s).unshifted_key = s.key /\ Keys!EventOf(s).kind = s.kind
  BY DEF Keys!EventOf
<1>2. s.kind = "Pressed" \/ s.kind = "Released" \/ s.key = "Pause"
  BY StrokeOfTables, ScanCodeAssumption
<1>3. CASE s.key \notin ModifierKey
  BY <1>1, <1>3 DEF Updated
<1>4. CASE s.key \in ModifierKey
  <2>1. s.kind = "Pressed" \/ s.kind = "Released"
    BY <1>2, <1>4 DEF ModifierKey
  <2>2. QED BY <1>1, <1>4, <2>1 DEF Updated
<1>5. QED BY <1>3, <1>4

-----------------------------------------------------------------------------
(* The steps *)

\* A stroke ends with its last byte, and with it the driver knows the modifiers and has
\* the event; a byte before it changes nothing that programs see.
LEMMA ByteRead ==
  ASSUME Typed, KeyboardInStep, Holds(1), KeyboardEventOccurred
  PROVE  /\ stroke \in Stroke
         /\ keyboard_wire # <<>> =>
              /\ UNCHANGED <<stroke, down, keyboard_modifiers, keyboard_buffer, keyboard_wire>>
              /\ byte_count' = byte_count + 1
              /\ Fits(stroke, byte_count + 1, pattern')
         /\ keyboard_wire = <<>> =>
              /\ stroke' = NULL /\ byte_count' = 0
              /\ down' = CASE stroke.kind = "Pressed" -> down \cup {stroke.key}
                           [] stroke.kind = "Released" -> down \ {stroke.key}
                           [] OTHER -> down
              /\ keyboard_modifiers' = down' \cap ModifierKey
              /\ keyboard_buffer' = IF IsDebug(Keys!EventOf(stroke)) THEN keyboard_buffer
                                    ELSE Push(keyboard_buffer, Keys!EventOf(stroke))
<1> DEFINE code == Code(stroke)
           byte == output.byte
<1>1. stroke \in Stroke /\ StrokeArrives
  BY DEF Typed, KeyboardInStep
<1>2. /\ byte_count \in Nat /\ keyboard_wire \in Seq(Byte) /\ code \in Seq(Byte)
      /\ keyboard_modifiers = down \cap ModifierKey
  BY <1>1, CodeIsBytes DEF Typed, TypeOK, KeyboardInStep
<1>3. /\ Fits(stroke, byte_count, pattern) /\ byte = code[byte_count + 1]
      /\ Len(keyboard_wire) + byte_count + 1 = Len(code)
  BY <1>1, <1>2 DEF StrokeArrives
<1>4. /\ output # NULL /\ output.from = 1
      /\ byte_count' = IF Towards(byte) THEN byte_count + 1 ELSE 0
      /\ pattern' = NarrowedPattern(byte)
      /\ keyboard_modifiers' = IF Reached(byte) = NULL THEN keyboard_modifiers ELSE Updated(Reached(byte))
      /\ keyboard_buffer' = IF Reached(byte) = NULL \/ IsDebug(Reached(byte)) THEN keyboard_buffer
                            ELSE Push(keyboard_buffer, Reached(byte))
  BY DEF Holds, KeyboardEventOccurred
<1>5. /\ IF keyboard_wire = <<>>
         THEN /\ stroke' = NULL
              /\ down' = CASE stroke.kind = "Pressed" -> down \cup {stroke.key}
                           [] stroke.kind = "Released" -> down \ {stroke.key}
                           [] OTHER -> down
         ELSE UNCHANGED <<stroke, down>>
      /\ keyboard_wire' = keyboard_wire
  BY <1>4 DEF KeyboardEventOccurred, ReadData, wireVars
<1> HIDE DEF code, byte
<1>6. CASE keyboard_wire # <<>>
  <2>1. byte_count + 1 < Len(code)
    BY <1>2, <1>3, <1>6, EmptySeq
  <2>2. Reached(byte) = NULL /\ Towards(byte) /\ Fits(stroke, byte_count + 1, NarrowedPattern(byte))
    BY <1>1, <1>2, <1>3, <2>1, MiddleByte DEF code, byte
  <2>3. QED BY <1>1, <1>4, <1>5, <1>6, <2>2
<1>7. CASE keyboard_wire = <<>>
  <2>1. byte_count + 1 = Len(code)
    BY <1>2, <1>3, <1>7
  <2>2. ~Towards(byte) /\ Reached(byte) = Keys!EventOf(stroke)
    BY <1>1, <1>2, <1>3, <2>1, LastByte DEF code, byte
  <2>3. Reached(byte) # NULL
    BY <1>1, <2>2, EventOfStroke, EventAssumption
  <2>4. keyboard_modifiers' = Updated(Keys!EventOf(stroke))
    BY <1>4, <2>2, <2>3
  <2>5. keyboard_modifiers' = down' \cap ModifierKey
    BY <1>1, <1>2, <1>5, <1>7, <2>4, ModifiersFollow
  <2>6. QED BY <1>1, <1>4, <1>5, <1>7, <2>2, <2>3, <2>5
<1>8. QED BY <1>6, <1>7
\* The interrupt and the handler of the device that rests are not touched, and of the two
\* only one is at work.
LEMMA OneRestsStep ==
  ASSUME OneAtATime, PS2Inv, Next
  PROVE  OneRests'
<1> USE DEF OneRests, KeyboardIdle, MouseIdle
<1>1. ASSUME NEW s \in Stroke, Type(s) PROVE OneRests'
  BY <1>1, PS2Assumption DEF OneAtATime, Type
<1>2. ASSUME NEW p \in Packet, Move(p) PROVE OneRests'
  BY <1>2, PS2Assumption DEF OneAtATime, Move
<1>3. CASE KeyboardSends
  <2>1. stroke # NULL
    BY <1>3 DEF PS2Inv, KeyboardInStep, KeyboardSends
  <2>2. QED BY <1>3, <2>1 DEF PS2Inv, KeyboardSends, Send
<1>4. CASE MouseSends
  BY <1>4 DEF PS2Inv, MouseSends, Send, userVars
<1>5. CASE Initialize
  BY <1>5 DEF PS2Inv, Initialize, userVars, wireVars
<1>6. CASE ReturnEarly
  BY <1>6 DEF PS2Inv, ReturnEarly, userVars, wireVars
<1>7. CASE StartHandler(1, "keyboard")
  BY <1>7 DEF PS2Inv, StartHandler, userVars, wireVars
<1>8. CASE StartHandler(12, "mouse")
  BY <1>8 DEF PS2Inv, StartHandler, userVars, wireVars
<1>9. CASE KeyboardEventOccurred
  BY <1>9 DEF PS2Inv, KeyboardEventOccurred, ReadData, wireVars
<1>10. CASE MouseEventOccurred
  <2>1. KeyboardIdle
    BY <1>10 DEF PS2Inv, MouseEventOccurred
  <2>2. output.from # 1
    BY <1>10, <2>1 DEF PS2Inv, KeyboardInStep, Holds, MouseEventOccurred, ReadData
  <2>3. QED BY <1>10, <2>1, <2>2 DEF MouseEventOccurred, ReadData, wireVars
<1>11. CASE MouseGivesUp
  BY <1>11 DEF PS2Inv, MouseGivesUp, userVars, wireVars
<1>12. CASE GetKey
  BY <1>12 DEF PS2Inv, GetKey, userVars, wireVars
<1>13. CASE GetMouseEvent
  BY <1>13 DEF PS2Inv, GetMouseEvent, userVars, wireVars
<1>14. QED
  BY <1>1, <1>2, <1>3, <1>4, <1>5, <1>6, <1>7, <1>8, <1>9, <1>10, <1>11, <1>12, <1>13
  DEF Next, Devices, Kernel
\* The mouse's steps, and those of programs, leave the keyboard where it is.
LEMMA KeyboardUntouched ==
  ASSUME KeyboardInStep, UNCHANGED <<stroke, down, keyboard_wire, recogniser>>,
         Holds(1)' = Holds(1), Holds(1) => output' = output
  PROVE  KeyboardInStep'
<1>1. ASSUME StrokeArrives PROVE StrokeArrives'
  BY <1>1 DEF StrokeArrives, recogniser
<1>2. QED BY <1>1 DEF KeyboardInStep, recogniser

\* The keyboard's steps leave the mouse where it is.
LEMMA MouseUntouched ==
  ASSUME MouseBytes, MouseInStep, UNCHANGED <<mouse_wire, data>>,
         Holds(12)' = Holds(12), Holds(12) => output' = output,
         Len(data) # 0 => handler' = "mouse" /\ initialized'
  PROVE  MouseBytes' /\ MouseInStep' /\ InReport' = InReport
<1>1. MouseBytes'
  BY DEF MouseBytes
<1>2. InReport' = InReport
  BY DEF InReport, Unread, Holds
<1>3. MouseInStep'
  BY <1>2 DEF MouseInStep, Report
<1>4. QED BY <1>1, <1>2, <1>3

\* What the keyboard's handler reads is the keyboard's, what the mouse's reads the mouse's.
LEMMA OwnByte ==
  ASSUME PS2Inv
  PROVE  /\ KeyboardEventOccurred => Holds(1) /\ ~Holds(12) /\ MouseIdle
         /\ MouseEventOccurred => Holds(12) /\ ~Holds(1) /\ KeyboardIdle
<1>1. output # NULL => output.from = 1 \/ output.from = 12
  BY DEF PS2Inv, Typed
<1>2. ASSUME KeyboardEventOccurred PROVE Holds(1) /\ ~Holds(12) /\ MouseIdle
  BY <1>1, <1>2 DEF PS2Inv, KeyboardEventOccurred, ReadData, OneRests, KeyboardIdle, MouseIdle, Holds
<1>3. ASSUME MouseEventOccurred PROVE Holds(12) /\ ~Holds(1) /\ KeyboardIdle
  BY <1>1, <1>3
  DEF PS2Inv, MouseEventOccurred, ReadData, OneRests, KeyboardIdle, MouseIdle, Holds, KeyboardInStep
<1>4. QED BY <1>2, <1>3

\* The three bytes that the mouse's handler has put together are bytes of reports, and those
\* of one if it was in step.
LEMMA ReportRead ==
  ASSUME PS2Inv, MouseEventOccurred, ~(Len(Append(data, output.byte)) < 3)
  PROVE  /\ MouseEvent(Append(data, output.byte)) \in Value
         /\ InReport => MouseEvent(Append(data, output.byte)) \in {MouseEvent(p) : p \in Packet}
<1> DEFINE got == Len(data)
           bytes == Append(data, output.byte)
<1>1. Holds(12) /\ got \in Nat /\ data \in Seq(Byte) /\ output.byte \in Byte
  BY OwnByte DEF PS2Inv, Typed, Holds
<1>2. /\ Len(bytes) = got + 1 /\ bytes[got + 1] = output.byte
      /\ \A i \in 1..got : bytes[i] = data[i]
  BY <1>1, AppendProperties
<1>3. got = 2
  <2>1. got \in 0..2
    BY DEF PS2Inv, MouseBytes
  <2>2. ~(Len(bytes) < 3)
    OBVIOUS
  <2> HIDE DEF got, bytes
  <2>3. QED BY <1>1, <1>2, <2>1, <2>2
<1>4. MouseEvent(bytes) \in Value
  <2>1. data[1] \in MouseByte /\ data[2] \in MouseByte /\ output.byte \in MouseByte
    BY <1>1, <1>3 DEF PS2Inv, MouseBytes
  <2>2. bytes[1] = data[1] /\ bytes[2] = data[2] /\ bytes[3] = output.byte
    BY <1>2, <1>3
  <2>3. MouseEvent(bytes) = MouseEvent(<<data[1], data[2], output.byte>>)
    BY <2>2 DEF MouseEvent
  <2>4. QED BY <2>1, <2>3, EventAssumption
<1>5. ASSUME InReport PROVE MouseEvent(bytes) \in {MouseEvent(p) : p \in Packet}
  <2>1. PICK p \in Packet : Report(p, got, got + 1)
    BY <1>1, <1>3, <1>5 DEF PS2Inv, MouseInStep
  <2>2. data[1] = p[1] /\ data[2] = p[2] /\ output.byte = p[3]
    BY <1>1, <1>3, <2>1 DEF Report
  <2>3. bytes[1] = p[1] /\ bytes[2] = p[2] /\ bytes[3] = p[3]
    BY <1>2, <1>3, <2>2
  <2>4. MouseEvent(bytes) = MouseEvent(p)
    BY <2>3 DEF MouseEvent
  <2>5. QED BY <2>4
<1>6. QED BY <1>4, <1>5

\* Types, whatever is sent and read.
LEMMA TypedStep ==
  ASSUME PS2Inv, Next
  PROVE  Typed'
<1> USE DEF Typed, TypeOK
<1>1. ASSUME NEW s \in Stroke, Type(s) PROVE Typed'
  BY <1>1, CodeIsBytes DEF PS2Inv, Type, recogniser
<1>2. ASSUME NEW p \in Packet, Move(p) PROVE Typed'
  <2>1. p \in Seq(Byte)
    <3>1. p \in Byte \X Byte \X Byte
      BY PS2Assumption
    <3>2. p = <<p[1], p[2], p[3]>> /\ p[1] \in Byte /\ p[2] \in Byte /\ p[3] \in Byte
      BY <3>1
    <3>3. <<p[1], p[2], p[3]>> \in Seq(Byte)
      BY <3>2
    <3>4. QED BY <3>2, <3>3
  <2>2. QED BY <1>2, <2>1 DEF PS2Inv, Move, recogniser
<1>3. CASE KeyboardSends
  <2>1. Head(keyboard_wire) \in Byte /\ Tail(keyboard_wire) \in Seq(Byte)
    BY <1>3, HeadTailProperties DEF PS2Inv, KeyboardSends
  <2>2. QED BY <1>3, <2>1 DEF PS2Inv, KeyboardSends, Send, userVars, recogniser
<1>4. CASE MouseSends
  <2>1. Head(mouse_wire) \in Byte /\ Tail(mouse_wire) \in Seq(Byte)
    BY <1>4, HeadTailProperties DEF PS2Inv, MouseSends
  <2>2. QED BY <1>4, <2>1 DEF PS2Inv, MouseSends, Send, userVars, recogniser
<1>5. CASE Initialize
  BY <1>5 DEF PS2Inv, Initialize, userVars, wireVars, recogniser
<1>6. CASE ReturnEarly
  BY <1>6 DEF PS2Inv, ReturnEarly, userVars, wireVars, recogniser
<1>7. CASE StartHandler(1, "keyboard")
  BY <1>7 DEF PS2Inv, StartHandler, userVars, wireVars, recogniser
<1>8. CASE StartHandler(12, "mouse")
  BY <1>8 DEF PS2Inv, StartHandler, userVars, wireVars, recogniser
<1>9. CASE KeyboardEventOccurred
  <2>1. Holds(1) /\ keyboard_modifiers = down \cap ModifierKey /\ stroke \in Stroke
    BY <1>9, OwnByte, ByteRead DEF PS2Inv, KeyboardInStep
  <2>2. keyboard_wire # <<>> =>
           /\ UNCHANGED <<stroke, down, keyboard_modifiers, keyboard_buffer, keyboard_wire>>
           /\ byte_count' = byte_count + 1
    BY <1>9, <2>1, ByteRead DEF PS2Inv
  <2>3. keyboard_wire = <<>> =>
           /\ stroke' = NULL /\ byte_count' = 0
           /\ keyboard_modifiers' = down' \cap ModifierKey
           /\ keyboard_buffer' = IF IsDebug(Keys!EventOf(stroke)) THEN keyboard_buffer
                                 ELSE Push(keyboard_buffer, Keys!EventOf(stroke))
    BY <1>9, <2>1, ByteRead DEF PS2Inv
  <2>4. byte_count' \in 0..5 /\ stroke' \in Stroke \cup {NULL}
    <3>1. CASE keyboard_wire # <<>>
      <4>1. byte_count + 1 + Len(keyboard_wire) = Len(Code(stroke)) /\ Len(keyboard_wire) > 0
        BY <2>1, <3>1, EmptySeq DEF PS2Inv, KeyboardInStep, StrokeArrives
      <4>2. Len(keyboard_wire) \in Nat /\ byte_count \in Nat
        BY LenProperties DEF PS2Inv
      <4>3. byte_count + 1 \in 0..5
        <5>1. Len(Code(stroke)) \in 1..6
          BY <2>1, CodeIsBytes
        <5>2. QED BY <4>1, <4>2, <5>1
      <4>4. QED BY <2>2, <3>1, <4>3 DEF PS2Inv
    <3>2. CASE keyboard_wire = <<>>
      BY <2>3, <3>2
    <3>3. QED BY <3>1, <3>2
  <2>5. keyboard_modifiers' \subseteq ModifierKey
    BY <2>2, <2>3 DEF PS2Inv
  <2>6. keyboard_buffer' \in Ring
    <3>1. Keys!EventOf(stroke) \in Value
      BY <2>1, EventOfStroke, EventAssumption
    <3>2. QED BY <2>2, <2>3, <3>1, PushQueues DEF PS2Inv
  <2>7. pattern' \in {"TwoBytePrintScreen", "PrintScreenPressed", "PrintScreenReleased", "Pause"}
    BY <1>9 DEF PS2Inv, KeyboardEventOccurred, NarrowedPattern
  <2>8. QED
    BY <1>9, <2>4, <2>5, <2>6, <2>7 DEF PS2Inv, KeyboardEventOccurred, ReadData, wireVars
<1>10. CASE MouseEventOccurred
  <2>1. output \in [from : {1, 12}, byte : Byte]
    BY <1>10 DEF PS2Inv, MouseEventOccurred, ReadData
  <2>2. Append(data, output.byte) \in Seq(Byte)
    BY <2>1 DEF PS2Inv
  <2>3. mouse_buffer' \in Ring
    <3>1. CASE Len(Append(data, output.byte)) < 3
      BY <1>10, <3>1 DEF PS2Inv, MouseEventOccurred
    <3>2. CASE ~(Len(Append(data, output.byte)) < 3)
      <4>1. mouse_buffer' = Push(mouse_buffer, MouseEvent(Append(data, output.byte)))
        BY <1>10, <3>2 DEF MouseEventOccurred
      <4>2. MouseEvent(Append(data, output.byte)) \in Value
        BY <1>10, <3>2, ReportRead
      <4>3. QED BY <4>1, <4>2, PushQueues DEF PS2Inv
    <3>3. QED BY <3>1, <3>2
  <2>4. stroke' = stroke /\ down' = down
    BY <1>10, OwnByte DEF MouseEventOccurred, ReadData, Holds
  <2>5. data' \in Seq(Byte) /\ handler' \in {"none", "keyboard", "mouse"}
    <3>1. <<>> \in Seq(Byte)
      OBVIOUS
    <3>2. QED BY <1>10, <2>2, <3>1 DEF PS2Inv, MouseEventOccurred
  <2>6. QED
    BY <1>10, <2>3, <2>4, <2>5 DEF PS2Inv, MouseEventOccurred, ReadData, wireVars, recogniser
<1>11. CASE MouseGivesUp
  <2>1. <<>> \in Seq(Byte)
    OBVIOUS
  <2>2. QED BY <1>11, <2>1 DEF PS2Inv, MouseGivesUp, userVars, wireVars, recogniser
<1>12. CASE GetKey
  BY <1>12, PopDequeues DEF PS2Inv, GetKey, userVars, wireVars, recogniser
<1>13. CASE GetMouseEvent
  BY <1>13, PopDequeues DEF PS2Inv, GetMouseEvent, userVars, wireVars, recogniser
<1>14. QED
  BY <1>1, <1>2, <1>3, <1>4, <1>5, <1>6, <1>7, <1>8, <1>9, <1>10, <1>11, <1>12, <1>13
  DEF Next, Devices, Kernel
\* The keyboard, the controller and the recogniser together always hold one stroke's code.
LEMMA KeyboardInStepStep ==
  ASSUME PS2Inv, Next
  PROVE  KeyboardInStep'
<1> USE DEF Holds
<1>1. ASSUME NEW s \in Stroke, Type(s) PROVE KeyboardInStep'
  <2>1. /\ ~Holds(1) /\ byte_count = 0 /\ keyboard_modifiers = down \cap ModifierKey
        /\ UNCHANGED <<output, byte_count, keyboard_modifiers, down>>
        /\ stroke' = s /\ keyboard_wire' = Code(s)
    BY <1>1 DEF PS2Inv, KeyboardInStep, Type, recogniser
  <2>2. Code(s) \in Seq(Byte) /\ Len(Code(s)) \in 1..6
    BY CodeIsBytes
  <2>3. Fits(stroke', byte_count', pattern')
    BY <2>1 DEF Fits
  <2>4. StrokeArrives'
    BY <2>1, <2>2, <2>3 DEF StrokeArrives
  <2>5. s # NULL
    BY EventAssumption
  <2>6. QED BY <2>1, <2>4, <2>5 DEF KeyboardInStep
<1>2. ASSUME NEW p \in Packet, Move(p) PROVE KeyboardInStep'
  BY <1>2, KeyboardUntouched DEF PS2Inv, Move
<1>3. CASE KeyboardSends
  <2>1. /\ output = NULL /\ keyboard_wire # <<>> /\ keyboard_wire \in Seq(Byte)
        /\ output' = [from |-> 1, byte |-> Head(keyboard_wire)]
        /\ keyboard_wire' = Tail(keyboard_wire)
        /\ UNCHANGED <<stroke, down, byte_count, pattern, keyboard_modifiers>>
    BY <1>3 DEF PS2Inv, Typed, KeyboardSends, Send, userVars, recogniser
  <2>2. stroke \in Stroke /\ StrokeArrives /\ byte_count \in Nat
    BY <2>1 DEF PS2Inv, KeyboardInStep, Typed, TypeOK
  <2>3. output' # NULL /\ output'.from = 1 /\ output'.byte = Head(keyboard_wire)
    <3>1. Head(keyboard_wire) \in Byte
      BY <2>1, HeadTailProperties
    <3>2. QED BY <2>1, <3>1, PS2Assumption
  <2>4. /\ Len(keyboard_wire) \in Nat \ {0} /\ Head(keyboard_wire) = keyboard_wire[1]
        /\ Len(Tail(keyboard_wire)) = Len(keyboard_wire) - 1
        /\ \A i \in 1..(Len(keyboard_wire) - 1) : Tail(keyboard_wire)[i] = keyboard_wire[i + 1]
    BY <2>1, HeadTailProperties, EmptySeq
  <2>5. /\ Len(keyboard_wire) + byte_count = Len(Code(stroke))
        /\ Fits(stroke, byte_count, pattern)
        /\ \A i \in 1..Len(keyboard_wire) : keyboard_wire[i] = Code(stroke)[byte_count + i]
    BY <2>1, <2>2 DEF StrokeArrives
  <2>6. keyboard_wire[1] = Code(stroke)[byte_count + 1]
    BY <2>2, <2>4, <2>5
  <2>7. \A i \in 1..(Len(keyboard_wire) - 1) :
          Tail(keyboard_wire)[i] = Code(stroke)[byte_count + 1 + i]
    <3> SUFFICES ASSUME NEW i \in 1..(Len(keyboard_wire) - 1)
                 PROVE  Tail(keyboard_wire)[i] = Code(stroke)[byte_count + 1 + i]
      OBVIOUS
    <3>1. i + 1 \in 1..Len(keyboard_wire) /\ byte_count + (i + 1) = byte_count + 1 + i
      BY <2>2, <2>4
    <3>2. QED BY <2>4, <2>5, <3>1
  <2>8. StrokeArrives'
    BY <2>1, <2>2, <2>3, <2>4, <2>5, <2>6, <2>7 DEF StrokeArrives
  <2>9. QED BY <2>1, <2>2, <2>8, EventAssumption DEF PS2Inv, KeyboardInStep
<1>4. CASE MouseSends
  <2>1. ~Holds(1) /\ ~Holds(1)'
    BY <1>4 DEF MouseSends, Send
  <2>2. QED
    BY <1>4, <2>1, KeyboardUntouched DEF PS2Inv, MouseSends, Send, userVars
<1>5. CASE Initialize
  BY <1>5, KeyboardUntouched DEF PS2Inv, Initialize, userVars, wireVars
<1>6. CASE ReturnEarly
  BY <1>6, KeyboardUntouched DEF PS2Inv, ReturnEarly, userVars, wireVars
<1>7. CASE StartHandler(1, "keyboard")
  BY <1>7, KeyboardUntouched DEF PS2Inv, StartHandler, userVars, wireVars
<1>8. CASE StartHandler(12, "mouse")
  BY <1>8, KeyboardUntouched DEF PS2Inv, StartHandler, userVars, wireVars
<1>9. CASE KeyboardEventOccurred
  <2>1. Holds(1) /\ output' = NULL /\ keyboard_wire' = keyboard_wire
    BY <1>9, OwnByte DEF KeyboardEventOccurred, ReadData, wireVars
  <2>2. CASE keyboard_wire = <<>>
    BY <1>9, <2>1, <2>2, ByteRead DEF PS2Inv, KeyboardInStep
  <2>3. CASE keyboard_wire # <<>>
    <3>1. /\ UNCHANGED <<stroke, down, keyboard_modifiers, keyboard_wire>>
          /\ stroke \in Stroke
          /\ byte_count' = byte_count + 1
          /\ Fits(stroke, byte_count + 1, pattern')
      BY <1>9, <2>1, <2>3, ByteRead DEF PS2Inv
    <3>2. StrokeArrives /\ byte_count \in Nat /\ keyboard_wire \in Seq(Byte)
      BY <3>1, EventAssumption DEF PS2Inv, KeyboardInStep, Typed, TypeOK
    <3>3. Len(keyboard_wire) \in Nat \ {0}
      BY <2>3, <3>2, EmptySeq
    <3>4. /\ Len(keyboard_wire) + (byte_count + 1) = Len(Code(stroke))
          /\ \A i \in 1..Len(keyboard_wire) : keyboard_wire[i] = Code(stroke)[byte_count + 1 + i]
      BY <2>1, <3>2 DEF StrokeArrives
    <3>5. byte_count + 1 < Len(Code(stroke))
      BY <3>2, <3>3, <3>4
    <3>6. StrokeArrives'
      BY <2>1, <3>1, <3>4, <3>5 DEF StrokeArrives
    <3>7. QED BY <2>1, <3>1, <3>6, EventAssumption DEF PS2Inv, KeyboardInStep
  <2>4. QED BY <2>2, <2>3
<1>10. CASE MouseEventOccurred
  <2>1. ~Holds(1) /\ ~Holds(1)' /\ stroke' = stroke /\ down' = down
    BY <1>10, OwnByte DEF MouseEventOccurred, ReadData
  <2>2. QED BY <1>10, <2>1, KeyboardUntouched DEF PS2Inv, MouseEventOccurred, ReadData, wireVars
<1>11. CASE MouseGivesUp
  BY <1>11, KeyboardUntouched DEF PS2Inv, MouseGivesUp, userVars, wireVars
<1>12. CASE GetKey
  BY <1>12, KeyboardUntouched DEF PS2Inv, GetKey, userVars, wireVars
<1>13. CASE GetMouseEvent
  BY <1>13, KeyboardUntouched DEF PS2Inv, GetMouseEvent, userVars, wireVars
<1>14. QED
  BY <1>1, <1>2, <1>3, <1>4, <1>5, <1>6, <1>7, <1>8, <1>9, <1>10, <1>11, <1>12, <1>13
  DEF Next, Devices, Kernel

\* What the mouse still has to send moves to the controller, and from there to the handler,
\* which drops it or makes an event of three.
LEMMA MouseBytesStep ==
  ASSUME PS2Inv, Next
  PROVE  MouseBytes'
<1> USE DEF Holds
<1>0. /\ data \in Seq(Byte) /\ mouse_wire \in Seq(Byte) /\ MouseBytes
      /\ Len(data) \in 0..2 /\ Len(mouse_wire) \in 0..3
  BY DEF PS2Inv, Typed, MouseBytes
<1>1. ASSUME NEW s \in Stroke, Type(s) PROVE MouseBytes'
  BY <1>1, MouseUntouched DEF PS2Inv, Type, MouseBytes
<1>2. ASSUME NEW p \in Packet, Move(p) PROVE MouseBytes'
  <2>1. /\ mouse_wire' = p /\ UNCHANGED <<output, data, handler, initialized>>
    BY <1>2 DEF Move
  <2>2. p = <<p[1], p[2], p[3]>> /\ Len(p) = 3
    <3>1. p \in Byte \X Byte \X Byte
      BY PS2Assumption
    <3>2. QED BY <3>1
  <2>3. \A i \in 1..Len(p) : p[i] \in MouseByte
    <3>1. p[1] \in MouseByte /\ p[2] \in MouseByte /\ p[3] \in MouseByte
      BY DEF MouseByte
    <3>2. \A i \in 1..3 : i = 1 \/ i = 2 \/ i = 3
      OBVIOUS
    <3>3. QED BY <2>2, <3>1, <3>2
  <2>4. QED BY <1>0, <2>1, <2>2, <2>3 DEF MouseBytes
<1>3. CASE KeyboardSends
  <2>1. ~Holds(12) /\ ~Holds(12)'
    BY <1>3 DEF KeyboardSends, Send
  <2>2. QED BY <1>3, <2>1, MouseUntouched DEF PS2Inv, KeyboardSends, Send, MouseBytes
<1>4. CASE MouseSends
  <2>1. /\ mouse_wire # <<>>
        /\ output' = [from |-> 12, byte |-> Head(mouse_wire)]
        /\ mouse_wire' = Tail(mouse_wire) /\ UNCHANGED <<data, handler, initialized>>
    BY <1>4 DEF MouseSends, Send
  <2>2. /\ Len(mouse_wire) \in 1..3 /\ Head(mouse_wire) = mouse_wire[1]
        /\ Len(Tail(mouse_wire)) = Len(mouse_wire) - 1
        /\ \A i \in 1..(Len(mouse_wire) - 1) : Tail(mouse_wire)[i] = mouse_wire[i + 1]
    BY <1>0, <2>1, HeadTailProperties, EmptySeq
  <2>3. Len(mouse_wire') \in 0..2
    BY <2>1, <2>2
  <2>4. \A i \in 1..Len(mouse_wire') : mouse_wire'[i] \in MouseByte
    <3> SUFFICES ASSUME NEW i \in 1..(Len(mouse_wire) - 1) PROVE Tail(mouse_wire)[i] \in MouseByte
      BY <2>1, <2>2
    <3>1. i + 1 \in 1..Len(mouse_wire)
      BY <2>2
    <3>2. QED BY <1>0, <2>2, <3>1 DEF MouseBytes
  <2>5. output'.byte \in MouseByte
    <3>1. 1 \in 1..Len(mouse_wire)
      BY <2>2
    <3>2. QED BY <1>0, <2>1, <2>2, <3>1 DEF MouseBytes
  <2>6. Len(mouse_wire') # 3
    BY <2>3
  <2> HIDE DEF Holds
  <2>7. QED BY <1>0, <2>1, <2>3, <2>4, <2>5, <2>6 DEF MouseBytes
<1>5. CASE Initialize
  BY <1>5, MouseUntouched DEF PS2Inv, Initialize, userVars, wireVars, MouseBytes
<1>6. CASE ReturnEarly
  BY <1>6, MouseUntouched DEF PS2Inv, ReturnEarly, userVars, wireVars, MouseBytes
<1>7. CASE StartHandler(1, "keyboard")
  BY <1>7, MouseUntouched DEF PS2Inv, StartHandler, userVars, wireVars, MouseBytes
<1>8. CASE StartHandler(12, "mouse")
  BY <1>8, MouseUntouched DEF PS2Inv, StartHandler, userVars, wireVars, MouseBytes
<1>9. CASE KeyboardEventOccurred
  <2>1. ~Holds(12) /\ ~Holds(12)'
    BY <1>9, OwnByte DEF KeyboardEventOccurred, ReadData
  <2>2. Len(data) = 0
    BY <1>9 DEF PS2Inv, MouseBytes, KeyboardEventOccurred
  <2>3. QED
    BY <1>9, <2>1, <2>2, MouseUntouched DEF PS2Inv, KeyboardEventOccurred, ReadData, wireVars
<1>10. CASE MouseEventOccurred
  <2>1. Holds(12) /\ output.byte \in Byte /\ output.byte \in MouseByte
    BY <1>10, OwnByte DEF PS2Inv, Typed, MouseBytes
  <2>2. /\ Len(Append(data, output.byte)) = Len(data) + 1
        /\ \A i \in 1..(Len(data) + 1) : Append(data, output.byte)[i] \in MouseByte
    <3>1. /\ Len(Append(data, output.byte)) = Len(data) + 1
          /\ Append(data, output.byte)[Len(data) + 1] = output.byte
          /\ \A i \in 1..Len(data) : Append(data, output.byte)[i] = data[i]
      BY <1>0, <2>1, AppendProperties
    <3>2. \A i \in 1..(Len(data) + 1) : i \in 1..Len(data) \/ i = Len(data) + 1
      BY <1>0
    <3>3. QED BY <1>0, <2>1, <3>1, <3>2 DEF MouseBytes
  <2>3. /\ output' = NULL /\ mouse_wire' = mouse_wire /\ initialized /\ initialized' = initialized
        /\ handler = "mouse"
        /\ IF Len(Append(data, output.byte)) < 3
           THEN data' = Append(data, output.byte) /\ UNCHANGED handler
           ELSE data' = <<>> /\ handler' = "none"
    BY <1>10 DEF MouseEventOccurred, ReadData, wireVars
  <2> DEFINE bytes == Append(data, output.byte)
  <2>4. Len(data') \in 0..2 /\ \A i \in 1..Len(data') : data'[i] \in MouseByte
    <3>1. CASE Len(bytes) < 3
      <4>1. data' = bytes
        BY <2>3, <3>1
      <4>2. Len(bytes) \in 0..2 /\ \A i \in 1..Len(bytes) : bytes[i] \in MouseByte
        BY <1>0, <2>2, <3>1
      <4> HIDE DEF bytes
      <4>3. QED BY <4>1, <4>2
    <3>2. CASE ~(Len(bytes) < 3)
      BY <2>3, <3>2
    <3>3. QED BY <3>1, <3>2
  <2>5. Len(data') # 0 => handler' = "mouse" /\ initialized'
    BY <2>3
  <2>6. ~Holds(12)' /\ mouse_wire' = mouse_wire
    BY <2>3
  <2> HIDE DEF Holds, bytes
  <2>7. QED BY <1>0, <2>4, <2>5, <2>6 DEF MouseBytes
<1>11. CASE MouseGivesUp
  BY <1>0, <1>11 DEF MouseGivesUp, MouseBytes, wireVars
<1>12. CASE GetKey
  BY <1>12, MouseUntouched DEF PS2Inv, GetKey, userVars, wireVars, MouseBytes
<1>13. CASE GetMouseEvent
  BY <1>13, MouseUntouched DEF PS2Inv, GetMouseEvent, userVars, wireVars, MouseBytes
<1>14. QED
  BY <1>1, <1>2, <1>3, <1>4, <1>5, <1>6, <1>7, <1>8, <1>9, <1>10, <1>11, <1>12, <1>13
  DEF Next, Devices, Kernel

\* The places that remain are those of the bytes that remain.
LEMMA Remaining ==
  ASSUME MouseBytes, InReport
  PROVE  LET sent == IF Holds(12) THEN Len(data) + 1 ELSE Len(data)
         IN  /\ sent \in 0..3
             /\ sent \in {1, 2} => Len(mouse_wire) = 3 - sent
             /\ sent \in {0, 3} => Len(mouse_wire) \in {0, 3}
<1> DEFINE got == Len(data)
           wire == Len(mouse_wire)
<1>1. got \in 0..2 /\ wire \in 0..3
  BY DEF MouseBytes
<1>2. got + (wire + IF Holds(12) THEN 1 ELSE 0) \in {0, 3, 6}
  BY DEF InReport, Unread, Holds
<1> HIDE DEF got, wire
<1>3. /\ Holds(12) => got + 1 \in 1..3 /\ (got + 1 # 3 => wire = 3 - (got + 1)) /\ (got + 1 = 3 => wire \in {0, 3})
      /\ ~Holds(12) => (got # 0 => wire = 3 - got) /\ (got = 0 => wire \in {0, 3})
  BY <1>1, <1>2
<1>4. QED BY <1>1, <1>3 DEF got, wire

\* Only giving up in the middle of a report that is still coming leaves the step, whatever
\* else is read, sent or done.
LEMMA ReportKept ==
  ASSUME PS2Inv, Next
  PROVE  /\ ~MouseGivesUp => InReport' = InReport
         /\ MouseGivesUp => InReport' = (Len(mouse_wire) \in {0, 3})
<1> USE DEF Holds
<1>0. /\ data \in Seq(Byte) /\ mouse_wire \in Seq(Byte)
      /\ Len(data) \in 0..2 /\ Len(mouse_wire) \in 0..3
      /\ MouseBytes /\ MouseInStep
  BY DEF PS2Inv, Typed, MouseBytes
<1>1. ASSUME NEW s \in Stroke, Type(s) PROVE InReport' = InReport
  BY <1>1 DEF Type, InReport, Unread
<1>2. ASSUME NEW p \in Packet, Move(p) PROVE InReport' = InReport
  <2>1. Len(mouse_wire) = 0 /\ Len(mouse_wire') = 3 /\ UNCHANGED <<output, data>>
    <3>1. p \in Byte \X Byte \X Byte
      BY PS2Assumption
    <3>2. QED BY <1>2, <3>1 DEF Move
  <2> DEFINE held == IF output # NULL /\ output.from = 12 THEN 1 ELSE 0
             got == Len(data)
  <2>2. held \in 0..1 /\ held' = held /\ got' = got /\ got \in 0..2
    BY <1>0, <2>1
  <2>3. InReport = (got + (Len(mouse_wire) + held) \in {0, 3, 6})
    BY DEF InReport, Unread
  <2>4. InReport' = (got' + (Len(mouse_wire') + held') \in {0, 3, 6})
    BY DEF InReport, Unread
  <2> HIDE DEF held, got
  <2>5. (got + (0 + held) \in {0, 3, 6}) <=> (got + (3 + held) \in {0, 3, 6})
    BY <2>2
  <2>6. QED BY <2>1, <2>2, <2>3, <2>4, <2>5
<1>3. ASSUME KeyboardSends PROVE InReport' = InReport
  <2>1. ~Holds(12) /\ ~Holds(12)' /\ UNCHANGED <<mouse_wire, data>>
    BY <1>3 DEF KeyboardSends, Send
  <2>2. QED BY <2>1 DEF InReport, Unread
<1>4. ASSUME MouseSends PROVE InReport' = InReport
  <2>1. ~Holds(12) /\ Holds(12)' /\ mouse_wire # <<>> /\ UNCHANGED data
        /\ mouse_wire' = Tail(mouse_wire)
    <3>1. Head(mouse_wire) \in Byte
      BY <1>0, <1>4, HeadTailProperties DEF MouseSends
    <3>2. QED BY <1>4, <3>1, PS2Assumption DEF MouseSends, Send
  <2>2. Len(mouse_wire') + 1 = Len(mouse_wire) + 0
    BY <1>0, <2>1, HeadTailProperties, EmptySeq
  <2>3. Unread' = Unread
    BY <2>1, <2>2 DEF Unread
  <2>4. QED BY <2>1, <2>3 DEF InReport
<1>5. ASSUME \/ Initialize \/ ReturnEarly \/ StartHandler(1, "keyboard") \/ StartHandler(12, "mouse")
             \/ GetKey \/ GetMouseEvent
      PROVE  InReport' = InReport
  BY <1>5 DEF Initialize, ReturnEarly, StartHandler, GetKey, GetMouseEvent, wireVars, InReport, Unread
<1>6. ASSUME KeyboardEventOccurred PROVE InReport' = InReport
  <2>1. ~Holds(12) /\ ~Holds(12)' /\ UNCHANGED <<mouse_wire, data>>
    BY <1>6, OwnByte DEF KeyboardEventOccurred, ReadData, wireVars
  <2>2. QED BY <2>1 DEF InReport, Unread
<1>7. ASSUME MouseEventOccurred PROVE InReport' = InReport
  <2> DEFINE got == Len(data)
             wire == Len(mouse_wire)
             bytes == Append(data, output.byte)
  <2>1. Holds(12) /\ ~Holds(12)' /\ wire' = wire /\ output.byte \in Byte
    BY <1>7, OwnByte DEF MouseEventOccurred, ReadData, wireVars, PS2Inv, Typed
  <2>2. Len(bytes) = got + 1
    BY <1>0, <2>1, AppendProperties
  <2>3. got' = IF got + 1 < 3 THEN got + 1 ELSE 0
    <3>1. data' = IF Len(bytes) < 3 THEN bytes ELSE <<>>
      BY <1>7 DEF MouseEventOccurred
    <3>2. Len(data') = IF Len(bytes) < 3 THEN Len(bytes) ELSE 0
      BY <3>1
    <3>3. QED BY <2>2, <3>2
  <2>4. InReport = (got + (wire + 1) \in {0, 3, 6})
    BY <2>1 DEF InReport, Unread
  <2>5. InReport' = (got' + (wire + 0) \in {0, 3, 6})
    BY <2>1 DEF InReport, Unread
  <2>6. got \in 0..2 /\ wire \in 0..3
    BY <1>0
  <2> HIDE DEF got, wire, bytes
  <2>7. got' + (wire + 0) \in {0, 3, 6} <=> got + (wire + 1) \in {0, 3, 6}
    BY <2>3, <2>6
  <2>8. QED BY <2>4, <2>5, <2>7
<1>8. ASSUME MouseGivesUp PROVE InReport' = (Len(mouse_wire) \in {0, 3})
  <2>1. Len(data') = 0 /\ ~Holds(12)' /\ mouse_wire' = mouse_wire
    BY <1>8 DEF MouseGivesUp, wireVars
  <2> DEFINE wire == Len(mouse_wire)
  <2>2. InReport' = (0 + (wire + 0) \in {0, 3, 6}) /\ wire \in 0..3
    BY <1>0, <2>1 DEF InReport, Unread
  <2> HIDE DEF wire
  <2>3. QED BY <2>2 DEF wire
<1>9. QED
  BY <1>1, <1>2, <1>3, <1>4, <1>5, <1>6, <1>7, <1>8 DEF Next, Devices, Kernel

\* The mouse's wire, the controller and the handler together hold one report at most, or
\* the last one and the whole of the next, while the handler is in step.
LEMMA MouseInStepStep ==
  ASSUME PS2Inv, Next
  PROVE  MouseInStep'
<1> USE DEF Holds
<1>0. /\ data \in Seq(Byte) /\ mouse_wire \in Seq(Byte)
      /\ Len(data) \in 0..2 /\ Len(mouse_wire) \in 0..3
      /\ MouseBytes /\ MouseInStep
  BY DEF PS2Inv, Typed, MouseBytes
<1>1. ASSUME NEW s \in Stroke, Type(s) PROVE MouseInStep'
  BY <1>0, <1>1, MouseUntouched DEF Type, MouseBytes
<1>2. ASSUME NEW p \in Packet, Move(p), InReport' PROVE MouseInStep'
  <2> DEFINE got == Len(data)
             sent == IF Holds(12) THEN got + 1 ELSE got
  <2>1. /\ mouse_wire = <<>> /\ mouse_wire' = p
        /\ UNCHANGED <<output, data, handler, initialized>>
    BY <1>2 DEF Move
  <2>2. InReport
    <3>1. ~MouseGivesUp
      BY <1>2 DEF Move, MouseGivesUp, userVars
    <3>2. QED BY <1>2, <3>1, ReportKept
  <2>3. sent \in {0, 3}
    <3>1. Len(mouse_wire) = 0
      BY <2>1
    <3>2. sent \in 0..3 /\ (sent \in {1, 2} => Len(mouse_wire) = 3 - sent)
      BY <1>0, <2>2, Remaining
    <3> HIDE DEF sent
    <3>3. QED BY <3>1, <3>2
  <2>4. sent = 0 \/ \E q \in Packet : Report(q, got, sent)
    BY <1>0, <2>2 DEF MouseInStep
  <2>5. sent' = sent /\ got' = got
    BY <2>1
  <2>6. ASSUME NEW q \in Packet, Report(q, got, sent), sent = 3 PROVE Report(q, got, sent)'
    <3> HIDE DEF sent, got
    <3>1. \A i \in 1..(3 - sent) : FALSE
      BY <2>6
    <3>2. QED BY <2>1, <2>5, <2>6, <3>1 DEF Report
  <2>7. sent' = 0 \/ \E q \in Packet : Report(q, got, sent)'
    BY <2>3, <2>4, <2>5, <2>6
  <2>8. QED BY <2>1, <2>7 DEF MouseInStep
<1>3. CASE KeyboardSends
  <2>1. ~Holds(12) /\ ~Holds(12)'
    BY <1>3 DEF KeyboardSends, Send
  <2>2. QED BY <1>0, <1>3, <2>1, MouseUntouched DEF KeyboardSends, Send, MouseBytes
<1>4. ASSUME MouseSends, InReport' PROVE MouseInStep'
  <2> DEFINE got == Len(data)
  <2>1. /\ output = NULL /\ mouse_wire # <<>>
        /\ output' = [from |-> 12, byte |-> Head(mouse_wire)]
        /\ mouse_wire' = Tail(mouse_wire) /\ UNCHANGED <<data, handler, initialized>>
    BY <1>4 DEF MouseSends, Send
  <2>2. /\ Len(mouse_wire) \in Nat \ {0} /\ Head(mouse_wire) = mouse_wire[1]
        /\ Len(Tail(mouse_wire)) = Len(mouse_wire) - 1
        /\ \A i \in 1..(Len(mouse_wire) - 1) : Tail(mouse_wire)[i] = mouse_wire[i + 1]
    BY <1>0, <2>1, HeadTailProperties, EmptySeq
  <2>3. output' # NULL /\ output'.from = 12 /\ output'.byte = mouse_wire[1]
    <3>1. Head(mouse_wire) \in Byte
      BY <1>0, <2>1, HeadTailProperties
    <3>2. QED BY <2>1, <2>2, <3>1, PS2Assumption
  <2>4. InReport
    <3>1. ~MouseGivesUp
      BY <2>1 DEF MouseGivesUp, wireVars
    <3>2. QED BY <1>4, <3>1, ReportKept
  <2>5. ~Holds(12)
    BY <2>1
  <2>6. PICK p \in Packet :
          /\ Len(mouse_wire) = 3 - got
          /\ \A i \in 1..got : data[i] = p[i]
          /\ \A i \in 1..(3 - got) : mouse_wire[i] = p[got + i]
    <3>1. CASE got = 0
      <4>1. Len(mouse_wire) \in {0, 3}
        BY <1>0, <2>4, <2>5, <3>1, Remaining
      <4>2. Len(mouse_wire) = 3 /\ mouse_wire \in Packet
        BY <1>0, <2>2, <4>1 DEF MouseBytes
      <4>3. \A i \in 1..3 : 0 + i = i
        OBVIOUS
      <4>4. QED BY <3>1, <4>2, <4>3
    <3>2. CASE got # 0
      <4>1. Len(mouse_wire) = 3 - got
        <5>1. got \in {1, 2}
          BY <1>0, <3>2
        <5>2. QED BY <1>0, <2>4, <2>5, <5>1, Remaining
      <4>2. \E p \in Packet : Report(p, got, got)
        BY <1>0, <2>4, <2>5, <3>2 DEF MouseInStep
      <4>3. QED BY <4>1, <4>2 DEF Report
    <3>3. QED BY <3>1, <3>2
  <2>7. \A i \in 1..(3 - (got + 1)) : Tail(mouse_wire)[i] = p[got + 1 + i]
    <3> SUFFICES ASSUME NEW i \in 1..(3 - (got + 1)) PROVE Tail(mouse_wire)[i] = p[got + 1 + i]
      OBVIOUS
    <3>1. i \in 1..(Len(mouse_wire) - 1) /\ i + 1 \in 1..(3 - got) /\ got + (i + 1) = got + 1 + i
      BY <1>0, <2>6
    <3>2. QED BY <2>2, <2>6, <3>1
  <2>8. mouse_wire[1] = p[got + 1]
    <3>1. 1 \in 1..(3 - got)
      <4>1. got \in 0..2
        BY <1>0
      <4> HIDE DEF got
      <4>2. QED BY <4>1
    <3>2. QED BY <2>6, <3>1
  <2>9. Report(p, got, got + 1)'
    BY <2>1, <2>3, <2>6, <2>7, <2>8 DEF Report
  <2>10. Holds(12)'
    BY <2>3
  <2> HIDE DEF Holds
  <2>11. QED BY <2>1, <2>9, <2>10 DEF MouseInStep
<1>5. CASE Initialize
  BY <1>0, <1>5, MouseUntouched DEF Initialize, userVars, wireVars, MouseBytes
<1>6. CASE ReturnEarly
  BY <1>0, <1>6, MouseUntouched DEF ReturnEarly, userVars, wireVars, MouseBytes
<1>7. CASE StartHandler(1, "keyboard")
  BY <1>0, <1>7, MouseUntouched DEF StartHandler, userVars, wireVars, MouseBytes
<1>8. CASE StartHandler(12, "mouse")
  BY <1>0, <1>8, MouseUntouched DEF StartHandler, userVars, wireVars, MouseBytes
<1>9. CASE KeyboardEventOccurred
  <2>1. ~Holds(12) /\ ~Holds(12)'
    BY <1>9, OwnByte DEF KeyboardEventOccurred, ReadData
  <2>2. Len(data) = 0
    BY <1>0, <1>9 DEF MouseBytes, KeyboardEventOccurred
  <2>3. QED
    BY <1>0, <1>9, <2>1, <2>2, MouseUntouched DEF KeyboardEventOccurred, ReadData, wireVars
<1>10. ASSUME MouseEventOccurred, InReport' PROVE MouseInStep'
  <2> DEFINE got == Len(data)
             bytes == Append(data, output.byte)
  <2>1. Holds(12) /\ output.byte \in Byte
    BY <1>10, OwnByte DEF PS2Inv, Typed
  <2>2. /\ Len(bytes) = got + 1 /\ bytes[got + 1] = output.byte
        /\ \A i \in 1..got : bytes[i] = data[i]
    BY <1>0, <2>1, AppendProperties
  <2>3. InReport
    <3>1. ~MouseGivesUp
      BY <2>1 DEF MouseGivesUp
    <3>2. QED BY <1>10, <3>1, ReportKept
  <2>4. PICK p \in Packet : Report(p, got, got + 1)
    BY <1>0, <2>1, <2>3 DEF MouseInStep
  <2>5. /\ output' = NULL /\ mouse_wire' = mouse_wire
        /\ data' = IF Len(bytes) < 3 THEN bytes ELSE <<>>
    BY <1>10 DEF MouseEventOccurred, ReadData, wireVars
  <2>6. ~Holds(12)'
    BY <2>5
  <2>7. CASE got + 1 < 3
    <3>1. data' = bytes /\ Len(data') = got + 1
      BY <2>2, <2>5, <2>7
    <3>2. \A i \in 1..(got + 1) : data'[i] = p[i]
      <4>1. \A i \in 1..got : bytes[i] = p[i]
        BY <2>2, <2>4 DEF Report
      <4>2. bytes[got + 1] = p[got + 1]
        BY <2>1, <2>2, <2>4 DEF Report
      <4>3. \A i \in 1..(got + 1) : i \in 1..got \/ i = got + 1
        BY <1>0
      <4> HIDE DEF bytes, got
      <4>4. QED BY <3>1, <4>1, <4>2, <4>3
    <3>3. \A i \in 1..(3 - (got + 1)) : mouse_wire[i] = p[got + 1 + i]
      BY <2>4 DEF Report
    <3> HIDE DEF bytes, got, Holds
    <3>4. Report(p, Len(data), Len(data))'
      BY <2>5, <2>6, <3>1, <3>2, <3>3 DEF Report
    <3>5. QED BY <2>6, <3>4 DEF MouseInStep
  <2>8. CASE ~(got + 1 < 3)
    <3>1. Len(data') = 0
      BY <2>2, <2>5, <2>8
    <3> HIDE DEF got, bytes, Holds
    <3>2. QED BY <2>6, <3>1 DEF MouseInStep
  <2>9. QED BY <2>7, <2>8
<1>11. CASE MouseGivesUp
  <2>1. Len(data') = 0 /\ ~Holds(12)'
    BY <1>11 DEF MouseGivesUp
  <2> HIDE DEF Holds
  <2>2. QED BY <2>1 DEF MouseInStep
<1>12. CASE GetKey
  BY <1>0, <1>12, MouseUntouched DEF GetKey, userVars, wireVars, MouseBytes
<1>13. CASE GetMouseEvent
  BY <1>0, <1>13, MouseUntouched DEF GetMouseEvent, userVars, wireVars, MouseBytes
<1>14. CASE ~InReport'
  BY <1>14 DEF MouseInStep
<1>15. QED
  BY <1>1, <1>2, <1>3, <1>4, <1>5, <1>6, <1>7, <1>8, <1>9, <1>10, <1>11, <1>12, <1>13, <1>14
  DEF Next, Devices, Kernel

\* The driver starts between two strokes and two reports.
LEMMA InitInv ==
  ASSUME Init
  PROVE  PS2Inv
<1>1. EmptyRing(NULL) \in Ring /\ EmptyRing(NULL).len = 0
  BY EventAssumption, CircularBufferAssumption DEF EmptyRing, Ring
<1>2. Typed
  <2>1. <<>> \in Seq(Byte)
    OBVIOUS
  <2>2. QED BY <1>1, <2>1 DEF Init, Typed, TypeOK
<1>3. OneRests
  BY DEF Init, OneRests, KeyboardIdle
<1>4. KeyboardInStep
  BY DEF Init, KeyboardInStep, Holds
<1>5. MouseInStep
  BY DEF Init, MouseInStep, Holds
<1>6. MouseBytes
  BY DEF Init, MouseBytes, Holds
<1>7. QED BY <1>2, <1>3, <1>4, <1>5, <1>6 DEF PS2Inv

LEMMA StutterInv ==
  ASSUME PS2Inv, UNCHANGED vars
  PROVE  PS2Inv'
<1> USE DEF vars, userVars, wireVars, recogniser
<1>1. Typed'
  BY DEF PS2Inv, Typed, TypeOK
<1>2. OneRests'
  BY DEF PS2Inv, OneRests, KeyboardIdle, MouseIdle
<1>3. KeyboardInStep'
  BY KeyboardUntouched DEF PS2Inv, Holds
<1>4. MouseBytes' /\ MouseInStep'
  BY MouseUntouched DEF PS2Inv, Holds, MouseBytes
<1>5. QED BY <1>1, <1>2, <1>3, <1>4 DEF PS2Inv

\* The inductive invariant.
THEOREM DriverInv == ASSUME OneAtATime PROVE Spec => []PS2Inv
<1>1. PS2Inv /\ [Next]_vars => PS2Inv'
  <2> SUFFICES ASSUME PS2Inv, [Next]_vars PROVE PS2Inv'
    OBVIOUS
  <2>1. CASE Next
    BY <2>1, TypedStep, OneRestsStep, KeyboardInStepStep, MouseBytesStep, MouseInStepStep DEF PS2Inv
  <2>2. CASE UNCHANGED vars
    BY <2>2, StutterInv
  <2>3. QED BY <2>1, <2>2
<1>2. QED BY InitInv, <1>1, PTL DEF Spec

\* Between two strokes the recogniser is at its beginning and knows the modifiers held,
\* whatever codes the strokes before had.
THEOREM RecogniserKeepsStep == ASSUME OneAtATime PROVE Spec => []RecogniserInStep
<1>1. PS2Inv => RecogniserInStep
  BY DEF PS2Inv, Typed, KeyboardInStep, RecogniserInStep
<1>2. QED BY <1>1, DriverInv, PTL

\* An event that is pushed is the last of the ring, and there is no other way to be longer.
LEMMA EventPushed ==
  ASSUME PS2Inv, Next, InReport, mouse_buffer'.len > mouse_buffer.len
  PROVE  Queue(mouse_buffer')[mouse_buffer'.len] \in {MouseEvent(p) : p \in Packet}
<1> DEFINE event == MouseEvent(Append(data, output.byte))
           events == {MouseEvent(p) : p \in Packet}
<1>1. /\ mouse_buffer \in Ring /\ Queue(mouse_buffer) \in Seq(Value)
      /\ Len(Queue(mouse_buffer)) = mouse_buffer.len /\ mouse_buffer.len \in 0..MaxLen /\ MaxLen \in Nat
  BY RingFields DEF PS2Inv, Typed, TypeOK
<1>2. mouse_buffer' # mouse_buffer
  BY <1>1
<1>3. ASSUME GetMouseEvent PROVE FALSE
  <2>1. mouse_buffer'.len = mouse_buffer.len - 1
    BY <1>1, <1>3 DEF GetMouseEvent, Pop, Ring
  <2>2. QED BY <1>1, <2>1
<1>4. MouseEventOccurred
  BY <1>2, <1>3
  DEF Next, Devices, Kernel, Type, Move, KeyboardSends, MouseSends, Send, Initialize, ReturnEarly,
      StartHandler, KeyboardEventOccurred, GetKey, MouseGivesUp
<1>5. ~(Len(Append(data, output.byte)) < 3) /\ mouse_buffer' = Push(mouse_buffer, event)
  BY <1>2, <1>4 DEF MouseEventOccurred
<1>6. event \in Value /\ event \in events
  BY <1>4, <1>5, ReportRead
<1> HIDE DEF event, events
<1>7. mouse_buffer' \in Ring
  BY <1>1, <1>5, <1>6, PushQueues
<1>8. mouse_buffer.len < MaxLen
  BY <1>1, <1>7 DEF Ring
<1>9. Queue(mouse_buffer') = Append(Queue(mouse_buffer), event)
  BY <1>1, <1>5, <1>6, <1>8, PushQueues
<1>10. Len(Queue(mouse_buffer')) = mouse_buffer'.len
  BY <1>7, RingFields
<1>11. mouse_buffer'.len = mouse_buffer.len + 1
  BY <1>1, <1>6, <1>9, <1>10, AppendProperties
<1>12. QED BY <1>1, <1>6, <1>9, <1>11, AppendProperties DEF events

\* For any reports, lengths of the ring and moments of giving up: no event is put together
\* from bytes of two reports or from a part of one, except between giving up in the middle
\* of a report that is still coming and the next rest of the mouse.
THEOREM MouseReportsAreWhole == ASSUME OneAtATime PROVE Spec => MousePacketsAreWhole
<1> DEFINE Left == Len(data) \in 1..2 /\ Unread # 0 /\ data' = <<>> /\ handler' = "none"
           Whole == mouse_buffer'.len > mouse_buffer.len =>
                      Queue(mouse_buffer')[mouse_buffer'.len] \in {MouseEvent(p) : p \in Packet}
<1>1. ASSUME PS2Inv, Next, InReport PROVE Whole
  BY <1>1, EventPushed
<1>2. ASSUME PS2Inv, Next, InReport PROVE InReport' \/ Left
  <2>1. CASE ~MouseGivesUp
    BY <1>2, <2>1, ReportKept
  <2>2. CASE MouseGivesUp /\ Len(data) = 0
    <3>1. ~Holds(12)
      BY <2>2 DEF MouseGivesUp, Holds
    <3>2. Len(mouse_wire) \in {0, 3}
      BY <1>2, <2>2, <3>1, Remaining DEF PS2Inv
    <3>3. QED BY <1>2, <2>2, <3>2, ReportKept
  <2>3. CASE MouseGivesUp /\ Len(data) # 0
    <3>1. Len(data) \in 1..2 /\ Len(data) \in {1, 2}
      BY <1>2, <2>3 DEF PS2Inv, MouseBytes
    <3>2. ~Holds(12)
      BY <2>3 DEF MouseGivesUp, Holds
    <3>3. Len(mouse_wire) = 3 - Len(data)
      BY <1>2, <3>1, <3>2, Remaining DEF PS2Inv
    <3>4. Unread = Len(mouse_wire) + 0
      BY <3>2 DEF Unread, Holds
    <3>5. Unread # 0
      BY <3>1, <3>3, <3>4
    <3>6. QED BY <2>3, <3>1, <3>5 DEF MouseGivesUp
  <2>4. QED BY <2>1, <2>2, <2>3
<1>3. ASSUME PS2Inv', MouseIdle' PROVE InReport'
  <2>1. Len(data') = 0
    BY <1>3 DEF PS2Inv, MouseBytes, MouseIdle
  <2>2. Unread' = 0
    BY <1>3 DEF MouseIdle, Unread
  <2>3. QED BY <2>1, <2>2 DEF InReport
<1>4. ASSUME PS2Inv, PS2Inv', Next
      PROVE  (InReport => Whole /\ (InReport' \/ Left)) /\ (MouseIdle' => InReport')
  BY <1>1, <1>2, <1>3, <1>4
<1>5. QED BY <1>4, DriverInv, PTL DEF Spec, MousePacketsAreWhole

-----------------------------------------------------------------------------
(* The driver implements the stream of strokes *)

\* Only the last byte of a stroke, what is typed and what is taken are seen.
LEMMA DriverStep ==
  ASSUME PS2Inv, Next
  PROVE  [Keys!Next]_Keys!vars
<1> USE DEF Keys!vars
<1>0. /\ keyboard_buffer \in Ring /\ Queue(keyboard_buffer) \in Seq(Value)
      /\ Len(Queue(keyboard_buffer)) = keyboard_buffer.len
      /\ keyboard_buffer.len \in 0..MaxLen /\ MaxLen \in Nat
  BY RingFields DEF PS2Inv, Typed, TypeOK
<1>1. ASSUME NEW s \in Stroke, Type(s) PROVE Keys!Next
  BY <1>1 DEF Type, Keys!Next, Keys!Type
<1>2. CASE UNCHANGED <<stroke, down, keyboard_buffer>>
  BY <1>2
<1>3. CASE KeyboardEventOccurred
  <2>1. Holds(1)
    BY <1>3, OwnByte
  <2>2. CASE keyboard_wire # <<>>
    BY <1>3, <2>1, <2>2, ByteRead DEF PS2Inv
  <2>3. CASE keyboard_wire = <<>>
    <3> DEFINE event == Keys!EventOf(stroke)
    <3>1. /\ stroke \in Stroke /\ stroke # NULL /\ stroke' = NULL
          /\ down' = CASE stroke.kind = "Pressed" -> down \cup {stroke.key}
                       [] stroke.kind = "Released" -> down \ {stroke.key}
                       [] OTHER -> down
          /\ keyboard_buffer' = IF IsDebug(event) THEN keyboard_buffer ELSE Push(keyboard_buffer, event)
      BY <1>3, <2>1, <2>3, ByteRead, EventAssumption DEF PS2Inv
    <3>2. event \in Value
      BY <3>1, EventOfStroke, EventAssumption
    <3> HIDE DEF event
    <3>3. Queue(Push(keyboard_buffer, event)) =
            IF Len(Queue(keyboard_buffer)) = MaxLen THEN Queue(keyboard_buffer)
            ELSE Append(Queue(keyboard_buffer), event)
      BY <1>0, <3>2, PushQueues, PS2Assumption
    <3>4. Queue(keyboard_buffer)' =
            IF Len(Queue(keyboard_buffer)) = MaxLen \/ IsDebug(event) THEN Queue(keyboard_buffer)
            ELSE Append(Queue(keyboard_buffer), event)
      BY <3>1, <3>3
    <3>5. Keys!Arrive
      BY <3>1, <3>4 DEF Keys!Arrive, event
    <3>6. QED BY <3>5 DEF Keys!Next
  <2>4. QED BY <2>2, <2>3
<1>4. CASE MouseEventOccurred
  <2>1. UNCHANGED <<stroke, down, keyboard_buffer>>
    BY <1>4, OwnByte DEF MouseEventOccurred, ReadData, Holds
  <2>2. QED BY <2>1
<1>5. CASE GetKey
  <2>1. Queue(keyboard_buffer)' = Tail(Queue(keyboard_buffer)) /\ Queue(keyboard_buffer) # <<>>
    BY <1>0, <1>5, PopDequeues DEF GetKey
  <2>2. QED BY <1>5, <2>1 DEF GetKey, userVars, Keys!Next, Keys!Take
<1>6. QED
  BY <1>1, <1>2, <1>3, <1>4, <1>5
  DEF Next, Devices, Kernel, Move, KeyboardSends, MouseSends, Send, Initialize, ReturnEarly,
      StartHandler, MouseGivesUp, GetMouseEvent, userVars

\* Whatever is typed, programs get each stroke once, in order, with the modifiers that were
\* held, except those that come when the buffer is full.
THEOREM DriverDeliversKeys == ASSUME OneAtATime PROVE Spec => DeliversKeys
<1>1. Init => Keys!Init
  <2> SUFFICES ASSUME Init PROVE Keys!Init
    OBVIOUS
  <2>1. Queue(keyboard_buffer) = <<>>
    BY DEF Init, Queue, EmptyRing
  <2>2. QED BY <2>1 DEF Init, Keys!Init
<1>2. PS2Inv /\ [Next]_vars => [Keys!Next]_Keys!vars
  <2> SUFFICES ASSUME PS2Inv, [Next]_vars PROVE [Keys!Next]_Keys!vars
    OBVIOUS
  <2>1. CASE Next
    BY <2>1, DriverStep
  <2>2. CASE UNCHANGED vars
    BY <2>2 DEF vars, userVars, Keys!vars
  <2>3. QED BY <2>1, <2>2
<1>3. QED BY <1>1, <1>2, DriverInv, PTL DEF Spec, DeliversKeys, Keys!Spec
=============================================================================
