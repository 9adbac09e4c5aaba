------------------------------- MODULE MCPS2 -------------------------------
(* Keys whose codes share bytes with those of PrintScreen and Pause. *)
EXTENDS PS2, TLC

Entry(key, shifted_key, kind) == [key |-> key, shifted_key |-> shifted_key, kind |-> kind]

OneByteCodes ==
     \h20 :> Entry("d", "D", "Pressed") @@ \hA0 :> Entry("d", "D", "Released")
  @@ \h2A :> Entry("LeftShift", NULL, "Pressed") @@ \hAA :> Entry("LeftShift", NULL, "Released")
  @@ \h38 :> Entry("LeftAlt", NULL, "Pressed")

TwoByteCodes ==
  \h1D :> Entry("RightControl", NULL, "Pressed") @@ \h9D :> Entry("RightControl", NULL, "Released")

\* Two reports whose bytes differ, one of them to the left.
Packets == {<<\h09, 5, 0>>, <<\h18, \hFE, 1>>}

Bytes(i) == {p[i] : p \in Packets}

Values == {NULL} \cup KeyEvent \cup
  {MouseEvent(<<flags, x, y>>) : flags, x, y \in UNION {Bytes(i) : i \in 1..3}}
=============================================================================
