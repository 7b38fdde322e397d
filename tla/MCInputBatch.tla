--------------------------- MODULE MCInputBatch ---------------------------
(* InputBatch with packets of every kind, two or three of the kinds whose     *)
(* batch functions compare something, and numbers of four bits.              *)
EXTENDS InputBatch

Scroll(n) == [kind |-> "scroll", val |-> <<n>>]
Rel(x, y) == [kind |-> "mouse_rel", val |-> <<x, y>>]
Abs(ref, v) == [kind |-> "mouse_abs", state |-> ref, val |-> v]
Pad(c, m, b, v) == [kind |-> "controller", ctrl |-> c, mask |-> m, state |-> b, val |-> v]
Touch(p, e, v) == [kind |-> "touch", pointer |-> p, event |-> e, val |-> v]
Pen(e, b, v) == [kind |-> "pen", event |-> e, state |-> b, val |-> v]
PadTouch(c, p, e, v) ==
  [kind |-> "controller_touch", ctrl |-> c, pointer |-> p, event |-> e, val |-> v]
Motion(c, s, v) == [kind |-> "motion", ctrl |-> c, state |-> s, val |-> v]

Click == [kind |-> "mouse_button", val |-> 1]

Mouse == {Rel(6, 6), Abs("small", 1), Abs("small", 2), Abs("large", 1), Click}
Pads ==
  {Pad(0, 3, "up", 1), Pad(0, 3, "up", 2), Pad(0, 3, "down", 1), Pad(1, 3, "up", 1),
   Pad(1, 2, "up", 1)}
Fingers ==
  {Touch(1, "move", 1), Touch(1, "move", 2), Touch(1, "hover", 1), Touch(2, "move", 1),
   Touch(2, "up", 1)}
Pens == {Pen("move", "none", 1), Pen("move", "none", 2), Pen("move", "eraser", 1),
         Pen("up", "none", 1), Click}
PadTouches ==
  {PadTouch(0, 1, "move", 1), PadTouch(0, 1, "move", 2), PadTouch(0, 2, "down", 1),
   PadTouch(1, 1, "move", 1)}
Motions == {Motion(0, "gyro", 1), Motion(0, "gyro", 2), Motion(0, "accel", 1),
            Motion(1, "gyro", 1)}

MCClients == {Mouse, Pads, Fingers, Pens, PadTouches, Motions}
MCSums == {{Rel(6, 6), Rel(3, -3), Scroll(5)}}
=============================================================================
