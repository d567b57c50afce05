------------------------------ MODULE MCAckLink ------------------------------
(* AckLink on small instances. *)
EXTENDS AckLink

\* A sender that has just started, and one about to pass the skipped number.
StartAndWrap == {0, Mod - 3}

\* A sender that has just started.
Start == {0}

\* One whose first number after a restart is as far behind as the receiver's shift is
\* wide.
Shift == {ShiftBits}
=============================================================================
