------------------------------ MODULE Lattice ------------------------------
(***************************************************************************)
(* The security labels of pycap/lattice.py: the two-point chain BOT < H.   *)
(* A label is its rank; the printable name is left out.                    *)
(***************************************************************************)
EXTENDS Integers

BOTTOM == 0
HIGH   == 1

\* Lattice.elements
Label == {BOTTOM, HIGH}

join(a, b) == IF a >= b THEN a ELSE b

leq(a, b) == a <= b
=============================================================================
