------------------------------ MODULE CuAreas -------------------------------
(* The areas a split makes of a coding unit's area.                         *)
EXTENDS Integers, Sequences

(* Where the last part of a ternary split of a side of n samples starts *)
LastThirdMutant(n) == 2 * (n \div 4)
LastThird(n) == 3 * (n \div 4)

(* PartitionerImpl::getCUSubPartitions *)
SubAreas(a, s) ==
  LET hw == a.w \div 2   qw == a.w \div 4
      hh == a.h \div 2   qh == a.h \div 4
      Sub(dx, dy, w, h) == [x |-> a.x + dx, y |-> a.y + dy, w |-> w, h |-> h]
  IN CASE s = "QUAD" -> <<Sub(0, 0, hw, hh), Sub(hw, 0, hw, hh),
                          Sub(0, hh, hw, hh), Sub(hw, hh, hw, hh)>>
       [] s = "HORZ" -> <<Sub(0, 0, a.w, hh), Sub(0, hh, a.w, hh)>>
       [] s = "VERT" -> <<Sub(0, 0, hw, a.h), Sub(hw, 0, hw, a.h)>>
       [] s = "TRIH" -> <<Sub(0, 0, a.w, qh), Sub(0, qh, a.w, hh), Sub(0, LastThird(a.h), a.w, qh)>>
       [] s = "TRIV" -> <<Sub(0, 0, qw, a.h), Sub(qw, 0, hw, a.h), Sub(LastThird(a.w), 0, qw, a.h)>>
=============================================================================
