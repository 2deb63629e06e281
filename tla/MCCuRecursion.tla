--------------------------- MODULE MCCuRecursion ---------------------------
(* A CTU of 4x2 blocks: two halves, the left one with few splits and the    *)
(* right one with all the ways that lead to a single block, which is where  *)
(* codings are reused.                                                      *)
EXTENDS CuRecursion

Ctu4x2 == [x |-> 0, y |-> 0, w |-> 4, h |-> 2]

OfferedIn4x2(a) ==
  CASE a = Ctu4x2 -> <<"VERT">>
    [] a.w = 2 /\ a.h = 2 -> IF a.x = 0 THEN <<"HORZ">> ELSE <<"HORZ", "VERT", "QUAD">>
    [] a.w = 2 /\ a.h = 1 -> IF a.x = 0 THEN <<>> ELSE <<"VERT">>
    [] OTHER -> <<>>
=============================================================================
