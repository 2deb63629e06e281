---------------------------- MODULE MCSliceStream ----------------------------
(* Short streams: payloads made of the bytes that matter to the start       *)
(* codes, and a slice whose bins drive the coder into its corners.          *)
EXTENDS SliceStream

Sym(kind, n, q, mps, val) == [kind |-> kind, n |-> n, q |-> q, mps |-> mps, val |-> val]

(* Bytes of bypass bins that make the coder hold back bytes and carry into  *)
(* them, a long run of them, and bins of a nearly certain and of an         *)
(* undecided context                                                        *)
CornerSymbols ==
  {Sym("ep", 8, 0, 0, v) : v \in {0, 1, 128, 255}}
    \cup {Sym("ep", 12, 0, 0, 4095), Sym("ep", 1, 0, 0, 1), Sym("trm", 1, 0, 0, 0)}
    \cup {Sym("ctx", 1, q, 1, v) : q \in {0, 31}, v \in {0, 1}}


Header1 == <<128>>
=============================================================================
