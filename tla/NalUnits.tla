------------------------------ MODULE NalUnits -------------------------------
(* NAL units written to a byte stream and read back: the emulation          *)
(* prevention of writeNaluContent, the start codes of Annex B, the parser   *)
(* of the byte stream and convertPayloadToRBSP.                             *)
EXTENDS Integers, Sequences, SequencesExt, FiniteSetsExt

CONSTANTS Types,        \* nal_unit_type: those up to 11 are slices
          MaxUnits      \* bound on the NAL units of the stream

ASSUME NalAssumption == Types \subseteq 0..31 /\ MaxUnits \in Nat

Byte == 0..255
IsVcl(type) == type <= 11
NoUnit == <<>>

VARIABLES unit,         \* the unit being written: its type, payload and bytes so far, and the zeros at its end
          file,         \* the bytes of the stream not yet read
          closed,       \* is the stream complete?
          queue,        \* the units in the file: type and payload
          received,     \* the unit read last
          reader        \* "reading", "ended", or "aborted" by one of its CHECKs
nalVars == <<unit, file, closed, queue, received, reader>>

(***************************************************************************)
(* Writer                                                                  *)
(***************************************************************************)

Header(type) == <<0, 8 * type + 1>>     \* layer 0, temporal sub-layer 0

StartUnit(type) ==
  /\ unit = NoUnit /\ ~closed /\ Len(queue) < MaxUnits
  /\ unit' = [type |-> type, rbsp |-> <<>>, bytes |-> Header(type), zeros |-> 0, padded |-> FALSE]
  /\ UNCHANGED <<file, closed, queue, received, reader>>

(* Mutant: a byte 3 of the payload is not protected                         *)
EmulatesBelow3(u, v) == u.zeros = 2 /\ v < 3

(* Mutant: only start codes are broken up                                   *)
EmulatesStartCode(u, v) == u.zeros = 2 /\ v = 1

(* One turn of the loop of writeNaluContent                                 *)
Emulates(u, v) == u.zeros = 2 /\ v <= 3

Escaped(u, v) ==
  [u EXCEPT !.rbsp = Append(@, v),
            !.bytes = @ \o (IF Emulates(u, v) THEN <<3, v>> ELSE <<v>>),
            !.zeros = IF v # 0 THEN 0 ELSE IF Emulates(u, v) THEN 1 ELSE @ + 1]

PutByte(v) ==
  /\ unit # NoUnit /\ ~unit.padded
  /\ unit' = Escaped(unit, v)
  /\ UNCHANGED <<file, closed, queue, received, reader>>

(* A byte 3 after a final zero                                              *)
Ended(u) == IF u.zeros > 0 THEN Append(u.bytes, 3) ELSE u.bytes

(* cabac_zero_words, with their emulation prevention                        *)
PadUnit ==
  /\ unit # NoUnit /\ IsVcl(unit.type) /\ ~unit.padded /\ unit.rbsp # <<>> /\ Last(unit.rbsp) # 0
  /\ unit' = [unit EXCEPT !.bytes = Ended(unit) \o <<0, 0, 3>>, !.padded = TRUE]
  /\ UNCHANGED <<file, closed, queue, received, reader>>

StartCode(long) == IF long THEN <<0, 0, 0, 1>> ELSE <<0, 0, 1>>

(* An RBSP ends in its stop bit, so its last byte is not zero               *)
EndUnit(long) ==
  /\ unit # NoUnit /\ unit.rbsp # <<>> /\ Last(unit.rbsp) # 0
  /\ file' = file \o StartCode(long) \o Ended(unit)
  /\ queue' = Append(queue, [type |-> unit.type, rbsp |-> unit.rbsp])
  /\ unit' = NoUnit
  /\ UNCHANGED <<closed, received, reader>>

Close ==
  /\ unit = NoUnit /\ ~closed /\ queue # <<>>
  /\ closed' = TRUE
  /\ UNCHANGED <<unit, file, queue, received, reader>>

(***************************************************************************)
(* Reader                                                                  *)
(***************************************************************************)

Peek(f, i, n) == SubSeq(f, i, Min({i + n - 1, Len(f)}))
StartsAt(f, i) == Peek(f, i, 3) = <<0, 0, 1>> \/ Peek(f, i, 4) = <<0, 0, 0, 1>>

(* Mutant: the parser takes an emulation prevention byte for the end        *)
EndsAtThree(f, i) == i + 2 <= Len(f) /\ f[i] = 0 /\ f[i + 1] = 0 /\ f[i + 2] <= 3

(* Three bytes that are at most 2 end a NAL unit                            *)
EndsAt(f, i) == i + 2 <= Len(f) /\ f[i] = 0 /\ f[i + 1] = 0 /\ f[i + 2] <= 2

FirstFrom(f, i, P(_, _)) ==
  LET at == {j \in i..Len(f) : P(f, j)} IN IF at = {} THEN Len(f) + 1 ELSE Min(at)

(* The bytes of the next NAL unit, those after it, and whether the file has *)
(* ended (with the unit, or where the parser expected zeros)                *)
NextUnit(f) ==
  LET code == FirstFrom(f, 1, StartsAt)
      start == code + (IF Peek(f, code, 3) = <<0, 0, 1>> THEN 3 ELSE 4)
      end == FirstFrom(f, start, EndsAt)
      next == FirstFrom(f, end, StartsAt)
  IN [bytes |-> SubSeq(f, start, end - 1), rest |-> SubSeq(f, next, Len(f)),
      eof |-> next > Len(f) \/ \E j \in (1..(code - 1)) \cup (end..(next - 1)) : f[j] # 0]

(* One turn of the loop of convertPayloadToRBSP; escape: the byte before    *)
(* was an emulation prevention byte                                         *)
Convert(c, b) ==
  IF c.zeros = 2 /\ b = 3 THEN [c EXCEPT !.escape = TRUE, !.zeros = 0]
  ELSE [out |-> Append(c.out, b), zeros |-> IF b = 0 THEN c.zeros + 1 ELSE 0, escape |-> FALSE,
        ok |-> c.ok /\ ~(c.escape /\ b > 3) /\ ~(c.zeros >= 2 /\ b < 3)]

(* The loop itself, over all bytes                                          *)
Converted(bytes) ==
  LET c[i \in 0..Len(bytes)] ==
        IF i = 0 THEN [out |-> <<>>, zeros |-> 0, escape |-> FALSE, ok |-> TRUE] ELSE Convert(c[i - 1], bytes[i])
  IN c[Len(bytes)]

LastNonZero(s) == LET at == {i \in DOMAIN s : s[i] # 0} IN IF at = {} THEN 0 ELSE Max(at)

(* The payload of the NAL unit of these bytes; cabac_zero_words are removed *)
ReadUnit(bytes) ==
  LET c == Converted(bytes)
      type == bytes[2] \div 8
      kept == IF IsVcl(type) THEN SubSeq(c.out, 1, LastNonZero(c.out)) ELSE c.out
  IN [ok |-> c.ok /\ c.zeros = 0, unit |-> [type |-> type, rbsp |-> SubSeq(kept, 3, Len(kept))]]

Read ==
  LET n == NextUnit(file)
      r == ReadUnit(n.bytes)
  IN /\ closed /\ reader = "reading"
     /\ IF Len(n.bytes) < 2 \/ ~r.ok
        THEN reader' = "aborted" /\ UNCHANGED <<received, queue>>
        ELSE /\ reader' = IF n.eof THEN "ended" ELSE "reading"
             /\ received' = r.unit
             /\ queue' = SubSeq(queue, 2, Len(queue))
     /\ file' = n.rest
     /\ UNCHANGED <<unit, closed>>

NalInit ==
  /\ unit = NoUnit /\ file = <<>> /\ closed = FALSE /\ queue = <<>>
  /\ received = NoUnit /\ reader = "reading"
=============================================================================
