----------------------------- MODULE SliceStream -----------------------------
(* A coded slice among other NAL units: its data is what the arithmetic     *)
(* coder wrote, carried by the byte stream and decoded on the other side.   *)
EXTENDS BinCoder, NalUnits

CONSTANTS RawBytes,     \* the bytes of the payloads that are not slices
          SliceHeader,  \* the bytes of the slice header
          MaxWork       \* bound on the symbols of the slice and the bytes of those payloads together

ASSUME SliceAssumption == RawBytes \subseteq Byte /\ SliceHeader \in Seq(Byte) /\ MaxWork \in Nat

vars == <<enc, coded, data, dec, decoded, verdict, unit, file, closed, queue, received, reader>>

SlicePayload == SliceHeader \o data
SliceWritten == \E i \in DOMAIN queue : IsVcl(queue[i].type)
Complete == coded = <<>> \/ SliceWritten

OtherBytes ==
  FoldLeft(LAMBDA n, u : n + IF IsVcl(u.type) THEN 0 ELSE Len(u.rbsp), 0,
           IF unit = NoUnit THEN queue ELSE Append(queue, unit))
MayGrow == Len(coded) + OtherBytes < MaxWork

(***************************************************************************)
(* Encoder: a slice is coded, then its NAL unit is written                 *)
(***************************************************************************)

CodeSymbol == /\ unit = NoUnit /\ ~closed /\ MayGrow
              /\ \E s \in Symbols : Encode(s)
              /\ UNCHANGED nalVars

CodeEnd == unit = NoUnit /\ EndOfSlice /\ UNCHANGED nalVars

StartSlice == /\ data # <<>> /\ ~SliceWritten
              /\ \E t \in Types : IsVcl(t) /\ StartUnit(t)
              /\ UNCHANGED coderVars

StartOther == /\ Complete
              /\ \E t \in Types : ~IsVcl(t) /\ StartUnit(t)
              /\ UNCHANGED coderVars

PutSliceByte == /\ unit # NoUnit /\ IsVcl(unit.type) /\ Len(unit.rbsp) < Len(SlicePayload)
                /\ PutByte(SlicePayload[Len(unit.rbsp) + 1])
                /\ UNCHANGED coderVars

PutOtherByte == /\ unit # NoUnit /\ ~IsVcl(unit.type)
                /\ MayGrow
                /\ \E v \in RawBytes : PutByte(v)
                /\ UNCHANGED coderVars

SliceComplete == unit # NoUnit /\ IsVcl(unit.type) => unit.rbsp = SlicePayload

PadSlice == SliceComplete /\ PadUnit /\ UNCHANGED coderVars

EndNalUnit == SliceComplete /\ (\E long \in BOOLEAN : EndUnit(long)) /\ UNCHANGED coderVars

CloseStream == Complete /\ Close /\ UNCHANGED coderVars

(***************************************************************************)
(* Decoder: a slice is decoded before the next NAL unit is read            *)
(***************************************************************************)

SliceReceived == received # NoUnit /\ IsVcl(received.type)

ReadNalUnit == (SliceReceived => verdict \notin {"none", "decoding"}) /\ Read /\ UNCHANGED coderVars

ReceivedData == SubSeq(received.rbsp, Len(SliceHeader) + 1, Len(received.rbsp))

DecodeStart == /\ SliceReceived
               /\ StartDecoding(ReceivedData)
               /\ UNCHANGED nalVars

DecodeOne == DecodeNext(ReceivedData) /\ UNCHANGED nalVars

Init == CoderInit /\ NalInit

Next == \/ CodeSymbol \/ CodeEnd
        \/ StartSlice \/ StartOther \/ PutSliceByte \/ PutOtherByte \/ PadSlice \/ EndNalUnit \/ CloseStream
        \/ ReadNalUnit \/ DecodeStart \/ DecodeOne

Spec == Init /\ [][Next]_vars

(***************************************************************************)
(* Properties                                                              *)
(***************************************************************************)

(* No NAL unit holds three bytes the parser takes for its end, and none     *)
(* ends in a zero that the next start code would swallow: the emulation     *)
(* prevention of writeNaluContent keeps the units apart.                    *)
NoStartCodeInside ==
  unit # NoUnit =>
    /\ \A i \in 1..(Len(unit.bytes) - 2) :
         ~(unit.bytes[i] = 0 /\ unit.bytes[i + 1] = 0 /\ unit.bytes[i + 2] \in 0..2)
    /\ Ended(unit)[Len(Ended(unit))] # 0

(* The decoder reads the stream to its end, finds every unit that was       *)
(* written, and none of the CHECKs of its parser fails.                     *)
AllDelivered ==
  /\ reader # "aborted"
  /\ reader = "ended" => queue = <<>>

(* The units arrive as they were written, with their types, in order and    *)
(* without the bytes added on the way.                                      *)
Channel == INSTANCE Transport WITH
  Units <- [type : Types, rbsp : Seq(Byte)]
ImplementsTransport == Channel!Spec

(* The decoder gets the bins that were coded, ends on the stop pattern that *)
(* BinDecoderBase::finish CHECKs and reads exactly the bytes of the slice:  *)
(* carries and outstanding bytes are resolved however far they run.         *)
SameBins == verdict \in {"none", "decoding", "decoded"}
=============================================================================
