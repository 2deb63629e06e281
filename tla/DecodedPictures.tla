--------------------------- MODULE DecodedPictures ---------------------------
(* The decoded picture buffer of the decoder: the loop of DecApp::decode,   *)
(* the slices DecLib decodes and the pictures DecApp writes, for one layer  *)
(* of frames coded in one slice each. Picture order counts stay within one  *)
(* cycle of their least significant bits.                                   *)
EXTENDS Integers, FiniteSets, Sequences, SequencesExt, FiniteSetsExt

CONSTANTS MaxPoc,               \* the POCs are 0..MaxPoc
          MaxPics,              \* bound on the pictures of a stream
          MaxNumReorder,        \* sps_max_num_reorder_pics
          MaxDecPicBuffering,   \* sps_max_dec_pic_buffering
          HiddenTypes,          \* the types of the pictures whose output flag may be 0
          Oddities              \* the odd streams to decode, of those named below

MaxInt == 1000                  \* MAX_INT

(* LoneAfterEos: the file ends in a sequence of one picture after an EOS;   *)
(* RaslBeforeEos: an EOS follows a RASL picture. The decoder loses a        *)
(* picture on each of them.                                                 *)
ASSUME BufferAssumption ==
  /\ MaxPoc \in Nat /\ MaxPoc < MaxInt /\ MaxPics \in Nat /\ MaxNumReorder \in Nat
  /\ MaxDecPicBuffering \in Nat \ {0}
  /\ HiddenTypes \subseteq {"IDR", "CRA", "TRAIL", "RASL", "RADL"}
  /\ Oddities \subseteq {"LoneAfterEos", "RaslBeforeEos"}

VARIABLES vtm,          \* the state of DecApp and DecLib
          enc,          \* the coded stream so far, as a conforming encoder knows it
          due,          \* the pictures <<sequence, POC>> received and still to be shown
          shown,        \* the picture shown last, then those of the latest step
          pc            \* "decoding", "ended", or "aborted" when a reference is missing
vars == <<vtm, enc, due, shown, pc>>

Pocs == 0..MaxPoc
Leading == {"RASL", "RADL"}
Types == {"IDR", "CRA", "TRAIL"} \cup Leading

(***************************************************************************)
(* The application: writing pictures                                       *)
(***************************************************************************)

(* The POCs of S in increasing order, as the list has them                  *)
ByPoc(S) ==
  CHOOSE seq \in [1..Cardinality(S) -> S] : \A i, j \in DOMAIN seq : i < j => seq[i] < seq[j]
Ids(dpb, seq) == [i \in DOMAIN seq |-> dpb[seq[i]].id]

(* s.dpb: the slots of m_cListPic by POC (the list is kept sorted by POC);  *)
(* s.written: the pictures written in this iteration                        *)
FlushOutput(s) ==
  IF ~s.listed \/ DOMAIN s.dpb = {} THEN s
  ELSE [s EXCEPT !.written = @ \o Ids(s.dpb, ByPoc({q \in DOMAIN s.dpb : s.dpb[q].needed})),
                 !.dpb = <<>>, !.lastDisplay = -MaxInt]

NotYetDisplayed(s) == {q \in DOMAIN s.dpb : s.dpb[q].needed /\ q >= s.lastDisplay}

(* Mutant: the references are not counted                                   *)
FullnessOfWaiting(s, waiting) == Cardinality(waiting)

Fullness(s, waiting) == Cardinality(waiting \cup {q \in DOMAIN s.dpb : s.dpb[q].referenced})

(* The pictures one pass over the list writes: with those before it gone,   *)
(* too many pictures wait still, or the buffer is still too full            *)
Ready(s) ==
  {q \in NotYetDisplayed(s) :
     LET waiting == {w \in NotYetDisplayed(s) : w >= q}
     IN Cardinality(waiting) > MaxNumReorder \/ Fullness(s, waiting) > MaxDecPicBuffering}

(* A picture once written: it keeps its slot as long as it is a reference   *)
Written(p) == [p EXCEPT !.needed = FALSE, !.reconstructed = p.referenced /\ @]

WriteOutput(s) ==
  IF ~s.listed \/ Ready(s) = {} THEN s
  ELSE [s EXCEPT !.written = @ \o Ids(s.dpb, ByPoc(Ready(s))), !.lastDisplay = Max(Ready(s)),
                 !.dpb = [q \in DOMAIN s.dpb |-> IF q \in Ready(s) THEN Written(s.dpb[q]) ELSE s.dpb[q]]]

(***************************************************************************)
(* The library: decoding a slice and finishing its picture                 *)
(***************************************************************************)

NoOutputBeforeRecovery(s, p) == s.firstSliceInSequence \/ p.type = "IDR"

(* The RASL pictures of a CRA that starts a sequence are not decodable      *)
RandomAccessSkip(s, p) == p.type = "RASL" /\ s.pocRandomAccess # MaxInt /\ p.poc < s.pocRandomAccess

RefsAvailable(s, p) ==
  p.type \in {"IDR", "CRA"} \/ \A q \in p.refs : q \in DOMAIN s.dpb /\ s.dpb[q].referenced

Marked(dpb, p) ==
  IF p.type = "IDR" THEN dpb
  ELSE [q \in DOMAIN dpb |-> [dpb[q] EXCEPT !.referenced = @ /\ q \in p.refs]]

(* Mutant: a picture once shown gives up its slot                           *)
ReusableOnceShown(dpb) == {q \in DOMAIN dpb : ~dpb[q].needed}

Reusable(dpb) == {q \in DOMAIN dpb : ~dpb[q].needed /\ (~dpb[q].referenced \/ ~dpb[q].reconstructed)}

(* Mutant: the reused slot keeps the picture it had                         *)
GetNewPicBufferStale(dpb, poc, id) ==
  LET kept == DOMAIN dpb \ (IF Reusable(dpb) = {} THEN {} ELSE {Min(Reusable(dpb))})
  IN [q \in kept \cup {poc} |->
        IF q = poc
        THEN [id |-> IF Reusable(dpb) = {} THEN id ELSE dpb[Min(Reusable(dpb))].id,
              needed |-> FALSE, referenced |-> TRUE, reconstructed |-> FALSE]
        ELSE dpb[q]]

(* The slots once the new picture has one, the first reusable one or another *)
GetNewPicBuffer(dpb, poc, id) ==
  LET kept == DOMAIN dpb \ (IF Reusable(dpb) = {} THEN {} ELSE {Min(Reusable(dpb))})
  IN [q \in kept \cup {poc} |->
        IF q = poc THEN [id |-> id, needed |-> FALSE, referenced |-> TRUE, reconstructed |-> FALSE] ELSE dpb[q]]

(* Mutant: the position displayed last is handed on by reference, so that a *)
(* skipped picture counts up the application's                              *)
DecodeSliceByReference(s, p, cvs) ==
  LET nobr == IF p.type = "CRA" THEN NoOutputBeforeRecovery(s, p) ELSE s.lastNoOutputBeforeRecovery
      pra == IF p.type = "IDR" THEN -MaxInt
             ELSE IF s.pocRandomAccess = MaxInt /\ p.type = "CRA" THEN p.poc ELSE s.pocRandomAccess
      t == [s EXCEPT !.lastNoOutputBeforeRecovery = nobr, !.pocRandomAccess = pra]
  IN IF RandomAccessSkip(s, p) THEN [t EXCEPT !.skipped = TRUE, !.lastDisplay = @ + 1]
     ELSE [t EXCEPT !.dpb = GetNewPicBuffer(Marked(@, p), p.poc, <<cvs, p.poc>>),
                    !.cur = [poc |-> p.poc, rasl |-> p.type = "RASL",
                             out |-> p.out /\ ~(p.type = "RASL" /\ nobr)],
                    !.firstSliceInSequence = FALSE, !.firstSliceInPicture = FALSE]

(* A skipped picture changes nothing of the application: xDecodeSlice takes *)
(* iPOCLastDisplay by value, and the count isRandomAccessSkipPicture makes  *)
(* on its reference parameter ends in that copy                             *)
DecodeSlice(s, p, cvs) ==
  LET nobr == IF p.type = "CRA" THEN NoOutputBeforeRecovery(s, p) ELSE s.lastNoOutputBeforeRecovery
      pra == IF p.type = "IDR" THEN -MaxInt
             ELSE IF s.pocRandomAccess = MaxInt /\ p.type = "CRA" THEN p.poc ELSE s.pocRandomAccess
      t == [s EXCEPT !.lastNoOutputBeforeRecovery = nobr, !.pocRandomAccess = pra]
  IN IF RandomAccessSkip(s, p) THEN [t EXCEPT !.skipped = TRUE]
     ELSE [t EXCEPT !.dpb = GetNewPicBuffer(Marked(@, p), p.poc, <<cvs, p.poc>>),
                    !.cur = [poc |-> p.poc, rasl |-> p.type = "RASL",
                             out |-> p.out /\ ~(p.type = "RASL" /\ nobr)],
                    !.firstSliceInSequence = FALSE, !.firstSliceInPicture = FALSE]

FinishPicture(s) ==
  [s EXCEPT !.dpb[s.cur.poc].needed = s.cur.out /\ ~(s.newClvs /\ s.cur.rasl),
            !.dpb[s.cur.poc].reconstructed = TRUE,
            !.firstSliceInPicture = TRUE, !.listed = TRUE]

(***************************************************************************)
(* The decoding loop                                                       *)
(***************************************************************************)

(* Mutant: once set by an EOS, loopFiltered stays                           *)
EndPictureSticky(s, eos, eof) ==
  IF s.firstSliceInSequence \/ s.skipped THEN [s EXCEPT !.firstSliceInPicture = TRUE]
  ELSE LET f == IF ~s.loopFiltered \/ ~eof THEN FinishPicture(s) ELSE s
       IN [f EXCEPT !.loopFiltered = @ \/ eos, !.firstSliceInSequence = @ \/ eos]

(* A new picture, the end of the file or an EOS ends the picture in decoding *)
EndPicture(s, eos, eof) ==
  IF s.firstSliceInSequence \/ s.skipped THEN [s EXCEPT !.firstSliceInPicture = TRUE]
  ELSE LET f == IF ~s.loopFiltered \/ ~eof THEN FinishPicture(s) ELSE s
       IN [f EXCEPT !.loopFiltered = eos, !.firstSliceInSequence = @ \/ eos]

StartsClvs(s, p) == p.type = "IDR" \/ (p.type = "CRA" /\ s.eosInLastPu)

(* What DecApp does with a slice before DecLib decodes it                   *)
BeforeSlice(s, p) ==
  LET f == IF StartsClvs(s, p) THEN FlushOutput(s) ELSE s
  IN [f EXCEPT !.newClvs = StartsClvs(s, p) \/ (@ /\ s.eosInLastPu), !.skipped = FALSE]

(* The end of the loop and of the file                                      *)
EndIteration(s, eof) == IF eof THEN FlushOutput(WriteOutput(s)) ELSE WriteOutput(s)

InitVtm ==
  [dpb |-> <<>>, cur |-> [poc |-> 0, rasl |-> FALSE, out |-> FALSE], listed |-> FALSE, written |-> <<>>,
   firstSliceInPicture |-> TRUE, firstSliceInSequence |-> TRUE, pocRandomAccess |-> MaxInt,
   lastNoOutputBeforeRecovery |-> FALSE, lastDisplay |-> -MaxInt, newClvs |-> TRUE,
   eosInPu |-> FALSE, eosInLastPu |-> FALSE, skipped |-> FALSE, loopFiltered |-> FALSE]

(***************************************************************************)
(* A conforming encoder (outside the decoder): the pictures of the         *)
(* sequence, what its hypothetical decoder holds, and the pictures of the  *)
(* current IRAP                                                            *)
(***************************************************************************)

InitEnc == [n |-> 0, cvs |-> 0, start |-> TRUE, lone |-> FALSE, seen |-> {}, refs |-> {}, waiting |-> {},
            last |-> -1, irap |-> 0, cra |-> FALSE, opens |-> FALSE, before |-> -1, irapBefore |-> -1, rasl |-> {},
            radl |-> {}, trailing |-> {}, afterRasl |-> FALSE]

OpensSequence(p) == p.type = "IDR" \/ (p.type = "CRA" /\ enc.start)

(* Removing pictures in POC order while the hypothetical buffer is too full *)
Bumped(waiting, refs, full) ==
  {q \in waiting : LET later == {w \in waiting : w >= q}
                   IN Cardinality(later) > MaxNumReorder \/ Cardinality(refs \cup later) > full}

LeadingAllowed(p) ==
  /\ enc.trailing = {}
  /\ p.type = "RASL" => enc.cra /\ p.poc > enc.irapBefore /\ \A q \in enc.radl : p.poc < q
  /\ p.type = "RADL" => p.poc > enc.before /\ \A q \in enc.rasl : p.poc > q

ReferencesAllowed(p) ==
  p.refs \subseteq CASE p.type = "IDR" -> {}
                     [] p.type = "CRA" -> IF enc.start THEN {} ELSE {q \in enc.refs : q >= enc.irap}
                     [] p.type = "RASL" -> enc.refs
                     [] p.type = "RADL" -> enc.refs \cap ({enc.irap} \cup enc.radl)
                     [] p.type = "TRAIL" -> enc.refs \cap ({enc.irap} \cup enc.trailing)

Legal(p) ==
  /\ enc.n < MaxPics
  /\ p.out \/ p.type \in HiddenTypes
  /\ enc.start => p.type \in {"IDR", "CRA"}
  /\ ReferencesAllowed(p)
  /\ ~OpensSequence(p) =>
       /\ p.poc \notin enc.seen
       /\ p.type = "CRA" => \A q \in enc.seen : q < p.poc
       /\ p.type \in Leading => p.poc < enc.irap /\ LeadingAllowed(p)
       /\ p.type = "TRAIL" => p.poc > enc.irap
       /\ Cardinality(p.refs) < MaxDecPicBuffering
       /\ p.out => p.poc > enc.last /\ \A q \in Bumped(enc.waiting, p.refs, MaxDecPicBuffering - 1) : p.poc > q

Highest(S, least) == IF S = {} THEN least ELSE Max(S)

(* The hypothetical buffer after a picture *)
AfterPicture(p) ==
  LET opens == OpensSequence(p)
      early == IF opens THEN {} ELSE Bumped(enc.waiting, p.refs, MaxDecPicBuffering - 1)
      held == ((IF opens THEN {} ELSE enc.waiting) \ early) \cup (IF p.out THEN {p.poc} ELSE {})
      late == Bumped(held, {}, MaxPics)
      irap == p.type \in {"IDR", "CRA"}
      With(S, is) == (IF irap THEN {} ELSE S) \cup (IF is THEN {p.poc} ELSE {})
  IN [n |-> enc.n + 1, cvs |-> IF opens THEN enc.cvs + 1 ELSE enc.cvs, start |-> FALSE,
      lone |-> enc.start /\ enc.n > 0, seen |-> (IF opens THEN {} ELSE enc.seen) \cup {p.poc},
      refs |-> p.refs \cup {p.poc}, waiting |-> held \ late,
      last |-> Highest(early \cup late, IF opens THEN -1 ELSE enc.last),
      irap |-> IF irap THEN p.poc ELSE enc.irap, cra |-> IF irap THEN p.type = "CRA" ELSE enc.cra,
      opens |-> IF irap THEN opens ELSE enc.opens,
      before |-> IF irap THEN Highest(IF opens THEN {} ELSE enc.seen, -1) ELSE enc.before,
      irapBefore |-> IF ~irap THEN enc.irapBefore ELSE IF opens THEN -1 ELSE enc.irap,
      rasl |-> With(enc.rasl, p.type = "RASL"), radl |-> With(enc.radl, p.type = "RADL"),
      trailing |-> With(enc.trailing, p.type = "TRAIL"), afterRasl |-> p.type = "RASL"]

(* A picture is to be shown unless it says not, or is a RASL picture of a   *)
(* CRA that opened its sequence                                             *)
MustShow(p) == p.out /\ ~(p.type = "RASL" /\ enc.opens)

(***************************************************************************)
(* One iteration of the decoding loop each; the last NAL unit ends the file *)
(***************************************************************************)

Previous == IF shown = <<>> THEN <<>> ELSE <<Last(shown)>>

Becomes(s, taken) ==
  /\ vtm' = [s EXCEPT !.written = <<>>]
  /\ shown' = Previous \o s.written
  /\ due' = (due \cup taken) \ ToSet(s.written)

(* The next NAL unit starts another picture: end the one in decoding        *)
NewPicture ==
  LET s == WriteOutput(EndPicture(vtm, FALSE, FALSE))
  IN /\ pc = "decoding" /\ ~vtm.firstSliceInPicture /\ enc.n < MaxPics
     /\ Becomes([s EXCEPT !.eosInLastPu = s.eosInPu, !.eosInPu = FALSE], {})
     /\ UNCHANGED <<enc, pc>>

(* The slice of picture p                                                   *)
DecodePicture(p, eof) ==
  LET s == BeforeSlice(vtm, p)
      t == DecodeSlice(s, p, AfterPicture(p).cvs)
      found == RandomAccessSkip(s, p) \/ RefsAvailable(s, p)
      u == IF eof THEN EndPicture(t, FALSE, TRUE) ELSE t
  IN /\ pc = "decoding" /\ vtm.firstSliceInPicture /\ Legal(p)
     /\ (eof /\ enc.start /\ enc.n > 0) => "LoneAfterEos" \in Oddities
     /\ enc' = AfterPicture(p)
     /\ Becomes(IF found THEN EndIteration(u, eof) ELSE s,
                IF MustShow(p) THEN {<<enc'.cvs, p.poc>>} ELSE {})
     /\ pc' = IF ~found THEN "aborted" ELSE IF eof THEN "ended" ELSE pc

(* An EOS NAL unit after a picture                                          *)
EndOfSequence(eof) ==
  LET s == [vtm EXCEPT !.pocRandomAccess = MaxInt, !.eosInPu = TRUE, !.newClvs = TRUE]
      t == EndPicture(s, TRUE, eof)
  IN /\ pc = "decoding" /\ ~enc.start /\ (~vtm.firstSliceInPicture \/ vtm.skipped)
     /\ (eof /\ enc.lone) => "LoneAfterEos" \in Oddities
     /\ enc.afterRasl => "RaslBeforeEos" \in Oddities
     /\ Becomes(EndIteration([t EXCEPT !.firstSliceInPicture = FALSE], eof), {})
     /\ enc' = [enc EXCEPT !.start = TRUE]
     /\ pc' = IF eof THEN "ended" ELSE pc

Init == /\ vtm = InitVtm /\ enc = InitEnc /\ due = {} /\ shown = <<>> /\ pc = "decoding"

Next ==
  \/ NewPicture
  \/ \E type \in Types, poc \in Pocs, out \in BOOLEAN, refs \in SUBSET enc.refs, eof \in BOOLEAN :
       DecodePicture([type |-> type, poc |-> poc, out |-> out, refs |-> refs], eof)
  \/ \E eof \in BOOLEAN : EndOfSequence(eof)

Spec == Init /\ [][Next]_vars

(***************************************************************************)
(* Properties                                                              *)
(***************************************************************************)

(* The types of the state: every slot holds the picture of its POC, and the *)
(* last shown position is a POC or one of the decoder's sentinels.          *)
TypeOK ==
  /\ DOMAIN vtm.dpb \subseteq Pocs
  /\ \A q \in DOMAIN vtm.dpb : /\ vtm.dpb[q].id \in Nat \X {q}
                              /\ {vtm.dpb[q].needed, vtm.dpb[q].referenced} \subseteq BOOLEAN
  /\ vtm.pocRandomAccess \in Pocs \cup {-MaxInt, MaxInt}
  /\ vtm.lastDisplay \in Pocs \cup {-MaxInt}
  /\ enc.seen \subseteq Pocs /\ pc \in {"decoding", "ended", "aborted"}

(* Decoding ends with every picture that had to be shown written: the last  *)
(* flush of DecApp finds nothing unfinished and nothing forgotten.          *)
AllShown == pc = "ended" => due = {}

(* The references of every decoded picture are in the buffer: no slot is    *)
(* reused, dropped or marked unused while a later picture refers to it.     *)
RefsFound == pc # "aborted"

(* Between two iterations no more pictures wait for output or serve as      *)
(* references than the stream says: xGetNewPicBuffer, which would extend    *)
(* the buffer without limit, is never asked to.                             *)
InUse == {q \in DOMAIN vtm.dpb : vtm.dpb[q].needed \/ vtm.dpb[q].referenced}
Bounded == Cardinality(InUse) <= MaxDecPicBuffering

(* The pictures written are those that are due, each once, in output order  *)
(* and none of them after a later one: the decoder implements Display.      *)
Promised == INSTANCE Display WITH Pics <- (1..MaxPics) \X Pocs
ImplementsDisplay == Promised!Spec
=============================================================================
