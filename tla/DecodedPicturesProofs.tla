------------------------ MODULE DecodedPicturesProofs ------------------------
(* Proofs about DecodedPictures: the types of the state, that no picture    *)
(* the decoder decodes misses a reference, that the buffer never holds more *)
(* pictures than the stream says, that every picture that is due is shown,  *)
(* and that the decoder implements Display.                                 *)
EXTENDS DecodedPictures, FiniteSetTheorems, SequenceTheorems, TLAPS, WellFoundedInduction

(***************************************************************************)
(* The invariant                                                           *)
(***************************************************************************)

Slots == [id : Nat \X Pocs, needed : BOOLEAN, referenced : BOOLEAN, reconstructed : BOOLEAN]

IsBuffer(dpb) ==
  /\ DOMAIN dpb \subseteq Pocs /\ dpb \in [DOMAIN dpb -> Slots]
  /\ \A q \in DOMAIN dpb : dpb[q].id \in Nat \X {q}

Flags == {"listed", "firstSliceInPicture", "firstSliceInSequence", "lastNoOutputBeforeRecovery", "newClvs",
          "eosInPu", "eosInLastPu", "skipped", "loopFiltered"}

(* The types of what the decoder keeps                                      *)
IsVtm(s) ==
  /\ DOMAIN s = Flags \cup {"dpb", "cur", "written", "pocRandomAccess", "lastDisplay"}
  /\ IsBuffer(s.dpb) /\ s.cur \in [poc : Pocs, rasl : BOOLEAN, out : BOOLEAN]
  /\ \A f \in Flags : s[f] \in BOOLEAN
  /\ s.pocRandomAccess \in Pocs \cup {-MaxInt, MaxInt}
  /\ s.lastDisplay \in Pocs \cup {-MaxInt}

(* The types of the stream so far, and where its pictures lie: the leading  *)
(* ones before their IRAP, the trailing ones behind it                      *)
EncOK ==
  /\ "start" \in DOMAIN enc /\ {enc.start, enc.cra, enc.opens} \subseteq BOOLEAN /\ enc.cvs \in Nat
  /\ enc.irap \in Pocs /\ enc.irapBefore \in Pocs \cup {-1}
  /\ enc.refs \cup enc.rasl \cup enc.radl \cup enc.trailing \subseteq enc.seen /\ enc.seen \subseteq Pocs
  /\ (~enc.start => enc.irap \in enc.seen) /\ enc.rasl \cap enc.radl = {}
  /\ (\A q \in enc.rasl : q < enc.irap) /\ (\A q \in enc.trailing : q > enc.irap)

(* A RASL picture of a CRA that opened its sequence: not decoded            *)
Lost(q) == q \in enc.rasl /\ enc.opens /\ enc.cra

(* Picture q is decoded, is this sequence's, and nothing may take its slot  *)
Held(q) ==
  /\ q \in DOMAIN vtm.dpb /\ vtm.dpb[q].referenced /\ vtm.dpb[q].id = <<enc.cvs, q>>
  /\ vtm.dpb[q].reconstructed \/ (q = vtm.cur.poc /\ ~vtm.firstSliceInPicture)

(* Within a sequence: the hypothetical decoder's references are held, no    *)
(* EOS is pending, and RASL pictures are skipped exactly behind the CRA     *)
(* that opened it                                                           *)
Within ==
  /\ \A q \in enc.refs : Lost(q) \/ Held(q)
  /\ ~vtm.firstSliceInSequence /\ ~vtm.eosInPu
  /\ vtm.firstSliceInPicture => ~vtm.eosInLastPu
  /\ vtm.skipped => vtm.firstSliceInPicture
  /\ vtm.pocRandomAccess <= enc.irap
  /\ IF enc.opens THEN enc.cra => vtm.pocRandomAccess = enc.irap ELSE vtm.pocRandomAccess <= enc.irapBefore

IInv ==
  /\ IsVtm(vtm) /\ EncOK /\ pc \in {"decoding", "ended"}
  /\ pc = "decoding" =>
       /\ vtm.firstSliceInPicture => ~vtm.eosInPu
       /\ IF enc.start THEN vtm.pocRandomAccess = MaxInt ELSE Within

(***************************************************************************)
(* Lemmas on the operators                                                 *)
(***************************************************************************)

(* A set of naturals that is not empty has a least member. *)
LEMMA LeastNatural ==
  ASSUME NEW S \in SUBSET Nat, S # {}
  PROVE  \E m \in S : \A n \in S : m <= n
<1>1. PICK m \in S : \A n \in S : <<n, m>> \notin OpToRel(<, Nat)
  BY WFMin, NatLessThanWellFounded
<1>2. \A n \in S : ~(n < m)
  BY <1>1 DEF OpToRel
<1> QED BY <1>2

(* The lowest of some POCs, and the highest, is one of them. *)
LEMMA Extremes ==
  ASSUME NEW S \in SUBSET Pocs, S # {}
  PROVE  /\ Min(S) \in S /\ \A q \in S : Min(S) <= q
         /\ Max(S) \in S /\ \A q \in S : Max(S) >= q
<1>1. \A q \in S : q \in Nat /\ MaxPoc - q \in Nat /\ q \in Int
  BY BufferAssumption DEF Pocs
<1>2. Min(S) \in S /\ \A q \in S : Min(S) <= q
  <2>1. \E m \in S : \A n \in S : m <= n
    BY <1>1, LeastNatural
  <2> QED BY <2>1 DEF Min
<1>3. Max(S) \in S /\ \A q \in S : Max(S) >= q
  <2> DEFINE R == {MaxPoc - q : q \in S}
  <2>1. R \in SUBSET Nat /\ R # {}
    BY <1>1
  <2>2. PICK m \in R : \A n \in R : m <= n
    <3> HIDE DEF R
    <3> QED BY <2>1, LeastNatural
  <2>3. PICK x \in S : m = MaxPoc - x
    OBVIOUS
  <2>4. \A y \in S : x >= y
    <3> SUFFICES ASSUME NEW y \in S PROVE x >= y
      OBVIOUS
    <3>1. MaxPoc - x <= MaxPoc - y
      BY <2>2, <2>3
    <3> QED BY <1>1, <3>1, BufferAssumption
  <2> QED BY <2>4 DEF Max
<1> QED BY <1>2, <1>3

(* The empty buffer is one. *)
LEMMA EmptyBuffer == IsBuffer(<<>>) /\ DOMAIN <<>> = {}
BY DEF IsBuffer

(* What a buffer says of one slot. *)
LEMMA SlotFacts ==
  ASSUME NEW dpb, IsBuffer(dpb), NEW q \in DOMAIN dpb
  PROVE  /\ q \in Pocs /\ dpb[q] \in Slots /\ dpb[q].id \in Nat \X {q}
         /\ dpb[q].needed \in BOOLEAN /\ dpb[q].referenced \in BOOLEAN /\ dpb[q].reconstructed \in BOOLEAN
BY DEF IsBuffer, Slots

(* The references of one buffer are those of the other, none less complete. *)
SameReferences(d, e) ==
  /\ DOMAIN e = DOMAIN d
  /\ \A q \in DOMAIN d : /\ e[q].id = d[q].id /\ e[q].referenced = d[q].referenced
                         /\ d[q].referenced /\ d[q].reconstructed => e[q].reconstructed

(* The fields that writing pictures leaves alone *)
Untouched(s, t) == \A f \in Flags \cup {"cur", "pocRandomAccess"} : t[f] = s[f]

(* A flush empties the buffer and touches nothing that decoding reads.      *)
LEMMA FlushFacts ==
  ASSUME NEW s, IsVtm(s)
  PROVE  IsVtm(FlushOutput(s)) /\ Untouched(s, FlushOutput(s))
<1> DEFINE w == s.written \o Ids(s.dpb, ByPoc({q \in DOMAIN s.dpb : s.dpb[q].needed}))
           t == [s EXCEPT !.written = w, !.dpb = <<>>, !.lastDisplay = -MaxInt]
<1>1. CASE ~s.listed \/ DOMAIN s.dpb = {}
  BY <1>1 DEF FlushOutput, Untouched
<1>2. CASE ~(~s.listed \/ DOMAIN s.dpb = {})
  <2>1. FlushOutput(s) = t
    BY <1>2 DEF FlushOutput
  <2> HIDE DEF w
  <2>2. DOMAIN t = DOMAIN s /\ t.dpb = <<>> /\ t.lastDisplay = -MaxInt
    BY DEF IsVtm
  <2>3. \A f \in Flags \cup {"cur", "pocRandomAccess"} : t[f] = s[f]
    BY DEF IsVtm, Flags
  <2> HIDE DEF t
  <2>4. IsVtm(t)
    BY <2>2, <2>3, EmptyBuffer DEF IsVtm
  <2> QED BY <2>1, <2>3, <2>4 DEF Untouched
<1> QED BY <1>1, <1>2

(* Writing pictures out touches no reference, nor what decoding reads.      *)
LEMMA WriteFacts ==
  ASSUME NEW s, IsVtm(s)
  PROVE  /\ IsVtm(WriteOutput(s)) /\ Untouched(s, WriteOutput(s))
         /\ SameReferences(s.dpb, WriteOutput(s).dpb)
<1> DEFINE r == Ready(s)
           w == s.written \o Ids(s.dpb, ByPoc(r))
           Slot(q) == IF q \in r THEN Written(s.dpb[q]) ELSE s.dpb[q]
           d == [q \in DOMAIN s.dpb |-> Slot(q)]
           t == [s EXCEPT !.written = w, !.lastDisplay = Max(r), !.dpb = d]
<1>1. CASE ~s.listed \/ r = {}
  BY <1>1 DEF WriteOutput, Untouched, SameReferences
<1>2. CASE ~(~s.listed \/ r = {})
  <2>1. WriteOutput(s) = t
    BY <1>2 DEF WriteOutput
  <2>2. \A q \in DOMAIN s.dpb :
          /\ Slot(q) \in Slots /\ Slot(q).id = s.dpb[q].id /\ Slot(q).referenced = s.dpb[q].referenced
          /\ s.dpb[q].referenced /\ s.dpb[q].reconstructed => Slot(q).reconstructed
    <3> SUFFICES ASSUME NEW q \in DOMAIN s.dpb
                 PROVE  /\ Slot(q) \in Slots /\ Slot(q).id = s.dpb[q].id
                        /\ Slot(q).referenced = s.dpb[q].referenced
                        /\ s.dpb[q].referenced /\ s.dpb[q].reconstructed => Slot(q).reconstructed
      OBVIOUS
    <3>1. s.dpb[q] \in Slots
      BY SlotFacts DEF IsVtm
    <3> DEFINE p == s.dpb[q]
    <3> HIDE DEF r, p
    <3>2. /\ Written(p) \in Slots /\ Written(p).id = p.id /\ Written(p).referenced = p.referenced
          /\ p.referenced /\ p.reconstructed => Written(p).reconstructed
      BY <3>1 DEF Slots, Written, p
    <3> QED BY <3>1, <3>2 DEF p
  <2> HIDE DEF Slot
  <2>3. IsBuffer(d) /\ SameReferences(s.dpb, d)
    <3>1. DOMAIN d = DOMAIN s.dpb /\ \A q \in DOMAIN s.dpb : d[q] = Slot(q)
      OBVIOUS
    <3>2. d \in [DOMAIN d -> Slots]
      BY <2>2
    <3> HIDE DEF d
    <3> QED BY <2>2, <3>1, <3>2 DEF IsVtm, IsBuffer, SameReferences
  <2>4. r \in SUBSET Pocs
    BY DEF Ready, NotYetDisplayed, IsVtm, IsBuffer
  <2> HIDE DEF r
  <2>5. Max(r) \in Pocs
    BY <1>2, <2>4, Extremes
  <2> HIDE DEF w, d
  <2>6. DOMAIN t = DOMAIN s /\ t.dpb = d /\ t.lastDisplay = Max(r)
    BY DEF IsVtm
  <2>7. \A f \in Flags \cup {"cur", "pocRandomAccess"} : t[f] = s[f]
    BY DEF IsVtm, Flags
  <2> HIDE DEF t
  <2>8. IsVtm(t)
    BY <2>3, <2>5, <2>6, <2>7 DEF IsVtm
  <2> QED BY <2>1, <2>3, <2>6, <2>7, <2>8 DEF Untouched
<1> QED BY <1>1, <1>2

(* Finishing a picture completes its slot and touches no other.             *)
LEMMA FinishFacts ==
  ASSUME NEW s, IsVtm(s)
  PROVE  /\ IsVtm(FinishPicture(s))
         /\ FinishPicture(s).firstSliceInPicture /\ FinishPicture(s).cur = s.cur
         /\ \A f \in (Flags \ {"firstSliceInPicture", "listed"}) \cup {"pocRandomAccess"} : FinishPicture(s)[f] = s[f]
         /\ SameReferences(s.dpb, FinishPicture(s).dpb)
         /\ s.cur.poc \in DOMAIN s.dpb => FinishPicture(s).dpb[s.cur.poc].reconstructed
<1> DEFINE c == s.cur.poc
           x == s.cur.out /\ ~(s.newClvs /\ s.cur.rasl)
           Slot(q) == IF q = c THEN [s.dpb[q] EXCEPT !.needed = x, !.reconstructed = TRUE] ELSE s.dpb[q]
           d == [q \in DOMAIN s.dpb |-> Slot(q)]
           t == [s EXCEPT !.dpb = d, !.firstSliceInPicture = TRUE, !.listed = TRUE]
<1>1. x \in BOOLEAN
  BY DEF IsVtm, Flags
<1>2. FinishPicture(s) = t
  <2>1. [s.dpb EXCEPT ![c].needed = x, ![c].reconstructed = TRUE] = d
    BY DEF IsVtm, IsBuffer, Slots
  <2> QED BY <2>1 DEF FinishPicture
<1> HIDE DEF x
<1>3. \A q \in DOMAIN s.dpb :
        /\ Slot(q) \in Slots /\ Slot(q).id = s.dpb[q].id /\ Slot(q).referenced = s.dpb[q].referenced
        /\ s.dpb[q].reconstructed \/ q = c => Slot(q).reconstructed
  <2> SUFFICES ASSUME NEW q \in DOMAIN s.dpb
               PROVE  /\ Slot(q) \in Slots /\ Slot(q).id = s.dpb[q].id
                      /\ Slot(q).referenced = s.dpb[q].referenced
                      /\ s.dpb[q].reconstructed \/ q = c => Slot(q).reconstructed
    OBVIOUS
  <2>1. s.dpb[q] \in Slots
    BY SlotFacts DEF IsVtm
  <2> DEFINE p == s.dpb[q]
  <2> HIDE DEF p
  <2>2. LET r == [p EXCEPT !.needed = x, !.reconstructed = TRUE]
        IN r \in Slots /\ r.id = p.id /\ r.referenced = p.referenced /\ r.reconstructed
    BY <1>1, <2>1 DEF Slots, p
  <2> QED BY <2>1, <2>2 DEF p
<1> HIDE DEF Slot
<1>4. DOMAIN d = DOMAIN s.dpb /\ (\A q \in DOMAIN s.dpb : d[q] = Slot(q)) /\ d \in [DOMAIN d -> Slots]
  BY <1>3
<1> HIDE DEF d
<1>5. IsBuffer(d) /\ SameReferences(s.dpb, d) /\ (c \in DOMAIN s.dpb => d[c].reconstructed)
  BY <1>3, <1>4 DEF IsVtm, IsBuffer, SameReferences
<1>6. /\ DOMAIN t = DOMAIN s /\ t.dpb = d /\ t.cur = s.cur /\ t.lastDisplay = s.lastDisplay
      /\ t.firstSliceInPicture = TRUE /\ t.listed = TRUE
  BY DEF IsVtm, Flags
<1>7. \A f \in (Flags \ {"firstSliceInPicture", "listed"}) \cup {"pocRandomAccess"} : t[f] = s[f]
  BY DEF IsVtm, Flags
<1> HIDE DEF t
<1>8. \A f \in Flags : t[f] \in BOOLEAN
  BY <1>6, <1>7 DEF IsVtm
<1>9. IsVtm(t)
  BY <1>5, <1>6, <1>7, <1>8 DEF IsVtm
<1> QED BY <1>2, <1>5, <1>6, <1>7, <1>9

(* The end of a picture: what decoding reads after it *)
LEMMA EndFacts ==
  ASSUME NEW s, IsVtm(s), NEW eos \in BOOLEAN, NEW eof \in BOOLEAN
  PROVE  LET t == EndPicture(s, eos, eof)
         IN /\ IsVtm(t) /\ t.cur = s.cur /\ SameReferences(s.dpb, t.dpb)
            /\ \A f \in {"eosInPu", "eosInLastPu", "skipped", "newClvs", "pocRandomAccess"} : t[f] = s[f]
            /\ ~eos => t.firstSliceInSequence = s.firstSliceInSequence
            /\ ~eof => t.firstSliceInPicture
            /\ ~eof /\ ~s.firstSliceInSequence /\ ~s.skipped /\ s.cur.poc \in DOMAIN s.dpb
                 => t.dpb[s.cur.poc].reconstructed
<1> DEFINE t == EndPicture(s, eos, eof)
<1>0. s.firstSliceInSequence \in BOOLEAN /\ s.skipped \in BOOLEAN
  BY DEF IsVtm, Flags
<1>1. CASE s.firstSliceInSequence \/ s.skipped
  <2>1. t = [s EXCEPT !.firstSliceInPicture = TRUE]
    BY <1>1 DEF EndPicture
  <2>2. /\ DOMAIN t = DOMAIN s /\ t.dpb = s.dpb /\ t.cur = s.cur /\ t.lastDisplay = s.lastDisplay
        /\ t.firstSliceInPicture = TRUE
        /\ \A f \in (Flags \ {"firstSliceInPicture"}) \cup {"pocRandomAccess"} : t[f] = s[f]
    BY <2>1 DEF IsVtm, Flags
  <2> HIDE DEF t
  <2>3. \A f \in Flags : t[f] \in BOOLEAN
    BY <2>2 DEF IsVtm
  <2>4. IsVtm(t) /\ SameReferences(s.dpb, t.dpb)
    BY <2>2, <2>3 DEF IsVtm, SameReferences
  <2>5. \A f \in {"eosInPu", "eosInLastPu", "skipped", "newClvs", "pocRandomAccess", "firstSliceInSequence"} : t[f] = s[f]
    BY <2>2 DEF Flags
  <2> QED BY <1>1, <2>2, <2>4, <2>5 DEF t
<1>2. CASE ~(s.firstSliceInSequence \/ s.skipped)
  <2> DEFINE f == IF ~s.loopFiltered \/ ~eof THEN FinishPicture(s) ELSE s
             i == f.firstSliceInSequence \/ eos
  <2>1. t = [f EXCEPT !.loopFiltered = eos, !.firstSliceInSequence = i]
    BY <1>2 DEF EndPicture
  <2>2. /\ IsVtm(f) /\ f.cur = s.cur /\ SameReferences(s.dpb, f.dpb)
        /\ \A g \in {"eosInPu", "eosInLastPu", "skipped", "newClvs", "pocRandomAccess", "firstSliceInSequence"} :
             f[g] = s[g]
        /\ ~eof => f.firstSliceInPicture /\ (s.cur.poc \in DOMAIN s.dpb => f.dpb[s.cur.poc].reconstructed)
    <3>1. CASE ~s.loopFiltered \/ ~eof
      BY <3>1, FinishFacts DEF Flags
    <3>2. CASE ~(~s.loopFiltered \/ ~eof)
      BY <3>2 DEF SameReferences
    <3> QED BY <3>1, <3>2
  <2> HIDE DEF f
  <2>3. i \in BOOLEAN /\ (~eos => i = f.firstSliceInSequence)
    BY <2>2 DEF IsVtm, Flags
  <2> HIDE DEF i
  <2>4. /\ DOMAIN t = DOMAIN f /\ t.dpb = f.dpb /\ t.cur = f.cur /\ t.lastDisplay = f.lastDisplay
        /\ t.loopFiltered = eos /\ t.firstSliceInSequence = i
        /\ \A g \in (Flags \ {"loopFiltered", "firstSliceInSequence"}) \cup {"pocRandomAccess"} : t[g] = f[g]
    BY <2>1, <2>2 DEF IsVtm, Flags
  <2> HIDE DEF t
  <2>5. \A g \in Flags : t[g] \in BOOLEAN
    BY <2>2, <2>3, <2>4 DEF IsVtm
  <2>6. IsVtm(t)
    BY <2>2, <2>4, <2>5 DEF IsVtm
  <2>7. /\ t.firstSliceInPicture = f.firstSliceInPicture
        /\ \A g \in {"eosInPu", "eosInLastPu", "skipped", "newClvs", "pocRandomAccess"} : t[g] = f[g]
    BY <2>4 DEF Flags
  <2> QED BY <2>2, <2>3, <2>4, <2>6, <2>7 DEF t
<1> QED BY <1>1, <1>2

(* A new picture takes a slot that no complete reference has.               *)
LEMMA SlotTaken ==
  ASSUME NEW d, IsBuffer(d), NEW poc \in Pocs, NEW id \in Nat \X {poc}
  PROVE  LET e == GetNewPicBuffer(d, poc, id)
         IN /\ IsBuffer(e)
            /\ poc \in DOMAIN e /\ e[poc].referenced /\ e[poc].id = id
            /\ \A q \in DOMAIN d : q # poc /\ d[q].referenced /\ d[q].reconstructed
                                     => q \in DOMAIN e /\ e[q] = d[q]
<1> DEFINE kept == DOMAIN d \ (IF Reusable(d) = {} THEN {} ELSE {Min(Reusable(d))})
           new == [id |-> id, needed |-> FALSE, referenced |-> TRUE, reconstructed |-> FALSE]
           e == [q \in kept \cup {poc} |-> IF q = poc THEN new ELSE d[q]]
<1>1. GetNewPicBuffer(d, poc, id) = e
  BY DEF GetNewPicBuffer
<1>2. Reusable(d) \in SUBSET Pocs
  BY DEF Reusable, IsBuffer
<1>3. \A q \in DOMAIN d : d[q].referenced /\ d[q].reconstructed => q \in kept
  <2>1. \A q \in DOMAIN d : d[q].referenced /\ d[q].reconstructed => q \notin Reusable(d)
    BY DEF Reusable
  <2>2. Reusable(d) # {} => Min(Reusable(d)) \in Reusable(d)
    BY <1>2, Extremes
  <2> QED BY <2>1, <2>2
<1>4. kept \subseteq DOMAIN d
  OBVIOUS
<1> HIDE DEF kept
<1>5. new \in Slots /\ new.id = id /\ new.referenced
  BY DEF Slots, Pocs
<1> HIDE DEF new
<1>6. /\ DOMAIN e = kept \cup {poc} /\ e[poc] = new
      /\ \A q \in kept : q # poc => e[q] = d[q]
  OBVIOUS
<1>7. DOMAIN d \subseteq Pocs /\ \A q \in DOMAIN d : d[q] \in Slots /\ d[q].id \in Nat \X {q}
  BY SlotFacts DEF IsBuffer
<1>8. e \in [DOMAIN e -> Slots]
  BY <1>4, <1>5, <1>7
<1> HIDE DEF e
<1>9. IsBuffer(e)
  <2>1. \A q \in DOMAIN e : e[q].id \in Nat \X {q}
    BY <1>4, <1>5, <1>6, <1>7
  <2> QED BY <1>4, <1>6, <1>7, <1>8, <2>1 DEF IsBuffer
<1> QED BY <1>1, <1>3, <1>5, <1>6, <1>9

(* Marking takes no reference of the picture away.                          *)
LEMMA MarkedFacts ==
  ASSUME NEW d, IsBuffer(d), NEW p
  PROVE  /\ IsBuffer(Marked(d, p)) /\ DOMAIN Marked(d, p) = DOMAIN d
         /\ \A q \in DOMAIN d : q \in p.refs => Marked(d, p)[q] = d[q]
<1> DEFINE Slot(q) == [d[q] EXCEPT !.referenced = @ /\ q \in p.refs]
           m == [q \in DOMAIN d |-> Slot(q)]
<1>1. CASE p.type = "IDR"
  BY <1>1 DEF Marked
<1>2. CASE p.type # "IDR"
  <2>1. Marked(d, p) = m
    BY <1>2 DEF Marked
  <2>2. \A q \in DOMAIN d : Slot(q) \in Slots /\ Slot(q).id = d[q].id /\ (q \in p.refs => Slot(q) = d[q])
    <3> SUFFICES ASSUME NEW q \in DOMAIN d
                 PROVE  Slot(q) \in Slots /\ Slot(q).id = d[q].id /\ (q \in p.refs => Slot(q) = d[q])
      OBVIOUS
    <3>1. d[q] \in Slots
      BY SlotFacts
    <3> DEFINE r == d[q]
    <3> HIDE DEF r
    <3>2. LET z == [r EXCEPT !.referenced = @ /\ q \in p.refs]
          IN z \in Slots /\ z.id = r.id /\ (q \in p.refs => z = r)
      BY <3>1 DEF Slots, r
    <3> QED BY <3>2 DEF r
  <2> HIDE DEF Slot
  <2>3. DOMAIN m = DOMAIN d /\ (\A q \in DOMAIN d : m[q] = Slot(q)) /\ m \in [DOMAIN m -> Slots]
    BY <2>2
  <2> HIDE DEF m
  <2>4. IsBuffer(m)
    BY <2>2, <2>3 DEF IsBuffer
  <2> QED BY <2>1, <2>2, <2>3, <2>4
<1> QED BY <1>1, <1>2

(***************************************************************************)
(* One picture                                                             *)
(***************************************************************************)

Pictures == [type : Types, poc : Pocs, out : BOOLEAN, refs : SUBSET Pocs]

(* Before a slice is decoded the buffer is flushed or left alone.           *)
LEMMA BeforeFacts ==
  ASSUME NEW s, IsVtm(s), NEW p \in Pictures
  PROVE  LET t == BeforeSlice(s, p)
         IN /\ IsVtm(t) /\ t.cur = s.cur /\ t.skipped = FALSE
            /\ \A f \in (Flags \ {"skipped", "newClvs"}) \cup {"pocRandomAccess"} : t[f] = s[f]
            /\ ~StartsClvs(s, p) => t.dpb = s.dpb
<1> DEFINE t == BeforeSlice(s, p)
           f == IF StartsClvs(s, p) THEN FlushOutput(s) ELSE s
           n == StartsClvs(s, p) \/ (f.newClvs /\ s.eosInLastPu)
<1>1. t = [f EXCEPT !.newClvs = n, !.skipped = FALSE]
  BY DEF BeforeSlice
<1>2. IsVtm(f) /\ Untouched(s, f) /\ (~StartsClvs(s, p) => f.dpb = s.dpb)
  BY FlushFacts DEF Untouched
<1>3. n \in BOOLEAN
  BY DEF StartsClvs
<1> HIDE DEF f, n
<1>4. /\ DOMAIN t = DOMAIN f /\ t.dpb = f.dpb /\ t.cur = f.cur /\ t.lastDisplay = f.lastDisplay
      /\ t.newClvs = n /\ t.skipped = FALSE
      /\ \A g \in (Flags \ {"skipped", "newClvs"}) \cup {"pocRandomAccess"} : t[g] = f[g]
  BY <1>1, <1>2 DEF IsVtm, Flags
<1> HIDE DEF t
<1>5. \A g \in Flags : t[g] \in BOOLEAN
  BY <1>2, <1>3, <1>4 DEF IsVtm
<1>6. IsVtm(t)
  BY <1>2, <1>4, <1>5 DEF IsVtm
<1> QED BY <1>2, <1>4, <1>6 DEF Untouched, t

(* Where random access starts, once the slice of p is seen *)
PocRandomAccess(s, p) ==
  IF p.type = "IDR" THEN -MaxInt
  ELSE IF s.pocRandomAccess = MaxInt /\ p.type = "CRA" THEN p.poc ELSE s.pocRandomAccess

(* A slice decoded or skipped: the picture it starts is in the buffer, with *)
(* the references it has.                                                   *)
LEMMA DecodeFacts ==
  ASSUME NEW s, IsVtm(s), NEW p \in Pictures, NEW cvs \in Nat
  PROVE  LET t == DecodeSlice(s, p, cvs)
         IN /\ IsVtm(t) /\ t.pocRandomAccess = PocRandomAccess(s, p)
            /\ \A f \in {"eosInPu", "eosInLastPu"} : t[f] = s[f]
            /\ RandomAccessSkip(s, p) =>
                 /\ t.skipped /\ t.dpb = s.dpb /\ t.cur = s.cur
                 /\ t.firstSliceInPicture = s.firstSliceInPicture
                 /\ t.firstSliceInSequence = s.firstSliceInSequence
            /\ ~RandomAccessSkip(s, p) =>
                 /\ ~t.firstSliceInPicture /\ ~t.firstSliceInSequence /\ t.skipped = s.skipped
                 /\ t.cur.poc = p.poc /\ p.poc \in DOMAIN t.dpb
                 /\ t.dpb[p.poc].referenced /\ t.dpb[p.poc].id = <<cvs, p.poc>>
                 /\ \A q \in p.refs \cap DOMAIN s.dpb :
                      q # p.poc /\ s.dpb[q].referenced /\ s.dpb[q].reconstructed
                        => q \in DOMAIN t.dpb /\ t.dpb[q] = s.dpb[q]
<1> DEFINE nobr == IF p.type = "CRA" THEN NoOutputBeforeRecovery(s, p) ELSE s.lastNoOutputBeforeRecovery
           pra == PocRandomAccess(s, p)
           b == [s EXCEPT !.lastNoOutputBeforeRecovery = nobr, !.pocRandomAccess = pra]
           m == Marked(s.dpb, p)
           id == <<cvs, p.poc>>
           d == GetNewPicBuffer(m, p.poc, id)
           c == [poc |-> p.poc, rasl |-> p.type = "RASL", out |-> p.out /\ ~(p.type = "RASL" /\ nobr)]
           u == [b EXCEPT !.dpb = d, !.cur = c, !.firstSliceInSequence = FALSE, !.firstSliceInPicture = FALSE]
           v == [b EXCEPT !.skipped = TRUE]
<1>1. nobr \in BOOLEAN
  BY DEF IsVtm, Flags, NoOutputBeforeRecovery
<1>2. pra \in Pocs \cup {-MaxInt, MaxInt}
  BY DEF IsVtm, PocRandomAccess, Pictures
<1>3. c \in [poc : Pocs, rasl : BOOLEAN, out : BOOLEAN] /\ c.poc = p.poc
  BY <1>1 DEF Pictures
<1>4. /\ DOMAIN b = DOMAIN s /\ b.dpb = s.dpb /\ b.cur = s.cur /\ b.lastDisplay = s.lastDisplay
      /\ b.pocRandomAccess = pra /\ b.lastNoOutputBeforeRecovery = nobr
      /\ \A f \in Flags \ {"lastNoOutputBeforeRecovery"} : b[f] = s[f]
  BY DEF IsVtm, Flags
<1>5. IsBuffer(d)
      /\ p.poc \in DOMAIN d /\ d[p.poc].referenced /\ d[p.poc].id = <<cvs, p.poc>>
      /\ \A q \in p.refs \cap DOMAIN s.dpb :
           q # p.poc /\ s.dpb[q].referenced /\ s.dpb[q].reconstructed => q \in DOMAIN d /\ d[q] = s.dpb[q]
  <2>1. IsBuffer(m) /\ DOMAIN m = DOMAIN s.dpb /\ \A q \in DOMAIN s.dpb : q \in p.refs => m[q] = s.dpb[q]
    BY MarkedFacts DEF IsVtm
  <2>2. p.poc \in Pocs /\ id \in Nat \X {p.poc}
    BY DEF Pictures
  <2> HIDE DEF m
  <2>3. /\ IsBuffer(d) /\ p.poc \in DOMAIN d /\ d[p.poc].referenced /\ d[p.poc].id = <<cvs, p.poc>>
        /\ \A q \in DOMAIN m : q # p.poc /\ m[q].referenced /\ m[q].reconstructed
                                 => q \in DOMAIN d /\ d[q] = m[q]
    <3> HIDE DEF id
    <3>1. /\ IsBuffer(d) /\ p.poc \in DOMAIN d /\ d[p.poc].referenced /\ d[p.poc].id = id
          /\ \A q \in DOMAIN m : q # p.poc /\ m[q].referenced /\ m[q].reconstructed
                                   => q \in DOMAIN d /\ d[q] = m[q]
      BY <2>1, <2>2, SlotTaken
    <3> HIDE DEF d
    <3> QED BY <3>1 DEF id
  <2> HIDE DEF d
  <2>4. ASSUME NEW q \in p.refs, q # p.poc, q \in DOMAIN s.dpb, s.dpb[q].referenced, s.dpb[q].reconstructed
        PROVE  q \in DOMAIN d /\ d[q] = s.dpb[q]
    <3>1. q \in DOMAIN m /\ m[q] = s.dpb[q]
      BY <2>1, <2>4
    <3> QED BY <2>3, <2>4, <3>1
  <2> QED BY <2>3, <2>4
<1>6. DecodeSlice(s, p, cvs) = IF RandomAccessSkip(s, p) THEN v ELSE u
  BY DEF DecodeSlice, PocRandomAccess
<1>7. \A f \in Flags : b[f] \in BOOLEAN
  BY <1>1, <1>4 DEF IsVtm
<1> HIDE DEF nobr, pra, c, d, m
<1>8. IsVtm(b)
  BY <1>2, <1>4, <1>7 DEF IsVtm
<1>9. b.eosInPu = s.eosInPu /\ b.eosInLastPu = s.eosInLastPu /\ b.skipped = s.skipped
      /\ b.firstSliceInPicture = s.firstSliceInPicture /\ b.firstSliceInSequence = s.firstSliceInSequence
  BY <1>4 DEF Flags
<1> HIDE DEF b
<1>10. CASE RandomAccessSkip(s, p)
  <2>1. /\ DOMAIN v = DOMAIN b /\ v.dpb = b.dpb /\ v.cur = b.cur /\ v.lastDisplay = b.lastDisplay
        /\ v.pocRandomAccess = b.pocRandomAccess /\ v.skipped = TRUE
        /\ \A f \in Flags \ {"skipped"} : v[f] = b[f]
    BY <1>8 DEF IsVtm, Flags
  <2> HIDE DEF v
  <2>2. \A f \in Flags : v[f] \in BOOLEAN
    BY <1>7, <2>1
  <2>3. IsVtm(v)
    BY <1>8, <2>1, <2>2 DEF IsVtm
  <2>4. /\ v.eosInPu = b.eosInPu /\ v.eosInLastPu = b.eosInLastPu
        /\ v.firstSliceInPicture = b.firstSliceInPicture /\ v.firstSliceInSequence = b.firstSliceInSequence
    BY <2>1 DEF Flags
  <2> QED BY <1>4, <1>6, <1>9, <1>10, <2>1, <2>3, <2>4 DEF pra
<1>11. CASE ~RandomAccessSkip(s, p)
  <2>1. /\ DOMAIN u = DOMAIN b /\ u.dpb = d /\ u.cur = c /\ u.lastDisplay = b.lastDisplay
        /\ u.pocRandomAccess = b.pocRandomAccess
        /\ u.firstSliceInSequence = FALSE /\ u.firstSliceInPicture = FALSE
        /\ \A f \in Flags \ {"firstSliceInSequence", "firstSliceInPicture"} : u[f] = b[f]
    BY <1>8 DEF IsVtm, Flags
  <2> HIDE DEF u
  <2>2. \A f \in Flags : u[f] \in BOOLEAN
    BY <1>7, <2>1
  <2>3. IsVtm(u)
    BY <1>3, <1>5, <1>8, <2>1, <2>2 DEF IsVtm
  <2>4. u.eosInPu = b.eosInPu /\ u.eosInLastPu = b.eosInLastPu /\ u.skipped = b.skipped
    BY <2>1 DEF Flags
  <2> QED BY <1>3, <1>4, <1>5, <1>6, <1>9, <1>11, <2>1, <2>3, <2>4 DEF pra
<1> QED BY <1>10, <1>11

(* The end of an iteration is one of the decoder's states, and before the   *)
(* end of the file it touches no reference.                                 *)
LEMMA IterationFacts ==
  ASSUME NEW s, IsVtm(s), NEW eof \in BOOLEAN
  PROVE  /\ IsVtm(EndIteration(s, eof)) /\ Untouched(s, EndIteration(s, eof))
         /\ ~eof => SameReferences(s.dpb, EndIteration(s, eof).dpb)
<1> DEFINE w == WriteOutput(s)
<1>1. IsVtm(w) /\ Untouched(s, w) /\ SameReferences(s.dpb, w.dpb)
  BY WriteFacts
<1> HIDE DEF w
<1>2. IsVtm(FlushOutput(w)) /\ Untouched(w, FlushOutput(w))
  BY <1>1, FlushFacts
<1>3. EndIteration(s, eof) = IF eof THEN FlushOutput(w) ELSE w
  BY DEF EndIteration, w
<1> QED BY <1>1, <1>2, <1>3 DEF Untouched

(* The state after a step, but for what was written in it *)
LEMMA BecomesFacts ==
  ASSUME NEW s, IsVtm(s), NEW taken, Becomes(s, taken)
  PROVE  /\ IsVtm(vtm') /\ vtm'.dpb = s.dpb /\ vtm'.cur = s.cur
         /\ \A f \in Flags \cup {"pocRandomAccess"} : vtm'[f] = s[f]
<1>1. vtm' = [s EXCEPT !.written = <<>>]
  BY DEF Becomes
<1> DEFINE t == [s EXCEPT !.written = <<>>]
<1>2. /\ DOMAIN t = DOMAIN s /\ t.dpb = s.dpb /\ t.cur = s.cur /\ t.lastDisplay = s.lastDisplay
      /\ \A f \in Flags \cup {"pocRandomAccess"} : t[f] = s[f]
  BY DEF IsVtm, Flags
<1> HIDE DEF t
<1>3. IsVtm(t)
  BY <1>2 DEF IsVtm
<1> QED BY <1>1, <1>2, <1>3 DEF t

(***************************************************************************)
(* The stream                                                              *)
(***************************************************************************)

IsIrap(p) == p.type \in {"IDR", "CRA"}

(* The references of a legal picture by its type *)
LEMMA LegalFacts ==
  ASSUME EncOK, NEW p \in Pictures, Legal(p)
  PROVE  /\ p.refs \subseteq enc.refs
         /\ enc.start => IsIrap(p)
         /\ OpensSequence(p) => IsIrap(p) /\ p.refs = {}
         /\ p.type = "CRA" => \A q \in p.refs : q >= enc.irap
         /\ p.type = "RADL" => p.refs \subseteq {enc.irap} \cup enc.radl
         /\ p.type = "TRAIL" => p.refs \subseteq {enc.irap} \cup enc.trailing /\ p.poc > enc.irap
         /\ p.type \in Leading => p.poc < enc.irap
         /\ p.type = "RASL" => enc.cra /\ p.poc > enc.irapBefore
         /\ ~OpensSequence(p) => /\ p.type # "IDR" /\ p.poc \notin enc.seen
                                 /\ p.type = "CRA" => p.poc > enc.irap
         /\ ~OpensSequence(p) => ~enc.start
<1>1. p.type \in {"IDR", "CRA", "TRAIL", "RASL", "RADL"}
  BY DEF Pictures, Types, Leading
<1>2. enc.start \in BOOLEAN
  BY DEF EncOK
<1>3. ReferencesAllowed(p) /\ (enc.start => p.type \in {"IDR", "CRA"})
  BY DEF Legal
<1>4. OpensSequence(p) <=> p.type = "IDR" \/ (p.type = "CRA" /\ enc.start)
  BY DEF OpensSequence
<1>5. /\ p.refs \subseteq enc.refs
      /\ p.type = "IDR" => p.refs = {}
      /\ p.type = "CRA" => (\A q \in p.refs : q >= enc.irap) /\ (enc.start => p.refs = {})
      /\ p.type = "RADL" => p.refs \subseteq {enc.irap} \cup enc.radl
      /\ p.type = "TRAIL" => p.refs \subseteq {enc.irap} \cup enc.trailing
  BY <1>1, <1>2, <1>3 DEF ReferencesAllowed
<1>6. ~OpensSequence(p) => /\ p.poc \notin enc.seen
                           /\ p.type \in Leading => p.poc < enc.irap /\ LeadingAllowed(p)
                           /\ p.type = "TRAIL" => p.poc > enc.irap
                           /\ p.type = "CRA" => \A q \in enc.seen : q < p.poc
  BY DEF Legal
<1>7. LeadingAllowed(p) => (p.type = "RASL" => enc.cra /\ p.poc > enc.irapBefore)
  BY DEF LeadingAllowed
<1>8. ~OpensSequence(p) => ~enc.start
  BY <1>2, <1>3, <1>4
<1>9. ~OpensSequence(p) /\ p.type = "CRA" => p.poc > enc.irap
  BY <1>6, <1>8 DEF EncOK, Pictures, Pocs
<1> QED BY <1>1, <1>2, <1>3, <1>4, <1>5, <1>6, <1>7, <1>8, <1>9 DEF IsIrap, Leading

(* What the stream is after a legal picture.                                *)
LEMMA AfterFacts ==
  ASSUME EncOK, NEW p \in Pictures, Legal(p), enc' = AfterPicture(p)
  PROVE  /\ EncOK' /\ ~enc'.start /\ enc'.refs = p.refs \cup {p.poc}
         /\ enc'.cvs = IF OpensSequence(p) THEN enc.cvs + 1 ELSE enc.cvs
         /\ IsIrap(p) => /\ enc'.irap = p.poc /\ enc'.cra = (p.type = "CRA")
                         /\ enc'.opens = OpensSequence(p)
                         /\ ~OpensSequence(p) => enc'.irapBefore = enc.irap
         /\ ~IsIrap(p) => /\ enc'.irap = enc.irap /\ enc'.cra = enc.cra /\ enc'.opens = enc.opens
                          /\ enc'.irapBefore = enc.irapBefore
                          /\ enc.rasl \subseteq enc'.rasl /\ (p.type = "RASL" => p.poc \in enc'.rasl)
<1> DEFINE opens == OpensSequence(p)
           i == IsIrap(p)
<1>1. /\ enc'.cvs = IF opens THEN enc.cvs + 1 ELSE enc.cvs
      /\ enc'.start = FALSE /\ "start" \in DOMAIN enc'
      /\ enc'.seen = (IF opens THEN {} ELSE enc.seen) \cup {p.poc}
      /\ enc'.refs = p.refs \cup {p.poc}
      /\ enc'.irap = IF i THEN p.poc ELSE enc.irap
      /\ enc'.cra = IF i THEN p.type = "CRA" ELSE enc.cra
      /\ enc'.opens = IF i THEN opens ELSE enc.opens
      /\ enc'.irapBefore = IF ~i THEN enc.irapBefore ELSE IF opens THEN -1 ELSE enc.irap
      /\ enc'.rasl = (IF i THEN {} ELSE enc.rasl) \cup (IF p.type = "RASL" THEN {p.poc} ELSE {})
      /\ enc'.radl = (IF i THEN {} ELSE enc.radl) \cup (IF p.type = "RADL" THEN {p.poc} ELSE {})
      /\ enc'.trailing = (IF i THEN {} ELSE enc.trailing) \cup (IF p.type = "TRAIL" THEN {p.poc} ELSE {})
  BY DEF AfterPicture, IsIrap
<1>2. opens \in BOOLEAN /\ i \in BOOLEAN /\ (opens => i) /\ p.poc \in Pocs
  BY LegalFacts DEF OpensSequence, IsIrap, Pictures
<1>3. EncOK'
  <2>1. /\ {enc'.start, enc'.cra, enc'.opens} \subseteq BOOLEAN /\ enc'.cvs \in Nat
        /\ enc'.irap \in Pocs /\ enc'.irapBefore \in Pocs \cup {-1}
    <3> HIDE DEF opens, i
    <3>1. enc'.cra \in BOOLEAN /\ enc'.opens \in BOOLEAN
      BY <1>1, <1>2 DEF EncOK
    <3>2. enc'.cvs \in Nat
      BY <1>1, <1>2 DEF EncOK
    <3>3. enc'.irap \in Pocs /\ enc'.irapBefore \in Pocs \cup {-1}
      BY <1>1, <1>2 DEF EncOK
    <3> QED BY <1>1, <3>1, <3>2, <3>3
  <2>2. /\ enc'.refs \cup enc'.rasl \cup enc'.radl \cup enc'.trailing \subseteq enc'.seen
        /\ enc'.seen \subseteq Pocs
    <3>1. (opens => p.refs = {}) /\ p.refs \subseteq enc.refs
      BY LegalFacts
    <3> QED BY <1>1, <1>2, <3>1 DEF EncOK
  <2>3. enc'.rasl \cap enc'.radl = {}
    <3>1. ~i => p.poc \notin enc.rasl \cup enc.radl
      BY <1>2, LegalFacts DEF EncOK
    <3> QED BY <1>1, <1>2, <3>1 DEF EncOK
  <2>4. (\A q \in enc'.rasl : q < enc'.irap) /\ (\A q \in enc'.trailing : q > enc'.irap)
    <3>1. (p.type = "RASL" => ~i /\ p.poc < enc.irap) /\ (p.type = "TRAIL" => ~i /\ p.poc > enc.irap)
      BY LegalFacts DEF IsIrap, Leading
    <3> HIDE DEF i
    <3> QED BY <1>1, <1>2, <3>1 DEF EncOK
  <2>5. enc'.irap \in enc'.seen
    <3>1. ~i => ~enc.start /\ ~opens
      BY <1>2, LegalFacts
    <3> QED BY <1>1, <1>2, <3>1 DEF EncOK
  <2> QED BY <1>1, <2>1, <2>2, <2>3, <2>4, <2>5 DEF EncOK
<1> QED BY <1>1, <1>2, <1>3

(* Behind its first picture a sequence has no picture that the decoder      *)
(* cannot decode: it is skipped behind the CRA that opened it, or its       *)
(* references are held.                                                     *)
LEMMA Decodable ==
  ASSUME IsVtm(vtm), EncOK, ~enc.start, Within, vtm.firstSliceInPicture,
         NEW p \in Pictures, Legal(p), ~OpensSequence(p),
         NEW s, s.pocRandomAccess = vtm.pocRandomAccess
  PROVE  /\ RandomAccessSkip(s, p) => p.type = "RASL" /\ enc.opens /\ enc.cra
         /\ ~RandomAccessSkip(s, p) => \A q \in p.refs : Held(q)
<1>1. /\ enc.irap \in Nat /\ enc.irapBefore \in Int /\ vtm.pocRandomAccess \in Int /\ p.poc \in Nat
      /\ vtm.pocRandomAccess # MaxInt /\ enc.opens \in BOOLEAN
  BY BufferAssumption DEF IsVtm, EncOK, Within, Pictures, Pocs, MaxInt
<1>2. vtm.pocRandomAccess <= enc.irap /\ (enc.opens /\ enc.cra => vtm.pocRandomAccess = enc.irap)
      /\ (~enc.opens => vtm.pocRandomAccess <= enc.irapBefore)
  BY DEF Within
<1>3. RandomAccessSkip(s, p) <=> p.type = "RASL" /\ p.poc < vtm.pocRandomAccess
  BY <1>1 DEF RandomAccessSkip
<1>4. p.type = "RASL" => enc.cra /\ p.poc > enc.irapBefore /\ p.poc < enc.irap
  BY LegalFacts DEF Leading
<1>5. RandomAccessSkip(s, p) => p.type = "RASL" /\ enc.opens /\ enc.cra
  BY <1>1, <1>2, <1>3, <1>4
<1>6. ASSUME ~RandomAccessSkip(s, p), NEW q \in p.refs
      PROVE  Held(q)
  <2>1. q \in enc.refs /\ (Lost(q) \/ Held(q)) /\ q \in Int
    BY LegalFacts DEF Within, EncOK, Pocs
  <2>2. ~Lost(q)
    <3>1. CASE p.type = "CRA"
      <4>1. q >= enc.irap
        BY <3>1, LegalFacts
      <4> QED BY <1>1, <2>1, <4>1 DEF Lost, EncOK
    <3>2. CASE p.type = "RASL"
      BY <1>1, <1>2, <1>3, <1>4, <1>6, <3>2 DEF Lost
    <3>3. CASE p.type = "RADL"
      <4>1. q = enc.irap \/ q \in enc.radl
        BY <3>3, LegalFacts
      <4> QED BY <1>1, <2>1, <4>1 DEF Lost, EncOK
    <3>4. CASE p.type = "TRAIL"
      <4>1. q = enc.irap \/ q \in enc.trailing
        BY <3>4, LegalFacts
      <4> QED BY <1>1, <2>1, <4>1 DEF Lost, EncOK
    <3> QED BY <3>1, <3>2, <3>3, <3>4, LegalFacts DEF Pictures, Types, Leading
  <2> QED BY <2>1, <2>2
<1> QED BY <1>5, <1>6

(***************************************************************************)
(* Every step                                                              *)
(***************************************************************************)

(* Ending the picture in decoding keeps the references, that picture among  *)
(* them, and takes a pending EOS into account.                              *)
LEMMA NewPictureKeeps == ASSUME IInv, NewPicture PROVE IInv'
<1> DEFINE e == EndPicture(vtm, FALSE, FALSE)
           s == WriteOutput(e)
           t == [s EXCEPT !.eosInLastPu = s.eosInPu, !.eosInPu = FALSE]
<1>1. /\ pc = "decoding" /\ ~vtm.firstSliceInPicture /\ Becomes(t, {}) /\ enc' = enc /\ pc' = pc
      /\ IsVtm(vtm) /\ EncOK
  BY DEF NewPicture, IInv
<1>2. /\ IsVtm(e) /\ e.cur = vtm.cur /\ SameReferences(vtm.dpb, e.dpb)
      /\ \A f \in {"eosInPu", "pocRandomAccess", "skipped"} : e[f] = vtm[f]
      /\ e.firstSliceInSequence = vtm.firstSliceInSequence /\ e.firstSliceInPicture
      /\ ~vtm.firstSliceInSequence /\ ~vtm.skipped /\ vtm.cur.poc \in DOMAIN vtm.dpb
           => e.dpb[vtm.cur.poc].reconstructed
  BY <1>1, EndFacts
<1> HIDE DEF e
<1>3. IsVtm(s) /\ Untouched(e, s) /\ SameReferences(e.dpb, s.dpb)
  BY <1>2, WriteFacts
<1> HIDE DEF s
<1>4. /\ s.cur = vtm.cur /\ s.eosInPu = vtm.eosInPu /\ s.pocRandomAccess = vtm.pocRandomAccess
      /\ s.skipped = vtm.skipped
      /\ s.firstSliceInSequence = vtm.firstSliceInSequence /\ s.firstSliceInPicture
  BY <1>2, <1>3 DEF Untouched, Flags
<1>5. /\ DOMAIN t = DOMAIN s /\ t.dpb = s.dpb /\ t.cur = s.cur /\ t.lastDisplay = s.lastDisplay
      /\ t.eosInLastPu = s.eosInPu /\ t.eosInPu = FALSE
      /\ \A f \in (Flags \ {"eosInPu", "eosInLastPu"}) \cup {"pocRandomAccess"} : t[f] = s[f]
  BY <1>3 DEF IsVtm, Flags
<1> HIDE DEF t
<1>6. \A f \in Flags : t[f] \in BOOLEAN
  BY <1>3, <1>5 DEF IsVtm, Flags
<1>7. IsVtm(t)
  BY <1>3, <1>5, <1>6 DEF IsVtm
<1>8. /\ IsVtm(vtm') /\ vtm'.dpb = s.dpb /\ vtm'.cur = vtm.cur /\ vtm'.firstSliceInPicture
      /\ vtm'.eosInLastPu = vtm.eosInPu /\ vtm'.eosInPu = FALSE
      /\ vtm'.firstSliceInSequence = vtm.firstSliceInSequence /\ vtm'.skipped = vtm.skipped
      /\ vtm'.pocRandomAccess = vtm.pocRandomAccess
  <2>1. /\ IsVtm(vtm') /\ vtm'.dpb = t.dpb /\ vtm'.cur = t.cur
        /\ \A f \in Flags \cup {"pocRandomAccess"} : vtm'[f] = t[f]
    BY <1>1, <1>7, BecomesFacts
  <2> QED BY <1>4, <1>5, <2>1 DEF Flags
<1>9. EncOK' /\ enc'.start = enc.start
  BY <1>1 DEF EncOK
<1>10. ASSUME ~enc.start
       PROVE  Within'
  <2>1. Within
    BY <1>1, <1>10 DEF IInv
  <2>2. ~vtm.firstSliceInSequence /\ ~vtm.skipped /\ ~vtm.eosInPu
    BY <1>1, <2>1 DEF Within
  <2>3. ASSUME NEW q \in enc.refs
        PROVE  (Lost(q) \/ Held(q))'
    <3>1. CASE Lost(q)
      BY <1>1, <3>1 DEF Lost
    <3>2. CASE Held(q)
      <4>1. /\ q \in DOMAIN vtm.dpb /\ vtm.dpb[q].referenced /\ vtm.dpb[q].id = <<enc.cvs, q>>
            /\ vtm.dpb[q].reconstructed \/ q = vtm.cur.poc
        BY <3>2 DEF Held
      <4>2. q \in DOMAIN e.dpb /\ e.dpb[q].referenced /\ e.dpb[q].id = <<enc.cvs, q>> /\ e.dpb[q].reconstructed
        BY <1>2, <2>2, <4>1 DEF SameReferences
      <4>3. q \in DOMAIN s.dpb /\ s.dpb[q].referenced /\ s.dpb[q].id = <<enc.cvs, q>> /\ s.dpb[q].reconstructed
        BY <1>3, <4>2 DEF SameReferences
      <4> QED BY <1>1, <1>8, <4>3 DEF Held
    <3> QED BY <2>1, <3>1, <3>2 DEF Within
  <2>4. /\ ~vtm'.firstSliceInSequence /\ ~vtm'.eosInPu /\ ~vtm'.eosInLastPu /\ vtm'.firstSliceInPicture
    BY <1>8, <2>2
  <2>5. /\ vtm'.pocRandomAccess <= enc'.irap
        /\ IF enc'.opens THEN enc'.cra => vtm'.pocRandomAccess = enc'.irap
           ELSE vtm'.pocRandomAccess <= enc'.irapBefore
    BY <1>1, <1>8, <2>1 DEF Within
  <2>6. enc'.refs = enc.refs
    BY <1>1
  <2> QED BY <2>3, <2>4, <2>5, <2>6 DEF Within
<1>11. enc.start => vtm'.pocRandomAccess = MaxInt
  BY <1>1, <1>8 DEF IInv
<1> QED BY <1>1, <1>8, <1>9, <1>10, <1>11 DEF IInv

(* An EOS ends the sequence: random access starts anew.                     *)
LEMMA EndOfSequenceKeeps ==
  ASSUME IInv, NEW eof \in BOOLEAN, EndOfSequence(eof)
  PROVE  IInv'
<1> DEFINE s == [vtm EXCEPT !.pocRandomAccess = MaxInt, !.eosInPu = TRUE, !.newClvs = TRUE]
           e == EndPicture(s, TRUE, eof)
           t == [e EXCEPT !.firstSliceInPicture = FALSE]
           i == EndIteration(t, eof)
<1>1. /\ pc = "decoding" /\ Becomes(i, {}) /\ enc' = [enc EXCEPT !.start = TRUE]
      /\ pc' = (IF eof THEN "ended" ELSE pc) /\ IsVtm(vtm) /\ EncOK
  BY DEF EndOfSequence, IInv
<1>2. /\ DOMAIN s = DOMAIN vtm /\ s.dpb = vtm.dpb /\ s.cur = vtm.cur /\ s.lastDisplay = vtm.lastDisplay
      /\ s.pocRandomAccess = MaxInt /\ s.eosInPu = TRUE /\ s.newClvs = TRUE
      /\ \A f \in Flags \ {"eosInPu", "newClvs"} : s[f] = vtm[f]
  BY <1>1 DEF IsVtm, Flags
<1> HIDE DEF s
<1>3. \A f \in Flags : s[f] \in BOOLEAN
  BY <1>1, <1>2 DEF IsVtm, Flags
<1>4. IsVtm(s)
  BY <1>1, <1>2, <1>3 DEF IsVtm
<1>5. IsVtm(e) /\ e.pocRandomAccess = MaxInt
  BY <1>2, <1>4, EndFacts
<1> HIDE DEF e
<1>6. /\ DOMAIN t = DOMAIN e /\ t.dpb = e.dpb /\ t.cur = e.cur /\ t.lastDisplay = e.lastDisplay
      /\ t.firstSliceInPicture = FALSE
      /\ \A f \in (Flags \ {"firstSliceInPicture"}) \cup {"pocRandomAccess"} : t[f] = e[f]
  BY <1>5 DEF IsVtm, Flags
<1> HIDE DEF t
<1>7. \A f \in Flags : t[f] \in BOOLEAN
  BY <1>5, <1>6 DEF IsVtm
<1>8. IsVtm(t) /\ t.pocRandomAccess = MaxInt
  BY <1>5, <1>6, <1>7 DEF IsVtm
<1>9. IsVtm(i) /\ Untouched(t, i)
  BY <1>8, IterationFacts
<1> HIDE DEF i
<1>10. IsVtm(vtm') /\ \A f \in Flags \cup {"pocRandomAccess"} : vtm'[f] = i[f]
  BY <1>1, <1>9, BecomesFacts
<1>11. vtm'.pocRandomAccess = MaxInt /\ ~vtm'.firstSliceInPicture
  BY <1>6, <1>8, <1>9, <1>10 DEF Untouched, Flags
<1>12. EncOK' /\ enc'.start = TRUE
  BY <1>1 DEF EncOK
<1> QED BY <1>1, <1>10, <1>11, <1>12 DEF IInv

(* The slice of a picture: its references are found, and what it leaves     *)
(* held is what the next picture may refer to.                              *)
LEMMA DecodePictureKeeps ==
  ASSUME IInv, NEW p \in Pictures, NEW eof \in BOOLEAN, DecodePicture(p, eof)
  PROVE  IInv'
<1> DEFINE opens == OpensSequence(p)
           s == BeforeSlice(vtm, p)
           skip == RandomAccessSkip(s, p)
           cvs == AfterPicture(p).cvs
           t == DecodeSlice(s, p, cvs)
           u == IF eof THEN EndPicture(t, FALSE, TRUE) ELSE t
           i == EndIteration(u, eof)
           found == RandomAccessSkip(s, p) \/ RefsAvailable(s, p)
           taken == IF MustShow(p) THEN {<<enc'.cvs, p.poc>>} ELSE {}
<1>1. /\ pc = "decoding" /\ vtm.firstSliceInPicture /\ Legal(p) /\ enc' = AfterPicture(p)
      /\ Becomes(IF found THEN i ELSE s, taken)
      /\ pc' = (IF ~found THEN "aborted" ELSE IF eof THEN "ended" ELSE pc)
  BY DEF DecodePicture
<1>2. /\ IsVtm(vtm) /\ EncOK /\ ~vtm.eosInPu
      /\ IF enc.start THEN vtm.pocRandomAccess = MaxInt ELSE Within
  BY <1>1 DEF IInv
<1>3. EncOK' /\ ~enc'.start /\ enc'.refs = p.refs \cup {p.poc} /\ cvs = enc'.cvs /\ cvs \in Nat
  <2>1. EncOK' /\ ~enc'.start /\ enc'.refs = p.refs \cup {p.poc}
    BY <1>1, <1>2, AfterFacts
  <2> QED BY <1>1, <2>1 DEF EncOK
<1> HIDE DEF cvs
<1>4. /\ IsVtm(s) /\ s.skipped = FALSE /\ s.pocRandomAccess = vtm.pocRandomAccess
      /\ s.eosInPu = vtm.eosInPu /\ s.eosInLastPu = vtm.eosInLastPu /\ s.firstSliceInPicture
      /\ s.firstSliceInSequence = vtm.firstSliceInSequence
      /\ ~StartsClvs(vtm, p) => s.dpb = vtm.dpb
  <2>1. /\ IsVtm(s) /\ s.skipped = FALSE /\ (~StartsClvs(vtm, p) => s.dpb = vtm.dpb)
        /\ \A f \in (Flags \ {"skipped", "newClvs"}) \cup {"pocRandomAccess"} : s[f] = vtm[f]
    BY <1>2, BeforeFacts
  <2> HIDE DEF s
  <2> QED BY <1>1, <2>1 DEF Flags
<1> HIDE DEF s
<1>5. ASSUME ~opens
      PROVE  /\ ~enc.start /\ Within /\ s.dpb = vtm.dpb
             /\ skip => p.type = "RASL" /\ enc.opens /\ enc.cra
             /\ ~skip => \A q \in p.refs : Held(q)
  <2>1. ~enc.start /\ p.type # "IDR" /\ Within
    BY <1>1, <1>2, <1>5, LegalFacts
  <2>2. ~StartsClvs(vtm, p)
    BY <1>1, <2>1 DEF StartsClvs, Within
  <2> QED BY <1>1, <1>2, <1>4, <1>5, <2>1, <2>2, Decodable
<1>6. opens => p.type \in {"IDR", "CRA"} /\ p.refs = {}
  BY <1>1, <1>2, LegalFacts DEF IsIrap
<1>7. found
  <2>1. CASE opens
    BY <1>6, <2>1 DEF RefsAvailable
  <2>2. CASE ~opens
    BY <1>5, <2>2 DEF RefsAvailable, Held
  <2> QED BY <2>1, <2>2
<1>8. skip => p.type = "RASL"
  BY DEF RandomAccessSkip
<1>9. /\ IsVtm(t) /\ t.pocRandomAccess = PocRandomAccess(s, p)
      /\ t.eosInPu = s.eosInPu /\ t.eosInLastPu = s.eosInLastPu
      /\ skip => /\ t.skipped /\ t.dpb = s.dpb /\ t.cur = s.cur
                 /\ t.firstSliceInPicture = s.firstSliceInPicture
                 /\ t.firstSliceInSequence = s.firstSliceInSequence
      /\ ~skip => /\ ~t.firstSliceInPicture /\ ~t.firstSliceInSequence /\ t.skipped = s.skipped
                  /\ t.cur.poc = p.poc /\ p.poc \in DOMAIN t.dpb
                  /\ t.dpb[p.poc].referenced /\ t.dpb[p.poc].id = <<cvs, p.poc>>
                  /\ \A q \in p.refs \cap DOMAIN s.dpb :
                       q # p.poc /\ s.dpb[q].referenced /\ s.dpb[q].reconstructed
                         => q \in DOMAIN t.dpb /\ t.dpb[q] = s.dpb[q]
  <2> HIDE DEF cvs
  <2>1. /\ IsVtm(t) /\ t.pocRandomAccess = PocRandomAccess(s, p)
        /\ \A f \in {"eosInPu", "eosInLastPu"} : t[f] = s[f]
        /\ skip => /\ t.skipped /\ t.dpb = s.dpb /\ t.cur = s.cur
                   /\ t.firstSliceInPicture = s.firstSliceInPicture
                   /\ t.firstSliceInSequence = s.firstSliceInSequence
        /\ ~skip => /\ ~t.firstSliceInPicture /\ ~t.firstSliceInSequence /\ t.skipped = s.skipped
                    /\ t.cur.poc = p.poc /\ p.poc \in DOMAIN t.dpb
                    /\ t.dpb[p.poc].referenced /\ t.dpb[p.poc].id = <<cvs, p.poc>>
                    /\ \A q \in p.refs \cap DOMAIN s.dpb :
                         q # p.poc /\ s.dpb[q].referenced /\ s.dpb[q].reconstructed
                           => q \in DOMAIN t.dpb /\ t.dpb[q] = s.dpb[q]
    <3>1. IsVtm(s) /\ cvs \in Nat
      BY <1>3, <1>4
    <3> QED BY <3>1, DecodeFacts
  <2> HIDE DEF t, skip
  <2> QED BY <2>1
<1> HIDE DEF skip, t, opens
<1>10. IsVtm(u) /\ (~eof => u = t)
  BY <1>9, EndFacts
<1> HIDE DEF u
<1>11. IsVtm(i) /\ Untouched(u, i) /\ (~eof => SameReferences(u.dpb, i.dpb))
  BY <1>10, IterationFacts
<1> HIDE DEF i, found, taken
<1>12. /\ IsVtm(vtm') /\ vtm'.dpb = i.dpb /\ vtm'.cur = i.cur
       /\ \A f \in Flags \cup {"pocRandomAccess"} : vtm'[f] = i[f]
  BY <1>1, <1>7, <1>11, BecomesFacts
<1>13. CASE eof
  BY <1>1, <1>3, <1>7, <1>12, <1>13 DEF IInv
<1>14. CASE ~eof
  <2>1. /\ SameReferences(t.dpb, vtm'.dpb) /\ vtm'.cur = t.cur
        /\ vtm'.firstSliceInPicture = t.firstSliceInPicture /\ vtm'.skipped = t.skipped
        /\ vtm'.firstSliceInSequence = t.firstSliceInSequence
        /\ vtm'.pocRandomAccess = t.pocRandomAccess
        /\ vtm'.eosInPu = vtm.eosInPu /\ vtm'.eosInLastPu = vtm.eosInLastPu
    BY <1>4, <1>9, <1>10, <1>11, <1>12, <1>14 DEF Untouched, Flags
  <2>2. /\ p.poc \in Nat /\ p.type \in {"IDR", "CRA", "TRAIL", "RASL", "RADL"}
        /\ enc.irap \in Nat /\ enc.irapBefore \in Int /\ vtm.pocRandomAccess \in Int
    BY <1>2, BufferAssumption DEF IsVtm, EncOK, Pictures, Pocs, Types, Leading, MaxInt
  <2>3. ~opens => vtm.pocRandomAccess <= enc.irap /\ vtm.pocRandomAccess # MaxInt
    <3>1. enc.irap < MaxInt
      BY <1>2, BufferAssumption DEF EncOK, Pocs, MaxInt
    <3> QED BY <1>5, <2>2, <3>1 DEF Within, MaxInt
  <2>4. /\ vtm'.pocRandomAccess <= enc'.irap
        /\ IF enc'.opens THEN enc'.cra => vtm'.pocRandomAccess = enc'.irap
           ELSE vtm'.pocRandomAccess <= enc'.irapBefore
    <3>1. vtm'.pocRandomAccess = IF p.type = "IDR" THEN -MaxInt
                                 ELSE IF vtm.pocRandomAccess = MaxInt /\ p.type = "CRA" THEN p.poc
                                 ELSE vtm.pocRandomAccess
      BY <1>4, <1>9, <2>1 DEF PocRandomAccess
    <3>2. CASE IsIrap(p) /\ opens
      <4>1. enc'.irap = p.poc /\ enc'.cra = (p.type = "CRA") /\ enc'.opens
        BY <1>1, <1>2, <3>2, AfterFacts DEF opens
      <4>2. p.type = "CRA" => vtm.pocRandomAccess = MaxInt
        BY <1>2, <3>2 DEF opens, OpensSequence
      <4>3. CASE p.type = "IDR"
        <5>1. vtm'.pocRandomAccess = -1000 /\ ~enc'.cra
          BY <3>1, <4>1, <4>3 DEF MaxInt
        <5> QED BY <2>2, <4>1, <5>1
      <4>4. CASE p.type = "CRA"
        <5>1. vtm'.pocRandomAccess = p.poc
          BY <3>1, <4>2, <4>4
        <5> QED BY <2>2, <4>1, <5>1
      <4> QED BY <3>2, <4>3, <4>4 DEF IsIrap
    <3>3. CASE IsIrap(p) /\ ~opens
      <4>1. enc'.irap = p.poc /\ ~enc'.opens /\ enc'.irapBefore = enc.irap
        BY <1>1, <1>2, <3>3, AfterFacts DEF opens
      <4>2. p.type = "CRA" /\ p.poc > enc.irap
        BY <1>1, <1>2, <3>3, LegalFacts DEF opens, IsIrap
      <4>3. vtm'.pocRandomAccess = vtm.pocRandomAccess
        BY <2>3, <3>1, <3>3, <4>2
      <4> QED BY <2>2, <2>3, <3>3, <4>1, <4>2, <4>3
    <3>4. CASE ~IsIrap(p)
      <4>1. ~opens
        BY <1>6, <3>4 DEF IsIrap
      <4>2. /\ enc'.irap = enc.irap /\ enc'.cra = enc.cra /\ enc'.opens = enc.opens
            /\ enc'.irapBefore = enc.irapBefore
        BY <1>1, <1>2, <3>4, AfterFacts
      <4>3. vtm'.pocRandomAccess = vtm.pocRandomAccess
        BY <3>1, <3>4 DEF IsIrap
      <4> QED BY <1>5, <4>1, <4>2, <4>3 DEF Within
    <3> QED BY <3>2, <3>3, <3>4
  <2>5. skip => /\ ~opens /\ ~IsIrap(p) /\ p.poc \in enc'.rasl /\ enc'.opens /\ enc'.cra
                /\ enc.rasl \subseteq enc'.rasl /\ enc'.opens = enc.opens /\ enc'.cra = enc.cra
    <3>1. skip => ~opens /\ ~IsIrap(p)
      BY <1>6, <1>8 DEF IsIrap
    <3> QED BY <1>1, <1>2, <1>5, <1>8, <3>1, AfterFacts
  <2>6. ASSUME NEW q \in p.refs
        PROVE  (Lost(q) \/ Held(q))'
    <3>1. ~opens /\ q \in enc.refs /\ q # p.poc /\ enc'.cvs = enc.cvs
      <4>1. ~opens
        BY <1>6, <2>6
      <4>2. q \in enc.refs /\ p.poc \notin enc.seen
        BY <1>1, <1>2, <4>1, LegalFacts DEF opens
      <4>3. enc'.cvs = enc.cvs
        BY <1>1, <1>2, <4>1, AfterFacts DEF opens
      <4> QED BY <1>2, <4>1, <4>2, <4>3 DEF EncOK
    <3>2. CASE skip /\ Lost(q)
      BY <2>5, <3>2 DEF Lost
    <3>3. CASE Held(q)
      <4>1. /\ q \in DOMAIN s.dpb /\ s.dpb[q].referenced /\ s.dpb[q].reconstructed
            /\ s.dpb[q].id = <<enc'.cvs, q>>
        BY <1>1, <1>5, <3>1, <3>3 DEF Held
      <4>2. q \in DOMAIN t.dpb /\ t.dpb[q] = s.dpb[q]
        <5>1. CASE skip
          BY <1>9, <4>1, <5>1
        <5>2. CASE ~skip
          BY <1>9, <3>1, <4>1, <5>2
        <5> QED BY <5>1, <5>2
      <4> QED BY <2>1, <4>1, <4>2 DEF SameReferences, Held
    <3> QED BY <1>5, <3>1, <3>2, <3>3 DEF Within
  <2>7. (Lost(p.poc) \/ Held(p.poc))'
    <3>1. CASE skip
      BY <2>5, <3>1 DEF Lost
    <3>2. CASE ~skip
      <4>1. /\ p.poc \in DOMAIN vtm'.dpb /\ vtm'.dpb[p.poc].referenced
            /\ vtm'.dpb[p.poc].id = <<enc'.cvs, p.poc>>
        BY <1>3, <1>9, <2>1, <3>2 DEF SameReferences
      <4>2. p.poc = vtm'.cur.poc /\ ~vtm'.firstSliceInPicture
        BY <1>9, <2>1, <3>2
      <4> QED BY <4>1, <4>2 DEF Held
    <3> QED BY <3>1, <3>2
  <2>8. /\ ~vtm'.firstSliceInSequence /\ ~vtm'.eosInPu
        /\ vtm'.firstSliceInPicture => ~vtm'.eosInLastPu
        /\ vtm'.skipped => vtm'.firstSliceInPicture
    <3>1. CASE skip
      BY <1>1, <1>2, <1>4, <1>5, <1>9, <2>1, <2>5, <3>1 DEF Within
    <3>2. CASE ~skip
      BY <1>2, <1>4, <1>9, <2>1, <3>2
    <3> QED BY <3>1, <3>2
  <2>9. \A q \in enc'.refs : (Lost(q) \/ Held(q))'
    BY <1>3, <2>6, <2>7
  <2>10. Within'
    BY <2>4, <2>8, <2>9 DEF Within
  <2> QED BY <1>1, <1>3, <1>7, <1>12, <1>14, <2>8, <2>10 DEF IInv
<1> QED BY <1>13, <1>14

(* The first state *)
LEMMA StartHolds == ASSUME Init PROVE IInv
<1>1. /\ DOMAIN vtm = Flags \cup {"dpb", "cur", "written", "pocRandomAccess", "lastDisplay"}
      /\ vtm.dpb = <<>> /\ vtm.cur = [poc |-> 0, rasl |-> FALSE, out |-> FALSE]
      /\ vtm.pocRandomAccess = MaxInt /\ vtm.lastDisplay = -MaxInt /\ vtm.eosInPu = FALSE
  BY DEF Init, InitVtm, Flags
<1>2. \A f \in Flags : vtm[f] \in BOOLEAN
  <2>1. /\ vtm.listed = FALSE /\ vtm.firstSliceInPicture = TRUE /\ vtm.firstSliceInSequence = TRUE
        /\ vtm.lastNoOutputBeforeRecovery = FALSE /\ vtm.newClvs = TRUE /\ vtm.eosInPu = FALSE
        /\ vtm.eosInLastPu = FALSE /\ vtm.skipped = FALSE /\ vtm.loopFiltered = FALSE
    BY DEF Init, InitVtm
  <2> QED BY <2>1 DEF Flags
<1>3. 0 \in Pocs
  BY BufferAssumption DEF Pocs
<1>4. IsVtm(vtm)
  BY <1>1, <1>2, <1>3, EmptyBuffer DEF IsVtm
<1>5. EncOK /\ enc.start = TRUE
  BY <1>3 DEF Init, InitEnc, EncOK
<1> QED BY <1>1, <1>4, <1>5 DEF Init, IInv

(* Every step keeps the invariant.                                          *)
LEMMA NextKeeps == ASSUME IInv, [Next]_vars PROVE IInv'
<1>1. CASE NewPicture
  BY <1>1, NewPictureKeeps
<1>2. ASSUME NEW type \in Types, NEW poc \in Pocs, NEW out \in BOOLEAN, NEW refs \in SUBSET enc.refs,
             NEW eof \in BOOLEAN,
             DecodePicture([type |-> type, poc |-> poc, out |-> out, refs |-> refs], eof)
      PROVE  IInv'
  <2> DEFINE p == [type |-> type, poc |-> poc, out |-> out, refs |-> refs]
  <2>1. p \in Pictures
    BY DEF Pictures, IInv, EncOK
  <2>2. DecodePicture(p, eof)
    BY <1>2
  <2> HIDE DEF p
  <2> QED BY <2>1, <2>2, DecodePictureKeeps
<1>3. ASSUME NEW eof \in BOOLEAN, EndOfSequence(eof)
      PROVE  IInv'
  BY <1>3, EndOfSequenceKeeps
<1>4. CASE UNCHANGED vars
  BY <1>4 DEF vars, IInv, IsVtm, EncOK, Within, Lost, Held
<1> QED BY <1>1, <1>2, <1>3, <1>4 DEF Next

(* The invariant holds in every reachable state.                            *)
LEMMA Invariance == Spec => []IInv
BY StartHolds, NextKeeps, PTL DEF Spec

-----------------------------------------------------------------------------
(* The types hold: every slot of the picture list is that of its POC.       *)
THEOREM TypesHold == Spec => []TypeOK
<1>1. IInv => TypeOK
  <2> SUFFICES ASSUME IInv PROVE TypeOK
    OBVIOUS
  <2>1. IsVtm(vtm) /\ EncOK /\ pc \in {"decoding", "ended"}
    BY DEF IInv
  <2>2. \A q \in DOMAIN vtm.dpb : /\ vtm.dpb[q].id \in Nat \X {q}
                                  /\ vtm.dpb[q].needed \in BOOLEAN /\ vtm.dpb[q].referenced \in BOOLEAN
    BY <2>1, SlotFacts DEF IsVtm
  <2>3. DOMAIN vtm.dpb \subseteq Pocs /\ vtm.pocRandomAccess \in Pocs \cup {-MaxInt, MaxInt}
        /\ vtm.lastDisplay \in Pocs \cup {-MaxInt}
    BY <2>1 DEF IsVtm, IsBuffer
  <2> QED BY <2>1, <2>2, <2>3 DEF TypeOK, EncOK
<1> QED BY <1>1, Invariance, PTL

(* Every reference of every picture that is decoded is in the buffer,       *)
(* whatever the stream, the buffer's size and the reordering.               *)
THEOREM ReferencesFound == Spec => []RefsFound
<1>1. IInv => RefsFound
  BY DEF IInv, RefsFound
<1> QED BY <1>1, Invariance, PTL

(* Between two pictures of a sequence, whatever the next picture may refer  *)
(* to is in the buffer whole and is the picture of that sequence, not one   *)
(* of an earlier sequence with its POC; but for RASL pictures of the CRA    *)
(* that opened the sequence, to which no picture that is decoded refers.    *)
ReferencesMeant ==
  pc = "decoding" /\ ~enc.start /\ vtm.firstSliceInPicture =>
    \A q \in enc.refs : \/ q \in enc.rasl /\ enc.opens
                        \/ /\ q \in DOMAIN vtm.dpb /\ vtm.dpb[q].id = <<enc.cvs, q>>
                           /\ vtm.dpb[q].referenced /\ vtm.dpb[q].reconstructed

(* No reference is taken for another picture of its POC.                    *)
THEOREM ReferencesAreMeant == Spec => []ReferencesMeant
<1>1. IInv => ReferencesMeant
  BY DEF IInv, ReferencesMeant, Within, Lost, Held
<1> QED BY <1>1, Invariance, PTL

(***************************************************************************)
(* How much is stored: the decoder writes no earlier than the hypothetical *)
(* decoder does, and so finds room whenever that one does                  *)
(***************************************************************************)

Waits(dpb) == {q \in DOMAIN dpb : dpb[q].needed}
Refers(dpb) == {q \in DOMAIN dpb : dpb[q].referenced}

(* The hypothetical buffer: within its bounds, shown up to last             *)
HypotheticalOK ==
  /\ enc.waiting \subseteq Pocs /\ enc.last \in Pocs \cup {-1}
  /\ Cardinality(enc.waiting) <= MaxNumReorder
  /\ Cardinality(enc.waiting \cup enc.refs) <= MaxDecPicBuffering
  /\ \A q \in enc.waiting : q > enc.last

(* A picture that the hypothetical decoder has shown or that waits there    *)
Expected(q) == q \in enc.waiting \/ q <= enc.last

(* The buffer is within its bounds, and what waits comes after what was     *)
(* shown                                                                    *)
Fits(s) ==
  /\ Cardinality(Waits(s.dpb)) <= MaxNumReorder
  /\ Cardinality(Waits(s.dpb) \cup Refers(s.dpb)) <= MaxDecPicBuffering
  /\ \A q \in Waits(s.dpb) : q > s.lastDisplay

InBounds == Fits(vtm) /\ (DOMAIN vtm.dpb = {} => vtm.lastDisplay = -MaxInt)

(* Between sequences: nothing is in decoding, and the next picture flushes  *)
Between ==
  IF vtm.firstSliceInPicture
  THEN /\ vtm.eosInLastPu \/ DOMAIN vtm.dpb = {}
       /\ vtm.listed \/ DOMAIN vtm.dpb = {}
  ELSE vtm.eosInPu /\ vtm.listed /\ (vtm.firstSliceInSequence \/ vtm.skipped)

(* Within a sequence: the decoder is not ahead of the hypothetical one      *)
NotAhead ==
  /\ vtm.lastDisplay <= enc.last
  /\ \A q \in Waits(vtm.dpb) : Expected(q)
  /\ vtm.firstSliceInPicture => vtm.listed
  /\ ~vtm.firstSliceInPicture => /\ Refers(vtm.dpb) \subseteq enc.refs
                                 /\ vtm.cur.out => vtm.cur.poc > vtm.lastDisplay /\ Expected(vtm.cur.poc)

OutInv ==
  /\ HypotheticalOK /\ Bounded
  /\ pc = "decoding" => InBounds /\ IF enc.start THEN Between ELSE NotAhead

(* Sets of POCs are finite. *)
LEMMA PocsFinite ==
  ASSUME NEW S \in SUBSET Pocs
  PROVE  IsFiniteSet(S) /\ Cardinality(S) \in Nat
<1>1. IsFiniteSet(Pocs)
  BY FS_Interval, BufferAssumption DEF Pocs
<1>2. IsFiniteSet(S)
  BY <1>1, FS_Subset
<1> QED BY <1>2, FS_CardinalityType

(* A part of a set of POCs has no more members than the whole. *)
LEMMA PartIsSmaller ==
  ASSUME NEW T \in SUBSET Pocs, NEW S \in SUBSET T
  PROVE  Cardinality(S) \in Nat /\ Cardinality(T) \in Nat /\ Cardinality(S) <= Cardinality(T)
BY PocsFinite, FS_Subset

(* One more POC is one more at most. *)
LEMMA OneMore ==
  ASSUME NEW S \in SUBSET Pocs, NEW q \in Pocs
  PROVE  Cardinality(S \cup {q}) \in Nat /\ Cardinality(S \cup {q}) <= Cardinality(S) + 1
<1>1. IsFiniteSet(S) /\ Cardinality(S) \in Nat /\ Cardinality(S \cup {q}) \in Nat
  BY PocsFinite
<1>2. Cardinality(S \cup {q}) = IF q \in S THEN Cardinality(S) ELSE Cardinality(S) + 1
  BY <1>1, FS_AddElement
<1> QED BY <1>1, <1>2

(* Removing pictures in POC order leaves the last ones, and room.           *)
LEMMA BumpedFacts ==
  ASSUME NEW W \in SUBSET Pocs, NEW X \in SUBSET Pocs, NEW F \in Int
  PROVE  LET B == Bumped(W, X, F)
         IN /\ B \subseteq W
            /\ Cardinality(W \ B) <= MaxNumReorder
            /\ Cardinality(X) <= F => Cardinality((W \ B) \cup X) <= F
            /\ \A q \in W \ B, b \in B : q > b
            /\ Cardinality(W) <= MaxNumReorder /\ Cardinality(W \cup X) <= F => B = {}
<1> DEFINE B == Bumped(W, X, F)
           Later(q) == {w \in W : w >= q}
           Out(q) == Cardinality(Later(q)) > MaxNumReorder \/ Cardinality(X \cup Later(q)) > F
<1>1. B = {q \in W : Out(q)}
  BY DEF Bumped
<1>2. \A q \in W : q \in Int
  BY DEF Pocs
<1>3. \A q \in W : Later(q) \in SUBSET W /\ X \cup Later(q) \in SUBSET Pocs
  OBVIOUS
<1> HIDE DEF Later, B
<1>4. B \subseteq W
  BY <1>1
<1>5. ASSUME NEW q \in W \ B
      PROVE  /\ Cardinality(Later(q)) \in Nat /\ Cardinality(X \cup Later(q)) \in Nat
             /\ Cardinality(Later(q)) <= MaxNumReorder /\ Cardinality(X \cup Later(q)) <= F
  <2>1. Cardinality(Later(q)) \in Nat /\ Cardinality(X \cup Later(q)) \in Nat
    BY <1>3, PartIsSmaller
  <2>2. ~Out(q)
    BY <1>1
  <2> QED BY <2>1, <2>2, BufferAssumption
<1>6. ASSUME W \ B # {}
      PROVE  Cardinality(W \ B) <= MaxNumReorder /\ Cardinality((W \ B) \cup X) <= F
  <2> DEFINE q == Min(W \ B)
  <2>1. q \in W \ B /\ \A w \in W \ B : q <= w
    <3> DEFINE S == W \ B
    <3>1. S \in SUBSET Pocs /\ S # {}
      BY <1>6
    <3> HIDE DEF S
    <3>2. Min(S) \in S /\ \A w \in S : Min(S) <= w
      BY <3>1, Extremes
    <3> QED BY <3>2 DEF S
  <2> HIDE DEF q
  <2>2. W \ B \in SUBSET Later(q) /\ (W \ B) \cup X \in SUBSET (X \cup Later(q))
    BY <1>2, <2>1 DEF Later
  <2>3. /\ Cardinality(W \ B) \in Nat /\ Cardinality(W \ B) <= Cardinality(Later(q))
        /\ Cardinality((W \ B) \cup X) \in Nat
        /\ Cardinality((W \ B) \cup X) <= Cardinality(X \cup Later(q))
    BY <1>3, <2>1, <2>2, PartIsSmaller
  <2>4. /\ Cardinality(Later(q)) \in Nat /\ Cardinality(X \cup Later(q)) \in Nat
        /\ Cardinality(Later(q)) <= MaxNumReorder /\ Cardinality(X \cup Later(q)) <= F
    BY <1>5, <2>1
  <2> QED BY <2>3, <2>4, BufferAssumption
<1>7. Cardinality(W \ B) <= MaxNumReorder
  <2>1. CASE W \ B = {}
    BY <2>1, FS_EmptySet, BufferAssumption
  <2>2. CASE W \ B # {}
    BY <1>6, <2>2
  <2> QED BY <2>1, <2>2
<1>8. Cardinality(X) <= F => Cardinality((W \ B) \cup X) <= F
  <2>1. CASE W \ B = {}
    <3>1. (W \ B) \cup X = X
      BY <2>1
    <3> QED BY <3>1
  <2>2. CASE W \ B # {}
    BY <1>6, <2>2
  <2> QED BY <2>1, <2>2
<1>9. ASSUME NEW q \in W \ B, NEW b \in B
      PROVE  q > b
  <2>1. SUFFICES ASSUME ~(q > b) PROVE FALSE
    OBVIOUS
  <2>2. q \in W /\ b \in W /\ q <= b /\ Out(b)
    BY <1>1, <1>2, <1>4, <2>1
  <2>3. Later(b) \in SUBSET Later(q) /\ X \cup Later(b) \in SUBSET (X \cup Later(q))
    BY <1>2, <2>2 DEF Later
  <2>4. /\ Cardinality(Later(b)) \in Nat /\ Cardinality(Later(b)) <= Cardinality(Later(q))
        /\ Cardinality(X \cup Later(b)) \in Nat
        /\ Cardinality(X \cup Later(b)) <= Cardinality(X \cup Later(q))
    BY <1>3, <2>2, <2>3, PartIsSmaller
  <2> QED BY <1>5, <2>2, <2>4, BufferAssumption
<1>10. ASSUME Cardinality(W) <= MaxNumReorder, Cardinality(W \cup X) <= F, NEW b \in B
       PROVE  FALSE
  <2>1. b \in W /\ Out(b)
    BY <1>1
  <2>2. X \cup Later(b) \in SUBSET (W \cup X) /\ W \cup X \in SUBSET Pocs
    BY <1>3, <2>1
  <2>3. /\ Cardinality(Later(b)) \in Nat /\ Cardinality(Later(b)) <= Cardinality(W)
        /\ Cardinality(X \cup Later(b)) \in Nat
        /\ Cardinality(X \cup Later(b)) <= Cardinality(W \cup X)
        /\ Cardinality(W) \in Nat /\ Cardinality(W \cup X) \in Nat
    BY <1>3, <2>1, <2>2, PartIsSmaller
  <2> QED BY <1>10, <2>1, <2>3, BufferAssumption
<1> QED BY <1>4, <1>7, <1>8, <1>9, <1>10 DEF B

(* The hypothetical buffer stays within its bounds, and shows on.           *)
LEMMA HypotheticalKeeps ==
  ASSUME EncOK, HypotheticalOK, NEW p \in Pictures, Legal(p), enc' = AfterPicture(p)
  PROVE  LET early == Bumped(enc.waiting, p.refs, MaxDecPicBuffering - 1)
         IN /\ HypotheticalOK' /\ (p.out => Expected(p.poc)')
            /\ ~OpensSequence(p) =>
                 /\ \A q \in enc.waiting : Expected(q)'
                 /\ enc.last <= enc'.last /\ \A q \in early : q <= enc'.last
                 /\ p.out => p.poc > enc.last /\ \A q \in early : p.poc > q
<1> DEFINE opens == OpensSequence(p)
           W == IF opens THEN {} ELSE enc.waiting
           bumped == Bumped(enc.waiting, p.refs, MaxDecPicBuffering - 1)
           early == IF opens THEN {} ELSE bumped
           held == (W \ early) \cup (IF p.out THEN {p.poc} ELSE {})
           late == Bumped(held, {}, MaxPics)
           old == IF opens THEN -1 ELSE enc.last
<1>1. /\ enc'.waiting = held \ late /\ enc'.last = Highest(early \cup late, old)
      /\ enc'.refs = p.refs \cup {p.poc}
  BY DEF AfterPicture
<1>2. /\ enc.waiting \in SUBSET Pocs /\ p.refs \in SUBSET Pocs /\ p.poc \in Pocs
      /\ MaxDecPicBuffering - 1 \in Int /\ MaxDecPicBuffering \in Int /\ MaxPics \in Int /\ MaxNumReorder \in Int
      /\ enc.last \in Int /\ enc.last >= -1
  BY BufferAssumption DEF HypotheticalOK, Pictures, Pocs
<1>3. \A q \in Pocs : q \in Nat
  BY DEF Pocs
<1>4. /\ bumped \subseteq enc.waiting
      /\ Cardinality(p.refs) <= MaxDecPicBuffering - 1
           => Cardinality((enc.waiting \ bumped) \cup p.refs) <= MaxDecPicBuffering - 1
      /\ \A q \in enc.waiting \ bumped, b \in bumped : q > b
  BY <1>2, BumpedFacts
<1> HIDE DEF bumped
<1>5. ~opens => /\ Cardinality(p.refs) <= MaxDecPicBuffering - 1
                /\ p.out => p.poc > enc.last /\ \A q \in bumped : p.poc > q
  <2>1. ~opens => /\ Cardinality(p.refs) < MaxDecPicBuffering
                  /\ p.out => p.poc > enc.last /\ \A q \in bumped : p.poc > q
    BY DEF Legal, bumped
  <2>2. Cardinality(p.refs) \in Nat
    BY <1>2, PocsFinite
  <2> QED BY <1>2, <2>1, <2>2
<1>6. opens => p.refs = {}
  BY LegalFacts
<1> HIDE DEF opens
<1>7. W \in SUBSET Pocs /\ early \in SUBSET W /\ held \in SUBSET Pocs
  BY <1>2, <1>4
<1>8. /\ late \subseteq held /\ Cardinality(held \ late) <= MaxNumReorder
      /\ \A q \in held \ late, b \in late : q > b
  <2> HIDE DEF held
  <2> QED BY <1>2, <1>7, BumpedFacts
<1> HIDE DEF late
<1>9. Cardinality(enc'.waiting \cup enc'.refs) <= MaxDecPicBuffering
  <2> DEFINE kept == (W \ early) \cup p.refs
  <2>1. kept \in SUBSET Pocs /\ Cardinality(kept) <= MaxDecPicBuffering - 1
    <3>1. CASE opens
      <4>1. kept = {}
        BY <1>6, <3>1
      <4>2. Cardinality(kept) = 0
        BY <4>1, FS_EmptySet
      <4> HIDE DEF kept
      <4> QED BY <4>1, <4>2, BufferAssumption
    <3>2. CASE ~opens
      BY <1>2, <1>4, <1>5, <3>2
    <3> QED BY <3>1, <3>2
  <2>2. enc'.waiting \cup enc'.refs \in SUBSET (kept \cup {p.poc}) /\ kept \cup {p.poc} \in SUBSET Pocs
    BY <1>1, <1>2, <2>1
  <2> HIDE DEF kept
  <2>3. /\ Cardinality(kept \cup {p.poc}) \in Nat /\ Cardinality(kept \cup {p.poc}) <= Cardinality(kept) + 1
        /\ Cardinality(kept) \in Nat
    BY <1>2, <2>1, OneMore, PocsFinite
  <2>4. /\ Cardinality(enc'.waiting \cup enc'.refs) \in Nat
        /\ Cardinality(enc'.waiting \cup enc'.refs) <= Cardinality(kept \cup {p.poc})
    BY <2>2, PartIsSmaller
  <2> QED BY <1>2, <2>1, <2>3, <2>4
<1>10. /\ enc'.last \in Pocs \cup {-1}
       /\ \A q \in early \cup late : q <= enc'.last
       /\ (early \cup late = {} => enc'.last = old) /\ (early \cup late # {} => enc'.last \in early \cup late)
  <2> DEFINE S == early \cup late
  <2>1. S \in SUBSET Pocs /\ enc'.last = IF S = {} THEN old ELSE Max(S)
    BY <1>1, <1>7, <1>8 DEF Highest
  <2>2. old \in Pocs \cup {-1}
    BY DEF HypotheticalOK
  <2> HIDE DEF S, old
  <2>3. S # {} => Max(S) \in S /\ \A q \in S : Max(S) >= q
    BY <2>1, Extremes
  <2>4. \A q \in S : S # {} /\ q \in Int /\ Max(S) \in Int
    BY <1>3, <2>1, <2>3
  <2>5. \A q \in S : q <= enc'.last
    BY <2>1, <2>3, <2>4
  <2> QED BY <2>1, <2>2, <2>3, <2>5 DEF S
<1>11. \A q \in held : q > old /\ q \in Nat /\ old \in Int /\ \A b \in early : q > b
  <2>1. \A q \in W : q > enc.last
    BY DEF HypotheticalOK
  <2>2. CASE opens
    BY <1>3, <1>7, <2>2
  <2>3. CASE ~opens
    BY <1>2, <1>3, <1>4, <1>5, <1>7, <2>1, <2>3
  <2> QED BY <2>2, <2>3
<1>12. \A q \in enc'.waiting : q > enc'.last
  <2> SUFFICES ASSUME NEW q \in enc'.waiting PROVE q > enc'.last
    OBVIOUS
  <2>1. q \in held \ late
    BY <1>1
  <2> HIDE DEF held, early, old
  <2>2. CASE early \cup late = {}
    BY <1>10, <1>11, <2>1, <2>2
  <2>3. CASE enc'.last \in early \cup late
    BY <1>8, <1>11, <2>1, <2>3
  <2> QED BY <1>10, <2>2, <2>3
<1>13. HypotheticalOK'
  <2>1. enc'.waiting \subseteq Pocs
    BY <1>1, <1>7
  <2>2. Cardinality(enc'.waiting) <= MaxNumReorder
    BY <1>1, <1>8
  <2> QED BY <1>9, <1>10, <1>12, <2>1, <2>2 DEF HypotheticalOK
<1>14. \A q \in held \cup early : Expected(q)'
  BY <1>1, <1>10 DEF Expected
<1>15. ~opens => enc.last <= enc'.last
  <2> SUFFICES ASSUME ~opens PROVE enc.last <= enc'.last
    OBVIOUS
  <2>1. old = enc.last /\ early \subseteq enc.waiting
    BY <1>7
  <2>2. CASE early \cup late = {}
    BY <1>2, <1>10, <2>1, <2>2
  <2>3. CASE enc'.last \in early
    BY <1>2, <1>3, <2>1, <2>3 DEF HypotheticalOK
  <2>4. CASE enc'.last \in late
    BY <1>2, <1>8, <1>11, <2>1, <2>4
  <2> QED BY <1>10, <2>2, <2>3, <2>4
<1> QED BY <1>5, <1>10, <1>13, <1>14, <1>15 DEF opens, bumped

(* One pass over the list writes what removing pictures in POC order does.  *)
LEMMA ReadyIsBumped ==
  ASSUME NEW s, IsVtm(s), \A q \in Waits(s.dpb) : q > s.lastDisplay
  PROVE  Ready(s) = Bumped(Waits(s.dpb), Refers(s.dpb), MaxDecPicBuffering)
<1> DEFINE N == Waits(s.dpb)
           X == Refers(s.dpb)
           Later(q) == {w \in N : w >= q}
<1>1. NotYetDisplayed(s) = N
  <2>1. \A q \in N : q \in Int /\ s.lastDisplay \in Int
    BY DEF Waits, IsVtm, IsBuffer, Pocs, MaxInt
  <2>2. \A q \in N : q >= s.lastDisplay
    BY <2>1
  <2> QED BY <2>2 DEF NotYetDisplayed, Waits
<1>2. \A q : Fullness(s, Later(q)) = Cardinality(X \cup Later(q))
  <2>1. \A q : Later(q) \cup X = X \cup Later(q)
    OBVIOUS
  <2>2. \A q : Fullness(s, Later(q)) = Cardinality(Later(q) \cup X)
    BY DEF Fullness, Refers
  <2> QED BY <2>1, <2>2
<1>3. Ready(s) = {q \in N : Cardinality(Later(q)) > MaxNumReorder \/ Fullness(s, Later(q)) > MaxDecPicBuffering}
  BY <1>1 DEF Ready
<1>4. Bumped(N, X, MaxDecPicBuffering) =
        {q \in N : Cardinality(Later(q)) > MaxNumReorder \/ Cardinality(X \cup Later(q)) > MaxDecPicBuffering}
  BY DEF Bumped
<1> HIDE DEF N, X, Later
<1> QED BY <1>2, <1>3, <1>4 DEF N, X

(* Writing pictures out brings the buffer within its bounds.                *)
LEMMA WriteBounds ==
  ASSUME NEW s, IsVtm(s), s.listed,
         Cardinality(Refers(s.dpb)) <= MaxDecPicBuffering, \A q \in Waits(s.dpb) : q > s.lastDisplay
  PROVE  LET t == WriteOutput(s)
             N == Waits(s.dpb)
             B == Bumped(N, Refers(s.dpb), MaxDecPicBuffering)
         IN /\ Cardinality(Waits(t.dpb)) <= MaxNumReorder
            /\ Cardinality(Waits(t.dpb) \cup Refers(t.dpb)) <= MaxDecPicBuffering
            /\ \A q \in Waits(t.dpb) : q > t.lastDisplay
            /\ Waits(t.dpb) \subseteq N /\ Refers(t.dpb) = Refers(s.dpb) /\ DOMAIN t.dpb = DOMAIN s.dpb
            /\ t.lastDisplay = s.lastDisplay \/ t.lastDisplay \in B
            /\ Cardinality(N) <= MaxNumReorder /\ Cardinality(N \cup Refers(s.dpb)) <= MaxDecPicBuffering
                 => t.dpb = s.dpb /\ t.lastDisplay = s.lastDisplay
<1> DEFINE t == WriteOutput(s)
           N == Waits(s.dpb)
           X == Refers(s.dpb)
           B == Bumped(N, X, MaxDecPicBuffering)
<1>1. Ready(s) = B
  BY ReadyIsBumped
<1>2. N \in SUBSET Pocs /\ X \in SUBSET Pocs /\ MaxDecPicBuffering \in Int /\ N \subseteq DOMAIN s.dpb
  BY BufferAssumption DEF IsVtm, IsBuffer, Waits, Refers
<1>3. /\ B \subseteq N
      /\ Cardinality(N \ B) <= MaxNumReorder
      /\ Cardinality((N \ B) \cup X) <= MaxDecPicBuffering
      /\ \A q \in N \ B, b \in B : q > b
      /\ Cardinality(N) <= MaxNumReorder /\ Cardinality(N \cup X) <= MaxDecPicBuffering => B = {}
  <2> HIDE DEF N, X
  <2>1. Cardinality(X) <= MaxDecPicBuffering
    BY DEF X
  <2> QED BY <1>2, <2>1, BumpedFacts
<1>4. /\ B = {} => t = s
      /\ B # {} => t.lastDisplay = Max(B) /\ t.dpb = [q \in DOMAIN s.dpb |->
                                     IF q \in B THEN Written(s.dpb[q]) ELSE s.dpb[q]]
  <2>1. /\ B = {} => t = s
        /\ B # {} => t = [s EXCEPT !.written = @ \o Ids(s.dpb, ByPoc(Ready(s))), !.lastDisplay = Max(B),
                             !.dpb = [q \in DOMAIN s.dpb |-> IF q \in B THEN Written(s.dpb[q]) ELSE s.dpb[q]]]
    BY <1>1 DEF WriteOutput
  <2> HIDE DEF B, t
  <2> QED BY <2>1 DEF IsVtm
<1>5. \A q \in DOMAIN s.dpb : ~Written(s.dpb[q]).needed
  <2> SUFFICES ASSUME NEW q \in DOMAIN s.dpb PROVE ~Written(s.dpb[q]).needed
    OBVIOUS
  <2>1. s.dpb[q] \in Slots
    BY SlotFacts DEF IsVtm
  <2> QED BY <2>1 DEF Written, Slots
<1>6. Refers(t.dpb) = X /\ DOMAIN t.dpb = DOMAIN s.dpb
  <2>1. SameReferences(s.dpb, t.dpb)
    BY WriteFacts
  <2> HIDE DEF t
  <2> QED BY <2>1 DEF SameReferences, Refers
<1>7. Waits(t.dpb) = N \ B
  <2>1. CASE B = {}
    BY <1>4, <2>1
  <2>2. CASE B # {}
    <3>1. /\ DOMAIN t.dpb = DOMAIN s.dpb
          /\ \A q \in DOMAIN s.dpb : t.dpb[q] = IF q \in B THEN Written(s.dpb[q]) ELSE s.dpb[q]
      BY <1>4, <2>2
    <3> HIDE DEF t, B
    <3>2. \A q \in DOMAIN s.dpb : t.dpb[q].needed <=> q \notin B /\ s.dpb[q].needed
      BY <1>5, <3>1
    <3> QED BY <1>3, <3>1, <3>2 DEF Waits
  <2> QED BY <2>1, <2>2
<1>8. B # {} => t.lastDisplay \in B
  <2> HIDE DEF B, t, N
  <2> QED BY <1>2, <1>3, <1>4, Extremes
<1>9. \A q \in Waits(t.dpb) : q > t.lastDisplay
  <2> HIDE DEF B, t
  <2> QED BY <1>3, <1>4, <1>7, <1>8
<1> HIDE DEF B, t
<1> QED BY <1>3, <1>4, <1>6, <1>7, <1>8, <1>9 DEF B, t

(* Before the list is one, nothing is written.                              *)
LEMMA UnlistedWrite == ASSUME NEW s, ~s.listed PROVE WriteOutput(s) = s /\ FlushOutput(s) = s
BY DEF WriteOutput, FlushOutput

(* What the decoder writes between two pictures the hypothetical decoder    *)
(* has shown.                                                               *)
LEMMA WrittenAreShown ==
  ASSUME EncOK, HypotheticalOK, NEW N \in SUBSET Pocs, \A q \in N : Expected(q),
         NEW X \in SUBSET enc.refs, NEW b \in Bumped(N, X, MaxDecPicBuffering)
  PROVE  b <= enc.last
<1> DEFINE Later == {w \in N : w >= b}
<1>1. b \in N /\ (Cardinality(Later) > MaxNumReorder \/ Cardinality(X \cup Later) > MaxDecPicBuffering)
  BY DEF Bumped
<1>2. \A q \in Pocs : q \in Int
  BY DEF Pocs
<1>3. enc.last \in Int
  BY DEF HypotheticalOK, Pocs
<1>4. SUFFICES ASSUME b > enc.last PROVE FALSE
  BY <1>1, <1>2, <1>3
<1>5. Later \in SUBSET enc.waiting
  BY <1>1, <1>2, <1>3, <1>4 DEF Expected
<1> HIDE DEF Later
<1>6. enc.waiting \in SUBSET Pocs /\ enc.waiting \cup enc.refs \in SUBSET Pocs
  BY DEF HypotheticalOK, EncOK
<1>7. /\ Cardinality(Later) \in Nat /\ Cardinality(Later) <= Cardinality(enc.waiting)
      /\ Cardinality(X \cup Later) \in Nat
      /\ Cardinality(X \cup Later) <= Cardinality(enc.waiting \cup enc.refs)
      /\ Cardinality(enc.waiting) \in Nat /\ Cardinality(enc.waiting \cup enc.refs) \in Nat
  <2>1. X \cup Later \in SUBSET (enc.waiting \cup enc.refs)
    BY <1>5
  <2> QED BY <1>5, <1>6, <2>1, PartIsSmaller
<1> QED BY <1>1, <1>7, BufferAssumption DEF HypotheticalOK

(* What the decoder writes once p has a slot the hypothetical decoder has   *)
(* shown before p came.                                                     *)
LEMMA WrittenAreBumped ==
  ASSUME EncOK, HypotheticalOK, NEW p \in Pictures, NEW N \in SUBSET Pocs, \A q \in N : Expected(q),
         NEW X \in SUBSET (p.refs \cup {p.poc}), NEW b \in Bumped(N, X, MaxDecPicBuffering)
  PROVE  b <= enc.last \/ b \in Bumped(enc.waiting, p.refs, MaxDecPicBuffering - 1)
<1> DEFINE Later == {w \in N : w >= b}
           Behind == {w \in enc.waiting : w >= b}
<1>1. b \in N /\ (Cardinality(Later) > MaxNumReorder \/ Cardinality(X \cup Later) > MaxDecPicBuffering)
  BY DEF Bumped
<1>2. \A q \in Pocs : q \in Int
  BY DEF Pocs
<1>3. enc.last \in Int
  BY DEF HypotheticalOK, Pocs
<1>4. SUFFICES ASSUME b > enc.last PROVE b \in Bumped(enc.waiting, p.refs, MaxDecPicBuffering - 1)
  BY <1>1, <1>2, <1>3
<1>5. Later \in SUBSET Behind /\ b \in enc.waiting /\ Behind \in SUBSET enc.waiting
  BY <1>1, <1>2, <1>3, <1>4 DEF Expected
<1>6. b \in Bumped(enc.waiting, p.refs, MaxDecPicBuffering - 1)
      <=> Cardinality(Behind) > MaxNumReorder \/ Cardinality(p.refs \cup Behind) > MaxDecPicBuffering - 1
  BY <1>5 DEF Bumped
<1> HIDE DEF Later, Behind
<1>7. enc.waiting \in SUBSET Pocs /\ Behind \in SUBSET Pocs /\ p.refs \in SUBSET Pocs /\ p.poc \in Pocs
  BY <1>5 DEF HypotheticalOK, Pictures
<1> DEFINE R == p.refs \cup Behind
<1>8. X \cup Later \in SUBSET (R \cup {p.poc}) /\ R \in SUBSET Pocs /\ R \cup {p.poc} \in SUBSET Pocs
  BY <1>5, <1>7
<1> HIDE DEF R
<1>9. /\ Cardinality(Later) \in Nat /\ Cardinality(Later) <= Cardinality(Behind) /\ Cardinality(Behind) \in Nat
      /\ Cardinality(X \cup Later) \in Nat
      /\ Cardinality(X \cup Later) <= Cardinality(R \cup {p.poc})
      /\ Cardinality(R \cup {p.poc}) \in Nat /\ Cardinality(R \cup {p.poc}) <= Cardinality(R) + 1
      /\ Cardinality(R) \in Nat
  BY <1>5, <1>7, <1>8, PartIsSmaller, OneMore
<1>10. Cardinality(Behind) > MaxNumReorder \/ Cardinality(R) > MaxDecPicBuffering - 1
  BY <1>1, <1>9, BufferAssumption
<1> QED BY <1>6, <1>10 DEF R

(* A finished picture waits if it is to be shown; nothing else changes.     *)
LEMMA FinishUses ==
  ASSUME NEW s, IsVtm(s)
  PROVE  LET t == FinishPicture(s)
         IN /\ t.listed /\ t.lastDisplay = s.lastDisplay
            /\ DOMAIN t.dpb = DOMAIN s.dpb /\ Refers(t.dpb) = Refers(s.dpb)
            /\ Waits(t.dpb) \subseteq Waits(s.dpb) \cup (IF s.cur.out THEN {s.cur.poc} ELSE {})
<1> DEFINE t == FinishPicture(s)
           c == s.cur.poc
           x == s.cur.out /\ ~(s.newClvs /\ s.cur.rasl)
           Slot(q) == IF q = c THEN [s.dpb[q] EXCEPT !.needed = x, !.reconstructed = TRUE] ELSE s.dpb[q]
           d == [q \in DOMAIN s.dpb |-> Slot(q)]
           u == [s EXCEPT !.dpb = d, !.firstSliceInPicture = TRUE, !.listed = TRUE]
<1>1. t = u
  <2>1. [s.dpb EXCEPT ![c].needed = x, ![c].reconstructed = TRUE] = d
    BY DEF IsVtm, IsBuffer, Slots
  <2> QED BY <2>1 DEF FinishPicture
<1>2. Refers(t.dpb) = Refers(s.dpb) /\ DOMAIN t.dpb = DOMAIN s.dpb
  <2>1. SameReferences(s.dpb, t.dpb)
    BY FinishFacts
  <2> HIDE DEF t
  <2> QED BY <2>1 DEF SameReferences, Refers
<1> HIDE DEF x
<1>3. \A q \in DOMAIN s.dpb : Slot(q).needed => s.dpb[q].needed \/ (q = c /\ x)
  <2> SUFFICES ASSUME NEW q \in DOMAIN s.dpb, Slot(q).needed, ~(q = c /\ x) PROVE s.dpb[q].needed
    OBVIOUS
  <2>1. s.dpb[q] \in Slots
    BY SlotFacts DEF IsVtm
  <2>2. CASE q = c
    <3>1. Slot(q).needed = x
      BY <2>1, <2>2 DEF Slots
    <3> QED BY <2>2, <3>1
  <2>3. CASE q # c
    BY <2>3
  <2> QED BY <2>2, <2>3
<1> HIDE DEF Slot
<1>4. DOMAIN d = DOMAIN s.dpb /\ \A q \in DOMAIN s.dpb : d[q] = Slot(q)
  OBVIOUS
<1> HIDE DEF d, t
<1>5. t.listed /\ t.lastDisplay = s.lastDisplay /\ t.dpb = d
  <2>1. u.listed = TRUE /\ u.lastDisplay = s.lastDisplay /\ u.dpb = d
    BY DEF IsVtm, Flags
  <2> HIDE DEF u
  <2> QED BY <1>1, <2>1
<1>6. Waits(t.dpb) \subseteq Waits(s.dpb) \cup (IF s.cur.out THEN {c} ELSE {})
  BY <1>3, <1>4, <1>5 DEF Waits, x
<1> QED BY <1>2, <1>5, <1>6 DEF t

(* The end of a picture: what waits then, and what is listed *)
LEMMA EndUses ==
  ASSUME NEW s, IsVtm(s), NEW eos \in BOOLEAN, NEW eof \in BOOLEAN
  PROVE  LET t == EndPicture(s, eos, eof)
         IN /\ t.lastDisplay = s.lastDisplay
            /\ s.firstSliceInSequence \/ s.skipped =>
                 t.dpb = s.dpb /\ t.listed = s.listed /\ t.firstSliceInSequence = s.firstSliceInSequence
            /\ ~(s.firstSliceInSequence \/ s.skipped) => t.firstSliceInSequence = eos
            /\ \/ t.dpb = s.dpb /\ t.listed = s.listed /\ (eof \/ s.firstSliceInSequence \/ s.skipped)
               \/ /\ t.listed /\ DOMAIN t.dpb = DOMAIN s.dpb /\ Refers(t.dpb) = Refers(s.dpb)
                  /\ Waits(t.dpb) \subseteq Waits(s.dpb) \cup (IF s.cur.out THEN {s.cur.poc} ELSE {})
<1> DEFINE t == EndPicture(s, eos, eof)
<1>1. CASE s.firstSliceInSequence \/ s.skipped
  <2>1. t = [s EXCEPT !.firstSliceInPicture = TRUE]
    BY <1>1 DEF EndPicture
  <2> HIDE DEF t
  <2>2. /\ t.dpb = s.dpb /\ t.listed = s.listed /\ t.lastDisplay = s.lastDisplay
        /\ t.firstSliceInSequence = s.firstSliceInSequence
    BY <2>1 DEF IsVtm, Flags
  <2> QED BY <1>1, <2>2 DEF t
<1>2. CASE ~(s.firstSliceInSequence \/ s.skipped)
  <2> DEFINE f == IF ~s.loopFiltered \/ ~eof THEN FinishPicture(s) ELSE s
  <2>1. t = [f EXCEPT !.loopFiltered = eos, !.firstSliceInSequence = @ \/ eos]
    BY <1>2 DEF EndPicture
  <2>2. /\ IsVtm(f) /\ ~f.firstSliceInSequence /\ f.lastDisplay = s.lastDisplay
        /\ \/ f = s /\ eof
           \/ /\ f.listed /\ DOMAIN f.dpb = DOMAIN s.dpb /\ Refers(f.dpb) = Refers(s.dpb)
              /\ Waits(f.dpb) \subseteq Waits(s.dpb) \cup (IF s.cur.out THEN {s.cur.poc} ELSE {})
    <3>1. CASE ~s.loopFiltered \/ ~eof
      <4>1. f = FinishPicture(s)
        BY <3>1
      <4> HIDE DEF f
      <4>2. IsVtm(f) /\ f.firstSliceInSequence = s.firstSliceInSequence
        BY <4>1, FinishFacts DEF Flags
      <4> QED BY <1>2, <4>1, <4>2, FinishUses
    <3>2. CASE ~(~s.loopFiltered \/ ~eof)
      BY <1>2, <3>2
    <3> QED BY <3>1, <3>2
  <2> HIDE DEF f, t
  <2>3. /\ t.dpb = f.dpb /\ t.listed = f.listed /\ t.lastDisplay = f.lastDisplay
        /\ t.firstSliceInSequence = (f.firstSliceInSequence \/ eos)
    BY <2>1, <2>2 DEF IsVtm, Flags
  <2>4. t.firstSliceInSequence = eos
    BY <2>2, <2>3
  <2>5. \/ t.dpb = s.dpb /\ t.listed = s.listed /\ eof
        \/ /\ t.listed /\ DOMAIN t.dpb = DOMAIN s.dpb /\ Refers(t.dpb) = Refers(s.dpb)
           /\ Waits(t.dpb) \subseteq Waits(s.dpb) \cup (IF s.cur.out THEN {s.cur.poc} ELSE {})
    BY <2>2, <2>3
  <2> QED BY <1>2, <2>2, <2>3, <2>4, <2>5 DEF t
<1> QED BY <1>1, <1>2

(* Before the first slice of a sequence the buffer is empty.                *)
LEMMA BeforeUses ==
  ASSUME NEW s, IsVtm(s), NEW p \in Pictures,
         s.listed \/ DOMAIN s.dpb = {}, DOMAIN s.dpb = {} => s.lastDisplay = -MaxInt
  PROVE  LET t == BeforeSlice(s, p)
         IN /\ ~StartsClvs(s, p) => t.lastDisplay = s.lastDisplay
            /\ StartsClvs(s, p) => DOMAIN t.dpb = {} /\ t.lastDisplay = -MaxInt
<1> DEFINE t == BeforeSlice(s, p)
           f == IF StartsClvs(s, p) THEN FlushOutput(s) ELSE s
<1>1. t = [f EXCEPT !.newClvs = StartsClvs(s, p) \/ (@ /\ s.eosInLastPu), !.skipped = FALSE]
  BY DEF BeforeSlice
<1>2. /\ ~StartsClvs(s, p) => f = s
      /\ StartsClvs(s, p) => f = FlushOutput(s)
  OBVIOUS
<1>3. IsVtm(f)
  BY <1>2, FlushFacts
<1> HIDE DEF f, t
<1>4. t.dpb = f.dpb /\ t.lastDisplay = f.lastDisplay
  BY <1>1, <1>3 DEF IsVtm
<1>5. DOMAIN FlushOutput(s).dpb = {} /\ FlushOutput(s).lastDisplay = -MaxInt
  <2>1. CASE DOMAIN s.dpb = {}
    BY <2>1 DEF FlushOutput
  <2>2. CASE DOMAIN s.dpb # {}
    <3> DEFINE w == s.written \o Ids(s.dpb, ByPoc({q \in DOMAIN s.dpb : s.dpb[q].needed}))
    <3>1. FlushOutput(s) = [s EXCEPT !.written = w, !.dpb = <<>>, !.lastDisplay = -MaxInt]
      BY <2>2 DEF FlushOutput
    <3> HIDE DEF w
    <3>2. FlushOutput(s).dpb = <<>> /\ FlushOutput(s).lastDisplay = -MaxInt
      BY <3>1 DEF IsVtm
    <3> QED BY <3>2, EmptyBuffer
  <2> QED BY <2>1, <2>2
<1> QED BY <1>2, <1>4, <1>5 DEF t

(* A slice that is decoded adds its picture to what is referred to.         *)
LEMMA DecodeUses ==
  ASSUME NEW s, IsVtm(s), NEW p \in Pictures, NEW cvs \in Nat,
         p.type # "IDR" \/ DOMAIN s.dpb = {}
  PROVE  LET t == DecodeSlice(s, p, cvs)
         IN /\ t.lastDisplay = s.lastDisplay /\ t.listed = s.listed
            /\ RandomAccessSkip(s, p) => t.dpb = s.dpb
            /\ ~RandomAccessSkip(s, p) =>
                 /\ Waits(t.dpb) \subseteq Waits(s.dpb) /\ Refers(t.dpb) \subseteq p.refs \cup {p.poc}
                 /\ p.poc \in DOMAIN t.dpb /\ t.cur.poc = p.poc /\ (t.cur.out => p.out)
<1> DEFINE nobr == IF p.type = "CRA" THEN NoOutputBeforeRecovery(s, p) ELSE s.lastNoOutputBeforeRecovery
           pra == PocRandomAccess(s, p)
           b == [s EXCEPT !.lastNoOutputBeforeRecovery = nobr, !.pocRandomAccess = pra]
           m == Marked(s.dpb, p)
           id == <<cvs, p.poc>>
           d == GetNewPicBuffer(m, p.poc, id)
           c == [poc |-> p.poc, rasl |-> p.type = "RASL", out |-> p.out /\ ~(p.type = "RASL" /\ nobr)]
           u == [b EXCEPT !.dpb = d, !.cur = c, !.firstSliceInSequence = FALSE, !.firstSliceInPicture = FALSE]
           v == [b EXCEPT !.skipped = TRUE]
           t == DecodeSlice(s, p, cvs)
<1>1. t = IF RandomAccessSkip(s, p) THEN v ELSE u
  BY DEF DecodeSlice, PocRandomAccess
<1>2. c.poc = p.poc /\ (c.out => p.out)
  OBVIOUS
<1>3. Waits(d) \subseteq Waits(s.dpb) /\ Refers(d) \subseteq p.refs \cup {p.poc} /\ p.poc \in DOMAIN d
  <2>1. /\ DOMAIN m = DOMAIN s.dpb
        /\ \A q \in DOMAIN m : /\ m[q].needed => s.dpb[q].needed
                               /\ m[q].referenced => q \in p.refs
    <3>1. CASE p.type = "IDR"
      BY <3>1 DEF Marked
    <3>2. CASE p.type # "IDR"
      <4>1. m = [q \in DOMAIN s.dpb |-> [s.dpb[q] EXCEPT !.referenced = @ /\ q \in p.refs]]
        BY <3>2 DEF Marked
      <4>2. \A q \in DOMAIN s.dpb : LET r == [s.dpb[q] EXCEPT !.referenced = @ /\ q \in p.refs]
                                    IN /\ r.needed = s.dpb[q].needed
                                       /\ r.referenced => q \in p.refs
        <5> SUFFICES ASSUME NEW q \in DOMAIN s.dpb
                     PROVE  LET r == [s.dpb[q] EXCEPT !.referenced = @ /\ q \in p.refs]
                            IN /\ r.needed = s.dpb[q].needed
                               /\ r.referenced => q \in p.refs
          OBVIOUS
        <5>1. s.dpb[q] \in Slots
          BY SlotFacts DEF IsVtm
        <5> QED BY <5>1 DEF Slots
      <4> HIDE DEF m
      <4> QED BY <4>1, <4>2
    <3> QED BY <3>1, <3>2
  <2> DEFINE new == [id |-> id, needed |-> FALSE, referenced |-> TRUE, reconstructed |-> FALSE]
  <2>2. /\ p.poc \in DOMAIN d /\ DOMAIN d \subseteq DOMAIN m \cup {p.poc}
        /\ \A q \in DOMAIN d : d[q] = IF q = p.poc THEN new ELSE m[q]
    <3> HIDE DEF m, id
    <3> QED BY DEF GetNewPicBuffer
  <2>3. ~new.needed
    OBVIOUS
  <2> HIDE DEF d, m, new
  <2> QED BY <2>1, <2>2, <2>3 DEF Waits, Refers
<1>4. DOMAIN b = DOMAIN s /\ b.dpb = s.dpb /\ b.lastDisplay = s.lastDisplay /\ b.listed = s.listed
  BY DEF IsVtm, Flags
<1> HIDE DEF t, c, d, m, b, nobr, pra
<1>5. v.dpb = b.dpb /\ v.lastDisplay = b.lastDisplay /\ v.listed = b.listed
  BY <1>4 DEF IsVtm, Flags
<1>6. u.dpb = d /\ u.cur = c /\ u.lastDisplay = b.lastDisplay /\ u.listed = b.listed
  BY <1>4 DEF IsVtm, Flags
<1> HIDE DEF u, v
<1> QED BY <1>1, <1>2, <1>3, <1>4, <1>5, <1>6 DEF t

(* At the end of an iteration the buffer is within its bounds, and one that *)
(* was before is left alone.                                                *)
LEMMA Settles ==
  ASSUME NEW s, IsVtm(s), s.listed \/ Fits(s),
         Cardinality(Refers(s.dpb)) <= MaxDecPicBuffering, \A q \in Waits(s.dpb) : q > s.lastDisplay
  PROVE  LET t == WriteOutput(s)
             B == Bumped(Waits(s.dpb), Refers(s.dpb), MaxDecPicBuffering)
         IN /\ Fits(t)
            /\ Waits(t.dpb) \subseteq Waits(s.dpb) /\ Refers(t.dpb) = Refers(s.dpb) /\ DOMAIN t.dpb = DOMAIN s.dpb
            /\ t.lastDisplay = s.lastDisplay \/ t.lastDisplay \in B
            /\ Fits(s) \/ DOMAIN s.dpb = {} => t.dpb = s.dpb /\ t.lastDisplay = s.lastDisplay
<1>1. CASE s.listed
  <2> DEFINE t == WriteOutput(s)
             N == Waits(s.dpb)
             B == Bumped(N, Refers(s.dpb), MaxDecPicBuffering)
  <2>1. /\ Cardinality(Waits(t.dpb)) <= MaxNumReorder
        /\ Cardinality(Waits(t.dpb) \cup Refers(t.dpb)) <= MaxDecPicBuffering
        /\ \A q \in Waits(t.dpb) : q > t.lastDisplay
        /\ Waits(t.dpb) \subseteq N /\ Refers(t.dpb) = Refers(s.dpb) /\ DOMAIN t.dpb = DOMAIN s.dpb
        /\ t.lastDisplay = s.lastDisplay \/ t.lastDisplay \in B
        /\ Cardinality(N) <= MaxNumReorder /\ Cardinality(N \cup Refers(s.dpb)) <= MaxDecPicBuffering
             => t.dpb = s.dpb /\ t.lastDisplay = s.lastDisplay
    BY <1>1, WriteBounds
  <2>2. DOMAIN s.dpb = {} => t = s
    BY DEF WriteOutput, Ready, NotYetDisplayed
  <2> HIDE DEF t, B
  <2> QED BY <2>1, <2>2 DEF Fits, t, B
<1>2. CASE ~s.listed
  BY <1>2, UnlistedWrite
<1> QED BY <1>1, <1>2

(* What waits and what is referred to are POCs. *)
LEMMA UsesArePocs ==
  ASSUME NEW s, IsVtm(s)
  PROVE  /\ Waits(s.dpb) \in SUBSET Pocs /\ Refers(s.dpb) \in SUBSET Pocs
         /\ Waits(s.dpb) \cup Refers(s.dpb) \in SUBSET Pocs
         /\ Waits(s.dpb) \subseteq DOMAIN s.dpb /\ s.lastDisplay \in Int
BY BufferAssumption DEF IsVtm, IsBuffer, Waits, Refers, Pocs, MaxInt

(* The last flush empties the buffer, or finds no picture listed.           *)
LEMMA LastIteration ==
  ASSUME NEW s, IsVtm(s),
         s.listed \/ Cardinality(Waits(s.dpb) \cup Refers(s.dpb)) <= MaxDecPicBuffering
  PROVE  LET t == EndIteration(s, TRUE)
         IN Cardinality(Waits(t.dpb) \cup Refers(t.dpb)) <= MaxDecPicBuffering
<1> DEFINE w == WriteOutput(s)
           t == EndIteration(s, TRUE)
<1>1. t = FlushOutput(w)
  BY DEF EndIteration
<1>2. CASE s.listed
  <2>1. w.listed /\ IsVtm(w)
    <3>1. Untouched(s, w) /\ IsVtm(w)
      BY WriteFacts
    <3> HIDE DEF w
    <3> QED BY <1>2, <3>1 DEF Untouched, Flags
  <2> HIDE DEF w, t
  <2>2. DOMAIN t.dpb = {}
    <3>1. CASE DOMAIN w.dpb = {}
      BY <1>1, <3>1 DEF FlushOutput
    <3>2. CASE DOMAIN w.dpb # {}
      <4> DEFINE x == w.written \o Ids(w.dpb, ByPoc({q \in DOMAIN w.dpb : w.dpb[q].needed}))
      <4>1. t = [w EXCEPT !.written = x, !.dpb = <<>>, !.lastDisplay = -MaxInt]
        BY <1>1, <2>1, <3>2 DEF FlushOutput
      <4> HIDE DEF x
      <4>2. t.dpb = <<>>
        BY <2>1, <4>1 DEF IsVtm
      <4> QED BY <4>2, EmptyBuffer
    <3> QED BY <3>1, <3>2
  <2>3. Waits(t.dpb) \cup Refers(t.dpb) = {}
    BY <2>2 DEF Waits, Refers
  <2>4. Cardinality(Waits(t.dpb) \cup Refers(t.dpb)) = 0
    BY <2>3, FS_EmptySet
  <2> QED BY <2>4, BufferAssumption DEF t
<1>3. CASE ~s.listed
  <2>1. t = s
    BY <1>1, <1>3, UnlistedWrite
  <2> QED BY <1>3, <2>1
<1> QED BY <1>2, <1>3

(* The state after a step shows up to where the iteration did.              *)
LEMMA BecomesShown ==
  ASSUME NEW s, IsVtm(s), NEW taken, Becomes(s, taken)
  PROVE  vtm'.lastDisplay = s.lastDisplay
<1> DEFINE t == [s EXCEPT !.written = <<>>]
<1>1. vtm' = t
  BY DEF Becomes
<1>2. t.lastDisplay = s.lastDisplay
  BY DEF IsVtm
<1> QED BY <1>1, <1>2

(* The buffer after a step is the one its iteration ended with.             *)
LEMMA StepFits ==
  ASSUME NEW s, vtm'.dpb = s.dpb, vtm'.lastDisplay = s.lastDisplay, Fits(s)
  PROVE  Fits(vtm)' /\ Bounded'
<1>1. Waits(vtm.dpb)' = Waits(s.dpb) /\ Refers(vtm.dpb)' = Refers(s.dpb)
  BY DEF Waits, Refers
<1>2. InUse' = Waits(s.dpb) \cup Refers(s.dpb)
  BY DEF InUse, Waits, Refers
<1> QED BY <1>1, <1>2 DEF Fits, Bounded

(* The end of a picture keeps the buffer within its bounds: what it writes  *)
(* the hypothetical decoder has shown.                                      *)
LEMMA NewPictureFits == ASSUME IInv, OutInv, NewPicture PROVE OutInv'
<1> DEFINE e == EndPicture(vtm, FALSE, FALSE)
           s == WriteOutput(e)
           t == [s EXCEPT !.eosInLastPu = s.eosInPu, !.eosInPu = FALSE]
<1>1. /\ pc = "decoding" /\ ~vtm.firstSliceInPicture /\ Becomes(t, {}) /\ enc' = enc /\ pc' = pc
      /\ IsVtm(vtm) /\ EncOK /\ HypotheticalOK /\ InBounds
  BY DEF NewPicture, IInv, OutInv
<1>2. /\ IsVtm(e) /\ e.eosInPu = vtm.eosInPu /\ e.firstSliceInPicture
  BY <1>1, EndFacts
<1>3. /\ e.lastDisplay = vtm.lastDisplay
      /\ vtm.firstSliceInSequence \/ vtm.skipped => e.dpb = vtm.dpb /\ e.listed = vtm.listed
      /\ \/ e.dpb = vtm.dpb /\ e.listed = vtm.listed /\ (FALSE \/ vtm.firstSliceInSequence \/ vtm.skipped)
         \/ /\ e.listed /\ DOMAIN e.dpb = DOMAIN vtm.dpb /\ Refers(e.dpb) = Refers(vtm.dpb)
            /\ Waits(e.dpb) \subseteq Waits(vtm.dpb) \cup (IF vtm.cur.out THEN {vtm.cur.poc} ELSE {})
  BY <1>1, EndUses
<1> HIDE DEF e
<1>4. IsVtm(s) /\ Untouched(e, s)
  BY <1>2, WriteFacts
<1> DEFINE B == Bumped(Waits(e.dpb), Refers(e.dpb), MaxDecPicBuffering)
<1>5. ASSUME e.listed \/ Fits(e), Cardinality(Refers(e.dpb)) <= MaxDecPicBuffering,
             \A q \in Waits(e.dpb) : q > e.lastDisplay
      PROVE  /\ Fits(s)
             /\ Waits(s.dpb) \subseteq Waits(e.dpb) /\ Refers(s.dpb) = Refers(e.dpb) /\ DOMAIN s.dpb = DOMAIN e.dpb
             /\ s.lastDisplay = e.lastDisplay \/ s.lastDisplay \in B
             /\ Fits(e) \/ DOMAIN e.dpb = {} => s.dpb = e.dpb /\ s.lastDisplay = e.lastDisplay
  BY <1>2, <1>5, Settles
<1> HIDE DEF s, B
<1>6. /\ DOMAIN t = DOMAIN s /\ t.dpb = s.dpb /\ t.cur = s.cur /\ t.lastDisplay = s.lastDisplay
      /\ t.eosInLastPu = s.eosInPu /\ t.eosInPu = FALSE
      /\ \A f \in (Flags \ {"eosInPu", "eosInLastPu"}) \cup {"pocRandomAccess"} : t[f] = s[f]
  BY <1>4 DEF IsVtm, Flags
<1> HIDE DEF t
<1>7. \A f \in Flags : t[f] \in BOOLEAN
  BY <1>4, <1>6 DEF IsVtm, Flags
<1>8. IsVtm(t)
  BY <1>4, <1>6, <1>7 DEF IsVtm
<1>9. /\ vtm'.dpb = s.dpb /\ vtm'.lastDisplay = s.lastDisplay /\ vtm'.firstSliceInPicture
      /\ vtm'.eosInLastPu = vtm.eosInPu /\ vtm'.listed = e.listed
  <2>1. /\ vtm'.dpb = t.dpb /\ vtm'.lastDisplay = t.lastDisplay
        /\ \A f \in Flags \cup {"pocRandomAccess"} : vtm'[f] = t[f]
    BY <1>1, <1>8, BecomesFacts, BecomesShown
  <2> QED BY <1>2, <1>4, <1>6, <2>1 DEF Untouched, Flags
<1>10. HypotheticalOK'
  BY <1>1 DEF HypotheticalOK
<1>11. /\ Waits(vtm.dpb) \cup Refers(vtm.dpb) \in SUBSET Pocs /\ vtm.lastDisplay \in Int
       /\ Cardinality(Refers(vtm.dpb)) <= MaxDecPicBuffering
       /\ Waits(e.dpb) \in SUBSET Pocs /\ Waits(e.dpb) \subseteq DOMAIN e.dpb
       /\ Fits(vtm) /\ (DOMAIN vtm.dpb = {} => vtm.lastDisplay = -MaxInt)
  <2>1. /\ Waits(vtm.dpb) \cup Refers(vtm.dpb) \in SUBSET Pocs /\ vtm.lastDisplay \in Int
        /\ Waits(e.dpb) \in SUBSET Pocs /\ Waits(e.dpb) \subseteq DOMAIN e.dpb
    BY <1>1, <1>2, UsesArePocs
  <2>2. Fits(vtm) /\ (DOMAIN vtm.dpb = {} => vtm.lastDisplay = -MaxInt)
    BY <1>1 DEF InBounds
  <2>3. /\ Cardinality(Refers(vtm.dpb)) <= Cardinality(Waits(vtm.dpb) \cup Refers(vtm.dpb))
        /\ Cardinality(Refers(vtm.dpb)) \in Nat /\ Cardinality(Waits(vtm.dpb) \cup Refers(vtm.dpb)) \in Nat
    BY <2>1, PartIsSmaller
  <2> QED BY <2>1, <2>2, <2>3, BufferAssumption DEF Fits
<1>12. CASE enc.start
  <2>1. vtm.eosInPu /\ vtm.listed /\ (vtm.firstSliceInSequence \/ vtm.skipped)
    BY <1>1, <1>12 DEF OutInv, Between
  <2>2. e.dpb = vtm.dpb /\ e.listed /\ Fits(e)
    BY <1>3, <1>11, <2>1 DEF Fits
  <2>3. Fits(s) /\ s.dpb = vtm.dpb /\ s.lastDisplay = vtm.lastDisplay
    BY <1>3, <1>5, <1>11, <2>2 DEF Fits
  <2>4. InBounds' /\ Bounded'
    BY <1>9, <1>11, <2>3, StepFits DEF InBounds
  <2>5. Between'
    BY <1>9, <2>1, <2>2 DEF Between
  <2> QED BY <1>1, <1>10, <1>12, <2>4, <2>5 DEF OutInv
<1>13. CASE ~enc.start
  <2>1. /\ ~(vtm.firstSliceInSequence \/ vtm.skipped)
    BY <1>1, <1>13 DEF IInv, Within
  <2>2. /\ vtm.lastDisplay <= enc.last
        /\ \A q \in Waits(vtm.dpb) : Expected(q)
        /\ Refers(vtm.dpb) \subseteq enc.refs
        /\ vtm.cur.out => vtm.cur.poc > vtm.lastDisplay /\ Expected(vtm.cur.poc)
    BY <1>1, <1>13 DEF OutInv, NotAhead
  <2>3. /\ e.listed /\ DOMAIN e.dpb = DOMAIN vtm.dpb /\ Refers(e.dpb) = Refers(vtm.dpb)
        /\ Waits(e.dpb) \subseteq Waits(vtm.dpb) \cup (IF vtm.cur.out THEN {vtm.cur.poc} ELSE {})
    BY <1>3, <2>1
  <2>4. \A q \in Waits(e.dpb) : Expected(q) /\ q > e.lastDisplay
    BY <1>3, <1>11, <2>2, <2>3 DEF Fits
  <2>5. /\ Fits(s)
        /\ Waits(s.dpb) \subseteq Waits(e.dpb) /\ DOMAIN s.dpb = DOMAIN vtm.dpb
        /\ s.lastDisplay = vtm.lastDisplay \/ s.lastDisplay \in B
        /\ DOMAIN vtm.dpb = {} => s.lastDisplay = vtm.lastDisplay
    BY <1>3, <1>5, <1>11, <2>3, <2>4
  <2>6. InBounds' /\ Bounded'
    BY <1>9, <1>11, <2>5, StepFits DEF InBounds
  <2>7. s.lastDisplay <= enc.last
    <3>1. CASE s.lastDisplay \in B
      <4> DEFINE N == Waits(e.dpb)
                 X == Refers(e.dpb)
      <4>1. N \in SUBSET Pocs /\ X \in SUBSET enc.refs /\ s.lastDisplay \in Bumped(N, X, MaxDecPicBuffering)
            /\ \A q \in N : Expected(q)
        BY <1>11, <2>2, <2>3, <2>4, <3>1 DEF B
      <4> HIDE DEF N, X
      <4> QED BY <1>1, <4>1, WrittenAreShown
    <3> QED BY <2>2, <2>5, <3>1
  <2>8. NotAhead'
    <3>1. Waits(vtm.dpb)' = Waits(s.dpb)
      BY <1>9 DEF Waits
    <3>2. \A q \in Waits(vtm.dpb)' : Expected(q)'
      BY <1>1, <2>4, <2>5, <3>1 DEF Expected
    <3> QED BY <1>1, <1>9, <2>3, <2>7, <3>2 DEF NotAhead
  <2> QED BY <1>1, <1>10, <1>13, <2>6, <2>8 DEF OutInv
<1> QED BY <1>12, <1>13

(* So does an EOS, which ends the picture in front of it.                   *)
LEMMA EndOfSequenceFits ==
  ASSUME IInv, OutInv, NEW eof \in BOOLEAN, EndOfSequence(eof)
  PROVE  OutInv'
<1> DEFINE s == [vtm EXCEPT !.pocRandomAccess = MaxInt, !.eosInPu = TRUE, !.newClvs = TRUE]
           e == EndPicture(s, TRUE, eof)
           t == [e EXCEPT !.firstSliceInPicture = FALSE]
           i == EndIteration(t, eof)
<1>1. /\ pc = "decoding" /\ Becomes(i, {}) /\ enc' = [enc EXCEPT !.start = TRUE]
      /\ pc' = (IF eof THEN "ended" ELSE pc) /\ IsVtm(vtm) /\ EncOK /\ HypotheticalOK /\ InBounds
      /\ ~enc.start /\ (~vtm.firstSliceInPicture \/ vtm.skipped) /\ Within /\ NotAhead
  BY DEF EndOfSequence, IInv, OutInv
<1>2. /\ DOMAIN s = DOMAIN vtm /\ s.dpb = vtm.dpb /\ s.cur = vtm.cur /\ s.lastDisplay = vtm.lastDisplay
      /\ s.pocRandomAccess = MaxInt /\ s.eosInPu = TRUE /\ s.newClvs = TRUE
      /\ \A f \in Flags \ {"eosInPu", "newClvs"} : s[f] = vtm[f]
  BY <1>1 DEF IsVtm, Flags
<1> HIDE DEF s
<1>3. \A f \in Flags : s[f] \in BOOLEAN
  BY <1>1, <1>2 DEF IsVtm, Flags
<1>4. /\ IsVtm(s) /\ s.firstSliceInSequence = vtm.firstSliceInSequence /\ s.skipped = vtm.skipped
      /\ s.listed = vtm.listed
  BY <1>1, <1>2, <1>3 DEF IsVtm, Flags
<1>5. IsVtm(e) /\ e.eosInPu = TRUE /\ e.skipped = vtm.skipped
  BY <1>2, <1>4, EndFacts
<1>6. /\ e.lastDisplay = s.lastDisplay
      /\ s.firstSliceInSequence \/ s.skipped => e.dpb = s.dpb /\ e.listed = s.listed
      /\ ~(s.firstSliceInSequence \/ s.skipped) => e.firstSliceInSequence
      /\ \/ e.dpb = s.dpb /\ e.listed = s.listed /\ (eof \/ s.firstSliceInSequence \/ s.skipped)
         \/ /\ e.listed /\ DOMAIN e.dpb = DOMAIN s.dpb /\ Refers(e.dpb) = Refers(s.dpb)
            /\ Waits(e.dpb) \subseteq Waits(s.dpb) \cup (IF s.cur.out THEN {s.cur.poc} ELSE {})
  <2>1. ASSUME NEW eos \in BOOLEAN, eos
        PROVE  LET r == EndPicture(s, eos, eof)
               IN /\ r.lastDisplay = s.lastDisplay
                  /\ s.firstSliceInSequence \/ s.skipped => r.dpb = s.dpb /\ r.listed = s.listed
                  /\ ~(s.firstSliceInSequence \/ s.skipped) => r.firstSliceInSequence = eos
                  /\ \/ r.dpb = s.dpb /\ r.listed = s.listed /\ (eof \/ s.firstSliceInSequence \/ s.skipped)
                     \/ /\ r.listed /\ DOMAIN r.dpb = DOMAIN s.dpb /\ Refers(r.dpb) = Refers(s.dpb)
                        /\ Waits(r.dpb) \subseteq Waits(s.dpb) \cup (IF s.cur.out THEN {s.cur.poc} ELSE {})
    BY <1>4, EndUses
  <2> QED BY <2>1
<1> HIDE DEF e
<1>7. /\ DOMAIN t = DOMAIN e /\ t.dpb = e.dpb /\ t.cur = e.cur /\ t.lastDisplay = e.lastDisplay
      /\ t.firstSliceInPicture = FALSE
      /\ \A f \in (Flags \ {"firstSliceInPicture"}) \cup {"pocRandomAccess"} : t[f] = e[f]
  BY <1>5 DEF IsVtm, Flags
<1> HIDE DEF t
<1>8. \A f \in Flags : t[f] \in BOOLEAN
  BY <1>5, <1>7 DEF IsVtm
<1>9. /\ IsVtm(t) /\ t.listed = e.listed /\ t.eosInPu = TRUE /\ t.skipped = vtm.skipped
      /\ t.firstSliceInSequence = e.firstSliceInSequence
  BY <1>5, <1>7, <1>8 DEF IsVtm, Flags
<1>10. IsVtm(i) /\ Untouched(t, i)
  BY <1>9, IterationFacts
<1>11. /\ vtm'.dpb = i.dpb /\ vtm'.lastDisplay = i.lastDisplay
       /\ vtm'.listed = e.listed /\ vtm'.eosInPu = TRUE /\ vtm'.skipped = vtm.skipped
       /\ vtm'.firstSliceInSequence = e.firstSliceInSequence /\ ~vtm'.firstSliceInPicture
  <2> HIDE DEF i
  <2>1. /\ vtm'.dpb = i.dpb /\ vtm'.lastDisplay = i.lastDisplay
        /\ \A f \in Flags \cup {"pocRandomAccess"} : vtm'[f] = i[f]
    BY <1>1, <1>10, BecomesFacts, BecomesShown
  <2> QED BY <1>7, <1>9, <1>10, <2>1 DEF Untouched, Flags
<1>12. HypotheticalOK' /\ enc'.start
  BY <1>1 DEF HypotheticalOK, EncOK
<1>13. /\ Waits(vtm.dpb) \cup Refers(vtm.dpb) \in SUBSET Pocs /\ vtm.lastDisplay \in Int
       /\ Cardinality(Refers(vtm.dpb)) <= MaxDecPicBuffering
       /\ Fits(vtm) /\ (DOMAIN vtm.dpb = {} => vtm.lastDisplay = -MaxInt)
  <2>1. Waits(vtm.dpb) \cup Refers(vtm.dpb) \in SUBSET Pocs /\ vtm.lastDisplay \in Int
    BY <1>1, UsesArePocs
  <2>2. Fits(vtm) /\ (DOMAIN vtm.dpb = {} => vtm.lastDisplay = -MaxInt)
    BY <1>1 DEF InBounds
  <2>3. /\ Cardinality(Refers(vtm.dpb)) <= Cardinality(Waits(vtm.dpb) \cup Refers(vtm.dpb))
        /\ Cardinality(Refers(vtm.dpb)) \in Nat /\ Cardinality(Waits(vtm.dpb) \cup Refers(vtm.dpb)) \in Nat
    BY <2>1, PartIsSmaller
  <2> QED BY <2>1, <2>2, <2>3, BufferAssumption DEF Fits
<1>14. CASE eof
  <2>1. t.listed \/ Cardinality(Waits(t.dpb) \cup Refers(t.dpb)) <= MaxDecPicBuffering
    BY <1>2, <1>6, <1>7, <1>9, <1>13 DEF Fits
  <2>2. Cardinality(Waits(i.dpb) \cup Refers(i.dpb)) <= MaxDecPicBuffering
    BY <1>9, <1>14, <2>1, LastIteration
  <2> HIDE DEF i
  <2>3. InUse' = Waits(i.dpb) \cup Refers(i.dpb)
    BY <1>11 DEF InUse, Waits, Refers
  <2> QED BY <1>1, <1>12, <1>14, <2>2, <2>3 DEF OutInv, Bounded
<1>15. CASE ~eof
  <2>1. i = WriteOutput(t)
    BY <1>15 DEF EndIteration
  <2>2. /\ t.lastDisplay = vtm.lastDisplay
        /\ vtm.skipped => t.dpb = vtm.dpb /\ t.listed = vtm.listed /\ vtm.listed
        /\ ~vtm.skipped =>
             /\ t.listed /\ DOMAIN t.dpb = DOMAIN vtm.dpb /\ Refers(t.dpb) = Refers(vtm.dpb)
             /\ Waits(t.dpb) \subseteq Waits(vtm.dpb) \cup (IF vtm.cur.out THEN {vtm.cur.poc} ELSE {})
             /\ t.firstSliceInSequence
             /\ vtm.cur.out => vtm.cur.poc > vtm.lastDisplay
    <3>1. ~vtm.firstSliceInSequence /\ (vtm.skipped => vtm.listed)
          /\ (~vtm.skipped /\ vtm.cur.out => vtm.cur.poc > vtm.lastDisplay)
      BY <1>1 DEF Within, NotAhead
    <3> QED BY <1>2, <1>4, <1>6, <1>7, <1>9, <1>15, <3>1
  <2>3. /\ t.listed /\ Cardinality(Refers(t.dpb)) <= MaxDecPicBuffering
        /\ DOMAIN t.dpb = DOMAIN vtm.dpb
        /\ \A q \in Waits(t.dpb) : q > t.lastDisplay
    BY <1>13, <2>2 DEF Fits
  <2> DEFINE B == Bumped(Waits(t.dpb), Refers(t.dpb), MaxDecPicBuffering)
  <2>4. /\ Fits(i)
        /\ Waits(i.dpb) \subseteq Waits(t.dpb) /\ Refers(i.dpb) = Refers(t.dpb) /\ DOMAIN i.dpb = DOMAIN t.dpb
        /\ i.lastDisplay = t.lastDisplay \/ i.lastDisplay \in B
        /\ Fits(t) \/ DOMAIN t.dpb = {} => i.dpb = t.dpb /\ i.lastDisplay = t.lastDisplay
    <3> HIDE DEF i
    <3> QED BY <1>9, <2>1, <2>3, Settles
  <2> HIDE DEF i, B
  <2>5. InBounds' /\ Bounded'
    BY <1>11, <1>13, <2>2, <2>3, <2>4, StepFits DEF InBounds
  <2>6. Between'
    BY <1>9, <1>11, <2>2, <2>3 DEF Between
  <2> QED BY <1>1, <1>12, <2>5, <2>6 DEF OutInv
<1> QED BY <1>14, <1>15

(* So does a slice: what it writes the hypothetical decoder has shown       *)
(* before the picture came, which is why there is room for the picture.     *)
LEMMA DecodePictureFits ==
  ASSUME IInv, OutInv, NEW p \in Pictures, NEW eof \in BOOLEAN, DecodePicture(p, eof), IInv'
  PROVE  OutInv'
<1> DEFINE opens == OpensSequence(p)
           s == BeforeSlice(vtm, p)
           skip == RandomAccessSkip(s, p)
           cvs == AfterPicture(p).cvs
           t == DecodeSlice(s, p, cvs)
           u == IF eof THEN EndPicture(t, FALSE, TRUE) ELSE t
           i == EndIteration(u, eof)
           found == RandomAccessSkip(s, p) \/ RefsAvailable(s, p)
           taken == IF MustShow(p) THEN {<<enc'.cvs, p.poc>>} ELSE {}
           early == Bumped(enc.waiting, p.refs, MaxDecPicBuffering - 1)
<1>1. /\ pc = "decoding" /\ vtm.firstSliceInPicture /\ Legal(p) /\ enc' = AfterPicture(p)
      /\ Becomes(i, taken) /\ pc' = (IF eof THEN "ended" ELSE pc)
  <2>1. /\ pc = "decoding" /\ vtm.firstSliceInPicture /\ Legal(p) /\ enc' = AfterPicture(p)
        /\ Becomes(IF found THEN i ELSE s, taken)
        /\ pc' = (IF ~found THEN "aborted" ELSE IF eof THEN "ended" ELSE pc)
    BY DEF DecodePicture
  <2>2. pc' \in {"decoding", "ended"}
    BY DEF IInv
  <2> HIDE DEF found, i, s
  <2> QED BY <2>1, <2>2
<1>2. /\ IsVtm(vtm) /\ EncOK /\ HypotheticalOK /\ InBounds
      /\ IF enc.start THEN Between ELSE NotAhead /\ Within
  BY <1>1 DEF IInv, OutInv
<1>3. /\ EncOK' /\ ~enc'.start /\ enc'.refs = p.refs \cup {p.poc} /\ cvs \in Nat
      /\ p.refs \in SUBSET Pocs /\ p.poc \in Pocs /\ p.poc \in Nat
  <2>1. EncOK' /\ ~enc'.start /\ enc'.refs = p.refs \cup {p.poc}
    BY <1>1, <1>2, AfterFacts
  <2> QED BY <1>1, <2>1 DEF EncOK, Pictures, Pocs
<1>4. /\ HypotheticalOK' /\ (p.out => Expected(p.poc)')
      /\ ~opens => /\ \A q \in enc.waiting : Expected(q)'
                   /\ enc.last <= enc'.last /\ \A q \in early : q <= enc'.last
                   /\ p.out => p.poc > enc.last /\ \A q \in early : p.poc > q
  BY <1>1, <1>2, HypotheticalKeeps
<1> HIDE DEF cvs, early
<1>5. /\ vtm.listed \/ DOMAIN vtm.dpb = {}
      /\ DOMAIN vtm.dpb = {} => vtm.lastDisplay = -MaxInt
      /\ enc.start => vtm.eosInLastPu \/ DOMAIN vtm.dpb = {}
      /\ ~enc.start => vtm.listed /\ ~vtm.eosInLastPu
  BY <1>1, <1>2 DEF InBounds, Between, NotAhead, Within
<1>6. /\ IsVtm(s) /\ s.listed = vtm.listed /\ s.firstSliceInPicture
      /\ ~StartsClvs(vtm, p) => s.dpb = vtm.dpb /\ s.lastDisplay = vtm.lastDisplay
      /\ StartsClvs(vtm, p) => DOMAIN s.dpb = {} /\ s.lastDisplay = -MaxInt
  <2>1. /\ IsVtm(s) /\ (~StartsClvs(vtm, p) => s.dpb = vtm.dpb)
        /\ \A f \in (Flags \ {"skipped", "newClvs"}) \cup {"pocRandomAccess"} : s[f] = vtm[f]
    BY <1>2, BeforeFacts
  <2>2. /\ ~StartsClvs(vtm, p) => s.lastDisplay = vtm.lastDisplay
        /\ StartsClvs(vtm, p) => DOMAIN s.dpb = {} /\ s.lastDisplay = -MaxInt
    BY <1>2, <1>5, BeforeUses
  <2> HIDE DEF s
  <2> QED BY <1>1, <2>1, <2>2 DEF Flags
<1> HIDE DEF s
<1>7. opens => /\ DOMAIN s.dpb = {} /\ s.lastDisplay = -MaxInt
               /\ p.type \in {"IDR", "CRA"} /\ p.refs = {} /\ ~skip
  <2> SUFFICES ASSUME opens PROVE DOMAIN s.dpb = {} /\ s.lastDisplay = -MaxInt
                                  /\ p.type \in {"IDR", "CRA"} /\ p.refs = {} /\ ~skip
    OBVIOUS
  <2>1. p.type \in {"IDR", "CRA"} /\ p.refs = {}
    BY <1>1, <1>2, LegalFacts DEF IsIrap
  <2>2. ~skip
    BY <2>1 DEF RandomAccessSkip
  <2>3. p.type = "IDR" \/ (p.type = "CRA" /\ enc.start)
    BY DEF OpensSequence
  <2>4. ~StartsClvs(vtm, p) => DOMAIN vtm.dpb = {}
    BY <1>5, <2>3 DEF StartsClvs
  <2> QED BY <1>5, <1>6, <2>1, <2>2, <2>4
<1>8. ~opens => /\ ~enc.start /\ NotAhead /\ Within /\ vtm.listed /\ p.type # "IDR"
                /\ s.dpb = vtm.dpb /\ s.lastDisplay = vtm.lastDisplay
                /\ Cardinality(p.refs) < MaxDecPicBuffering
  <2> SUFFICES ASSUME ~opens PROVE /\ ~enc.start /\ NotAhead /\ Within /\ vtm.listed /\ p.type # "IDR"
                                   /\ s.dpb = vtm.dpb /\ s.lastDisplay = vtm.lastDisplay
                                   /\ Cardinality(p.refs) < MaxDecPicBuffering
    OBVIOUS
  <2>1. ~enc.start /\ p.type # "IDR"
    BY <1>1, <1>2, LegalFacts
  <2>2. Cardinality(p.refs) < MaxDecPicBuffering
    BY <1>1 DEF Legal
  <2>3. ~StartsClvs(vtm, p)
    BY <1>5, <2>1 DEF StartsClvs
  <2> QED BY <1>2, <1>5, <1>6, <2>1, <2>2, <2>3
<1>9. /\ IsVtm(t) /\ t.lastDisplay = s.lastDisplay /\ t.listed = vtm.listed
      /\ skip => t.dpb = s.dpb /\ t.firstSliceInPicture
      /\ ~skip => /\ Waits(t.dpb) \subseteq Waits(s.dpb) /\ Refers(t.dpb) \subseteq p.refs \cup {p.poc}
                  /\ p.poc \in DOMAIN t.dpb /\ t.cur.poc = p.poc /\ (t.cur.out => p.out)
                  /\ ~t.firstSliceInPicture
  <2>1. /\ IsVtm(t)
        /\ RandomAccessSkip(s, p) => t.firstSliceInPicture = s.firstSliceInPicture
        /\ ~RandomAccessSkip(s, p) => ~t.firstSliceInPicture
    BY <1>3, <1>6, DecodeFacts
  <2>2. p.type # "IDR" \/ DOMAIN s.dpb = {}
    BY <1>7, <1>8
  <2>3. /\ t.lastDisplay = s.lastDisplay /\ t.listed = s.listed
        /\ RandomAccessSkip(s, p) => t.dpb = s.dpb
        /\ ~RandomAccessSkip(s, p) =>
             /\ Waits(t.dpb) \subseteq Waits(s.dpb) /\ Refers(t.dpb) \subseteq p.refs \cup {p.poc}
             /\ p.poc \in DOMAIN t.dpb /\ t.cur.poc = p.poc /\ (t.cur.out => p.out)
    BY <1>3, <1>6, <2>2, DecodeUses
  <2> HIDE DEF t
  <2> QED BY <1>6, <2>1, <2>3
<1> HIDE DEF t, skip, opens
<1>10. /\ Waits(vtm.dpb) \cup Refers(vtm.dpb) \in SUBSET Pocs
       /\ Waits(t.dpb) \in SUBSET Pocs /\ Waits(t.dpb) \cup Refers(t.dpb) \in SUBSET Pocs
       /\ vtm.lastDisplay \in Int /\ enc.last \in Int /\ enc'.last \in Int /\ enc'.last >= -1
       /\ MaxDecPicBuffering \in Nat \ {0} /\ MaxNumReorder \in Nat
       /\ \A q \in Pocs : q \in Nat
  <2>1. enc.last \in Int /\ enc'.last \in Int /\ enc'.last >= -1
    BY <1>2, <1>4 DEF HypotheticalOK, Pocs
  <2>2. \A q \in Pocs : q \in Nat
    BY DEF Pocs
  <2> QED BY <1>2, <1>9, <2>1, <2>2, UsesArePocs, BufferAssumption
<1>11. /\ opens \/ skip => Fits(t)
       /\ vtm.listed \/ Fits(t)
       /\ Cardinality(Refers(t.dpb)) <= MaxDecPicBuffering
       /\ \A q \in Waits(t.dpb) : q > t.lastDisplay
  <2>1. CASE opens
    <3>1. Waits(t.dpb) = {} /\ Waits(t.dpb) \cup Refers(t.dpb) \in SUBSET ({} \cup {p.poc})
      BY <1>7, <1>9, <2>1 DEF Waits
    <3>2. Cardinality({}) = 0 /\ Cardinality({p.poc}) = 1
      BY FS_EmptySet, FS_Singleton
    <3>3. {p.poc} \in SUBSET Pocs /\ Waits(t.dpb) \cup Refers(t.dpb) \in SUBSET {p.poc}
          /\ Refers(t.dpb) \in SUBSET {p.poc}
      BY <1>3, <3>1
    <3>4. /\ Cardinality(Waits(t.dpb) \cup Refers(t.dpb)) <= 1
          /\ Cardinality(Waits(t.dpb) \cup Refers(t.dpb)) \in Nat
          /\ Cardinality(Refers(t.dpb)) <= 1 /\ Cardinality(Refers(t.dpb)) \in Nat
      BY <3>2, <3>3, PartIsSmaller
    <3> QED BY <1>10, <3>1, <3>2, <3>4 DEF Fits
  <2>2. CASE ~opens /\ skip
    <3>1. t.dpb = vtm.dpb /\ t.lastDisplay = vtm.lastDisplay /\ Fits(vtm)
      BY <1>2, <1>8, <1>9, <2>2 DEF InBounds
    <3>2. Fits(t)
      BY <3>1 DEF Fits
    <3>3. /\ Cardinality(Refers(t.dpb)) <= Cardinality(Waits(t.dpb) \cup Refers(t.dpb))
          /\ Cardinality(Refers(t.dpb)) \in Nat /\ Cardinality(Waits(t.dpb) \cup Refers(t.dpb)) \in Nat
      BY <1>10, PartIsSmaller
    <3> QED BY <1>10, <3>2, <3>3 DEF Fits
  <2>3. CASE ~opens /\ ~skip
    <3>1. /\ Waits(t.dpb) \subseteq Waits(vtm.dpb) /\ t.lastDisplay = vtm.lastDisplay /\ Fits(vtm)
          /\ Refers(t.dpb) \in SUBSET (p.refs \cup {p.poc})
      BY <1>2, <1>8, <1>9, <2>3 DEF InBounds
    <3>2. /\ Cardinality(p.refs \cup {p.poc}) \in Nat /\ Cardinality(p.refs \cup {p.poc}) <= Cardinality(p.refs) + 1
          /\ Cardinality(p.refs) \in Nat
      BY <1>3, OneMore, PocsFinite
    <3>3. p.refs \cup {p.poc} \in SUBSET Pocs
      BY <1>3
    <3>4. /\ Cardinality(Refers(t.dpb)) <= Cardinality(p.refs \cup {p.poc})
          /\ Cardinality(Refers(t.dpb)) \in Nat
      BY <3>1, <3>3, PartIsSmaller
    <3> QED BY <1>8, <1>10, <2>3, <3>1, <3>2, <3>4 DEF Fits
  <2> QED BY <2>1, <2>2, <2>3
<1>12. CASE eof
  <2>1. u = EndPicture(t, FALSE, TRUE)
    BY <1>12
  <2> HIDE DEF u
  <2>2. /\ IsVtm(u)
        /\ \/ u.dpb = t.dpb /\ u.listed = t.listed
           \/ u.listed
    BY <1>9, <2>1, EndFacts, EndUses
  <2>3. u.listed \/ Cardinality(Waits(u.dpb) \cup Refers(u.dpb)) <= MaxDecPicBuffering
    BY <1>9, <1>11, <2>2 DEF Fits
  <2>4. IsVtm(i) /\ Cardinality(Waits(i.dpb) \cup Refers(i.dpb)) <= MaxDecPicBuffering
    BY <1>12, <2>2, <2>3, LastIteration, IterationFacts
  <2> HIDE DEF i
  <2>5. vtm'.dpb = i.dpb
    BY <1>1, <2>4, BecomesFacts
  <2>6. InUse' = Waits(i.dpb) \cup Refers(i.dpb)
    BY <2>5 DEF InUse, Waits, Refers
  <2> QED BY <1>1, <1>4, <1>12, <2>4, <2>6 DEF OutInv, Bounded
<1>13. CASE ~eof
  <2> DEFINE B == Bumped(Waits(t.dpb), Refers(t.dpb), MaxDecPicBuffering)
  <2>1. i = WriteOutput(t)
    BY <1>13 DEF EndIteration
  <2> HIDE DEF i
  <2>2. IsVtm(i) /\ Untouched(t, i)
    BY <1>9, <2>1, WriteFacts
  <2>3. /\ Fits(i)
        /\ Waits(i.dpb) \subseteq Waits(t.dpb) /\ Refers(i.dpb) = Refers(t.dpb) /\ DOMAIN i.dpb = DOMAIN t.dpb
        /\ i.lastDisplay = t.lastDisplay \/ i.lastDisplay \in B
        /\ Fits(t) \/ DOMAIN t.dpb = {} => i.dpb = t.dpb /\ i.lastDisplay = t.lastDisplay
    <3>1. t.listed \/ Fits(t)
      BY <1>9, <1>11
    <3> QED BY <1>9, <1>11, <2>1, <3>1, Settles
  <2> HIDE DEF B
  <2>4. /\ vtm'.dpb = i.dpb /\ vtm'.lastDisplay = i.lastDisplay /\ vtm'.cur = t.cur
        /\ vtm'.listed = vtm.listed /\ vtm'.firstSliceInPicture = t.firstSliceInPicture
    <3>1. /\ vtm'.dpb = i.dpb /\ vtm'.lastDisplay = i.lastDisplay /\ vtm'.cur = i.cur
          /\ \A f \in Flags \cup {"pocRandomAccess"} : vtm'[f] = i[f]
      BY <1>1, <2>2, BecomesFacts, BecomesShown
    <3> QED BY <1>9, <2>2, <3>1 DEF Untouched, Flags
  <2>5. InBounds' /\ Bounded'
    <3>1. DOMAIN i.dpb = {} => i.lastDisplay = -MaxInt
      <4>1. CASE skip
        BY <1>2, <1>7, <1>8, <1>9, <2>3, <4>1 DEF InBounds
      <4>2. CASE ~skip
        BY <1>9, <2>3, <4>2
      <4> QED BY <4>1, <4>2
    <3> QED BY <2>3, <2>4, <3>1, StepFits DEF InBounds
  <2>6. ASSUME ~opens, NEW q \in Pocs, Expected(q)
        PROVE  Expected(q)'
    <3>1. CASE q \in enc.waiting
      BY <1>4, <2>6, <3>1
    <3>2. CASE q <= enc.last
      <4>1. q <= enc'.last
        BY <1>4, <1>10, <2>6, <3>2
      <4> QED BY <4>1 DEF Expected
    <3> QED BY <2>6, <3>1, <3>2 DEF Expected
  <2>7. /\ vtm'.lastDisplay <= enc'.last
        /\ ~skip /\ p.out => p.poc > vtm'.lastDisplay
    <3>1. CASE opens
      <4>1. vtm'.lastDisplay = -MaxInt
        BY <1>7, <1>9, <1>11, <2>3, <2>4, <3>1
      <4> QED BY <1>3, <1>10, <4>1 DEF MaxInt
    <3>2. CASE ~opens
      <4>1. t.lastDisplay = vtm.lastDisplay /\ vtm.lastDisplay <= enc.last /\ enc.last <= enc'.last
            /\ (p.out => p.poc > enc.last)
        BY <1>4, <1>8, <1>9, <3>2 DEF NotAhead
      <4>2. CASE i.lastDisplay = t.lastDisplay
        BY <1>3, <1>10, <2>4, <4>1, <4>2
      <4>3. CASE skip
        BY <1>3, <1>10, <1>11, <2>3, <4>2, <4>3
      <4>4. CASE ~skip /\ i.lastDisplay \in B
        <5> DEFINE N == Waits(t.dpb)
                   X == Refers(t.dpb)
                   b == i.lastDisplay
        <5>1. /\ N \in SUBSET Pocs /\ X \in SUBSET (p.refs \cup {p.poc}) /\ b \in Bumped(N, X, MaxDecPicBuffering)
              /\ \A q \in N : Expected(q)
          BY <1>8, <1>9, <1>10, <3>2, <4>4 DEF B, NotAhead
        <5>2. b \in Nat
          <6>1. b \in N
            BY <5>1 DEF Bumped
          <6> QED BY <1>10, <5>1, <6>1
        <5> HIDE DEF N, X, b
        <5>3. b <= enc.last \/ b \in early
          BY <1>2, <5>1, WrittenAreBumped DEF early
        <5>4. b <= enc'.last /\ (p.out => p.poc > b)
          BY <1>3, <1>4, <1>10, <3>2, <4>1, <5>2, <5>3
        <5> QED BY <2>4, <5>4 DEF b
      <4> QED BY <2>3, <4>2, <4>3, <4>4
    <3> QED BY <3>1, <3>2
  <2>8. \A q \in Waits(t.dpb) : Expected(q)'
    <3>1. CASE opens
      BY <1>7, <1>9, <3>1 DEF Waits
    <3>2. CASE ~opens
      <4>1. Waits(t.dpb) \subseteq Waits(vtm.dpb) /\ \A q \in Waits(vtm.dpb) : Expected(q)
        BY <1>8, <1>9, <3>2 DEF NotAhead
      <4> QED BY <1>10, <2>6, <3>2, <4>1
    <3> QED BY <3>1, <3>2
  <2>9. NotAhead'
    <3>1. Waits(vtm.dpb)' = Waits(i.dpb) /\ Refers(vtm.dpb)' = Refers(t.dpb)
      BY <2>3, <2>4 DEF Waits, Refers
    <3>2. \A q \in Waits(vtm.dpb)' : Expected(q)'
      BY <2>3, <2>8, <3>1
    <3>3. vtm'.firstSliceInPicture => vtm'.listed
      BY <1>7, <1>8, <1>9, <2>4
    <3>4. ~vtm'.firstSliceInPicture =>
            /\ Refers(vtm.dpb)' \subseteq enc'.refs
            /\ vtm'.cur.out => vtm'.cur.poc > vtm'.lastDisplay /\ Expected(vtm.cur.poc)'
      <4> SUFFICES ASSUME ~vtm'.firstSliceInPicture
                   PROVE  /\ Refers(vtm.dpb)' \subseteq enc'.refs
                          /\ vtm'.cur.out => vtm'.cur.poc > vtm'.lastDisplay /\ Expected(vtm.cur.poc)'
        OBVIOUS
      <4>1. ~skip /\ vtm'.cur.poc = p.poc /\ (vtm'.cur.out => p.out)
        BY <1>9, <2>4
      <4>2. p.out => Expected(vtm.cur.poc)'
        BY <1>4, <4>1 DEF Expected
      <4> QED BY <1>3, <1>9, <2>7, <3>1, <4>1, <4>2
    <3> QED BY <2>7, <3>2, <3>3, <3>4 DEF NotAhead
  <2> QED BY <1>1, <1>3, <1>4, <1>13, <2>5, <2>9 DEF OutInv
<1> QED BY <1>12, <1>13

(* The buffer is empty at first. *)
LEMMA StartFits == ASSUME Init PROVE OutInv
<1>1. /\ vtm.dpb = <<>> /\ vtm.lastDisplay = -MaxInt /\ vtm.firstSliceInPicture = TRUE
  BY DEF Init, InitVtm
<1>2. /\ enc.waiting = {} /\ enc.refs = {} /\ enc.last = -1 /\ enc.start = TRUE
  BY DEF Init, InitEnc
<1>3. DOMAIN vtm.dpb = {} /\ Waits(vtm.dpb) = {} /\ Refers(vtm.dpb) = {} /\ InUse = {}
  BY <1>1, EmptyBuffer DEF Waits, Refers, InUse
<1>4. Cardinality({}) = 0
  BY FS_EmptySet
<1>5. HypotheticalOK
  <2>1. enc.waiting \cup enc.refs = {}
    BY <1>2
  <2> QED BY <1>2, <1>4, <2>1, BufferAssumption DEF HypotheticalOK
<1>6. InBounds /\ Bounded
  <2>1. Waits(vtm.dpb) \cup Refers(vtm.dpb) = {}
    BY <1>3
  <2>2. MaxNumReorder \in Nat /\ MaxDecPicBuffering \in Nat
    BY BufferAssumption
  <2>3. Fits(vtm)
    BY <1>3, <1>4, <2>1, <2>2 DEF Fits
  <2>4. Bounded
    BY <1>3, <1>4, <2>2 DEF Bounded
  <2> QED BY <1>1, <2>3, <2>4 DEF InBounds
<1>7. Between
  BY <1>1, <1>3 DEF Between
<1> QED BY <1>2, <1>5, <1>6, <1>7 DEF OutInv

(* Every step keeps the buffer within its bounds.                           *)
LEMMA NextFits == ASSUME IInv, OutInv, [Next]_vars, IInv' PROVE OutInv'
<1>1. CASE NewPicture
  BY <1>1, NewPictureFits
<1>2. ASSUME NEW type \in Types, NEW poc \in Pocs, NEW out \in BOOLEAN, NEW refs \in SUBSET enc.refs,
             NEW eof \in BOOLEAN,
             DecodePicture([type |-> type, poc |-> poc, out |-> out, refs |-> refs], eof)
      PROVE  OutInv'
  <2> DEFINE p == [type |-> type, poc |-> poc, out |-> out, refs |-> refs]
  <2>1. p \in Pictures
    BY DEF Pictures, IInv, EncOK
  <2>2. DecodePicture(p, eof)
    BY <1>2
  <2> HIDE DEF p
  <2> QED BY <2>1, <2>2, DecodePictureFits
<1>3. ASSUME NEW eof \in BOOLEAN, EndOfSequence(eof)
      PROVE  OutInv'
  BY <1>3, EndOfSequenceFits
<1>4. CASE UNCHANGED vars
  <2>1. vtm' = vtm /\ enc' = enc /\ pc' = pc
    BY <1>4 DEF vars
  <2>2. HypotheticalOK' = HypotheticalOK /\ Bounded' = Bounded /\ InBounds' = InBounds
        /\ Between' = Between /\ NotAhead' = NotAhead
    BY <2>1 DEF HypotheticalOK, Bounded, InUse, InBounds, Fits, Waits, Refers, Between, NotAhead, Expected
  <2> QED BY <2>1, <2>2 DEF OutInv
<1> QED BY <1>1, <1>2, <1>3, <1>4 DEF Next

(* Between two iterations the buffer is within its bounds: whenever the     *)
(* stream keeps to its own bounds, the decoder never asks for more slots,   *)
(* whatever it reorders, refers to or skips.                                *)
THEOREM BufferBounded == Spec => []Bounded
<1>1. IInv /\ OutInv => Bounded
  BY DEF OutInv
<1>2. Init => IInv /\ OutInv
  BY StartHolds, StartFits
<1>3. IInv /\ OutInv /\ [Next]_vars => IInv' /\ OutInv'
  BY NextKeeps, NextFits
<1> QED BY <1>1, <1>2, <1>3, PTL DEF Spec

(***************************************************************************)
(* What is shown: the pictures written are due, and in order               *)
(***************************************************************************)

Outputs == Seq(Nat \X Pocs)
Earlier(a, b) == a[1] < b[1] \/ (a[1] = b[1] /\ a[2] < b[2])
Ordered(seq) == \A i, j \in DOMAIN seq : i < j => Earlier(seq[i], seq[j])
Increasing(seq) == \A i, j \in DOMAIN seq : i < j => seq[i] < seq[j]

(* Every set of POCs can be put in order. *)
LEMMA OrderExists ==
  ASSUME NEW S \in SUBSET Pocs
  PROVE  \E seq \in [1..Cardinality(S) -> S] : Increasing(seq)
<1> DEFINE Good(T) == \E seq \in [1..Cardinality(T) -> T] : Increasing(seq)
           Bad == {n \in Nat : \E T \in SUBSET Pocs : Cardinality(T) = n /\ ~Good(T)}
<1> SUFFICES ASSUME ~Good(S) PROVE FALSE
  OBVIOUS
<1> HIDE DEF Good
<1>1. Cardinality(S) \in Bad
  BY PocsFinite
<1> HIDE DEF Bad
<1>2. PICK m \in Bad : \A n \in Bad : m <= n
  BY <1>1, LeastNatural DEF Bad
<1>3. PICK T \in SUBSET Pocs : m \in Nat /\ Cardinality(T) = m /\ ~Good(T)
  BY <1>2 DEF Bad
<1>4. CASE T = {}
  <2>1. m = 0
    BY <1>3, <1>4, FS_EmptySet
  <2> DEFINE seq == [i \in 1..0 |-> 0]
  <2>2. seq \in [1..Cardinality(T) -> T] /\ Increasing(seq)
    BY <1>3, <1>4, <2>1 DEF Increasing
  <2> QED BY <1>3, <2>2 DEF Good
<1>5. CASE T # {}
  <2> DEFINE x == Max(T)
             U == T \ {x}
  <2>1. x \in T /\ \A q \in T : x >= q
    BY <1>5, Extremes
  <2> HIDE DEF x
  <2>2. U \in SUBSET Pocs /\ \A q \in U : q < x
    BY <2>1 DEF Pocs
  <2>3. m - 1 \in Nat /\ Cardinality(U) = m - 1
    <3>1. IsFiniteSet(T)
      BY PocsFinite
    <3>2. Cardinality(T) # 0
      BY <1>5, <3>1, FS_EmptySet
    <3>3. Cardinality(T \ {x}) = Cardinality(T) - 1
      BY <2>1, <3>1, FS_RemoveElement
    <3> QED BY <1>3, <3>2, <3>3
  <2>4. Good(U)
    <3>1. m - 1 \notin Bad
      BY <1>2, <1>3
    <3> HIDE DEF U
    <3> QED BY <2>2, <2>3, <3>1 DEF Bad
  <2>5. PICK seq \in [1..(m - 1) -> U] : Increasing(seq)
    BY <2>3, <2>4 DEF Good
  <2> DEFINE e == [i \in 1..m |-> IF i = m THEN x ELSE seq[i]]
  <2>6. \A i \in 1..m : i # m => i \in 1..(m - 1)
    BY <1>3
  <2>7. e \in [1..m -> T]
    BY <2>1, <2>5, <2>6
  <2>8. ASSUME NEW i \in 1..m, NEW j \in 1..m, i < j
        PROVE  e[i] < e[j]
    <3>1. i \in 1..(m - 1) /\ e[i] = seq[i] /\ seq[i] \in U
      BY <1>3, <2>5, <2>8
    <3>2. CASE j = m
      BY <2>2, <3>1, <3>2
    <3>3. CASE j # m
      BY <2>5, <2>6, <2>8, <3>1, <3>3 DEF Increasing
    <3> QED BY <3>2, <3>3
  <2>9. Increasing(e)
    <3>1. DOMAIN e = 1..m
      OBVIOUS
    <3> HIDE DEF e
    <3> QED BY <2>8, <3>1 DEF Increasing
  <2> HIDE DEF e
  <2> QED BY <1>3, <2>7, <2>9 DEF Good
<1> QED BY <1>4, <1>5

(* The list in POC order has every picture once.                            *)
LEMMA ByPocFacts ==
  ASSUME NEW S \in SUBSET Pocs
  PROVE  /\ ByPoc(S) \in [1..Cardinality(S) -> S] /\ Increasing(ByPoc(S)) /\ Cardinality(S) \in Nat
         /\ \A q \in S : \E i \in 1..Cardinality(S) : ByPoc(S)[i] = q
<1> DEFINE n == Cardinality(S)
           f == ByPoc(S)
<1>1. n \in Nat /\ IsFiniteSet(S)
  BY PocsFinite
<1>2. f \in [1..n -> S] /\ Increasing(f)
  <2>1. f = CHOOSE seq \in [1..n -> S] : Increasing(seq)
    BY DEF ByPoc, Increasing
  <2> HIDE DEF f
  <2> QED BY <2>1, OrderExists
<1> HIDE DEF f, n
<1>3. f \in Injection(1..n, S)
  <2>1. ASSUME NEW i \in 1..n, NEW j \in 1..n, f[i] = f[j]
        PROVE  i = j
    <3>1. f[i] \in Int
      <4>1. f[i] \in Pocs
        BY <1>2
      <4> QED BY <4>1 DEF Pocs
    <3>2. ~(f[i] < f[j]) /\ ~(f[j] < f[i])
      BY <2>1, <3>1
    <3> QED BY <1>1, <1>2, <3>2 DEF Increasing
  <2> QED BY <1>2, <2>1 DEF Injection, IsInjective
<1>4. Cardinality(1..n) = n /\ IsFiniteSet(1..n)
  BY <1>1, FS_Interval
<1>5. f \in Surjection(1..n, S)
  BY <1>1, <1>3, <1>4, FS_Injection DEF n
<1>6. \A q \in S : \E i \in 1..n : f[i] = q
  BY <1>5 DEF Surjection
<1> QED BY <1>1, <1>2, <1>6 DEF f, n

(* What is in two sequences one behind the other, and when it is in order   *)
LEMMA ConcatFacts ==
  ASSUME NEW a \in Outputs, NEW b \in Outputs
  PROVE  /\ a \o b \in Outputs /\ ToSet(a \o b) = ToSet(a) \cup ToSet(b)
         /\ Ordered(a) /\ Ordered(b) /\ (\A x \in ToSet(a), y \in ToSet(b) : Earlier(x, y)) => Ordered(a \o b)
<1>1. /\ a \o b \in Outputs /\ Len(a) \in Nat /\ Len(b) \in Nat /\ Len(a \o b) = Len(a) + Len(b)
      /\ DOMAIN a = 1..Len(a) /\ DOMAIN b = 1..Len(b) /\ DOMAIN (a \o b) = 1..(Len(a) + Len(b))
  BY DEF Outputs
<1> DEFINE c == a \o b
<1>2. /\ \A i \in 1..Len(a) : c[i] = a[i]
      /\ \A i \in 1..(Len(a) + Len(b)) : i > Len(a) => i - Len(a) \in 1..Len(b) /\ c[i] = b[i - Len(a)]
  BY <1>1 DEF Outputs
<1>3. \A i \in 1..Len(b) : i + Len(a) \in 1..(Len(a) + Len(b)) /\ c[i + Len(a)] = b[i]
  BY <1>1, <1>2
<1> HIDE DEF c
<1>4. ToSet(c) = ToSet(a) \cup ToSet(b)
  <2>1. ASSUME NEW i \in 1..(Len(a) + Len(b))
        PROVE  \/ i \in 1..Len(a) /\ c[i] = a[i]
               \/ i > Len(a) /\ i - Len(a) \in 1..Len(b) /\ c[i] = b[i - Len(a)]
    BY <1>1, <1>2
  <2>2. ToSet(c) \subseteq ToSet(a) \cup ToSet(b)
    BY <1>1, <2>1 DEF ToSet, c
  <2>3. ToSet(a) \subseteq ToSet(c)
    <3>1. \A i \in 1..Len(a) : i \in 1..(Len(a) + Len(b))
      BY <1>1
    <3> QED BY <1>1, <1>2, <3>1 DEF ToSet, c
  <2>4. ToSet(b) \subseteq ToSet(c)
    BY <1>1, <1>3 DEF ToSet, c
  <2> QED BY <2>2, <2>3, <2>4
<1>5. ASSUME Ordered(a), Ordered(b), \A x \in ToSet(a), y \in ToSet(b) : Earlier(x, y),
             NEW i \in 1..(Len(a) + Len(b)), NEW j \in 1..(Len(a) + Len(b)), i < j
      PROVE  Earlier(c[i], c[j])
  <2>1. CASE j <= Len(a)
    <3>1. i \in 1..Len(a) /\ j \in 1..Len(a)
      BY <1>1, <1>5, <2>1
    <3> QED BY <1>1, <1>2, <1>5, <3>1 DEF Ordered
  <2>2. CASE i > Len(a)
    <3>1. i - Len(a) \in 1..Len(b) /\ j - Len(a) \in 1..Len(b) /\ i - Len(a) < j - Len(a)
      BY <1>1, <1>5, <2>2
    <3>2. c[i] = b[i - Len(a)] /\ c[j] = b[j - Len(a)]
      BY <1>1, <1>2, <1>5, <2>2
    <3> QED BY <1>1, <1>5, <3>1, <3>2 DEF Ordered
  <2>3. CASE i <= Len(a) /\ j > Len(a)
    <3>1. i \in 1..Len(a) /\ c[i] = a[i] /\ j - Len(a) \in 1..Len(b) /\ c[j] = b[j - Len(a)]
      BY <1>1, <1>2, <2>3
    <3>2. a[i] \in ToSet(a) /\ b[j - Len(a)] \in ToSet(b)
      BY <1>1, <3>1 DEF ToSet
    <3> QED BY <1>5, <3>1, <3>2
  <2> QED BY <1>1, <2>1, <2>2, <2>3
<1> QED BY <1>1, <1>4, <1>5 DEF Ordered, c

(* An ordered sequence has each picture once.                               *)
LEMMA OrderedOnce ==
  ASSUME NEW a \in Outputs, Ordered(a)
  PROVE  /\ a \in [1..Cardinality(ToSet(a)) -> ToSet(a)]
         /\ DOMAIN a = 1..Cardinality(ToSet(a))
<1>1. Len(a) \in Nat /\ DOMAIN a = 1..Len(a) /\ a \in [1..Len(a) -> Nat \X Pocs]
  BY DEF Outputs
<1>2. a \in [1..Len(a) -> ToSet(a)]
  BY <1>1 DEF ToSet
<1>3. a \in Injection(1..Len(a), ToSet(a))
  <2>1. ASSUME NEW i \in 1..Len(a), NEW j \in 1..Len(a), a[i] = a[j]
        PROVE  i = j
    <3>1. a[i] \in Nat \X Pocs /\ a[i][1] \in Int /\ a[i][2] \in Int
      BY <1>1 DEF Pocs
    <3>2. ~Earlier(a[i], a[j]) /\ ~Earlier(a[j], a[i])
      BY <2>1, <3>1 DEF Earlier
    <3> QED BY <1>1, <3>2 DEF Ordered
  <2> QED BY <1>2, <2>1 DEF Injection, IsInjective
<1>4. a \in Surjection(1..Len(a), ToSet(a))
  BY <1>1, <1>2 DEF Surjection, ToSet
<1>5. ExistsBijection(1..Len(a), ToSet(a))
  BY <1>3, <1>4 DEF ExistsBijection, Bijection
<1>6. Cardinality(ToSet(a)) = Len(a)
  BY <1>1, <1>5, FS_CountingElements
<1> QED BY <1>1, <1>2, <1>6

(* The pictures Q of sequence c *)
Of(c, Q) == {<<c, q>> : q \in Q}

(* Whatever waits is a picture of sequence c. *)
Own(dpb, c) == \A q \in Waits(dpb) : dpb[q].id = <<c, q>>

(* From s to t the pictures Q of sequence c are written, in order. *)
Puts(s, t, c, Q) == \E out \in Outputs : t.written = s.written \o out /\ Ordered(out) /\ ToSet(out) = Of(c, Q)

(* The identities of pictures of one sequence, listed by POC, are in order. *)
LEMMA IdsFacts ==
  ASSUME NEW dpb, NEW c \in Nat, NEW Q \in SUBSET Pocs, \A q \in Q : dpb[q].id = <<c, q>>
  PROVE  LET out == Ids(dpb, ByPoc(Q))
         IN out \in Outputs /\ Ordered(out) /\ ToSet(out) = Of(c, Q)
<1> DEFINE f == ByPoc(Q)
           n == Cardinality(Q)
           out == Ids(dpb, f)
<1>1. f \in [1..n -> Q] /\ Increasing(f) /\ n \in Nat /\ \A q \in Q : \E i \in 1..n : f[i] = q
  BY ByPocFacts
<1> HIDE DEF f, n
<1>2. DOMAIN out = 1..n /\ \A i \in 1..n : out[i] = dpb[f[i]].id
  BY <1>1 DEF Ids
<1>3. \A i \in 1..n : /\ f[i] \in Q /\ out[i] = <<c, f[i]>> /\ out[i][1] = c /\ out[i][2] = f[i]
                      /\ out[i] \in Nat \X Pocs
  <2>1. \A i \in 1..n : f[i] \in Q /\ f[i] \in Pocs
    BY <1>1
  <2>2. \A i \in 1..n : out[i] = <<c, f[i]>>
    BY <1>2, <2>1
  <2> HIDE DEF out
  <2>3. ASSUME NEW i \in 1..n
        PROVE  out[i][1] = c /\ out[i][2] = f[i] /\ out[i] \in Nat \X Pocs
    <3>1. f[i] \in Pocs /\ out[i] = <<c, f[i]>>
      BY <2>1, <2>2
    <3> QED BY <3>1
  <2> QED BY <2>1, <2>2, <2>3
<1>4. out \in Outputs
  <2>1. out \in [1..n -> Nat \X Pocs]
    <3>1. out = [i \in 1..n |-> dpb[f[i]].id]
      BY <1>1 DEF Ids
    <3>2. ASSUME NEW i \in 1..n PROVE dpb[f[i]].id \in Nat \X Pocs
      <4> HIDE DEF out
      <4>1. out[i] \in Nat \X Pocs /\ out[i] = dpb[f[i]].id
        BY <1>2, <1>3
      <4> QED BY <4>1
    <3> QED BY <3>1, <3>2
  <2> QED BY <1>1, <2>1 DEF Outputs
<1> HIDE DEF out
<1>5. Ordered(out)
  BY <1>1, <1>2, <1>3 DEF Ordered, Increasing, Earlier
<1>6. ToSet(out) = Of(c, Q)
  <2>1. ToSet(out) \subseteq Of(c, Q)
    <3> SUFFICES ASSUME NEW i \in 1..n PROVE out[i] \in Of(c, Q)
      BY <1>2 DEF ToSet
    <3> QED BY <1>3 DEF Of
  <2>2. Of(c, Q) \subseteq ToSet(out)
    <3> SUFFICES ASSUME NEW q \in Q PROVE <<c, q>> \in ToSet(out)
      BY DEF Of
    <3>1. PICK i \in 1..n : f[i] = q
      BY <1>1
    <3> QED BY <1>2, <1>3, <3>1 DEF ToSet
  <2> QED BY <2>1, <2>2
<1> QED BY <1>4, <1>5, <1>6 DEF out, f

(* Nothing is written. *)
LEMMA NothingPut ==
  ASSUME NEW s, s.written \in Outputs, NEW c
  PROVE  Puts(s, s, c, {})
<1> DEFINE out == <<>>
<1>1. out \in Outputs /\ DOMAIN out = {} /\ s.written \o out = s.written
  BY DEF Outputs
<1> HIDE DEF out
<1>2. Ordered(out) /\ ToSet(out) = Of(c, {})
  BY <1>1 DEF Ordered, ToSet, Of
<1> QED BY <1>1, <1>2 DEF Puts

(* What is written behind other pictures of the sequence *)
LEMMA PutsTwice ==
  ASSUME NEW s, NEW t, NEW u, NEW c \in Nat, NEW P \in SUBSET Pocs, NEW Q \in SUBSET Pocs,
         s.written \in Outputs, Puts(s, t, c, P), Puts(t, u, c, Q), \A p \in P, q \in Q : p < q
  PROVE  Puts(s, u, c, P \cup Q)
<1>1. PICK a \in Outputs : t.written = s.written \o a /\ Ordered(a) /\ ToSet(a) = Of(c, P)
  BY DEF Puts
<1>2. PICK b \in Outputs : u.written = t.written \o b /\ Ordered(b) /\ ToSet(b) = Of(c, Q)
  BY DEF Puts
<1>3. \A x \in ToSet(a), y \in ToSet(b) : Earlier(x, y)
  BY <1>1, <1>2 DEF Of, Earlier
<1>4. a \o b \in Outputs /\ Ordered(a \o b) /\ ToSet(a \o b) = ToSet(a) \cup ToSet(b)
  BY <1>1, <1>2, <1>3, ConcatFacts
<1>5. ToSet(a \o b) = Of(c, P \cup Q)
  BY <1>1, <1>2, <1>4 DEF Of
<1>6. u.written = s.written \o (a \o b)
  <2>1. (s.written \o a) \o b = s.written \o (a \o b)
    <3> DEFINE w == s.written
               E == Nat \X Pocs
    <3>1. w \in Seq(E) /\ a \in Seq(E) /\ b \in Seq(E)
      BY DEF Outputs
    <3> HIDE DEF w, E
    <3>2. (w \o a) \o b = w \o (a \o b)
      BY <3>1, ConcatAssociative
    <3> QED BY <3>2 DEF w
  <2> QED BY <1>1, <1>2, <2>1
<1> QED BY <1>4, <1>5, <1>6 DEF Puts

(* What one pass writes waits no longer, and comes before what waits still. *)
LEMMA WritePuts ==
  ASSUME NEW s, IsVtm(s), NEW c \in Nat, Own(s.dpb, c), s.written \in Outputs,
         \A q \in Waits(s.dpb) : q > s.lastDisplay
  PROVE  LET t == WriteOutput(s)
             gone == Waits(s.dpb) \ Waits(t.dpb)
         IN /\ Waits(t.dpb) \subseteq Waits(s.dpb) /\ Own(t.dpb, c) /\ Puts(s, t, c, gone)
            /\ \A b \in gone : b <= t.lastDisplay /\ \A q \in Waits(t.dpb) : b < q
            /\ gone = {} => t.lastDisplay = s.lastDisplay
<1> DEFINE t == WriteOutput(s)
           N == Waits(s.dpb)
           B == Ready(s)
           out == Ids(s.dpb, ByPoc(B))
<1>1. N \in SUBSET Pocs /\ Refers(s.dpb) \in SUBSET Pocs /\ N \subseteq DOMAIN s.dpb
  BY UsesArePocs
<1>2. B \subseteq N /\ \A q \in N \ B, b \in B : q > b
  <2>1. B = Bumped(N, Refers(s.dpb), MaxDecPicBuffering)
    BY ReadyIsBumped
  <2>2. MaxDecPicBuffering \in Int
    BY BufferAssumption
  <2> HIDE DEF N, B
  <2> QED BY <1>1, <2>1, <2>2, BumpedFacts
<1>3. CASE ~s.listed \/ B = {}
  <2>1. t = s
    BY <1>3 DEF WriteOutput
  <2>2. Puts(s, s, c, {}) /\ N \ Waits(s.dpb) = {}
    BY NothingPut
  <2> QED BY <2>1, <2>2
<1>4. CASE ~(~s.listed \/ B = {})
  <2> DEFINE d == [q \in DOMAIN s.dpb |-> IF q \in B THEN Written(s.dpb[q]) ELSE s.dpb[q]]
  <2>1. t = [s EXCEPT !.written = @ \o out, !.lastDisplay = Max(B), !.dpb = d]
    BY <1>4 DEF WriteOutput
  <2>2. DOMAIN d = DOMAIN s.dpb /\ \A q \in DOMAIN s.dpb : d[q] = IF q \in B THEN Written(s.dpb[q]) ELSE s.dpb[q]
    OBVIOUS
  <2> HIDE DEF t, d, out, B
  <2>3. t.written = s.written \o out /\ t.lastDisplay = Max(B) /\ t.dpb = d
    BY <2>1 DEF IsVtm
  <2>4. \A q \in DOMAIN s.dpb : ~Written(s.dpb[q]).needed /\ Written(s.dpb[q]).id = s.dpb[q].id
    <3> SUFFICES ASSUME NEW q \in DOMAIN s.dpb PROVE ~Written(s.dpb[q]).needed /\ Written(s.dpb[q]).id = s.dpb[q].id
      OBVIOUS
    <3>1. s.dpb[q] \in Slots
      BY SlotFacts DEF IsVtm
    <3> QED BY <3>1 DEF Written, Slots
  <2>5. Waits(t.dpb) = N \ B
    <3>1. \A q \in DOMAIN s.dpb : d[q].needed <=> q \notin B /\ s.dpb[q].needed
      BY <2>2, <2>4
    <3> QED BY <1>2, <2>2, <2>3, <3>1 DEF Waits
  <2>6. Own(t.dpb, c)
    <3>1. \A q \in DOMAIN s.dpb : d[q].id = s.dpb[q].id
      BY <2>2, <2>4
    <3> QED BY <1>1, <2>3, <2>5, <3>1 DEF Own
  <2>7. N \ Waits(t.dpb) = B /\ B \in SUBSET Pocs
    BY <1>1, <1>2, <2>5
  <2>8. out \in Outputs /\ Ordered(out) /\ ToSet(out) = Of(c, B)
    <3>1. \A q \in B : s.dpb[q].id = <<c, q>>
      BY <1>2 DEF Own
    <3> QED BY <2>7, <3>1, IdsFacts DEF out
  <2>9. Puts(s, t, c, B)
    BY <2>3, <2>8 DEF Puts
  <2>10. \A b \in B : b <= t.lastDisplay /\ \A q \in Waits(t.dpb) : b < q
    <3>1. \A b \in B : b <= Max(B)
      <4>1. Max(B) \in B /\ \A b \in B : Max(B) >= b
        BY <1>4, <2>7, Extremes
      <4>2. \A b \in B : b \in Int
        BY <2>7 DEF Pocs
      <4> QED BY <4>1, <4>2
    <3>2. \A q \in N : q \in Int
      BY <1>1 DEF Pocs
    <3> HIDE DEF N
    <3> QED BY <1>2, <2>3, <2>5, <3>1, <3>2
  <2> HIDE DEF N
  <2> QED BY <1>4, <2>5, <2>6, <2>7, <2>9, <2>10 DEF t, N
<1> QED BY <1>3, <1>4

(* A flush writes all that waits.                                           *)
LEMMA FlushPuts ==
  ASSUME NEW s, IsVtm(s), NEW c \in Nat, Own(s.dpb, c), s.written \in Outputs,
         s.listed \/ Waits(s.dpb) = {}
  PROVE  Puts(s, FlushOutput(s), c, Waits(s.dpb)) /\ Waits(FlushOutput(s).dpb) = {}
<1> DEFINE t == FlushOutput(s)
           N == Waits(s.dpb)
           out == Ids(s.dpb, ByPoc(N))
<1>1. N \in SUBSET Pocs
  BY UsesArePocs
<1>2. CASE ~s.listed \/ DOMAIN s.dpb = {}
  <2>1. t = s
    BY <1>2 DEF FlushOutput
  <2>2. N = {}
    BY <1>2 DEF Waits
  <2> HIDE DEF N
  <2> QED BY <2>1, <2>2, NothingPut DEF N
<1>3. CASE ~(~s.listed \/ DOMAIN s.dpb = {})
  <2>1. t = [s EXCEPT !.written = @ \o out, !.dpb = <<>>, !.lastDisplay = -MaxInt]
    BY <1>3 DEF FlushOutput, Waits
  <2> HIDE DEF t, out
  <2>2. t.written = s.written \o out /\ t.dpb = <<>>
    BY <2>1 DEF IsVtm
  <2>3. out \in Outputs /\ Ordered(out) /\ ToSet(out) = Of(c, N)
    BY <1>1, IdsFacts DEF out, Own
  <2>4. Waits(t.dpb) = {}
    BY <2>2, EmptyBuffer DEF Waits
  <2> HIDE DEF N
  <2> QED BY <2>2, <2>3, <2>4 DEF Puts, t, N
<1> QED BY <1>2, <1>3

(* What is written is a sequence of pictures.                               *)
LEMMA PutsOutputs ==
  ASSUME NEW s, NEW t, NEW c, NEW Q, s.written \in Outputs, Puts(s, t, c, Q)
  PROVE  t.written \in Outputs
<1>1. PICK out \in Outputs : t.written = s.written \o out
  BY DEF Puts
<1> QED BY <1>1, ConcatFacts

(* At the end of the file all that waits is written.                        *)
LEMMA LastPuts ==
  ASSUME NEW s, IsVtm(s), NEW c \in Nat, Own(s.dpb, c), s.written \in Outputs,
         s.listed \/ Waits(s.dpb) = {}, \A q \in Waits(s.dpb) : q > s.lastDisplay
  PROVE  Puts(s, EndIteration(s, TRUE), c, Waits(s.dpb))
<1> DEFINE t == WriteOutput(s)
           u == FlushOutput(t)
           N == Waits(s.dpb)
           M == Waits(t.dpb)
<1>1. EndIteration(s, TRUE) = u
  BY DEF EndIteration
<1>2. /\ M \subseteq N /\ Own(t.dpb, c) /\ Puts(s, t, c, N \ M)
      /\ \A b \in N \ M : \A q \in M : b < q
  BY WritePuts
<1>3. IsVtm(t) /\ t.listed = s.listed
  <2>1. IsVtm(t) /\ Untouched(s, t)
    BY WriteFacts
  <2> HIDE DEF t
  <2> QED BY <2>1 DEF Untouched, Flags
<1>4. t.written \in Outputs
  BY <1>2, PutsOutputs
<1>5. N \in SUBSET Pocs
  BY UsesArePocs
<1>6. Puts(t, u, c, M)
  <2> HIDE DEF t
  <2>1. t.listed \/ Waits(t.dpb) = {}
    BY <1>2, <1>3
  <2> QED BY <1>2, <1>3, <1>4, <2>1, FlushPuts
<1> HIDE DEF t, u, N, M
<1>7. Puts(s, u, c, (N \ M) \cup M)
  BY <1>2, <1>5, <1>6, PutsTwice
<1>8. (N \ M) \cup M = N
  BY <1>2
<1> QED BY <1>1, <1>7, <1>8 DEF N

(* Own says nothing of a slot but its picture and whether it waits. *)
LEMMA OwnKept ==
  ASSUME NEW d, NEW e, NEW c, Own(d, c), Waits(e) \subseteq Waits(d), \A q \in Waits(e) : e[q].id = d[q].id
  PROVE  Own(e, c)
BY DEF Own

(* A finished picture waits if it is to be shown, and a RASL picture of an  *)
(* opened sequence never is.                                                *)
LEMMA FinishWaits ==
  ASSUME NEW s, IsVtm(s), s.cur.poc \in DOMAIN s.dpb, ~s.dpb[s.cur.poc].needed, ~(s.newClvs /\ s.cur.rasl)
  PROVE  LET t == FinishPicture(s)
         IN /\ Waits(t.dpb) = Waits(s.dpb) \cup (IF s.cur.out THEN {s.cur.poc} ELSE {})
            /\ t.written = s.written
<1> DEFINE t == FinishPicture(s)
           c == s.cur.poc
           x == s.cur.out /\ ~(s.newClvs /\ s.cur.rasl)
           Slot(q) == IF q = c THEN [s.dpb[q] EXCEPT !.needed = x, !.reconstructed = TRUE] ELSE s.dpb[q]
           d == [q \in DOMAIN s.dpb |-> Slot(q)]
           u == [s EXCEPT !.dpb = d, !.firstSliceInPicture = TRUE, !.listed = TRUE]
<1>1. t = u
  <2>1. [s.dpb EXCEPT ![c].needed = x, ![c].reconstructed = TRUE] = d
    BY DEF IsVtm, IsBuffer, Slots
  <2> QED BY <2>1 DEF FinishPicture
<1>2. (x <=> s.cur.out) /\ s.cur.out \in BOOLEAN
  BY DEF IsVtm
<1> HIDE DEF x
<1>3. \A q \in DOMAIN s.dpb : Slot(q).needed <=> IF q = c THEN s.cur.out ELSE s.dpb[q].needed
  <2> SUFFICES ASSUME NEW q \in DOMAIN s.dpb
               PROVE  Slot(q).needed <=> IF q = c THEN s.cur.out ELSE s.dpb[q].needed
    OBVIOUS
  <2>1. s.dpb[q] \in Slots
    BY SlotFacts DEF IsVtm
  <2>2. CASE q = c
    <3>1. Slot(q).needed = x
      BY <2>1, <2>2 DEF Slots
    <3> QED BY <1>2, <2>2, <3>1
  <2>3. CASE q # c
    BY <2>3
  <2> QED BY <2>2, <2>3
<1> HIDE DEF Slot
<1>4. DOMAIN d = DOMAIN s.dpb /\ \A q \in DOMAIN s.dpb : d[q] = Slot(q)
  OBVIOUS
<1> HIDE DEF d, t
<1>5. t.dpb = d /\ t.written = s.written
  <2>1. u.dpb = d /\ u.written = s.written
    BY DEF IsVtm, Flags
  <2> HIDE DEF u
  <2> QED BY <1>1, <2>1
<1>6. Waits(t.dpb) = Waits(s.dpb) \cup (IF s.cur.out THEN {c} ELSE {})
  BY <1>3, <1>4, <1>5 DEF Waits
<1> QED BY <1>5, <1>6 DEF t

(* The end of a picture: whether it waits then *)
LEMMA EndWaits ==
  ASSUME NEW s, IsVtm(s), NEW eos \in BOOLEAN, NEW eof \in BOOLEAN
  PROVE  LET t == EndPicture(s, eos, eof)
         IN /\ t.lastNoOutputBeforeRecovery = s.lastNoOutputBeforeRecovery
            /\ s.firstSliceInSequence \/ s.skipped => /\ t.dpb = s.dpb /\ t.written = s.written
                                                      /\ t.loopFiltered = s.loopFiltered
            /\ ~(s.firstSliceInSequence \/ s.skipped) => t.loopFiltered = eos
            /\ /\ ~(s.firstSliceInSequence \/ s.skipped) /\ (~s.loopFiltered \/ ~eof)
               /\ s.cur.poc \in DOMAIN s.dpb /\ ~s.dpb[s.cur.poc].needed /\ ~(s.newClvs /\ s.cur.rasl)
               => /\ Waits(t.dpb) = Waits(s.dpb) \cup (IF s.cur.out THEN {s.cur.poc} ELSE {})
                  /\ t.written = s.written /\ t.listed
<1> DEFINE t == EndPicture(s, eos, eof)
           f == IF ~s.loopFiltered \/ ~eof THEN FinishPicture(s) ELSE s
           done == /\ ~(s.firstSliceInSequence \/ s.skipped) /\ (~s.loopFiltered \/ ~eof)
                   /\ s.cur.poc \in DOMAIN s.dpb /\ ~s.dpb[s.cur.poc].needed /\ ~(s.newClvs /\ s.cur.rasl)
<1>1. CASE s.firstSliceInSequence \/ s.skipped
  <2>1. t = [s EXCEPT !.firstSliceInPicture = TRUE]
    BY <1>1 DEF EndPicture
  <2> HIDE DEF t
  <2>2. /\ t.dpb = s.dpb /\ t.written = s.written /\ t.loopFiltered = s.loopFiltered
        /\ t.lastNoOutputBeforeRecovery = s.lastNoOutputBeforeRecovery
    BY <2>1 DEF IsVtm, Flags
  <2> QED BY <1>1, <2>2 DEF t
<1>2. CASE ~(s.firstSliceInSequence \/ s.skipped)
  <2>1. t = [f EXCEPT !.loopFiltered = eos, !.firstSliceInSequence = @ \/ eos]
    BY <1>2 DEF EndPicture
  <2>2. IsVtm(f) /\ f.lastNoOutputBeforeRecovery = s.lastNoOutputBeforeRecovery
    <3>1. CASE ~s.loopFiltered \/ ~eof
      <4>1. f = FinishPicture(s)
        BY <3>1
      <4> HIDE DEF f
      <4> QED BY <4>1, FinishFacts DEF Flags
    <3>2. CASE ~(~s.loopFiltered \/ ~eof)
      BY <3>2
    <3> QED BY <3>1, <3>2
  <2>3. done => /\ Waits(f.dpb) = Waits(s.dpb) \cup (IF s.cur.out THEN {s.cur.poc} ELSE {})
                /\ f.written = s.written /\ f.listed
    <3> SUFFICES ASSUME done
                 PROVE  /\ Waits(f.dpb) = Waits(s.dpb) \cup (IF s.cur.out THEN {s.cur.poc} ELSE {})
                        /\ f.written = s.written /\ f.listed
      OBVIOUS
    <3>1. f = FinishPicture(s)
      OBVIOUS
    <3>2. s.cur.poc \in DOMAIN s.dpb /\ ~s.dpb[s.cur.poc].needed /\ ~(s.newClvs /\ s.cur.rasl)
      OBVIOUS
    <3> HIDE DEF f, done
    <3> QED BY <3>1, <3>2, FinishWaits, FinishUses
  <2> HIDE DEF f, t
  <2>4. /\ t.dpb = f.dpb /\ t.written = f.written /\ t.loopFiltered = eos /\ t.listed = f.listed
        /\ t.lastNoOutputBeforeRecovery = f.lastNoOutputBeforeRecovery
    BY <2>1, <2>2 DEF IsVtm, Flags
  <2>5. done => /\ Waits(t.dpb) = Waits(s.dpb) \cup (IF s.cur.out THEN {s.cur.poc} ELSE {})
                /\ t.written = s.written /\ t.listed
    BY <2>3, <2>4
  <2> QED BY <1>2, <2>2, <2>4, <2>5 DEF t
<1> QED BY <1>1, <1>2

(* Before the first slice of a sequence all that waits is written.          *)
LEMMA BeforePuts ==
  ASSUME NEW s, IsVtm(s), NEW p \in Pictures, NEW c \in Nat, Own(s.dpb, c), s.written \in Outputs,
         s.listed \/ Waits(s.dpb) = {}
  PROVE  LET t == BeforeSlice(s, p)
         IN /\ t.newClvs = (StartsClvs(s, p) \/ (s.newClvs /\ s.eosInLastPu))
            /\ StartsClvs(s, p) => Puts(s, t, c, Waits(s.dpb)) /\ Waits(t.dpb) = {}
            /\ ~StartsClvs(s, p) => t.written = s.written
<1> DEFINE t == BeforeSlice(s, p)
           f == IF StartsClvs(s, p) THEN FlushOutput(s) ELSE s
           n == StartsClvs(s, p) \/ (f.newClvs /\ s.eosInLastPu)
<1>1. t = [f EXCEPT !.newClvs = n, !.skipped = FALSE]
  BY DEF BeforeSlice
<1>2. /\ ~StartsClvs(s, p) => f = s
      /\ StartsClvs(s, p) => f = FlushOutput(s)
  OBVIOUS
<1>3. IsVtm(f) /\ f.newClvs = s.newClvs
  <2>1. IsVtm(FlushOutput(s)) /\ FlushOutput(s).newClvs = s.newClvs
    BY FlushFacts DEF Untouched, Flags
  <2> HIDE DEF f
  <2> QED BY <1>2, <2>1
<1>4. n = (StartsClvs(s, p) \/ (s.newClvs /\ s.eosInLastPu))
  <2> HIDE DEF f
  <2> QED BY <1>3
<1> HIDE DEF f, t, n
<1>5. t.dpb = f.dpb /\ t.written = f.written /\ t.newClvs = n
  BY <1>1, <1>3 DEF IsVtm, Flags
<1>6. ASSUME StartsClvs(s, p)
      PROVE  Puts(s, t, c, Waits(s.dpb)) /\ Waits(t.dpb) = {}
  <2>1. Puts(s, f, c, Waits(s.dpb)) /\ Waits(f.dpb) = {}
    BY <1>2, <1>6, FlushPuts
  <2> QED BY <1>5, <2>1 DEF Puts
<1>7. ASSUME ~StartsClvs(s, p)
      PROVE  t.written = s.written
  BY <1>2, <1>5, <1>7
<1> QED BY <1>4, <1>5, <1>6, <1>7 DEF t

(* A slice that is decoded takes no slot from a picture that waits.         *)
LEMMA DecodeWaits ==
  ASSUME NEW s, IsVtm(s), NEW p \in Pictures, NEW cvs \in Nat, p.poc \notin Waits(s.dpb)
  PROVE  LET t == DecodeSlice(s, p, cvs)
         IN /\ t.written = s.written /\ t.newClvs = s.newClvs /\ t.loopFiltered = s.loopFiltered
            /\ t.lastNoOutputBeforeRecovery = IF p.type = "CRA" THEN NoOutputBeforeRecovery(s, p)
                                              ELSE s.lastNoOutputBeforeRecovery
            /\ ~RandomAccessSkip(s, p) =>
                 /\ Waits(t.dpb) = Waits(s.dpb)
                 /\ \A q \in Waits(s.dpb) : t.dpb[q].id = s.dpb[q].id
                 /\ t.cur.rasl = (p.type = "RASL")
                 /\ t.cur.out = (p.out /\ ~(p.type = "RASL" /\ s.lastNoOutputBeforeRecovery))
<1> DEFINE nobr == IF p.type = "CRA" THEN NoOutputBeforeRecovery(s, p) ELSE s.lastNoOutputBeforeRecovery
           pra == PocRandomAccess(s, p)
           b == [s EXCEPT !.lastNoOutputBeforeRecovery = nobr, !.pocRandomAccess = pra]
           m == Marked(s.dpb, p)
           id == <<cvs, p.poc>>
           d == GetNewPicBuffer(m, p.poc, id)
           c == [poc |-> p.poc, rasl |-> p.type = "RASL", out |-> p.out /\ ~(p.type = "RASL" /\ nobr)]
           u == [b EXCEPT !.dpb = d, !.cur = c, !.firstSliceInSequence = FALSE, !.firstSliceInPicture = FALSE]
           v == [b EXCEPT !.skipped = TRUE]
           t == DecodeSlice(s, p, cvs)
<1>1. t = IF RandomAccessSkip(s, p) THEN v ELSE u
  BY DEF DecodeSlice, PocRandomAccess
<1>2. c.rasl = (p.type = "RASL") /\ c.out = (p.out /\ ~(p.type = "RASL" /\ s.lastNoOutputBeforeRecovery))
  OBVIOUS
<1>3. IsBuffer(m) /\ DOMAIN m = DOMAIN s.dpb
  BY MarkedFacts DEF IsVtm
<1>4. \A q \in DOMAIN m : m[q].needed = s.dpb[q].needed /\ m[q].id = s.dpb[q].id
  <2>1. CASE p.type = "IDR"
    BY <2>1 DEF Marked
  <2>2. CASE p.type # "IDR"
    <3>1. m = [q \in DOMAIN s.dpb |-> [s.dpb[q] EXCEPT !.referenced = @ /\ q \in p.refs]]
      BY <2>2 DEF Marked
    <3>2. ASSUME NEW q \in DOMAIN s.dpb
          PROVE  LET r == [s.dpb[q] EXCEPT !.referenced = @ /\ q \in p.refs]
                 IN r.needed = s.dpb[q].needed /\ r.id = s.dpb[q].id
      <4>1. s.dpb[q] \in Slots
        BY SlotFacts DEF IsVtm
      <4> QED BY <4>1 DEF Slots
    <3> HIDE DEF m
    <3> QED BY <3>1, <3>2
  <2> QED BY <2>1, <2>2
<1> HIDE DEF m, id
<1>5. Waits(d) = Waits(s.dpb) /\ \A q \in Waits(s.dpb) : d[q].id = s.dpb[q].id
  <2> DEFINE kept == DOMAIN m \ (IF Reusable(m) = {} THEN {} ELSE {Min(Reusable(m))})
             new == [id |-> id, needed |-> FALSE, referenced |-> TRUE, reconstructed |-> FALSE]
  <2>1. DOMAIN d = kept \cup {p.poc} /\ \A q \in DOMAIN d : d[q] = IF q = p.poc THEN new ELSE m[q]
    BY DEF GetNewPicBuffer
  <2>2. Waits(m) = Waits(s.dpb)
    BY <1>3, <1>4 DEF Waits
  <2>3. Waits(m) \subseteq kept /\ kept \subseteq DOMAIN m
    <3>1. Reusable(m) \in SUBSET Pocs
      BY <1>3 DEF Reusable, IsBuffer
    <3>2. Reusable(m) # {} => Min(Reusable(m)) \in Reusable(m)
      BY <3>1, Extremes
    <3>3. \A q \in Reusable(m) : q \notin Waits(m)
      BY DEF Reusable, Waits
    <3> QED BY <3>2, <3>3 DEF Waits
  <2>4. ~new.needed
    OBVIOUS
  <2> HIDE DEF kept, new, d
  <2>5. \A q \in Waits(m) : q \in DOMAIN d /\ q # p.poc /\ d[q] = m[q]
    BY <2>1, <2>2, <2>3
  <2>6. Waits(d) = Waits(m)
    BY <2>1, <2>3, <2>4, <2>5 DEF Waits
  <2> QED BY <1>4, <2>2, <2>3, <2>5, <2>6
<1>6. /\ DOMAIN b = DOMAIN s /\ b.written = s.written /\ b.newClvs = s.newClvs
      /\ b.loopFiltered = s.loopFiltered /\ b.lastNoOutputBeforeRecovery = nobr
  BY DEF IsVtm, Flags
<1> HIDE DEF t, c, d, b
<1>7. /\ v.written = b.written /\ v.newClvs = b.newClvs /\ v.loopFiltered = b.loopFiltered
      /\ v.lastNoOutputBeforeRecovery = b.lastNoOutputBeforeRecovery
  BY <1>6 DEF IsVtm, Flags
<1>8. /\ u.written = b.written /\ u.newClvs = b.newClvs /\ u.loopFiltered = b.loopFiltered
      /\ u.lastNoOutputBeforeRecovery = b.lastNoOutputBeforeRecovery /\ u.dpb = d /\ u.cur = c
  BY <1>6 DEF IsVtm, Flags
<1> HIDE DEF u, v
<1> QED BY <1>1, <1>2, <1>5, <1>6, <1>7, <1>8 DEF t, nobr

(* What is written first *)
LEMMA PutsFirst ==
  ASSUME NEW s, NEW t, NEW c, NEW Q, s.written = <<>>, Puts(s, t, c, Q)
  PROVE  t.written \in Outputs /\ Ordered(t.written) /\ ToSet(t.written) = Of(c, Q)
<1>1. PICK out \in Outputs : t.written = <<>> \o out /\ Ordered(out) /\ ToSet(out) = Of(c, Q)
  BY DEF Puts
<1>2. <<>> \o out = out
  BY DEF Outputs
<1> QED BY <1>1, <1>2

(* What is shown last is what was written last.                             *)
LEMMA PreviousFacts ==
  ASSUME shown \in Outputs, NEW w \in Outputs, shown' = Previous \o w
  PROVE  /\ shown' \in Outputs /\ Previous \in Outputs /\ Previous' \in Outputs
         /\ w = <<>> => Previous' = Previous
         /\ w # <<>> => ToSet(Previous') \subseteq ToSet(w)
<1> DEFINE E == Nat \X Pocs
<1>1. shown \in Seq(E) /\ w \in Seq(E)
  BY DEF Outputs
<1> HIDE DEF E
<1>2. /\ shown = <<>> => Previous = <<>>
      /\ shown # <<>> => /\ Previous = <<Last(shown)>> /\ Last(shown) \in E
                         /\ Len(Previous) = 1 /\ Previous[1] = Last(shown) /\ Previous # <<>>
      /\ Previous \in Seq(E)
  BY <1>1 DEF Previous, Last
<1>3. shown' \in Seq(E)
  BY <1>1, <1>2
<1>4. /\ shown' = <<>> => Previous' = <<>>
      /\ shown' # <<>> => Previous' = <<Last(shown')>> /\ Last(shown') \in E
  BY <1>3 DEF Previous, Last
<1>5. CASE w = <<>>
  <2>1. shown' = Previous
    BY <1>2, <1>5
  <2>2. Previous' = Previous
    BY <1>2, <1>4, <2>1 DEF Last
  <2> QED BY <1>2, <1>3, <1>5, <2>2 DEF Outputs, E
<1>6. CASE w # <<>>
  <2>1. Len(w) \in Nat /\ Len(w) > 0 /\ Len(Previous) \in Nat /\ DOMAIN w = 1..Len(w)
    BY <1>1, <1>2, <1>6
  <2>2. Len(shown') = Len(Previous) + Len(w) /\ shown'[Len(Previous) + Len(w)] = w[Len(w)]
    BY <1>1, <1>2, <2>1
  <2>3. shown' # <<>>
    BY <1>3, <2>1, <2>2
  <2>4. Previous' = <<w[Len(w)]>> /\ w[Len(w)] \in E
    BY <1>4, <2>2, <2>3 DEF Last
  <2>5. ToSet(Previous') = {w[Len(w)]}
    <3>1. DOMAIN Previous' = {1} /\ Previous'[1] = w[Len(w)]
      BY <2>4
    <3> QED BY <3>1 DEF ToSet
  <2>6. w[Len(w)] \in ToSet(w)
    BY <2>1 DEF ToSet
  <2>7. Previous' \in Seq(E)
    BY <2>4
  <2> QED BY <1>2, <1>3, <1>6, <2>5, <2>6, <2>7 DEF Outputs, E
<1> QED BY <1>5, <1>6

(* An iteration that writes pictures that are due, in order and before all  *)
(* that remain, is a step of Display.                                       *)
LEMMA Shows ==
  ASSUME NEW s, NEW taken \in SUBSET ((1..MaxPics) \X Pocs), Becomes(s, taken),
         taken = {} \/ (\E x : taken = {x}),
         shown \in Outputs, s.written \in Outputs, Ordered(s.written), ToSet(s.written) \subseteq due \cup taken,
         \A x \in taken, y \in ToSet(Previous) : Earlier(y, x),
         \A x \in ToSet(s.written), y \in (due \cup taken) \ ToSet(s.written) : Earlier(x, y)
  PROVE  /\ Promised!Next /\ due' = (due \cup taken) \ ToSet(s.written) /\ shown' \in Outputs
         /\ ToSet(s.written) = {} => ToSet(Previous') = ToSet(Previous)
         /\ ToSet(s.written) # {} => ToSet(Previous') \subseteq ToSet(s.written)
<1> DEFINE w == s.written
           S == ToSet(w)
<1>1. shown' = Previous \o w /\ due' = (due \cup taken) \ S
  BY DEF Becomes
<1>2. w \in Outputs /\ Ordered(w)
  OBVIOUS
<1> HIDE DEF w
<1>3. w \in [1..Cardinality(S) -> S] /\ DOMAIN w = 1..Cardinality(S)
  BY <1>2, OrderedOnce
<1>4. (w = <<>> => S = {}) /\ (w # <<>> => S # {})
  <2>1. w = <<>> => DOMAIN w = {}
    OBVIOUS
  <2>2. w # <<>> => DOMAIN w # {}
    <3> DEFINE E == Nat \X Pocs
    <3>1. w \in Seq(E)
      BY <1>2 DEF Outputs
    <3> HIDE DEF E
    <3>2. Len(w) \in Nat /\ DOMAIN w = 1..Len(w) /\ (w # <<>> => Len(w) \in Nat \ {0})
      BY <3>1, EmptySeq
    <3>3. w # <<>> => 1 \in DOMAIN w
      BY <3>2
    <3> QED BY <3>3
  <2> QED BY <2>1, <2>2 DEF ToSet
<1>5. /\ shown' \in Outputs
      /\ w = <<>> => Previous' = Previous
      /\ w # <<>> => ToSet(Previous') \subseteq ToSet(w)
  BY <1>1, <1>2, PreviousFacts
<1> HIDE DEF S
<1>6. w \in Promised!InOrder(S)
  <2>1. Promised!Cardinality(S) = Cardinality(S)
    BY DEF Promised!Cardinality, Cardinality
  <2>2. \A i, j \in DOMAIN w : i < j => Promised!Before(w[i], w[j])
    BY <1>2 DEF Promised!Before, Ordered, Earlier
  <2>3. w \in [1..Promised!Cardinality(S) -> S]
    BY <1>3, <2>1
  <2> QED BY <2>2, <2>3 DEF Promised!InOrder
<1>7. Promised!Step(taken, S)
  <2>1. Promised!Previous = Previous
    BY DEF Promised!Previous, Previous, Promised!Last, Last
  <2>2. \A x \in taken, y \in Promised!ToSet(Promised!Previous) : Promised!Before(y, x)
    BY <2>1 DEF Promised!ToSet, ToSet, Promised!Before, Earlier
  <2>3. \A x \in S, y \in (due \cup taken) \ S : Promised!Before(x, y)
    BY DEF S, w, Promised!Before, Earlier
  <2> QED BY <1>1, <1>6, <2>1, <2>2, <2>3 DEF Promised!Step
<1>8. Promised!Next
  <2>1. taken \in {{}} \cup {{x} : x \in (1..MaxPics) \X Pocs}
    OBVIOUS
  <2>2. S \in SUBSET (due \cup taken)
    BY DEF S, w
  <2> QED BY <1>7, <2>1, <2>2 DEF Promised!Next
<1> QED BY <1>1, <1>4, <1>5, <1>8 DEF S, w

(* What is written behind what was written before *)
LEMMA PutsBehind ==
  ASSUME NEW s, NEW t, NEW c, NEW Q, s.written \in Outputs, Ordered(s.written), Puts(s, t, c, Q),
         \A x \in ToSet(s.written), q \in Q : Earlier(x, <<c, q>>)
  PROVE  t.written \in Outputs /\ Ordered(t.written) /\ ToSet(t.written) = ToSet(s.written) \cup Of(c, Q)
<1>1. PICK out \in Outputs : t.written = s.written \o out /\ Ordered(out) /\ ToSet(out) = Of(c, Q)
  BY DEF Puts
<1>2. \A x \in ToSet(s.written), y \in ToSet(out) : Earlier(x, y)
  BY <1>1 DEF Of
<1> QED BY <1>1, <1>2, ConcatFacts

(* The pictures of a sequence that are written, and those that remain *)
LEMMA OfFacts ==
  ASSUME NEW c, NEW P, NEW Q
  PROVE  Of(c, P) \cup Of(c, Q) = Of(c, P \cup Q) /\ Of(c, P) \ Of(c, Q) = Of(c, P \ Q)
<1>1. \A p, q : <<c, p>> = <<c, q>> => p = q
  OBVIOUS
<1> QED BY <1>1 DEF Of

(***************************************************************************)
(* The invariant of the display                                            *)
(***************************************************************************)

(* The picture in decoding, if it is to be shown *)
Pending == IF ~enc.start /\ ~vtm.firstSliceInPicture /\ vtm.cur.out THEN {vtm.cur.poc} ELSE {}

(* What is due waits or is in decoding, and is this sequence's.             *)
AllDue ==
  /\ due = Of(enc.cvs, Waits(vtm.dpb) \cup Pending)
  /\ Own(vtm.dpb, enc.cvs) /\ Waits(vtm.dpb) \subseteq enc.seen

(* What was shown last comes before all that is still to be shown.          *)
Following == \A x \in ToSet(Previous) : x[1] < enc.cvs \/ (x[1] = enc.cvs /\ x[2] <= vtm.lastDisplay)

(* The sequences and the pictures so far *)
Counted ==
  /\ enc.n \in 0..MaxPics /\ enc.cvs <= enc.n /\ (~enc.start => enc.cvs > 0)
  /\ vtm.loopFiltered => enc.n > 0

(* Within a sequence: the picture in decoding will wait once it is finished *)
(* if it is to be shown, and it will be finished                            *)
Showing ==
  /\ vtm.loopFiltered => ~vtm.firstSliceInPicture /\ enc.lone
  /\ enc.cra /\ ~enc.opens => ~vtm.lastNoOutputBeforeRecovery
  /\ ~vtm.firstSliceInPicture =>
       /\ vtm.cur.poc \in DOMAIN vtm.dpb /\ vtm.cur.poc \notin Waits(vtm.dpb)
       /\ vtm.dpb[vtm.cur.poc].id = <<enc.cvs, vtm.cur.poc>> /\ vtm.cur.poc \in enc.seen
       /\ vtm.cur.rasl => enc.afterRasl /\ ~vtm.newClvs

DisplayInv ==
  /\ vtm.written = <<>> /\ shown \in Outputs
  /\ pc = "ended" => due = {}
  /\ pc = "decoding" => AllDue /\ Following /\ Counted /\ (enc.start \/ Showing)

(* Nothing written is left over from one iteration to the next.             *)
LEMMA BecomesWritten ==
  ASSUME NEW s, IsVtm(s), NEW taken, Becomes(s, taken)
  PROVE  vtm'.written = <<>>
<1> DEFINE t == [s EXCEPT !.written = <<>>]
<1>1. vtm' = t
  BY DEF Becomes
<1>2. t.written = <<>>
  BY DEF IsVtm
<1> QED BY <1>1, <1>2

(* The pictures that were shown are identities. *)
LEMMA PreviousTypes ==
  ASSUME shown \in Outputs
  PROVE  \A x \in ToSet(Previous) : x[1] \in Int /\ x[2] \in Int
<1>1. Previous \in Outputs
  <2> DEFINE E == Nat \X Pocs
  <2>1. shown \in Seq(E)
    BY DEF Outputs
  <2> HIDE DEF E
  <2>2. Previous \in Seq(E)
    BY <2>1 DEF Previous, Last
  <2> QED BY <2>2 DEF Outputs, E
<1>2. \A x \in ToSet(Previous) : x \in Nat \X Pocs
  BY <1>1 DEF Outputs, ToSet
<1> QED BY <1>2 DEF Pocs

(* The end of a picture puts it among those that wait, and writes some of   *)
(* them.                                                                    *)
LEMMA NewPictureShows ==
  ASSUME IInv, OutInv, DisplayInv, NewPicture
  PROVE  DisplayInv' /\ Promised!Next
<1> DEFINE e == EndPicture(vtm, FALSE, FALSE)
           s == WriteOutput(e)
           t == [s EXCEPT !.eosInLastPu = s.eosInPu, !.eosInPu = FALSE]
           N == Waits(vtm.dpb) \cup Pending
           gone == Waits(e.dpb) \ Waits(s.dpb)
<1>1. /\ pc = "decoding" /\ ~vtm.firstSliceInPicture /\ Becomes(t, {}) /\ enc' = enc /\ pc' = pc
      /\ IsVtm(vtm) /\ EncOK /\ InBounds
      /\ vtm.written = <<>> /\ shown \in Outputs /\ AllDue /\ Following /\ Counted /\ (enc.start \/ Showing)
      /\ enc.start \in BOOLEAN
  BY DEF NewPicture, IInv, OutInv, DisplayInv, EncOK
<1>2. /\ IsVtm(e) /\ SameReferences(vtm.dpb, e.dpb) /\ e.lastDisplay = vtm.lastDisplay /\ e.firstSliceInPicture
      /\ e.lastNoOutputBeforeRecovery = vtm.lastNoOutputBeforeRecovery
      /\ vtm.firstSliceInSequence \/ vtm.skipped => /\ e.dpb = vtm.dpb /\ e.written = vtm.written
                                                    /\ e.loopFiltered = vtm.loopFiltered
      /\ ~(vtm.firstSliceInSequence \/ vtm.skipped) => e.loopFiltered = FALSE
  <2>1. /\ IsVtm(e) /\ SameReferences(vtm.dpb, e.dpb) /\ e.firstSliceInPicture
    BY <1>1, EndFacts
  <2>2. e.lastDisplay = vtm.lastDisplay
    BY <1>1, EndUses
  <2>3. ASSUME NEW eos \in BOOLEAN, NEW eof \in BOOLEAN
        PROVE  LET r == EndPicture(vtm, eos, eof)
               IN /\ r.lastNoOutputBeforeRecovery = vtm.lastNoOutputBeforeRecovery
                  /\ vtm.firstSliceInSequence \/ vtm.skipped => /\ r.dpb = vtm.dpb /\ r.written = vtm.written
                                                                /\ r.loopFiltered = vtm.loopFiltered
                  /\ ~(vtm.firstSliceInSequence \/ vtm.skipped) => r.loopFiltered = eos
    BY <1>1, EndWaits
  <2> QED BY <2>1, <2>2, <2>3
<1>3. Waits(e.dpb) = N /\ e.written = <<>>
  <2>1. CASE enc.start
    <3>1. vtm.firstSliceInSequence \/ vtm.skipped
      BY <1>1, <2>1 DEF OutInv, Between
    <3>2. Pending = {}
      BY <2>1 DEF Pending
    <3> QED BY <1>1, <1>2, <3>1, <3>2
  <2>2. CASE ~enc.start
    <3>1. ~(vtm.firstSliceInSequence \/ vtm.skipped)
      BY <1>1, <2>2 DEF IInv, Within
    <3>2. vtm.cur.poc \in DOMAIN vtm.dpb /\ ~vtm.dpb[vtm.cur.poc].needed /\ ~(vtm.newClvs /\ vtm.cur.rasl)
      BY <1>1, <2>2 DEF Showing, Waits
    <3>3. /\ Waits(e.dpb) = Waits(vtm.dpb) \cup (IF vtm.cur.out THEN {vtm.cur.poc} ELSE {})
          /\ e.written = vtm.written
      BY <1>1, <3>1, <3>2, EndWaits
    <3> QED BY <1>1, <2>2, <3>3 DEF Pending
  <2> QED BY <2>1, <2>2
<1> HIDE DEF e
<1>4. (\A q \in Waits(e.dpb) : q > e.lastDisplay) /\ Own(e.dpb, enc.cvs) /\ Waits(e.dpb) \subseteq enc.seen
  <2>1. \A q \in Pending : /\ q > vtm.lastDisplay /\ q \in enc.seen
                           /\ q \in DOMAIN vtm.dpb /\ vtm.dpb[q].id = <<enc.cvs, q>>
    <3> SUFFICES ASSUME ~enc.start, vtm.cur.out
                 PROVE  /\ vtm.cur.poc > vtm.lastDisplay /\ vtm.cur.poc \in enc.seen
                        /\ vtm.cur.poc \in DOMAIN vtm.dpb /\ vtm.dpb[vtm.cur.poc].id = <<enc.cvs, vtm.cur.poc>>
      BY DEF Pending
    <3>1. NotAhead /\ Showing
      BY <1>1 DEF OutInv
    <3> QED BY <1>1, <3>1 DEF NotAhead, Showing
  <2>2. \A q \in Waits(vtm.dpb) : /\ q > vtm.lastDisplay /\ q \in enc.seen
                                  /\ q \in DOMAIN vtm.dpb /\ vtm.dpb[q].id = <<enc.cvs, q>>
    BY <1>1 DEF InBounds, Fits, AllDue, Own, Waits
  <2>3. \A q \in DOMAIN vtm.dpb : e.dpb[q].id = vtm.dpb[q].id
    BY <1>2 DEF SameReferences
  <2> QED BY <1>2, <1>3, <2>1, <2>2, <2>3 DEF Own
<1>5. /\ Waits(s.dpb) \subseteq Waits(e.dpb) /\ Own(s.dpb, enc.cvs) /\ Puts(e, s, enc.cvs, gone)
      /\ \A b \in gone : b <= s.lastDisplay /\ \A q \in Waits(s.dpb) : b < q
      /\ gone = {} => s.lastDisplay = e.lastDisplay
  <2>1. enc.cvs \in Nat /\ e.written \in Outputs
    BY <1>1, <1>3 DEF EncOK, Outputs
  <2> QED BY <1>2, <1>4, <2>1, WritePuts
<1>6. IsVtm(s) /\ Untouched(e, s)
  BY <1>2, WriteFacts
<1> HIDE DEF s
<1>7. s.written \in Outputs /\ Ordered(s.written) /\ ToSet(s.written) = Of(enc.cvs, gone)
  BY <1>3, <1>5, PutsFirst
<1>8. /\ DOMAIN t = DOMAIN s /\ t.dpb = s.dpb /\ t.cur = s.cur /\ t.lastDisplay = s.lastDisplay
      /\ t.written = s.written /\ t.eosInLastPu = s.eosInPu /\ t.eosInPu = FALSE
      /\ \A f \in (Flags \ {"eosInPu", "eosInLastPu"}) \cup {"pocRandomAccess"} : t[f] = s[f]
  BY <1>6 DEF IsVtm, Flags
<1> HIDE DEF t
<1>9. \A f \in Flags : t[f] \in BOOLEAN
  BY <1>6, <1>8 DEF IsVtm, Flags
<1>10. IsVtm(t)
  BY <1>6, <1>8, <1>9 DEF IsVtm
<1>11. /\ vtm'.dpb = s.dpb /\ vtm'.lastDisplay = s.lastDisplay /\ vtm'.firstSliceInPicture
       /\ vtm'.loopFiltered = e.loopFiltered /\ vtm'.written = <<>>
       /\ vtm'.lastNoOutputBeforeRecovery = vtm.lastNoOutputBeforeRecovery
  <2>1. /\ vtm'.dpb = t.dpb /\ vtm'.lastDisplay = t.lastDisplay /\ vtm'.written = <<>>
        /\ \A f \in Flags \cup {"pocRandomAccess"} : vtm'[f] = t[f]
    BY <1>1, <1>10, BecomesFacts, BecomesShown, BecomesWritten
  <2> QED BY <1>2, <1>6, <1>8, <2>1 DEF Untouched, Flags
<1>12. due = Of(enc.cvs, Waits(e.dpb)) /\ gone \subseteq Waits(e.dpb) /\ Waits(e.dpb) \ gone = Waits(s.dpb)
  BY <1>1, <1>3, <1>5 DEF AllDue
<1> HIDE DEF N, gone
<1>13. ToSet(s.written) \subseteq due /\ due \ ToSet(s.written) = Of(enc.cvs, Waits(s.dpb))
  BY <1>7, <1>12, OfFacts DEF Of
<1>14. \A x \in ToSet(s.written), y \in due \ ToSet(s.written) : Earlier(x, y)
  BY <1>5, <1>7, <1>13 DEF Of, Earlier
<1>15. /\ Promised!Next /\ due' = Of(enc.cvs, Waits(s.dpb)) /\ shown' \in Outputs
       /\ ToSet(s.written) = {} => ToSet(Previous') = ToSet(Previous)
       /\ ToSet(s.written) # {} => ToSet(Previous') \subseteq ToSet(s.written)
  <2> DEFINE none == {}
  <2>1. /\ none \in SUBSET ((1..MaxPics) \X Pocs) /\ due \cup none = due /\ Becomes(t, none)
        /\ \A x \in none, y \in ToSet(Previous) : Earlier(y, x)
    BY <1>1
  <2>2. none = {}
    OBVIOUS
  <2> HIDE DEF none
  <2>3. /\ Promised!Next /\ due' = (due \cup none) \ ToSet(t.written) /\ shown' \in Outputs
        /\ ToSet(t.written) = {} => ToSet(Previous') = ToSet(Previous)
        /\ ToSet(t.written) # {} => ToSet(Previous') \subseteq ToSet(t.written)
    BY <1>1, <1>7, <1>8, <1>13, <1>14, <2>1, <2>2, Shows
  <2> QED BY <1>8, <1>13, <2>1, <2>3
<1>16. AllDue'
  <2>1. Waits(vtm.dpb)' = Waits(s.dpb) /\ Pending' = {} /\ Own(vtm'.dpb, enc.cvs)
    BY <1>5, <1>11 DEF Waits, Pending
  <2> QED BY <1>1, <1>4, <1>5, <1>15, <2>1 DEF AllDue
<1>17. Following'
  <2> SUFFICES ASSUME NEW x \in ToSet(Previous')
               PROVE  x[1] < enc.cvs \/ (x[1] = enc.cvs /\ x[2] <= s.lastDisplay)
    BY <1>1, <1>11 DEF Following
  <2>1. CASE gone = {}
    <3>1. ToSet(s.written) = {}
      BY <1>7, <2>1 DEF Of
    <3> QED BY <1>1, <1>2, <1>5, <1>15, <2>1, <3>1 DEF Following
  <2>2. CASE gone # {}
    <3>1. x \in Of(enc.cvs, gone)
      BY <1>7, <1>15, <2>2 DEF Of
    <3> QED BY <1>5, <3>1 DEF Of
  <2> QED BY <2>1, <2>2
<1>18. Counted' /\ (enc'.start \/ Showing')
  <2>1. e.loopFiltered => vtm.loopFiltered
    BY <1>1, <1>2 DEF IsVtm, Flags
  <2>2. CASE enc.start
    BY <1>1, <1>11, <2>1, <2>2 DEF Counted
  <2>3. CASE ~enc.start
    <3>1. ~(vtm.firstSliceInSequence \/ vtm.skipped)
      BY <1>1, <2>3 DEF IInv, Within
    <3>2. ~vtm'.loopFiltered
      BY <1>2, <1>11, <3>1
    <3> QED BY <1>1, <1>11, <2>3, <3>2 DEF Counted, Showing
  <2> QED BY <2>2, <2>3
<1> QED BY <1>1, <1>11, <1>15, <1>16, <1>17, <1>18 DEF DisplayInv

(* An EOS does so too, and at the end of the file nothing remains due.      *)
LEMMA EndOfSequenceShows ==
  ASSUME IInv, OutInv, DisplayInv, Oddities = {}, NEW eof \in BOOLEAN, EndOfSequence(eof)
  PROVE  DisplayInv' /\ Promised!Next
<1> DEFINE s == [vtm EXCEPT !.pocRandomAccess = MaxInt, !.eosInPu = TRUE, !.newClvs = TRUE]
           e == EndPicture(s, TRUE, eof)
           t == [e EXCEPT !.firstSliceInPicture = FALSE]
           i == EndIteration(t, eof)
           N == Waits(vtm.dpb) \cup Pending
<1>1. /\ pc = "decoding" /\ Becomes(i, {}) /\ enc' = [enc EXCEPT !.start = TRUE]
      /\ pc' = (IF eof THEN "ended" ELSE pc) /\ IsVtm(vtm) /\ EncOK /\ InBounds
      /\ ~enc.start /\ (~vtm.firstSliceInPicture \/ vtm.skipped) /\ Within /\ NotAhead
      /\ ~(eof /\ enc.lone) /\ ~enc.afterRasl
      /\ vtm.written = <<>> /\ shown \in Outputs /\ AllDue /\ Following /\ Counted /\ Showing
  BY DEF EndOfSequence, IInv, OutInv, DisplayInv
<1>2. /\ DOMAIN s = DOMAIN vtm /\ s.dpb = vtm.dpb /\ s.cur = vtm.cur /\ s.lastDisplay = vtm.lastDisplay
      /\ s.pocRandomAccess = MaxInt /\ s.eosInPu = TRUE /\ s.newClvs = TRUE /\ s.written = <<>>
      /\ \A f \in Flags \ {"eosInPu", "newClvs"} : s[f] = vtm[f]
  BY <1>1 DEF IsVtm, Flags
<1> HIDE DEF s
<1>3. \A f \in Flags : s[f] \in BOOLEAN
  BY <1>1, <1>2 DEF IsVtm, Flags
<1>4. /\ IsVtm(s) /\ s.firstSliceInSequence = FALSE /\ s.skipped = vtm.skipped
      /\ s.listed = vtm.listed /\ s.loopFiltered = vtm.loopFiltered
  BY <1>1, <1>2, <1>3 DEF IsVtm, Flags, Within
<1>5. /\ IsVtm(e) /\ SameReferences(vtm.dpb, e.dpb) /\ e.lastDisplay = vtm.lastDisplay
      /\ vtm.skipped => e.dpb = vtm.dpb /\ e.listed = vtm.listed /\ e.written = <<>>
      /\ /\ ~vtm.skipped /\ (~vtm.loopFiltered \/ ~eof)
         /\ s.cur.poc \in DOMAIN s.dpb /\ ~s.dpb[s.cur.poc].needed /\ ~(s.newClvs /\ s.cur.rasl)
         => /\ Waits(e.dpb) = Waits(s.dpb) \cup (IF s.cur.out THEN {s.cur.poc} ELSE {})
            /\ e.written = <<>> /\ e.listed
  <2>1. ASSUME NEW eos \in BOOLEAN
        PROVE  LET r == EndPicture(s, eos, eof)
               IN /\ IsVtm(r) /\ SameReferences(s.dpb, r.dpb) /\ r.lastDisplay = s.lastDisplay
                  /\ s.skipped => r.dpb = s.dpb /\ r.listed = s.listed /\ r.written = s.written
                  /\ /\ ~(s.firstSliceInSequence \/ s.skipped) /\ (~s.loopFiltered \/ ~eof)
                     /\ s.cur.poc \in DOMAIN s.dpb /\ ~s.dpb[s.cur.poc].needed /\ ~(s.newClvs /\ s.cur.rasl)
                     => /\ Waits(r.dpb) = Waits(s.dpb) \cup (IF s.cur.out THEN {s.cur.poc} ELSE {})
                        /\ r.written = s.written /\ r.listed
    <3> DEFINE r == EndPicture(s, eos, eof)
    <3>1. IsVtm(r) /\ SameReferences(s.dpb, r.dpb)
      BY <1>4, EndFacts
    <3>2. r.lastDisplay = s.lastDisplay /\ (s.skipped => r.dpb = s.dpb /\ r.listed = s.listed)
      BY <1>4, EndUses
    <3>3. /\ s.skipped => r.written = s.written
          /\ /\ ~(s.firstSliceInSequence \/ s.skipped) /\ (~s.loopFiltered \/ ~eof)
             /\ s.cur.poc \in DOMAIN s.dpb /\ ~s.dpb[s.cur.poc].needed /\ ~(s.newClvs /\ s.cur.rasl)
             => /\ Waits(r.dpb) = Waits(s.dpb) \cup (IF s.cur.out THEN {s.cur.poc} ELSE {})
                /\ r.written = s.written /\ r.listed
      BY <1>4, EndWaits
    <3> HIDE DEF r
    <3>4. /\ IsVtm(r) /\ SameReferences(s.dpb, r.dpb) /\ r.lastDisplay = s.lastDisplay
          /\ s.skipped => r.dpb = s.dpb /\ r.listed = s.listed /\ r.written = s.written
      BY <3>1, <3>2, <3>3
    <3> QED BY <3>3, <3>4 DEF r
  <2> QED BY <1>2, <1>4, <2>1
<1>6. /\ Waits(e.dpb) = N /\ e.written = <<>> /\ e.listed
  <2>1. CASE vtm.skipped
    <3>1. Pending = {} /\ vtm.listed
      BY <1>1, <2>1 DEF Pending, Within, NotAhead
    <3> QED BY <1>5, <2>1, <3>1
  <2>2. CASE ~vtm.skipped
    <3>1. ~vtm.firstSliceInPicture /\ (~vtm.loopFiltered \/ ~eof)
      BY <1>1, <2>2 DEF Showing
    <3>2. s.cur.poc \in DOMAIN s.dpb /\ ~s.dpb[s.cur.poc].needed /\ ~(s.newClvs /\ s.cur.rasl)
      BY <1>1, <1>2, <3>1 DEF Showing, Waits
    <3>3. /\ Waits(e.dpb) = Waits(s.dpb) \cup (IF s.cur.out THEN {s.cur.poc} ELSE {})
          /\ e.written = <<>> /\ e.listed
      BY <1>5, <2>2, <3>1, <3>2
    <3> QED BY <1>1, <1>2, <3>1, <3>3 DEF Pending
  <2> QED BY <2>1, <2>2
<1> HIDE DEF e
<1>7. /\ DOMAIN t = DOMAIN e /\ t.dpb = e.dpb /\ t.cur = e.cur /\ t.lastDisplay = e.lastDisplay
      /\ t.firstSliceInPicture = FALSE /\ t.written = e.written
      /\ \A f \in (Flags \ {"firstSliceInPicture"}) \cup {"pocRandomAccess"} : t[f] = e[f]
  BY <1>5 DEF IsVtm, Flags
<1> HIDE DEF t
<1>8. \A f \in Flags : t[f] \in BOOLEAN
  BY <1>5, <1>7 DEF IsVtm
<1>9. /\ IsVtm(t) /\ t.listed /\ t.written = <<>> /\ t.lastDisplay = vtm.lastDisplay /\ Waits(t.dpb) = N
  BY <1>5, <1>6, <1>7, <1>8 DEF IsVtm, Flags
<1>10. (\A q \in N : q > t.lastDisplay) /\ Own(t.dpb, enc.cvs) /\ N \subseteq enc.seen
  <2>1. \A q \in Pending : /\ q > vtm.lastDisplay /\ q \in enc.seen
                           /\ q \in DOMAIN vtm.dpb /\ vtm.dpb[q].id = <<enc.cvs, q>>
    BY <1>1 DEF Pending, NotAhead, Showing
  <2>2. \A q \in Waits(vtm.dpb) : /\ q > vtm.lastDisplay /\ q \in enc.seen
                                  /\ q \in DOMAIN vtm.dpb /\ vtm.dpb[q].id = <<enc.cvs, q>>
    BY <1>1 DEF InBounds, Fits, AllDue, Own, Waits
  <2>3. \A q \in DOMAIN vtm.dpb : t.dpb[q].id = vtm.dpb[q].id
    BY <1>5, <1>7 DEF SameReferences
  <2> QED BY <1>9, <2>1, <2>2, <2>3 DEF Own
<1>11. due = Of(enc.cvs, N) /\ enc.cvs \in Nat /\ t.written \in Outputs
  BY <1>1, <1>9 DEF AllDue, EncOK, Outputs
<1>12. IsVtm(i) /\ Untouched(t, i)
  BY <1>9, IterationFacts
<1>13. vtm'.written = <<>>
  <2> HIDE DEF i
  <2> QED BY <1>1, <1>12, BecomesWritten
<1>14. ASSUME i.written \in Outputs, Ordered(i.written), ToSet(i.written) \subseteq due,
              \A x \in ToSet(i.written), y \in due \ ToSet(i.written) : Earlier(x, y)
       PROVE  /\ Promised!Next /\ due' = due \ ToSet(i.written) /\ shown' \in Outputs
              /\ ToSet(i.written) = {} => ToSet(Previous') = ToSet(Previous)
              /\ ToSet(i.written) # {} => ToSet(Previous') \subseteq ToSet(i.written)
  <2> DEFINE none == {}
  <2> HIDE DEF i
  <2>1. /\ none \in SUBSET ((1..MaxPics) \X Pocs) /\ due \cup none = due /\ Becomes(i, none)
        /\ \A x \in none, y \in ToSet(Previous) : Earlier(y, x)
    BY <1>1
  <2>2. none = {}
    OBVIOUS
  <2> HIDE DEF none
  <2>3. /\ Promised!Next /\ due' = (due \cup none) \ ToSet(i.written) /\ shown' \in Outputs
        /\ ToSet(i.written) = {} => ToSet(Previous') = ToSet(Previous)
        /\ ToSet(i.written) # {} => ToSet(Previous') \subseteq ToSet(i.written)
    BY <1>1, <1>14, <2>1, <2>2, Shows
  <2> QED BY <2>1, <2>3
<1> HIDE DEF N
<1>15. CASE eof
  <2>1. Puts(t, i, enc.cvs, N)
    <3>1. i = EndIteration(t, TRUE)
      BY <1>15
    <3> HIDE DEF i
    <3> QED BY <1>9, <1>10, <1>11, <3>1, LastPuts
  <2> HIDE DEF i
  <2>2. i.written \in Outputs /\ Ordered(i.written) /\ ToSet(i.written) = due
    BY <1>9, <1>11, <2>1, PutsFirst
  <2>3. Promised!Next /\ due' = {} /\ shown' \in Outputs
    BY <1>14, <2>2
  <2> QED BY <1>1, <1>13, <1>15, <2>3 DEF DisplayInv
<1>16. CASE ~eof
  <2> DEFINE gone == Waits(t.dpb) \ Waits(i.dpb)
  <2>1. i = WriteOutput(t)
    BY <1>16 DEF EndIteration
  <2> HIDE DEF i
  <2>2. /\ Waits(i.dpb) \subseteq Waits(t.dpb) /\ Own(i.dpb, enc.cvs) /\ Puts(t, i, enc.cvs, gone)
        /\ \A b \in gone : b <= i.lastDisplay /\ \A q \in Waits(i.dpb) : b < q
        /\ gone = {} => i.lastDisplay = t.lastDisplay
    BY <1>9, <1>10, <1>11, <2>1, WritePuts
  <2>3. gone \subseteq N /\ N \ gone = Waits(i.dpb)
    BY <1>9, <2>2
  <2> HIDE DEF gone
  <2>4. i.written \in Outputs /\ Ordered(i.written) /\ ToSet(i.written) = Of(enc.cvs, gone)
    BY <1>9, <2>2, PutsFirst
  <2>5. ToSet(i.written) \subseteq due /\ due \ ToSet(i.written) = Of(enc.cvs, Waits(i.dpb))
    BY <1>11, <2>3, <2>4, OfFacts DEF Of
  <2>6. \A x \in ToSet(i.written), y \in due \ ToSet(i.written) : Earlier(x, y)
    BY <2>2, <2>4, <2>5 DEF Of, Earlier
  <2>7. /\ Promised!Next /\ due' = Of(enc.cvs, Waits(i.dpb)) /\ shown' \in Outputs
        /\ ToSet(i.written) = {} => ToSet(Previous') = ToSet(Previous)
        /\ ToSet(i.written) # {} => ToSet(Previous') \subseteq ToSet(i.written)
    BY <1>14, <2>4, <2>5, <2>6
  <2>8. vtm'.dpb = i.dpb /\ vtm'.lastDisplay = i.lastDisplay
    BY <1>1, <1>12, BecomesFacts, BecomesShown
  <2>9. enc'.start /\ enc'.cvs = enc.cvs /\ enc'.seen = enc.seen /\ enc'.n = enc.n
    BY <1>1 DEF EncOK
  <2>10. AllDue'
    <3>1. Waits(vtm.dpb)' = Waits(i.dpb) /\ Pending' = {} /\ Own(vtm'.dpb, enc'.cvs)
      BY <2>2, <2>8, <2>9 DEF Waits, Pending
    <3> QED BY <1>9, <1>10, <2>2, <2>7, <2>9, <3>1 DEF AllDue
  <2>11. Following'
    <3> SUFFICES ASSUME NEW x \in ToSet(Previous')
                 PROVE  x[1] < enc.cvs \/ (x[1] = enc.cvs /\ x[2] <= i.lastDisplay)
      BY <2>8, <2>9 DEF Following
    <3>1. CASE gone = {}
      <4>1. ToSet(i.written) = {}
        BY <2>4, <3>1 DEF Of
      <4> QED BY <1>1, <1>9, <2>2, <2>7, <3>1, <4>1 DEF Following
    <3>2. CASE gone # {}
      <4>1. x \in Of(enc.cvs, gone)
        BY <2>4, <2>7, <3>2 DEF Of
      <4> QED BY <2>2, <4>1 DEF Of
    <3> QED BY <3>1, <3>2
  <2>12. Counted'
    <3>1. enc.n \in Nat /\ enc.n > 0
      BY <1>1, <1>11 DEF Counted
    <3> QED BY <1>1, <2>9, <3>1 DEF Counted
  <2> QED BY <1>1, <1>13, <1>16, <2>7, <2>9, <2>10, <2>11, <2>12 DEF DisplayInv
<1> QED BY <1>15, <1>16

(* The picture p, if it is to be shown *)
Chosen(p) == IF MustShow(p) THEN {p.poc} ELSE {}

(* What the stream counts after a picture.                                  *)
LEMMA AfterCounts ==
  ASSUME NEW p, enc' = AfterPicture(p)
  PROVE  /\ enc'.n = enc.n + 1 /\ enc'.start = FALSE /\ enc'.lone = (enc.start /\ enc.n > 0)
         /\ enc'.cvs = IF OpensSequence(p) THEN enc.cvs + 1 ELSE enc.cvs
         /\ enc'.seen = (IF OpensSequence(p) THEN {} ELSE enc.seen) \cup {p.poc}
         /\ enc'.afterRasl = (p.type = "RASL")
         /\ enc'.cra = IF p.type \in {"IDR", "CRA"} THEN p.type = "CRA" ELSE enc.cra
         /\ enc'.opens = IF p.type \in {"IDR", "CRA"} THEN OpensSequence(p) ELSE enc.opens
BY DEF AfterPicture

(* Before the first slice of a sequence all that is due is written, before  *)
(* another slice nothing.                                                   *)
LEMMA BeforeShows ==
  ASSUME IInv, OutInv, DisplayInv, pc = "decoding", vtm.firstSliceInPicture,
         NEW p \in Pictures, Legal(p), NEW s, s = BeforeSlice(vtm, p)
  PROVE  /\ IsVtm(s) /\ s.written \in Outputs /\ Ordered(s.written) /\ Pending = {}
         /\ s.listed = vtm.listed /\ (vtm.listed \/ DOMAIN vtm.dpb = {})
         /\ s.firstSliceInPicture /\ s.skipped = FALSE /\ s.pocRandomAccess = vtm.pocRandomAccess
         /\ s.firstSliceInSequence = vtm.firstSliceInSequence /\ s.loopFiltered = vtm.loopFiltered
         /\ s.lastNoOutputBeforeRecovery = vtm.lastNoOutputBeforeRecovery
         /\ OpensSequence(p) => /\ ToSet(s.written) = due /\ Waits(s.dpb) = {} /\ s.lastDisplay = -MaxInt
                                /\ p.type \in {"IDR", "CRA"} /\ ~RandomAccessSkip(s, p)
         /\ ~OpensSequence(p) => /\ s.written = <<>> /\ s.dpb = vtm.dpb /\ s.lastDisplay = vtm.lastDisplay
                                 /\ ~enc.start /\ Within /\ NotAhead /\ Showing /\ ~s.newClvs
                                 /\ p.type # "IDR" /\ p.poc \notin enc.seen
<1> DEFINE opens == OpensSequence(p)
<1>1. /\ IsVtm(vtm) /\ EncOK /\ InBounds /\ vtm.written = <<>> /\ vtm.written \in Outputs
      /\ IF enc.start THEN Between ELSE NotAhead /\ Within /\ Showing
      /\ AllDue /\ enc.cvs \in Nat
  BY DEF IInv, OutInv, DisplayInv, EncOK, Outputs
<1>2. /\ vtm.listed \/ DOMAIN vtm.dpb = {}
      /\ DOMAIN vtm.dpb = {} => vtm.lastDisplay = -MaxInt
      /\ enc.start => vtm.eosInLastPu \/ DOMAIN vtm.dpb = {}
      /\ ~enc.start => vtm.listed /\ ~vtm.eosInLastPu
  BY <1>1 DEF InBounds, Between, NotAhead, Within
<1>3. Pending = {} /\ due = Of(enc.cvs, Waits(vtm.dpb)) /\ Own(vtm.dpb, enc.cvs)
  BY <1>1 DEF AllDue, Pending
<1>4. /\ IsVtm(s) /\ s.skipped = FALSE /\ (~StartsClvs(vtm, p) => s.dpb = vtm.dpb)
      /\ \A f \in (Flags \ {"skipped", "newClvs"}) \cup {"pocRandomAccess"} : s[f] = vtm[f]
  BY <1>1, BeforeFacts
<1>5. /\ ~StartsClvs(vtm, p) => s.lastDisplay = vtm.lastDisplay
      /\ StartsClvs(vtm, p) => DOMAIN s.dpb = {} /\ s.lastDisplay = -MaxInt
  BY <1>1, <1>2, BeforeUses
<1>6. /\ s.newClvs = (StartsClvs(vtm, p) \/ (vtm.newClvs /\ vtm.eosInLastPu))
      /\ StartsClvs(vtm, p) => Puts(vtm, s, enc.cvs, Waits(vtm.dpb)) /\ Waits(s.dpb) = {}
      /\ ~StartsClvs(vtm, p) => s.written = vtm.written
  <2>1. vtm.listed \/ Waits(vtm.dpb) = {}
    BY <1>2 DEF Waits
  <2> QED BY <1>1, <1>3, <2>1, BeforePuts
<1>7. /\ s.listed = vtm.listed /\ s.firstSliceInPicture /\ s.pocRandomAccess = vtm.pocRandomAccess
      /\ s.firstSliceInSequence = vtm.firstSliceInSequence /\ s.loopFiltered = vtm.loopFiltered
      /\ s.lastNoOutputBeforeRecovery = vtm.lastNoOutputBeforeRecovery
  BY <1>4 DEF Flags
<1>8. <<>> \in Outputs /\ Ordered(<<>>) /\ ToSet(<<>>) = {}
  BY DEF Outputs, Ordered, ToSet
<1>9. opens => p.type \in {"IDR", "CRA"}
  BY DEF OpensSequence
<1>10. ~opens => ~enc.start /\ p.type # "IDR" /\ p.poc \notin enc.seen
  BY <1>1, LegalFacts
<1>11. CASE StartsClvs(vtm, p)
  <2>1. opens
    BY <1>2, <1>10, <1>11 DEF StartsClvs
  <2>2. s.written \in Outputs /\ Ordered(s.written) /\ ToSet(s.written) = due
    BY <1>1, <1>3, <1>6, <1>11, PutsFirst
  <2>3. ~RandomAccessSkip(s, p)
    BY <1>9, <2>1 DEF RandomAccessSkip
  <2> QED BY <1>2, <1>3, <1>4, <1>5, <1>6, <1>7, <1>9, <1>11, <2>1, <2>2, <2>3
<1>12. CASE ~StartsClvs(vtm, p)
  <2>1. CASE opens
    <3>1. DOMAIN vtm.dpb = {}
      BY <1>2, <1>12, <2>1 DEF StartsClvs, OpensSequence
    <3>2. Waits(vtm.dpb) = {} /\ due = {}
      BY <1>3, <3>1 DEF Waits, Of
    <3>3. ~RandomAccessSkip(s, p)
      BY <1>9, <2>1 DEF RandomAccessSkip
    <3> QED BY <1>1, <1>2, <1>3, <1>4, <1>5, <1>6, <1>7, <1>8, <1>9, <1>12, <2>1, <3>1, <3>2, <3>3
  <2>2. CASE ~opens
    <3>1. ~s.newClvs
      BY <1>2, <1>6, <1>10, <1>12, <2>2
    <3> QED BY <1>1, <1>2, <1>3, <1>4, <1>5, <1>6, <1>7, <1>8, <1>10, <1>12, <2>2, <3>1
  <2> QED BY <2>1, <2>2
<1> QED BY <1>11, <1>12

(* A slice: s before it is decoded, t after it                              *)
Sliced(p, s, t) == s = BeforeSlice(vtm, p) /\ t = DecodeSlice(s, p, enc'.cvs)

(* A slice that is decoded or skipped: all that is due now was written, or  *)
(* waits, or is its picture, which will be shown if it must.                *)
LEMMA SliceShows ==
  ASSUME IInv, OutInv, DisplayInv, pc = "decoding", vtm.firstSliceInPicture,
         NEW p \in Pictures, Legal(p), enc' = AfterPicture(p),
         NEW s, NEW t, Sliced(p, s, t)
  PROVE  /\ IsVtm(t) /\ t.written = s.written /\ (t.listed \/ Waits(t.dpb) = {})
         /\ Own(t.dpb, enc'.cvs) /\ Waits(t.dpb) \subseteq enc'.seen /\ p.poc \notin Waits(t.dpb)
         /\ \A q \in Waits(t.dpb) \cup Chosen(p) : q > t.lastDisplay
         /\ t.lastDisplay = s.lastDisplay
         /\ Of(enc'.cvs, Chosen(p)) = (IF MustShow(p) THEN {<<enc'.cvs, p.poc>>} ELSE {})
         /\ due \cup Of(enc'.cvs, Chosen(p)) = ToSet(s.written) \cup Of(enc'.cvs, Waits(t.dpb) \cup Chosen(p))
         /\ \A x \in ToSet(s.written) : x[1] = enc.cvs /\ enc'.cvs = enc.cvs + 1
         /\ t.loopFiltered = vtm.loopFiltered
         /\ enc'.cra /\ ~enc'.opens => ~t.lastNoOutputBeforeRecovery
         /\ RandomAccessSkip(s, p) => /\ t.firstSliceInPicture /\ t.skipped /\ Chosen(p) = {}
                                      /\ ~OpensSequence(p)
         /\ ~RandomAccessSkip(s, p) =>
              /\ ~t.firstSliceInPicture /\ ~t.firstSliceInSequence /\ ~t.skipped
              /\ t.cur.poc = p.poc /\ p.poc \in DOMAIN t.dpb /\ t.dpb[p.poc].id = <<enc'.cvs, p.poc>>
              /\ Chosen(p) = (IF t.cur.out THEN {p.poc} ELSE {})
              /\ t.cur.rasl = (p.type = "RASL") /\ (t.cur.rasl => ~t.newClvs)
<1> DEFINE opens == OpensSequence(p)
           skip == RandomAccessSkip(s, p)
           c == enc'.cvs
<1>1. /\ IsVtm(vtm) /\ EncOK /\ InBounds /\ AllDue /\ IF enc.start THEN TRUE ELSE Showing
      /\ HypotheticalOK
  BY DEF IInv, OutInv, DisplayInv
<1>2. /\ IsVtm(s) /\ s.written \in Outputs /\ Pending = {}
      /\ s.listed = vtm.listed /\ (vtm.listed \/ DOMAIN vtm.dpb = {})
      /\ s.firstSliceInPicture /\ s.skipped = FALSE /\ s.pocRandomAccess = vtm.pocRandomAccess
      /\ s.firstSliceInSequence = vtm.firstSliceInSequence /\ s.loopFiltered = vtm.loopFiltered
      /\ s.lastNoOutputBeforeRecovery = vtm.lastNoOutputBeforeRecovery
      /\ opens => /\ ToSet(s.written) = due /\ Waits(s.dpb) = {} /\ s.lastDisplay = -MaxInt
                  /\ p.type \in {"IDR", "CRA"} /\ ~skip
      /\ ~opens => /\ s.written = <<>> /\ s.dpb = vtm.dpb /\ s.lastDisplay = vtm.lastDisplay
                   /\ ~enc.start /\ Within /\ NotAhead /\ Showing /\ ~s.newClvs
                   /\ p.type # "IDR" /\ p.poc \notin enc.seen
  BY BeforeShows DEF Sliced
<1>3. /\ EncOK' /\ c \in Nat /\ c = (IF opens THEN enc.cvs + 1 ELSE enc.cvs) /\ enc.cvs \in Nat
      /\ enc'.seen = (IF opens THEN {} ELSE enc.seen) \cup {p.poc}
      /\ enc'.cra = (IF p.type \in {"IDR", "CRA"} THEN p.type = "CRA" ELSE enc.cra)
      /\ enc'.opens = (IF p.type \in {"IDR", "CRA"} THEN opens ELSE enc.opens)
      /\ p.poc \in Pocs /\ p.poc \in Nat /\ vtm.lastDisplay \in Int
  <2>1. EncOK'
    BY <1>1, AfterFacts
  <2>2. vtm.lastDisplay \in Int /\ p.poc \in Pocs /\ p.poc \in Nat
    BY <1>1, UsesArePocs DEF Pictures, Pocs
  <2> QED BY <1>1, <2>1, <2>2, AfterCounts DEF EncOK
<1>4. p.poc \notin Waits(s.dpb)
  BY <1>1, <1>2 DEF AllDue
<1>5. /\ t.written = s.written /\ t.newClvs = s.newClvs /\ t.loopFiltered = s.loopFiltered
      /\ t.lastNoOutputBeforeRecovery = (IF p.type = "CRA" THEN NoOutputBeforeRecovery(s, p)
                                         ELSE s.lastNoOutputBeforeRecovery)
      /\ ~skip => /\ Waits(t.dpb) = Waits(s.dpb) /\ (\A q \in Waits(s.dpb) : t.dpb[q].id = s.dpb[q].id)
                  /\ t.cur.rasl = (p.type = "RASL")
                  /\ t.cur.out = (p.out /\ ~(p.type = "RASL" /\ s.lastNoOutputBeforeRecovery))
  BY <1>2, <1>3, <1>4, DecodeWaits DEF Sliced
<1>6. /\ IsVtm(t)
      /\ skip => t.skipped /\ t.dpb = s.dpb /\ t.firstSliceInPicture = s.firstSliceInPicture
      /\ ~skip => /\ ~t.firstSliceInPicture /\ ~t.firstSliceInSequence /\ t.skipped = s.skipped
                  /\ t.cur.poc = p.poc /\ p.poc \in DOMAIN t.dpb /\ t.dpb[p.poc].id = <<c, p.poc>>
  <2>1. t = DecodeSlice(s, p, c)
    BY DEF Sliced
  <2> HIDE DEF c
  <2> DEFINE r == DecodeSlice(s, p, c)
  <2>2. IsVtm(s) /\ c \in Nat
    BY <1>2, <1>3
  <2>3. /\ IsVtm(r)
        /\ RandomAccessSkip(s, p) => r.skipped /\ r.dpb = s.dpb /\ r.firstSliceInPicture = s.firstSliceInPicture
        /\ ~RandomAccessSkip(s, p) =>
             /\ ~r.firstSliceInPicture /\ ~r.firstSliceInSequence /\ r.skipped = s.skipped
             /\ r.cur.poc = p.poc /\ p.poc \in DOMAIN r.dpb /\ r.dpb[p.poc].id = <<c, p.poc>>
    BY <2>2, DecodeFacts
  <2> QED BY <2>1, <2>3
<1>7. t.lastDisplay = s.lastDisplay /\ t.listed = s.listed
  BY <1>2, <1>3 DEF DecodeSlice, IsVtm, Flags, Sliced
<1>8. Waits(t.dpb) = Waits(s.dpb) /\ \A q \in Waits(s.dpb) : t.dpb[q].id = s.dpb[q].id
  BY <1>5, <1>6
<1>9. /\ opens => Waits(t.dpb) = {}
      /\ ~opens => Waits(t.dpb) = Waits(vtm.dpb) /\ Own(t.dpb, c)
  <2>1. ~opens => Own(s.dpb, c)
    BY <1>1, <1>2, <1>3 DEF AllDue
  <2> QED BY <1>2, <1>8, <2>1 DEF Own
<1>10. skip => p.type = "RASL" /\ enc.opens /\ ~opens
  <2> SUFFICES ASSUME skip PROVE p.type = "RASL" /\ enc.opens /\ ~opens
    OBVIOUS
  <2>1. ~opens
    BY <1>2
  <2> QED BY <1>1, <1>2, <2>1, Decodable
<1>11. ~skip /\ p.type = "RASL" => ~enc.opens /\ ~s.lastNoOutputBeforeRecovery
  <2> SUFFICES ASSUME ~skip, p.type = "RASL" PROVE ~enc.opens /\ ~s.lastNoOutputBeforeRecovery
    OBVIOUS
  <2>1. ~opens
    BY <1>2
  <2>2. enc.cra /\ p.poc < enc.irap
    BY <1>1, LegalFacts DEF Leading
  <2>3. ~(vtm.pocRandomAccess # MaxInt /\ p.poc < vtm.pocRandomAccess)
    BY <1>2 DEF RandomAccessSkip
  <2>4. enc.irap \in Nat /\ enc.irap # MaxInt
    BY <1>1, BufferAssumption DEF EncOK, Pocs, MaxInt
  <2>5. ~enc.opens
    BY <1>2, <1>3, <2>1, <2>2, <2>3, <2>4 DEF Within
  <2> QED BY <1>2, <2>1, <2>2, <2>5 DEF Showing
<1>12. /\ skip => Chosen(p) = {}
       /\ ~skip => Chosen(p) = (IF t.cur.out THEN {p.poc} ELSE {})
       /\ \A q \in Chosen(p) : q = p.poc /\ p.out
  BY <1>5, <1>10, <1>11 DEF Chosen, MustShow
<1>13. \A q \in Waits(t.dpb) \cup Chosen(p) : q > t.lastDisplay
  <2>1. CASE opens
    BY <1>2, <1>3, <1>7, <1>9, <1>12, <2>1 DEF MaxInt
  <2>2. CASE ~opens
    <3>1. \A q \in Waits(vtm.dpb) : q > vtm.lastDisplay
      BY <1>1 DEF InBounds, Fits
    <3>2. p.out => p.poc > enc.last
      BY <2>2 DEF Legal
    <3>3. vtm.lastDisplay <= enc.last /\ enc.last \in Int
      BY <1>1, <1>2, <2>2 DEF NotAhead, HypotheticalOK, Pocs
    <3>4. p.out => p.poc > vtm.lastDisplay
      BY <1>3, <3>2, <3>3
    <3> QED BY <1>2, <1>7, <1>9, <1>12, <2>2, <3>1, <3>4
  <2> QED BY <2>1, <2>2
<1>14. Own(t.dpb, c) /\ Waits(t.dpb) \subseteq enc'.seen /\ p.poc \notin Waits(t.dpb)
       /\ (t.listed \/ Waits(t.dpb) = {})
  <2>1. Own(t.dpb, c)
    BY <1>9 DEF Own
  <2>2. Waits(vtm.dpb) \subseteq enc.seen /\ (vtm.listed \/ Waits(vtm.dpb) = {})
    BY <1>1, <1>2 DEF AllDue, Waits
  <2> QED BY <1>2, <1>3, <1>4, <1>7, <1>8, <1>9, <2>1, <2>2
<1>15. due = Of(enc.cvs, Waits(vtm.dpb))
  BY <1>1, <1>2 DEF AllDue
<1>16. due \cup Of(c, Chosen(p)) = ToSet(s.written) \cup Of(c, Waits(t.dpb) \cup Chosen(p))
  <2>1. CASE opens
    BY <1>2, <1>9, <2>1
  <2>2. CASE ~opens
    <3>1. ToSet(s.written) = {}
      BY <1>2, <2>2 DEF ToSet
    <3>2. due = Of(c, Waits(t.dpb))
      BY <1>3, <1>9, <1>15, <2>2
    <3>3. Of(c, Waits(t.dpb)) \cup Of(c, Chosen(p)) = Of(c, Waits(t.dpb) \cup Chosen(p))
      BY DEF Of
    <3> QED BY <3>1, <3>2, <3>3
  <2> QED BY <2>1, <2>2
<1>17. \A x \in ToSet(s.written) : x[1] = enc.cvs /\ c = enc.cvs + 1
  <2>1. CASE opens
    BY <1>2, <1>3, <1>15, <2>1 DEF Of
  <2>2. CASE ~opens
    BY <1>2, <2>2 DEF ToSet
  <2> QED BY <2>1, <2>2
<1>18. Of(c, Chosen(p)) = (IF MustShow(p) THEN {<<c, p.poc>>} ELSE {})
  BY DEF Of, Chosen
<1>19. enc'.cra /\ ~enc'.opens => ~t.lastNoOutputBeforeRecovery
  <2> SUFFICES ASSUME enc'.cra, ~enc'.opens PROVE ~t.lastNoOutputBeforeRecovery
    OBVIOUS
  <2>1. ~opens
    BY <1>2, <1>3
  <2>2. CASE p.type = "CRA"
    BY <1>2, <1>5, <2>1, <2>2 DEF Within, NoOutputBeforeRecovery
  <2>3. CASE p.type # "CRA"
    BY <1>2, <1>3, <1>5, <2>1, <2>3 DEF Showing
  <2> QED BY <2>2, <2>3
<1>20. ~skip => (t.cur.rasl => ~t.newClvs)
  BY <1>2, <1>5
<1> HIDE DEF opens, skip
<1> QED BY <1>2, <1>5, <1>6, <1>7, <1>10, <1>12, <1>13, <1>14, <1>16, <1>17, <1>18, <1>19, <1>20 DEF opens, skip

(* The picture that is to be shown is one of Display's, and comes after     *)
(* what was shown last.                                                     *)
LEMMA SliceTaken ==
  ASSUME IInv, OutInv, DisplayInv, pc = "decoding", vtm.firstSliceInPicture,
         NEW p \in Pictures, Legal(p), enc' = AfterPicture(p),
         NEW taken, taken = Of(enc'.cvs, Chosen(p))
  PROVE  /\ taken \in SUBSET ((1..MaxPics) \X Pocs) /\ (taken = {} \/ \E x : taken = {x})
         /\ \A x \in taken, y \in ToSet(Previous) : Earlier(y, x)
         /\ enc'.n \in 1..MaxPics /\ enc'.cvs \in 1..enc'.n /\ enc.n \in Nat
<1>1. /\ EncOK /\ HypotheticalOK /\ (enc.start \/ NotAhead) /\ Following /\ Counted /\ shown \in Outputs
      /\ IsVtm(vtm)
  BY DEF IInv, OutInv, DisplayInv
<1>2. /\ enc'.n = enc.n + 1 /\ enc'.cvs = (IF OpensSequence(p) THEN enc.cvs + 1 ELSE enc.cvs)
      /\ enc.n < MaxPics /\ p.poc \in Pocs /\ p.poc \in Nat /\ MaxPics \in Nat
      /\ enc.cvs \in Nat /\ enc.n \in Nat /\ enc.cvs <= enc.n /\ (~OpensSequence(p) => enc.cvs > 0)
  <2>1. ~OpensSequence(p) => ~enc.start
    BY <1>1, LegalFacts
  <2>2. enc'.n = enc.n + 1 /\ enc'.cvs = (IF OpensSequence(p) THEN enc.cvs + 1 ELSE enc.cvs)
    BY AfterCounts
  <2>3. enc.n < MaxPics /\ MaxPics \in Nat
    BY BufferAssumption DEF Legal
  <2>4. p.poc \in Pocs /\ p.poc \in Nat
    BY DEF Pictures, Pocs
  <2>5. enc.cvs \in Nat /\ enc.n \in Nat /\ enc.cvs <= enc.n /\ (~enc.start => enc.cvs > 0)
    BY <1>1 DEF EncOK, Counted
  <2> HIDE DEF Pocs
  <2> QED BY <2>1, <2>2, <2>3, <2>4, <2>5
<1>3. enc'.n \in 1..MaxPics /\ enc'.cvs \in 1..enc'.n
  BY <1>2
<1>4. taken = IF MustShow(p) THEN {<<enc'.cvs, p.poc>>} ELSE {}
  BY DEF Of, Chosen
<1>5. taken \in SUBSET ((1..MaxPics) \X Pocs)
  BY <1>2, <1>3, <1>4
<1>6. \A x \in taken, y \in ToSet(Previous) : Earlier(y, x)
  <2> SUFFICES ASSUME MustShow(p), NEW y \in ToSet(Previous) PROVE Earlier(y, <<enc'.cvs, p.poc>>)
    BY <1>4
  <2>1. y[1] \in Int /\ y[2] \in Int
    BY <1>1, PreviousTypes
  <2>2. y[1] < enc.cvs \/ (y[1] = enc.cvs /\ y[2] <= vtm.lastDisplay)
    BY <1>1 DEF Following
  <2>3. CASE OpensSequence(p)
    BY <1>2, <2>1, <2>2, <2>3 DEF Earlier
  <2>4. CASE ~OpensSequence(p)
    <3>1. p.poc > enc.last /\ enc.last \in Int
      BY <1>1, <2>4 DEF Legal, MustShow, HypotheticalOK, Pocs
    <3>2. vtm.lastDisplay <= enc.last /\ vtm.lastDisplay \in Int
      BY <1>1, <2>4, LegalFacts, UsesArePocs DEF NotAhead
    <3>3. y[1] < enc.cvs \/ (y[1] = enc.cvs /\ y[2] < p.poc)
      BY <1>2, <2>1, <2>2, <3>1, <3>2
    <3> QED BY <1>2, <2>4, <3>3 DEF Earlier
  <2> QED BY <2>3, <2>4
<1> QED BY <1>2, <1>3, <1>4, <1>5, <1>6

(* The end of the file: u once the picture ended, i at the end of all       *)
Finished(t, u, i) == u = EndPicture(t, FALSE, TRUE) /\ i = EndIteration(u, TRUE)

(* The last slice of the file: what is due is written to the end.           *)
LEMMA LastSliceShows ==
  ASSUME IInv, OutInv, DisplayInv, pc = "decoding", vtm.firstSliceInPicture,
         NEW p \in Pictures, Legal(p), enc' = AfterPicture(p), ~(enc.start /\ enc.n > 0),
         NEW s, NEW t, Sliced(p, s, t), NEW u, NEW i, Finished(t, u, i),
         NEW taken, taken = Of(enc'.cvs, Chosen(p)), Becomes(i, taken), pc' = "ended"
  PROVE  DisplayInv' /\ Promised!Next
<1> DEFINE c == enc'.cvs
           P == Chosen(p)
<1>1. /\ IsVtm(s) /\ s.written \in Outputs /\ Ordered(s.written)
      /\ Counted /\ (enc.start \/ Showing) /\ shown \in Outputs
  BY BeforeShows DEF DisplayInv, Sliced
<1>2. /\ IsVtm(t) /\ t.written = s.written /\ (t.listed \/ Waits(t.dpb) = {})
      /\ Own(t.dpb, c) /\ p.poc \notin Waits(t.dpb) /\ (\A q \in Waits(t.dpb) \cup P : q > t.lastDisplay)
      /\ due \cup taken = ToSet(s.written) \cup Of(c, Waits(t.dpb) \cup P)
      /\ (\A x \in ToSet(s.written) : x[1] = enc.cvs /\ c = enc.cvs + 1)
      /\ t.loopFiltered = vtm.loopFiltered
      /\ RandomAccessSkip(s, p) => t.skipped /\ P = {}
      /\ ~RandomAccessSkip(s, p) =>
           /\ ~t.firstSliceInSequence /\ ~t.skipped /\ t.cur.poc = p.poc /\ p.poc \in DOMAIN t.dpb
           /\ t.dpb[p.poc].id = <<c, p.poc>> /\ P = (IF t.cur.out THEN {p.poc} ELSE {})
           /\ (t.cur.rasl => ~t.newClvs)
  <2>1. /\ IsVtm(t) /\ t.written = s.written /\ (t.listed \/ Waits(t.dpb) = {})
        /\ Own(t.dpb, enc'.cvs) /\ p.poc \notin Waits(t.dpb)
        /\ \A q \in Waits(t.dpb) \cup Chosen(p) : q > t.lastDisplay
        /\ due \cup Of(enc'.cvs, Chosen(p)) = ToSet(s.written) \cup Of(enc'.cvs, Waits(t.dpb) \cup Chosen(p))
        /\ \A x \in ToSet(s.written) : x[1] = enc.cvs /\ enc'.cvs = enc.cvs + 1
        /\ t.loopFiltered = vtm.loopFiltered
    BY SliceShows
  <2>2. /\ RandomAccessSkip(s, p) => t.skipped /\ Chosen(p) = {}
        /\ ~RandomAccessSkip(s, p) =>
             /\ ~t.firstSliceInSequence /\ ~t.skipped /\ t.cur.poc = p.poc /\ p.poc \in DOMAIN t.dpb
             /\ t.dpb[p.poc].id = <<enc'.cvs, p.poc>> /\ Chosen(p) = (IF t.cur.out THEN {p.poc} ELSE {})
             /\ (t.cur.rasl => ~t.newClvs)
    BY SliceShows
  <2> QED BY <2>1, <2>2
<1>3. /\ taken \in SUBSET ((1..MaxPics) \X Pocs) /\ (taken = {} \/ \E x : taken = {x})
      /\ \A x \in taken, y \in ToSet(Previous) : Earlier(y, x)
      /\ enc'.n \in 1..MaxPics /\ c \in 1..enc'.n /\ enc.n \in Nat
  BY SliceTaken
<1>4. c \in Nat /\ enc.cvs \in Nat
  BY <1>3 DEF IInv, EncOK
<1> HIDE DEF c, P
<1>5. /\ IsVtm(u) /\ SameReferences(t.dpb, u.dpb) /\ u.lastDisplay = t.lastDisplay
      /\ t.skipped => u.dpb = t.dpb /\ u.listed = t.listed /\ u.written = t.written
      /\ /\ ~(t.firstSliceInSequence \/ t.skipped) /\ ~t.loopFiltered
         /\ t.cur.poc \in DOMAIN t.dpb /\ ~t.dpb[t.cur.poc].needed /\ ~(t.newClvs /\ t.cur.rasl)
         => /\ Waits(u.dpb) = Waits(t.dpb) \cup (IF t.cur.out THEN {t.cur.poc} ELSE {})
            /\ u.written = t.written /\ u.listed
  <2>1. ASSUME NEW eos \in BOOLEAN, NEW eof \in BOOLEAN
        PROVE  LET r == EndPicture(t, eos, eof)
               IN /\ IsVtm(r) /\ SameReferences(t.dpb, r.dpb) /\ r.lastDisplay = t.lastDisplay
                  /\ t.skipped => r.dpb = t.dpb /\ r.listed = t.listed /\ r.written = t.written
                  /\ /\ ~(t.firstSliceInSequence \/ t.skipped) /\ ~t.loopFiltered
                     /\ t.cur.poc \in DOMAIN t.dpb /\ ~t.dpb[t.cur.poc].needed /\ ~(t.newClvs /\ t.cur.rasl)
                     => /\ Waits(r.dpb) = Waits(t.dpb) \cup (IF t.cur.out THEN {t.cur.poc} ELSE {})
                        /\ r.written = t.written /\ r.listed
    <3> DEFINE r == EndPicture(t, eos, eof)
    <3>1. IsVtm(r) /\ SameReferences(t.dpb, r.dpb)
      BY <1>2, EndFacts
    <3>2. r.lastDisplay = t.lastDisplay /\ (t.skipped => r.dpb = t.dpb /\ r.listed = t.listed)
      BY <1>2, EndUses
    <3>3. /\ t.skipped => r.written = t.written
          /\ /\ ~(t.firstSliceInSequence \/ t.skipped) /\ (~t.loopFiltered \/ ~eof)
             /\ t.cur.poc \in DOMAIN t.dpb /\ ~t.dpb[t.cur.poc].needed /\ ~(t.newClvs /\ t.cur.rasl)
             => /\ Waits(r.dpb) = Waits(t.dpb) \cup (IF t.cur.out THEN {t.cur.poc} ELSE {})
                /\ r.written = t.written /\ r.listed
      BY <1>2, EndWaits
    <3> HIDE DEF r
    <3>4. /\ IsVtm(r) /\ SameReferences(t.dpb, r.dpb) /\ r.lastDisplay = t.lastDisplay
          /\ t.skipped => r.dpb = t.dpb /\ r.listed = t.listed /\ r.written = t.written
      BY <3>1, <3>2, <3>3
    <3> QED BY <3>3, <3>4 DEF r
  <2> QED BY <2>1 DEF Finished
<1>6. /\ Waits(u.dpb) = Waits(t.dpb) \cup P /\ u.written = s.written /\ (u.listed \/ Waits(u.dpb) = {})
  <2>1. CASE RandomAccessSkip(s, p)
    BY <1>2, <1>5, <2>1
  <2>2. CASE ~RandomAccessSkip(s, p)
    <3>1. ~vtm.loopFiltered
      BY <1>1 DEF Counted, Showing
    <3>2. ~t.dpb[t.cur.poc].needed
      BY <1>2, <2>2 DEF Waits
    <3> QED BY <1>2, <1>5, <2>2, <3>1, <3>2
  <2> QED BY <2>1, <2>2
<1>7. Own(u.dpb, c)
  <2>1. \A q \in DOMAIN t.dpb : u.dpb[q].id = t.dpb[q].id
    BY <1>5 DEF SameReferences
  <2>2. \A q \in Waits(t.dpb) \cup P : q \in DOMAIN t.dpb /\ t.dpb[q].id = <<c, q>>
    <3>1. \A q \in Waits(t.dpb) : q \in DOMAIN t.dpb /\ t.dpb[q].id = <<c, q>>
      BY <1>2 DEF Waits, Own
    <3>2. \A q \in P : q \in DOMAIN t.dpb /\ t.dpb[q].id = <<c, q>>
      BY <1>2
    <3> QED BY <3>1, <3>2
  <2>3. \A q \in Waits(u.dpb) : u.dpb[q].id = <<c, q>>
    BY <1>6, <2>1, <2>2
  <2> QED BY <2>3 DEF Own
<1>8. Puts(u, i, c, Waits(u.dpb))
  BY <1>1, <1>2, <1>4, <1>5, <1>6, <1>7, LastPuts DEF Finished
<1>9. i.written \in Outputs /\ Ordered(i.written) /\ ToSet(i.written) = due \cup taken
  <2>1. ASSUME NEW x \in ToSet(u.written), NEW q \in Waits(u.dpb) PROVE Earlier(x, <<c, q>>)
    <3>1. x[1] = enc.cvs /\ c = enc.cvs + 1
      BY <1>2, <1>6
    <3>2. x[1] < c
      BY <1>4, <3>1
    <3> QED BY <3>2 DEF Earlier
  <2>2. /\ i.written \in Outputs /\ Ordered(i.written)
        /\ ToSet(i.written) = ToSet(u.written) \cup Of(c, Waits(u.dpb))
    <3> DEFINE Q == Waits(u.dpb)
    <3>1. u.written \in Outputs /\ Ordered(u.written) /\ Puts(u, i, c, Q)
          /\ \A x \in ToSet(u.written), q \in Q : Earlier(x, <<c, q>>)
      BY <1>1, <1>6, <1>8, <2>1
    <3> HIDE DEF Q
    <3>2. i.written \in Outputs /\ Ordered(i.written) /\ ToSet(i.written) = ToSet(u.written) \cup Of(c, Q)
      BY <3>1, PutsBehind
    <3> QED BY <3>2 DEF Q
  <2> QED BY <1>2, <1>6, <2>2
<1>10. IsVtm(i)
  <2>1. ASSUME NEW eof \in BOOLEAN PROVE IsVtm(EndIteration(u, eof))
    BY <1>5, IterationFacts
  <2> QED BY <2>1 DEF Finished
<1>11. Promised!Next /\ due' = {} /\ shown' \in Outputs
  <2>1. /\ ToSet(i.written) \subseteq due \cup taken
        /\ \A x \in ToSet(i.written), y \in (due \cup taken) \ ToSet(i.written) : Earlier(x, y)
    BY <1>9
  <2>2. Promised!Next /\ due' = (due \cup taken) \ ToSet(i.written) /\ shown' \in Outputs
    BY <1>1, <1>3, <1>9, <2>1, Shows
  <2> QED BY <1>9, <2>2
<1>12. vtm'.written = <<>>
  BY <1>10, BecomesWritten
<1> QED BY <1>11, <1>12 DEF DisplayInv

(* The end of an iteration that is not the last *)
Passed(t, i) == i = WriteOutput(t)

(* Any other slice: the pictures written come before the one in decoding.   *)
LEMMA SliceGoesOn ==
  ASSUME IInv, OutInv, DisplayInv, pc = "decoding", vtm.firstSliceInPicture,
         NEW p \in Pictures, Legal(p), enc' = AfterPicture(p),
         NEW s, NEW t, Sliced(p, s, t), NEW i, Passed(t, i),
         NEW taken, taken = Of(enc'.cvs, Chosen(p)), Becomes(i, taken), pc' = "decoding", IInv', OutInv'
  PROVE  DisplayInv' /\ Promised!Next
<1> DEFINE c == enc'.cvs
           P == Chosen(p)
           gone == Waits(t.dpb) \ Waits(i.dpb)
<1>1. /\ IsVtm(s) /\ s.written \in Outputs /\ Ordered(s.written)
      /\ Counted /\ (enc.start \/ Showing) /\ shown \in Outputs /\ Following
      /\ OpensSequence(p) \/ s.lastDisplay = vtm.lastDisplay
  BY BeforeShows DEF DisplayInv, Sliced
<1>2. /\ IsVtm(t) /\ t.written = s.written
      /\ Own(t.dpb, c) /\ Waits(t.dpb) \subseteq enc'.seen /\ p.poc \notin Waits(t.dpb)
      /\ (\A q \in Waits(t.dpb) : q > t.lastDisplay) /\ t.lastDisplay = s.lastDisplay
      /\ due \cup taken = ToSet(s.written) \cup Of(c, Waits(t.dpb) \cup P)
      /\ (\A x \in ToSet(s.written) : x[1] = enc.cvs /\ c = enc.cvs + 1)
      /\ t.loopFiltered = vtm.loopFiltered
      /\ enc'.cra /\ ~enc'.opens => ~t.lastNoOutputBeforeRecovery
  <2>1. /\ IsVtm(t) /\ t.written = s.written /\ (t.listed \/ Waits(t.dpb) = {})
        /\ Own(t.dpb, enc'.cvs) /\ p.poc \notin Waits(t.dpb)
        /\ \A q \in Waits(t.dpb) \cup Chosen(p) : q > t.lastDisplay
        /\ due \cup Of(enc'.cvs, Chosen(p)) = ToSet(s.written) \cup Of(enc'.cvs, Waits(t.dpb) \cup Chosen(p))
        /\ \A x \in ToSet(s.written) : x[1] = enc.cvs /\ enc'.cvs = enc.cvs + 1
        /\ t.loopFiltered = vtm.loopFiltered
    BY SliceShows
  <2>2. Waits(t.dpb) \subseteq enc'.seen
    BY SliceShows
  <2>4. t.lastDisplay = s.lastDisplay
    BY <1>1 DEF DecodeSlice, IsVtm, Sliced
  <2>3. enc'.cra /\ ~enc'.opens => ~t.lastNoOutputBeforeRecovery
    BY SliceShows
  <2> QED BY <2>1, <2>2, <2>3, <2>4
<1>3. /\ RandomAccessSkip(s, p) => t.firstSliceInPicture /\ P = {} /\ ~OpensSequence(p)
      /\ ~RandomAccessSkip(s, p) =>
           /\ ~t.firstSliceInPicture /\ t.cur.poc = p.poc /\ p.poc \in DOMAIN t.dpb
           /\ t.dpb[p.poc].id = <<c, p.poc>> /\ P = (IF t.cur.out THEN {p.poc} ELSE {})
           /\ t.cur.rasl = (p.type = "RASL") /\ (t.cur.rasl => ~t.newClvs)
  BY SliceShows
<1>4. /\ taken \in SUBSET ((1..MaxPics) \X Pocs) /\ (taken = {} \/ \E x : taken = {x})
      /\ \A x \in taken, y \in ToSet(Previous) : Earlier(y, x)
      /\ enc'.n \in 1..MaxPics /\ c \in 1..enc'.n /\ enc.n \in Nat
  BY SliceTaken
<1>5. /\ c \in Nat /\ enc.cvs \in Nat /\ ~enc'.start /\ enc'.lone = (enc.start /\ enc.n > 0)
      /\ c = (IF OpensSequence(p) THEN enc.cvs + 1 ELSE enc.cvs) /\ p.poc \in enc'.seen
      /\ enc'.afterRasl = (p.type = "RASL") /\ (~OpensSequence(p) => ~enc.start)
      /\ NotAhead' /\ p.poc \in Nat
  <2>1. EncOK /\ EncOK' /\ p.poc \in Nat
    BY DEF IInv, Pictures, Pocs
  <2>2. ~OpensSequence(p) => ~enc.start
    BY <2>1, LegalFacts
  <2>3. /\ enc'.start = FALSE /\ enc'.lone = (enc.start /\ enc.n > 0)
        /\ c = (IF OpensSequence(p) THEN enc.cvs + 1 ELSE enc.cvs) /\ p.poc \in enc'.seen
        /\ enc'.afterRasl = (p.type = "RASL")
    BY AfterCounts
  <2>4. c \in Nat /\ enc.cvs \in Nat
    BY <2>1 DEF EncOK
  <2>5. NotAhead'
    BY <2>3 DEF OutInv
  <2> QED BY <2>1, <2>2, <2>3, <2>4, <2>5
<1>6. /\ Waits(i.dpb) \subseteq Waits(t.dpb) /\ Own(i.dpb, c) /\ Puts(t, i, c, gone)
      /\ (\A b \in gone : b <= i.lastDisplay /\ \A q \in Waits(i.dpb) : b < q)
      /\ gone = {} => i.lastDisplay = t.lastDisplay
  BY <1>1, <1>2, <1>5, WritePuts DEF Passed
<1>7. IsVtm(i) /\ Untouched(t, i) /\ SameReferences(t.dpb, i.dpb)
  BY <1>2, WriteFacts DEF Passed
<1>8. /\ i.lastNoOutputBeforeRecovery = t.lastNoOutputBeforeRecovery /\ i.loopFiltered = t.loopFiltered
      /\ i.cur = t.cur /\ i.firstSliceInPicture = t.firstSliceInPicture /\ i.newClvs = t.newClvs
  BY <1>7 DEF Untouched, Flags
<1>9. /\ vtm'.dpb = i.dpb /\ vtm'.lastDisplay = i.lastDisplay /\ vtm'.cur = i.cur /\ vtm'.written = <<>>
      /\ \A f \in Flags \cup {"pocRandomAccess"} : vtm'[f] = i[f]
  BY <1>7, BecomesFacts, BecomesShown, BecomesWritten
<1>10. /\ vtm'.dpb = i.dpb /\ vtm'.lastDisplay = i.lastDisplay /\ vtm'.cur = t.cur
       /\ vtm'.firstSliceInPicture = t.firstSliceInPicture /\ vtm'.newClvs = t.newClvs
       /\ vtm'.lastNoOutputBeforeRecovery = t.lastNoOutputBeforeRecovery /\ vtm'.loopFiltered = vtm.loopFiltered
  BY <1>2, <1>8, <1>9 DEF Flags
<1>11. gone \subseteq Waits(t.dpb) /\ Waits(i.dpb) = Waits(t.dpb) \ gone
  BY <1>6
<1> HIDE DEF c, P, gone
<1>12. i.written \in Outputs /\ Ordered(i.written) /\ ToSet(i.written) = ToSet(s.written) \cup Of(c, gone)
  <2>1. ASSUME NEW x \in ToSet(t.written), NEW q \in gone PROVE Earlier(x, <<c, q>>)
    <3>1. x[1] = enc.cvs /\ c = enc.cvs + 1
      BY <1>2
    <3>2. x[1] < c
      BY <1>5, <3>1
    <3> QED BY <3>2 DEF Earlier
  <2>2. t.written \in Outputs /\ Ordered(t.written) /\ Puts(t, i, c, gone)
        /\ \A x \in ToSet(t.written), q \in gone : Earlier(x, <<c, q>>)
    BY <1>1, <1>2, <1>6, <2>1
  <2>3. i.written \in Outputs /\ Ordered(i.written) /\ ToSet(i.written) = ToSet(t.written) \cup Of(c, gone)
    BY <2>2, PutsBehind
  <2> QED BY <1>2, <2>3
<1>13. (due \cup taken) \ ToSet(i.written) = Of(c, Waits(i.dpb) \cup P)
  <2> DEFINE W == Waits(t.dpb) \cup P
  <2>1. W \ gone = Waits(i.dpb) \cup P
    BY <1>2, <1>3, <1>11
  <2>2. \A q \in W : <<c, q>> \notin ToSet(s.written)
    BY <1>2, <1>5
  <2> HIDE DEF W
  <2>3. due \cup taken = ToSet(s.written) \cup Of(c, W)
    BY <1>2 DEF W
  <2>4. (ToSet(s.written) \cup Of(c, W)) \ (ToSet(s.written) \cup Of(c, gone)) = Of(c, W) \ Of(c, gone)
    BY <2>2 DEF Of
  <2>5. Of(c, W) \ Of(c, gone) = Of(c, W \ gone)
    BY DEF Of
  <2> QED BY <1>12, <2>1, <2>3, <2>4, <2>5
<1>14. \A b \in gone, q \in Waits(i.dpb) \cup P : b < q
  <2> SUFFICES ASSUME NEW b \in gone, NEW q \in P PROVE b < q
    BY <1>6
  <2>1. ~RandomAccessSkip(s, p) /\ q = p.poc /\ t.cur.out /\ t.cur.poc = p.poc /\ ~t.firstSliceInPicture
    BY <1>3
  <2>2. p.poc > i.lastDisplay
    BY <1>5, <1>10, <2>1 DEF NotAhead
  <2>3. b <= i.lastDisplay /\ b \in Int /\ i.lastDisplay \in Int
    BY <1>2, <1>6, <1>7, <1>11, UsesArePocs DEF Pocs
  <2> QED BY <1>5, <2>1, <2>2, <2>3
<1>15. \A x \in ToSet(i.written), y \in (due \cup taken) \ ToSet(i.written) : Earlier(x, y)
  <2> SUFFICES ASSUME NEW x \in ToSet(s.written) \cup Of(c, gone), NEW y \in Of(c, Waits(i.dpb) \cup P)
               PROVE  Earlier(x, y)
    BY <1>12, <1>13
  <2>1. PICK q \in Waits(i.dpb) \cup P : y = <<c, q>>
    BY DEF Of
  <2>2. CASE x \in ToSet(s.written)
    <3>1. x[1] < c
      <4>1. x[1] = enc.cvs /\ c = enc.cvs + 1
        BY <1>2, <2>2
      <4> QED BY <1>5, <4>1
    <3> QED BY <2>1, <3>1 DEF Earlier
  <2>3. CASE x \in Of(c, gone)
    <3>1. PICK b \in gone : x = <<c, b>>
      BY <2>3 DEF Of
    <3> QED BY <1>14, <2>1, <3>1 DEF Earlier
  <2> QED BY <2>2, <2>3
<1>16. /\ Promised!Next /\ due' = (due \cup taken) \ ToSet(i.written) /\ shown' \in Outputs
       /\ ToSet(i.written) = {} => ToSet(Previous') = ToSet(Previous)
       /\ ToSet(i.written) # {} => ToSet(Previous') \subseteq ToSet(i.written)
  <2>1. ToSet(i.written) \subseteq due \cup taken
    BY <1>2, <1>11, <1>12 DEF Of
  <2> QED BY <1>1, <1>4, <1>12, <1>15, <2>1, Shows
<1>17. AllDue'
  <2>1. Pending' = P
    <3>1. CASE RandomAccessSkip(s, p)
      BY <1>3, <1>10, <3>1 DEF Pending
    <3>2. CASE ~RandomAccessSkip(s, p)
      BY <1>3, <1>5, <1>10, <3>2 DEF Pending
    <3> QED BY <3>1, <3>2
  <2>2. Waits(vtm.dpb)' = Waits(i.dpb) /\ Own(vtm'.dpb, c)
    BY <1>6, <1>10 DEF Waits
  <2> QED BY <1>2, <1>6, <1>13, <1>16, <2>1, <2>2 DEF AllDue, c
<1>18. Following'
  <2> SUFFICES ASSUME NEW x \in ToSet(Previous')
               PROVE  x[1] < c \/ (x[1] = c /\ x[2] <= i.lastDisplay)
    BY <1>10 DEF Following, c
  <2>1. CASE ToSet(i.written) = {}
    <3>1. gone = {} /\ x \in ToSet(Previous)
      BY <1>12, <1>16, <2>1 DEF Of
    <3>2. x[1] < enc.cvs \/ (x[1] = enc.cvs /\ x[2] <= vtm.lastDisplay)
      BY <1>1, <3>1 DEF Following
    <3>3. x[1] \in Int
      BY <1>1, <3>1, PreviousTypes
    <3>4. CASE OpensSequence(p)
      BY <1>5, <3>2, <3>3, <3>4
    <3>5. CASE ~OpensSequence(p)
      BY <1>1, <1>2, <1>5, <1>6, <3>1, <3>2, <3>5
    <3> QED BY <3>4, <3>5
  <2>2. CASE ToSet(i.written) # {}
    <3>1. x \in ToSet(s.written) \/ x \in Of(c, gone)
      BY <1>12, <1>16, <2>2
    <3>2. CASE x \in ToSet(s.written)
      <4>1. x[1] = enc.cvs /\ c = enc.cvs + 1
        BY <1>2, <3>2
      <4> QED BY <1>5, <4>1
    <3>3. CASE x \in Of(c, gone)
      BY <1>6, <3>3 DEF Of
    <3> QED BY <3>1, <3>2, <3>3
  <2> QED BY <2>1, <2>2
<1>19. Counted'
  BY <1>4, <1>5 DEF Counted, c
<1>20. Showing'
  <2>1. vtm'.loopFiltered => ~vtm'.firstSliceInPicture /\ enc'.lone
    BY <1>1, <1>3, <1>5, <1>10 DEF Showing, Counted
  <2>2. enc'.cra /\ ~enc'.opens => ~vtm'.lastNoOutputBeforeRecovery
    BY <1>2, <1>10
  <2>3. ASSUME ~vtm'.firstSliceInPicture
        PROVE  /\ vtm'.cur.poc \in DOMAIN vtm'.dpb /\ vtm'.cur.poc \notin Waits(vtm.dpb)'
               /\ vtm'.dpb[vtm'.cur.poc].id = <<c, vtm'.cur.poc>> /\ vtm'.cur.poc \in enc'.seen
               /\ vtm'.cur.rasl => enc'.afterRasl /\ ~vtm'.newClvs
    <3>1. ~RandomAccessSkip(s, p)
      BY <1>3, <1>10, <2>3
    <3>2. Waits(vtm.dpb)' = Waits(i.dpb)
      BY <1>10 DEF Waits
    <3>3. p.poc \in DOMAIN i.dpb /\ i.dpb[p.poc].id = t.dpb[p.poc].id
      BY <1>3, <1>7, <3>1 DEF SameReferences
    <3> QED BY <1>2, <1>3, <1>5, <1>6, <1>10, <3>1, <3>2, <3>3
  <2> QED BY <2>1, <2>2, <2>3 DEF Showing, c
<1> QED BY <1>9, <1>16, <1>17, <1>18, <1>19, <1>20 DEF DisplayInv

(* Every slice keeps the promise: the pictures written with it are due, in  *)
(* order and before all that remain.                                        *)
LEMMA DecodePictureShows ==
  ASSUME IInv, OutInv, DisplayInv, Oddities = {}, NEW p \in Pictures, NEW eof \in BOOLEAN,
         DecodePicture(p, eof), IInv', OutInv'
  PROVE  DisplayInv' /\ Promised!Next
<1> DEFINE s == BeforeSlice(vtm, p)
           t == DecodeSlice(s, p, AfterPicture(p).cvs)
           u == IF eof THEN EndPicture(t, FALSE, TRUE) ELSE t
           i == EndIteration(u, eof)
           found == RandomAccessSkip(s, p) \/ RefsAvailable(s, p)
           taken == IF MustShow(p) THEN {<<enc'.cvs, p.poc>>} ELSE {}
<1>1. /\ pc = "decoding" /\ vtm.firstSliceInPicture /\ Legal(p) /\ enc' = AfterPicture(p)
      /\ Becomes(i, taken) /\ pc' = (IF eof THEN "ended" ELSE pc)
  <2>1. /\ pc = "decoding" /\ vtm.firstSliceInPicture /\ Legal(p) /\ enc' = AfterPicture(p)
        /\ Becomes(IF found THEN i ELSE s, taken)
        /\ pc' = (IF ~found THEN "aborted" ELSE IF eof THEN "ended" ELSE pc)
    BY DEF DecodePicture
  <2>2. pc' \in {"decoding", "ended"}
    BY DEF IInv
  <2> HIDE DEF found, i, s
  <2> QED BY <2>1, <2>2
<1>2. eof => ~(enc.start /\ enc.n > 0)
  BY DEF DecodePicture
<1>3. taken = Of(enc'.cvs, Chosen(p))
  BY DEF Of, Chosen
<1>4. Sliced(p, s, t)
  BY <1>1 DEF Sliced
<1>5. (eof => Finished(t, u, i)) /\ (~eof => Passed(t, i))
  BY DEF Finished, Passed, EndIteration
<1> HIDE DEF s, t, u, i, taken
<1>6. CASE eof
  BY <1>1, <1>2, <1>3, <1>4, <1>5, <1>6, LastSliceShows
<1>7. CASE ~eof
  BY <1>1, <1>3, <1>4, <1>5, <1>7, SliceGoesOn
<1> QED BY <1>6, <1>7

(* Nothing is due at first.                                                 *)
LEMMA StartShows == ASSUME Init PROVE DisplayInv /\ Promised!Init
<1>1. /\ vtm.dpb = <<>> /\ vtm.written = <<>> /\ vtm.firstSliceInPicture = TRUE /\ vtm.loopFiltered = FALSE
      /\ due = {} /\ shown = <<>> /\ pc = "decoding"
  BY DEF Init, InitVtm
<1>2. enc.n = 0 /\ enc.cvs = 0 /\ enc.start = TRUE /\ enc.seen = {}
  BY DEF Init, InitEnc
<1>3. Waits(vtm.dpb) = {} /\ Pending = {}
  BY <1>1, <1>2, EmptyBuffer DEF Waits, Pending
<1>4. AllDue
  BY <1>1, <1>3 DEF AllDue, Of, Own
<1>5. Following
  BY <1>1 DEF Following, Previous, ToSet
<1>6. Counted
  BY <1>1, <1>2, BufferAssumption DEF Counted
<1>7. shown \in Outputs
  BY <1>1 DEF Outputs
<1> QED BY <1>1, <1>2, <1>4, <1>5, <1>6, <1>7 DEF DisplayInv, Promised!Init

(* Every step of the decoder is one of Display, or changes nothing there.   *)
LEMMA NextShows ==
  ASSUME IInv, OutInv, DisplayInv, Oddities = {}, [Next]_vars, IInv', OutInv'
  PROVE  DisplayInv' /\ [Promised!Next]_<<due, shown>>
<1>1. CASE NewPicture
  BY <1>1, NewPictureShows
<1>2. ASSUME NEW type \in Types, NEW poc \in Pocs, NEW out \in BOOLEAN, NEW refs \in SUBSET enc.refs,
             NEW eof \in BOOLEAN,
             DecodePicture([type |-> type, poc |-> poc, out |-> out, refs |-> refs], eof)
      PROVE  DisplayInv' /\ Promised!Next
  <2> DEFINE p == [type |-> type, poc |-> poc, out |-> out, refs |-> refs]
  <2>1. p \in Pictures
    BY DEF Pictures, IInv, EncOK
  <2>2. DecodePicture(p, eof)
    BY <1>2
  <2> HIDE DEF p
  <2> QED BY <2>1, <2>2, DecodePictureShows
<1>3. ASSUME NEW eof \in BOOLEAN, EndOfSequence(eof)
      PROVE  DisplayInv' /\ Promised!Next
  BY <1>3, EndOfSequenceShows
<1>4. CASE UNCHANGED vars
  <2>1. vtm' = vtm /\ enc' = enc /\ pc' = pc /\ due' = due /\ shown' = shown
    BY <1>4 DEF vars
  <2>2. DisplayInv'
    BY <2>1 DEF DisplayInv, AllDue, Pending, Own, Waits, Following, Previous, Counted, Showing
  <2> QED BY <2>1, <2>2
<1> QED BY <1>1, <1>2, <1>3, <1>4 DEF Next

(* What holds in every state of a stream without the odd ones.              *)
LEMMA ShowInvariance == ASSUME Oddities = {} PROVE Spec => [](IInv /\ OutInv /\ DisplayInv)
<1>1. Init => IInv /\ OutInv /\ DisplayInv
  BY StartHolds, StartFits, StartShows
<1>2. IInv /\ OutInv /\ DisplayInv /\ [Next]_vars => (IInv /\ OutInv /\ DisplayInv)'
  BY NextKeeps, NextFits, NextShows
<1> QED BY <1>1, <1>2, PTL DEF Spec

(* When decoding ends every picture that had to be shown was: the last      *)
(* flush leaves none behind, whatever the stream reorders, skips or hides.  *)
(* Only the two odd streams lose a picture.                                 *)
THEOREM AllShownHolds == ASSUME Oddities = {} PROVE Spec => []AllShown
<1>1. DisplayInv => AllShown
  BY DEF DisplayInv, AllShown
<1> QED BY <1>1, ShowInvariance, PTL

(* What the decoder writes is what is due, each picture once, in output     *)
(* order, and none after a later one: it implements Display.                *)
THEOREM ImplementsDisplayHolds == ASSUME Oddities = {} PROVE Spec => ImplementsDisplay
<1>1. Init => Promised!Init
  BY StartShows
<1>2. IInv /\ OutInv /\ DisplayInv /\ (IInv /\ OutInv /\ DisplayInv)' /\ [Next]_vars
        => [Promised!Next]_<<due, shown>>
  BY NextShows
<1> QED BY <1>1, <1>2, ShowInvariance, PTL DEF Spec, ImplementsDisplay, Promised!Spec
=============================================================================
