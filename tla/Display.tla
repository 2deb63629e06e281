------------------------------- MODULE Display -------------------------------
(* What the decoder promises of its output: every picture that is due is    *)
(* shown, sequence by sequence and in increasing picture order count.       *)
EXTENDS Integers, Sequences, FiniteSets, SequencesExt

CONSTANT Pics           \* the pictures <<sequence, POC>>

VARIABLES due,          \* the pictures still to show
          shown         \* the picture shown last, then those of the latest step

Before(a, b) == a[1] < b[1] \/ (a[1] = b[1] /\ a[2] < b[2])

Previous == IF shown = <<>> THEN <<>> ELSE <<Last(shown)>>

Init == due = {} /\ shown = <<>>

InOrder(S) == {seq \in [1..Cardinality(S) -> S] : \A i, j \in DOMAIN seq : i < j => Before(seq[i], seq[j])}

(* Take the pictures of New, none of which is late, and show the first ones *)
Step(New, S) ==
  /\ due' = (due \cup New) \ S
  /\ \A x \in New, p \in ToSet(Previous) : Before(p, x)
  /\ \A x \in S, y \in (due \cup New) \ S : Before(x, y)
  /\ \E out \in InOrder(S) : shown' = Previous \o out

Next == \E New \in {{}} \cup {{x} : x \in Pics} : \E S \in SUBSET (due \cup New) : Step(New, S)

Spec == Init /\ [][Next]_<<due, shown>>
=============================================================================
