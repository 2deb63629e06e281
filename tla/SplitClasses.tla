---------------------------- MODULE SplitClasses ----------------------------
(***************************************************************************)
(* The decision of the learned partition policy on one coding unit: which  *)
(* of the six classes (no split, quad, two binary and two ternary splits)  *)
(* the search must not test.  Probabilities and thresholds are abstracted  *)
(* to the set of classes whose probability reaches its threshold.          *)
(***************************************************************************)
EXTENDS FiniteSets, Integers

Splits  == {"QUAD", "HORZ", "VERT", "TRIH", "TRIV"}
Classes == Splits \cup {"DONT"}

(* xFastPartitionGetAllowedClasses after inference: the legal classes that *)
(* reach their threshold, or all of them when none does                    *)
AllowedMutant(legal, reached) == legal \cap reached
Allowed(legal, reached) == IF legal \cap reached = {} THEN legal ELSE legal \cap reached

(* The decision is installed only when it rejects a legal class *)
Enforced(legal, reached) == Cardinality(legal) > 1 /\ legal \ Allowed(legal, reached) # {}

(* initCULevel: ComprCUCtx::fastPartitionRejected.  An enforced decision    *)
(* marks the illegal classes too.                                          *)
Rejected(legal, reached) ==
  IF Enforced(legal, reached) THEN Classes \ Allowed(legal, reached) ELSE {}
=============================================================================
