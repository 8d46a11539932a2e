--------------------------- MODULE MCEvidenceBuilder ---------------------------
(***************************************************************************)
(* Small instances of the builder for TLC.                                 *)
(***************************************************************************)
EXTENDS EvidenceBuilderProperties, TLC

CONSTANTS c1, c2

TwoCalls == {c1, c2}

Symmetry == Permutations(TwoCalls)

================================================================================
