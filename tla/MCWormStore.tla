------------------------------ MODULE MCWormStore ------------------------------
(***************************************************************************)
(* Small instances of WormStore for TLC.                                   *)
(***************************************************************************)
EXTENDS WormStoreProperties, TLC

CONSTANTS c1, c2, e1

TwoCalls == {c1, c2}
OneEvent == {e1}

BothLayouts == {"cos-plus", "migrations"}

AllKinds    == {"prune", "prune_expired", "enforce", "remove"}

================================================================================
