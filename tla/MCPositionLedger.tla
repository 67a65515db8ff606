-------------------------- MODULE MCPositionLedger --------------------------
(***************************************************************************)
(* Two small instances of PositionLedger in one run of TLC.  The first     *)
(* follows the ledger: three rows, two prices and two days, no keys, the   *)
(* item never edited.  The second follows the item: edits, context updates *)
(* and keys, imports of two rows, one day.  The constants of the cfg are   *)
(* the union of the two, so every property is that of PositionLedger.      *)
(***************************************************************************)
EXTENDS PositionLedger

VARIABLE regime      \* the instance a behaviour belongs to

AllEdits == {<<0, 0>>, <<2, 1>>}

LedgerFirst ==
    INSTANCE PositionLedger WITH
        Keys <- {}, Edits <- {<<0, 0>>}, Trackings <- {"NONE"}, Positions <- {}, MaxImport <- 1

ItemFirst ==
    INSTANCE PositionLedger WITH
        Prices <- {2}, Trackings <- {"REENTRY_WATCH"}, MaxTime <- 1

MCInit ==
    \/ regime = "ledger" /\ LedgerFirst!Init
    \/ regime = "item" /\ ItemFirst!Init

MCNext ==
    \/ regime = "ledger" /\ LedgerFirst!Next /\ UNCHANGED regime
    \/ regime = "item" /\ ItemFirst!Next /\ UNCHANGED regime

MCSpec == MCInit /\ [][MCNext]_<<vars, regime>>
=============================================================================
