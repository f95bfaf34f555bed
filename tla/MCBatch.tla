------------------------------ MODULE MCBatch -------------------------------
(***************************************************************************)
(* Small instances of Batch: every kind of mutation with up to MaxItems    *)
(* items.                                                                  *)
(***************************************************************************)
EXTENDS Batch

CONSTANTS MaxItems, ItemSizes, Positions

CountKinds == {"head", "tail", "before", "after", "bool"}

MCOperations ==
    {c \in [kind : Kinds, countOnly : BOOLEAN,
            items : BoundedSeq(ItemSizes, MaxItems), pos : Positions,
            header : {1}, ttl : {0, 1}, hint : {0, 1}] :
        /\ c.countOnly => c.kind \in CountKinds
        /\ c.kind # "position" => c.pos = 0
        /\ c.kind \notin CreateKinds => c.ttl = 0}

(* An item takes its bytes wherever it is.                                 *)
MCBytes(items, i, j) == FoldSeq(+, 0, SubSeq(items, i + 1, j))

(* Without the pivot; with it in the middle and at the end; with an item   *)
(* that a call adds or removes.                                            *)
MCStores == {<<>>, <<8, 9, 7>>, <<2, 9>>}
=============================================================================
