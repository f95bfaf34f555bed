------------------------------ MODULE MCSplit -------------------------------
(***************************************************************************)
(* Small instances of Split: every list of at most MaxItems items of the   *)
(* sizes in ItemSizes, behind headers of the sizes in HeaderSizes.         *)
(***************************************************************************)
EXTENDS Split, SequencesExt

CONSTANTS MaxItems, ItemSizes, HeaderSizes

MCInputs == [header : HeaderSizes, items : BoundedSeq(ItemSizes, MaxItems)]
MCNumItems(r) == Len(r.items)
MCSize(r, i, j) == FoldSeq(+, r.header, SubSeq(r.items, i + 1, j))

=============================================================================
