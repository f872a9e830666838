---------------------------- MODULE MCEngramDisk ----------------------------
(* Small instances of EngramDisk: ids repeat, are out of order, belong to    *)
(* another rank or to a padded head (-1); a step asks for one table or both. *)
EXTENDS EngramDisk, SequencesExt

Ask(table, ids) == [table |-> table, ids |-> ids]

MCRequests == {<<Ask(1, <<2, 1, 2, 3>>)>>,
               <<Ask(1, <<-1>>), Ask(2, <<4, 2>>)>>}

Sorted(S) == SetToSortSeq(S, <)
=============================================================================
