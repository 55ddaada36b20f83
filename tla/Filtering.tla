----------------------------- MODULE Filtering -----------------------------
(* Array.filter: the elements that are in kept, in their order.  A fold, so   *)
(* that it can be reasoned about; SelectSeq is opaque to the proof system.    *)
EXTENDS Sequences, SequencesExt

Filtered(seq, kept) ==
    FoldLeft(LAMBDA out, x : IF x \in kept THEN Append(out, x) ELSE out, <<>>, seq)
=============================================================================
