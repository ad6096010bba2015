------------------------------ MODULE SeqFold ------------------------------
(***************************************************************************)
(* The two folds over sequences that the models with proofs use, on top of *)
(* the community module Folds.  SequencesExt has them too, but a proof     *)
(* about a module that extends it carries all of its definitions in every  *)
(* obligation, which makes the proofs of Segments eight times as slow.     *)
(***************************************************************************)
EXTENDS Naturals, Sequences, FiniteSetsExt

\* op(... op(op(base, seq[1]), seq[2]) ..., seq[Len(seq)])
FoldLeft(op(_, _), base, seq) ==
  MapThenFoldSet(LAMBDA x, acc : op(acc, x), base, LAMBDA i : seq[i], Max, DOMAIN seq)

\* The sequences one after the other.
Concat(seqs) == FoldLeft(LAMBDA s, t : s \o t, <<>>, seqs)
=============================================================================
