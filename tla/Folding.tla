------------------------------- MODULE Folding -------------------------------
(***************************************************************************)
(* Loops over a sequence, with the step a function and the condition a set *)
(* rather than operators, so that lemmas about them can be cited wherever  *)
(* they are used (FoldingProofs).                                          *)
(***************************************************************************)
EXTENDS Naturals, SequencesExt

\* What the elements of a sequence make of base, one after another.
Folded(step, base, seq) ==
    LET folded[n \in 0 .. Len(seq)] ==
            IF n = 0 THEN base ELSE step[folded[n - 1]][seq[n]]
    IN  folded[Len(seq)]

\* The elements of a sequence that are in a set, in their order.
Those(seq, set) ==
    Folded([kept \in Seq(ToSet(seq)) |->
               [e \in ToSet(seq) |-> IF e \in set THEN Append(kept, e) ELSE kept]], <<>>, seq)

\* The sequences of a sequence one after another.
Joined(seqs) ==
    LET all == UNION {ToSet(seqs[i]) : i \in DOMAIN seqs}
    IN  Folded([joined \in Seq(all) |-> [s \in ToSet(seqs) |-> joined \o s]], <<>>, seqs)
==============================================================================
