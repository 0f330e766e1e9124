---------------------- MODULE PairExtractionRefinement ----------------------
(***************************************************************************)
(* PairExtraction implements PairSharing: the multi-gates still to be      *)
(* rewritten count as rewritten from the moment the new gate exists.       *)
(***************************************************************************)
EXTENDS PairExtraction

\* The inputs of the multi-gates of the phase once the replacement under way
\* is complete.
InputsAfterReplacement ==
  [g \in OfPhase |-> IF g \in pending THEN Rest(g) \cup {newGate} ELSE Inputs(g)]

Sharing == INSTANCE PairSharing
  WITH inputs <- InputsAfterReplacement, used <- DOMAIN made

\* Whatever is stale in the lists, each turn of the loop that makes a gate is
\* one atomic sharing step, served in at least half as many multi-gates as the
\* most frequent pair is in; all other steps only prepare or repair lists; and
\* sharing steps follow as long as one is possible.
ImplementsSharing == Sharing!Spec
=============================================================================
