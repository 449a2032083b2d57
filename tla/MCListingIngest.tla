-------------------------- MODULE MCListingIngest --------------------------
(* Workers of two processes, whose queries have different labels.          *)
EXTENDS ListingIngest, TLC

CONSTANTS s1, s2, flat, any

MCTwoProcesses == [s \in Sessions |-> s]
MCLabelOf == [s \in Sessions |-> IF s = s1 THEN flat ELSE any]
MCSymmetry == Permutations(Listings) \union Permutations(Prices)
=============================================================================
