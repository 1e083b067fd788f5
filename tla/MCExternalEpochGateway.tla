------------------------- MODULE MCExternalEpochGateway -------------------------
(* Sizes in thousands of characters: 8 is the longest turn there can be, 7 the soft
   trigger, 12 the projection and 20 a summary job. One turn has half the length, so
   that the projection and the job can be filled to the last character. *)
EXTENDS ExternalEpochGateway, TLC

CONSTANT Light

MCSize == [e \in Events |-> IF e = Light THEN 4 ELSE 8]

\* The other events differ in nothing but their name.
MCSymmetry == Permutations(Events \ {Light})
================================================================================
