--------------------------- MODULE MCExternalEpochV3 ---------------------------
(* A small epoch: soft trigger, job size, caps and attempts scaled down together,
   one event whose turn alone passes the soft character trigger. *)
EXTENDS ExternalEpochV3

CONSTANTS Heavy

MCSize == [e \in Events |-> IF e = Heavy THEN 4 ELSE 1]
================================================================================
