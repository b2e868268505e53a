----------------------------- MODULE MCAttachment -----------------------------
(***************************************************************************)
(* Instances of AttachmentProtocol for TLC.                                *)
(***************************************************************************)
EXTENDS AttachmentProtocol, TLC

CONSTANTS a1, a2, w1, w2

OneProcess == [w \in Workers |-> 1]

LaneSymmetry       == Permutations(Workers)
AttachmentSymmetry == Permutations(Attachments)
=============================================================================
