------------------------ MODULE MCExternalMergeSort ------------------------
(* Every raw file of up to six keys, and one of eight: with a block of one   *)
(* that is more segments than the metadata table of three slots has room for. *)
EXTENDS ExternalMergeSort

EightKeys == <<2, 1, 2, 3, 1, 2, 1, 1>>
UpToSixKeys == UNION {[1..n -> 1..2] : n \in 0..6} \cup {EightKeys}
=============================================================================
