--------------------------- MODULE MCMultiRunFile ---------------------------
(***************************************************************************)
(* An instance of MultiRunFile and FileCrash.                              *)
(***************************************************************************)
EXTENDS FileCrash

(* 0 is a key too: the padding must not be told from keys by its value. *)
MCPayloads == {<<0>>, <<1, 0>>}
=============================================================================
