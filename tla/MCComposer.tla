---------------------------- MODULE MCComposer ----------------------------
(* Small instances of Composer for TLC. *)
EXTENDS Composer
CONSTANT t1
=============================================================================
