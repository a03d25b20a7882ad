------------------------------ MODULE MCTalloc ------------------------------
(***************************************************************************)
(* Talloc with four blocks of memory and all calls: enough for a chunk     *)
(* with a child that is referenced from a sibling or from below, and for   *)
(* freed memory to be handed out again.  With five blocks, two children of *)
(* one chunk can refer to each other, and the owner of a chunk can have a  *)
(* reference to one of two chunks below it; clients then only build trees, *)
(* set destructors, make references and free.  One chunk at a time has a   *)
(* destructor.                                                             *)
(***************************************************************************)
EXTENDS Talloc
=============================================================================
