----------------------------- MODULE MCGraphLib -----------------------------
(***************************************************************************)
(* Three nodes under two names, so that names are reused after a removal,  *)
(* and two edges between them.                                             *)
(***************************************************************************)
EXTENDS GraphLib

MCPortIds == {0, 1}
=============================================================================
