----------------------------- MODULE MCScatter -----------------------------
(***************************************************************************)
(* Instance of Scatter for TLC: every batch of up to five entries on up to *)
(* four processors.                                                        *)
(***************************************************************************)
EXTENDS Scatter
=============================================================================
