------------------------------- MODULE MCPlGen -------------------------------
(* Rounding errors for TLC: a configuration file cannot hold a negative number. *)
EXTENDS PlGen

MCRounding == {-1, 0, 1}
=============================================================================
