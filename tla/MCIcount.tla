------------------------------- MODULE MCIcount -------------------------------
(***************************************************************************)
(* Three instructions under test; a crash after one, after the last, and     *)
(* never.                                                                   *)
(***************************************************************************)
EXTENDS Icount
===============================================================================
