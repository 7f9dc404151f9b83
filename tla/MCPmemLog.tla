------------------------------- MODULE MCPmemLog -------------------------------
(***************************************************************************)
(* A small log for TLC.                                                      *)
(***************************************************************************)
EXTENDS PmemLog

CONSTANTS t1, t2, x, y

ShortRecords == {<<>>, <<x>>, <<y>>, <<x, y>>}
================================================================================
