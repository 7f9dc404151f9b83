-------------------------------- MODULE MCBasic --------------------------------
(***************************************************************************)
(* A file of two pages of two lines of two bytes.  An empty string comes     *)
(* first, so that the next one starts in the middle of a line and of a page, *)
(* and there is one that the file has no room for.                          *)
(***************************************************************************)
EXTENDS Basic

Greeting == <<1, 0>>
TooLong  == [k \in 1 .. 9 |-> IF k = 9 THEN 0 ELSE 1]
Strings  == {<<>>, <<<<0>>, <<1, 0>>>>, <<<<1, 0>>, <<1, 1, 1, 0>>>>, <<TooLong>>}
BothFlags == {"none", "data"}
================================================================================
