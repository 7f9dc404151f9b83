-------------------------------- MODULE MCBTree --------------------------------
(***************************************************************************)
(* Small trees for TLC: three keys, of which one may be there several times,  *)
(* or two keys, both of them often, and a third that is never there.        *)
(***************************************************************************)
EXTENDS BTree

ThreeKeys == 1 .. 3
FewBags   == {<<1, 6, 1>>, <<4, 0, 6>>}
================================================================================
