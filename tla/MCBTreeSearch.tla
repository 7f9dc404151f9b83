----------------------------- MODULE MCBTreeSearch -----------------------------
EXTENDS BTreeSearch

ThreeKeys == 1 .. 3
SmallFits == 1 .. 8
================================================================================
