----------------------------- MODULE MCBoxBoard -----------------------------
EXTENDS BoxBoard, TLC

ColorSymmetry == Permutations(Colors)
=============================================================================
