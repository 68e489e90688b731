------------------------------- MODULE MCHeap -------------------------------
(***************************************************************************)
(* Heap on a small memory: units of 3 bytes, an arena that grows by two    *)
(* units at a time, words of 16 bits.                                      *)
(***************************************************************************)
EXTENDS Heap, TLC

CONSTANTS b1, b2, b3

TwoBlocks   == {b1, b2}
ThreeBlocks == {b1, b2, b3}

BlockSymmetry == Permutations(Tags)

SmallSizes == {1, 6}           \* blocks of two and of three units
WideSizes  == {1, 6, 12}       \* and of five: more than two of the smallest
SoundSizes == {1, 12}
Resizes2   == {4, 9}           \* of three and of four
PairItem   == {<<2, 2>>}
NoSizes    == {}
NoItems    == {}

\* Both instances are of the kind that the theorems of HeapProofs are about.
ASSUME InstanceIsFrugal == Frugal
=============================================================================
