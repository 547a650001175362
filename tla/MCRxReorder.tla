---------------------------- MODULE MCRxReorder ----------------------------
EXTENDS RxReorder, TLC

MCSymmetry == Permutations(Pkts)
=============================================================================
