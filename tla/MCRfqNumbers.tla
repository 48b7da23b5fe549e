---------------------------- MODULE MCRfqNumbers ----------------------------
EXTENDS RfqNumbers
CONSTANTS m1, m2, m3, o1, o2
=============================================================================
