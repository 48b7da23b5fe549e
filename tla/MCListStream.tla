---------------------------- MODULE MCListStream ----------------------------
\* The writers and pages of list_stream.cfg.
EXTENDS ListStream
CONSTANTS w1, w2, p1, p2
=============================================================================
