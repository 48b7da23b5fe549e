-------------------------- MODULE MCCatalogRefresh --------------------------
(* The sheet is published, emptied for a moment, and published again.       *)
EXTENDS CatalogRefresh

MCRevisions == 0 .. 2
MCUsable == {0, 2}
=============================================================================
