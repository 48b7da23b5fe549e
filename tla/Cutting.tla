------------------------------- MODULE Cutting -------------------------------
(***************************************************************************)
(* One grid cut up into its tables by find_blocks                          *)
(* (services/extraction/table.py).  Nothing moves: it is every grid that   *)
(* is of interest.                                                         *)
(***************************************************************************)
EXTENDS Tables

CONSTANT Grids     \* the grids that may come

VARIABLE grid

ASSUME GridsAreGrids == \A rows \in Grids : IsGrid(rows)

CuttingInit == grid \in Grids

CuttingSpec == CuttingInit /\ [][FALSE]_grid

\* No grid to cut up: the value of a program that is doing something else.
NothingToCut == grid = <<>>

\* find_blocks loses nothing, whatever the grid (IsWhole in Tables).
TablesAreWhole == IsWhole(grid)
=============================================================================
