------------------------------- MODULE Tables -------------------------------
(***************************************************************************)
(* What code works out about a customer's table before a model is asked:   *)
(* the header rows, the tables under them, what each column holds          *)
(* (services/extraction/table.py).                                         *)
(*                                                                         *)
(* A grid is a sequence of rows of one width, a row a sequence of cells.   *)
(* A cell knows what the code's patterns tell apart: blank, one of the     *)
(* words of a heading, a value that starts with digits, or anything else.  *)
(***************************************************************************)
EXTENDS Integers, Sequences, FiniteSets, FiniteSetsExt, SequencesExt, Functions, Orders

CONSTANTS
  MinHits,   \* MIN_HEADER_HITS
  MaxScan    \* MAX_HEADER_SCAN_ROWS

ASSUME ScanIsANumber == MinHits \in Nat \ {0} /\ MaxScan \in Nat \ {0}

\* A list of rows, each a list of cells.
IsGrid(rows) == IsList(rows) /\ \A row \in Range(rows) : IsList(row)

BlankCell == [is |-> "blank", says |-> ""]

IsFilled(cell) == cell.is # "blank"

Columns(grid) == IF grid = <<>> THEN {} ELSE DOMAIN grid[1]

\* _filled_in: how many of these columns a row fills.
FilledIn(row, columns) == Cardinality({c \in columns : IsFilled(row[c])})

HeaderHits(row) == Cardinality({c \in DOMAIN row : row[c].is = "head"})

\* _header_rows: near the top, or below one that is.
HeaderRows(grid) ==
  LET reads(i) == HeaderHits(grid[i]) >= MinHits
  IN {i \in DOMAIN grid :
        /\ reads(i)
        /\ i <= MaxScan \/ \E above \in 1..Min({i - 1, MaxScan}) : reads(above)}

\* _table_columns: the unbroken run of headings around the recognised ones; the
\* whole row when it was only guessed to be a header.
TableColumns(header) ==
  LET recognised == {c \in DOMAIN header : header[c].is = "head"}
      filled(first, last) == \A c \in first..last : IsFilled(header[c])
  IN {c \in DOMAIN header :
        /\ IsFilled(header[c])
        /\ recognised # {} =>
             IF c < Min(recognised) THEN filled(c, Min(recognised))
             ELSE filled(Max(recognised), c)}

\* _is_tail_noise: blank, or too thin for a table whose items are not.
IsTailNoise(row, headed, rich) ==
  FilledIn(row, headed) = 0 \/ (rich /\ FilledIn(row, headed) < 2)

\* Faulty: a table that ends at its first blank row.
BlockToTheGap(grid, header, endsBefore) ==
  LET headed == TableColumns(grid[header])
      full(r) == FilledIn(grid[r], headed) > 0
      kept == {r \in header + 1..endsBefore - 1 : \A above \in header + 1..r : full(above)}
  IN IF headed = {} \/ kept = {} THEN <<>>
     ELSE <<[grid |-> grid, header |-> header, last |-> Max(kept), columns |-> headed]>>

\* _block: the table under a header, or none when nothing is left under it.
Block(grid, header, endsBefore) ==
  LET headed == TableColumns(grid[header])
      under == header + 1..endsBefore - 1
      rich == \E r \in under : FilledIn(grid[r], headed) >= 2
      kept == {r \in under : ~IsTailNoise(grid[r], headed, rich)}
  IN IF headed = {} \/ kept = {} THEN <<>>
     ELSE <<[grid |-> grid, header |-> header, last |-> Max(kept), columns |-> headed]>>

\* find_blocks: every table of a grid, in order.
FindBlocks(grid) ==
  LET starts == InOrder(HeaderRows(grid))
      ends(k) == IF k < Len(starts) THEN starts[k + 1] ELSE Len(grid) + 1
  IN FlattenSeq([k \in DOMAIN starts |-> Block(grid, starts[k], ends(k))])

\* block_at: the table under a row the model named, whatever the words in it.
BlockAt(grid, header) ==
  IF header \notin 1..Len(grid) - 1 THEN <<>>
  ELSE Block(grid, header,
             Min({Len(grid) + 1} \cup {h \in HeaderRows(grid) : h > header}))

DataRows(block) == block.header + 1..block.last

\* ColumnProfile, as much of it as decides anything.
Values(block, column) == {r \in DataRows(block) : IsFilled(block.grid[r][column])}

Numeric(block, column) == {r \in DataRows(block) : block.grid[r][column].is = "number"}

-----------------------------------------------------------------------------
\* Properties

\* "Reading only the first would drop half the RFQ": the tables of a grid do not
\* overlap, and a row under a header that fills two of its columns - a code and a
\* description, a description and a quantity - is inside the table, whatever
\* stands above, between and below the tables.
IsWhole(grid) ==
  LET blocks == FindBlocks(grid)
  IN /\ \A i, j \in DOMAIN blocks : i < j => blocks[i].last < blocks[j].header
     /\ \A h \in HeaderRows(grid) : \A r \in h + 1..Len(grid) :
          (/\ FilledIn(grid[r], TableColumns(grid[h])) >= 2
           /\ ~ \E next \in HeaderRows(grid) : h < next /\ next <= r)
          => \E b \in Range(blocks) : b.header = h /\ r \in DataRows(b)
     /\ \A b \in Range(blocks) : FilledIn(grid[b.last], b.columns) > 0
=============================================================================
