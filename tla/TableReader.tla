---------------------------- MODULE TableReader ----------------------------
(***************************************************************************)
(* pane_read (server/compact/reader.mjs): a text is read in slices, a      *)
(* table in pages of whole rows that fit a budget of characters, each page *)
(* naming the place where the next one begins; a summary counts a column.  *)
(* The page does not change between the reads of one behaviour.            *)
(*                                                                         *)
(* A row is [shown, cells, chars, value]: how many cells it has, how long  *)
(* it is as JSON, and the number in the summarised column, or <<>>.        *)
(***************************************************************************)
EXTENDS Integers, Sequences, SequencesExt, FiniteSets, FiniteSetsExt

CONSTANTS Tables,       \* sequences of rows
          Headers,      \* [cells, chars]
          Texts,        \* lengths of texts
          Limits,       \* the limits that are asked for
          Budget,       \* 12000 characters
          MaxColumns,   \* 100
          MaxRows,      \* 10000
          MaxAnswer,    \* 24576 bytes of the whole answer
          MaxSum,       \* the largest finite number
          Wide          \* bytes of a character at most
ASSUME ReaderAssumption == {Budget, MaxColumns, MaxRows, MaxAnswer, MaxSum, Wide} \subseteq Nat

VARIABLES source,    \* what is read: a table with its header, or a text
          reading    \* the reader that follows "next", and the page it has last
readerVars == <<source, reading>>

NotAsked == [mode |-> "none", rows |-> <<>>, next |-> -1, total |-> 0, error |-> "none"]
ReaderInit ==
  /\ source \in [mode : {"table", "summary"}, rows : Tables, header : Headers, length : {0}, wide : {1, Wide}]
        \cup [mode : {"text"}, rows : {<<>>}, header : Headers, length : Texts, wide : {1, Wide}]
  /\ reading = [at |-> 0, got |-> <<>>, page |-> NotAsked, done |-> FALSE]
-----------------------------------------------------------------------------
\* The places of the visible rows, counted from 1.
Visible == SelectSeq([i \in DOMAIN source.rows |-> i], LAMBDA i : source.rows[i].shown)
TableRow(i) == source.rows[Visible[i]]
Refused(code) == [NotAsked EXCEPT !.error = code]
Cost(from, to) == MapThenSumSet(LAMBDA i : TableRow(i).chars, from..to)

\* Mutant of Fits: the header is not counted.
FitsRows(from, to) == Cost(from, to) <= Budget
Fits(from, to) == source.header.chars + Cost(from, to) <= Budget

\* Mutant of Following: the row that did not fit is passed over.
FollowingSkips(offset, taken) == offset + taken + 1
Following(offset, taken) == offset + taken
\* A page: the rows after offset that fit, at most limit of them.  A row that is
\* too wide spoils the page, unless it comes after one that did not fit.
TablePage(offset, limit) ==
  LET last == Min({offset + limit, Len(Visible)})
      stops == {i \in offset+1..last : TableRow(i).cells > MaxColumns \/ ~Fits(offset + 1, i)}
      end == IF stops = {} THEN last ELSE Min(stops) - 1
      taken == Max({end - offset, 0})
  IN IF Len(source.rows) > MaxRows THEN Refused("TABLE_LIMIT")
     ELSE IF source.header.cells > MaxColumns THEN Refused("COLUMN_LIMIT")
     ELSE IF source.header.chars > Budget THEN Refused("READ_LIMIT")
     ELSE IF stops # {} /\ TableRow(end + 1).cells > MaxColumns THEN Refused("COLUMN_LIMIT")
     ELSE IF stops # {} /\ taken = 0 THEN Refused("READ_LIMIT")
     ELSE [mode |-> "table", rows |-> [i \in 1..taken |-> Visible[offset + i]],
           next |-> IF offset + taken < Len(Visible) THEN Following(offset, taken) ELSE -1,
           total |-> Len(Visible), error |-> "none"]

TextPage(offset, limit) ==
  LET last == Min({offset + limit, source.length})
  IN [mode |-> "text", rows |-> [i \in 1..Max({last - offset, 0}) |-> offset + i],
      next |-> IF offset + limit < source.length THEN offset + limit ELSE -1,
      total |-> source.length, error |-> "none"]

\* A column: only plain numbers count, everything else is counted apart.  Only
\* the first and the last row are shown whole, and only they can be too wide.
Numeric(i) == TableRow(i).value # <<>>
Summary ==
  LET n == Len(Visible)
      numbers == {i \in 1..n : Numeric(i)}
      sum == MapThenSumSet(LAMBDA i : TableRow(i).value[1], numbers)
      ends == IF n = 0 THEN {} ELSE {1, n}
      chars == source.header.chars + MapThenSumSet(LAMBDA i : TableRow(i).chars, ends)
               + IF n = 1 THEN TableRow(1).chars ELSE 0
  IN IF Len(source.rows) > MaxRows THEN Refused("TABLE_LIMIT")
     ELSE IF source.header.cells > MaxColumns \/ \E i \in ends : TableRow(i).cells > MaxColumns
          THEN Refused("COLUMN_LIMIT")
     ELSE IF sum > MaxSum THEN Refused("NUMERIC_OVERFLOW")
     ELSE IF chars > Budget THEN Refused("READ_LIMIT")
     ELSE [mode |-> "summary", rows |-> [i \in 1..n |-> Visible[i]], next |-> -1, total |-> n, error |-> "none",
           count |-> Cardinality(numbers), nonNumeric |-> n - Cardinality(numbers), sum |-> sum]

\* extract: the whole answer has to fit as bytes.
Chars(page) == IF page.mode = "text" THEN Len(page.rows)
               ELSE FoldSet(LAMBDA i, n : n + source.rows[i].chars, source.header.chars, Range(page.rows))
Extract(page) ==
  IF page.error = "none" /\ page.mode # "summary" /\ Chars(page) * source.wide > MaxAnswer
  THEN Refused("READ_LIMIT") ELSE page
-----------------------------------------------------------------------------
ReadPage(limit) ==
  /\ ~reading.done
  /\ LET page == Extract(CASE source.mode = "table" -> TablePage(reading.at, limit)
                           [] source.mode = "text" -> TextPage(reading.at, limit)
                           [] OTHER -> Summary)
     IN reading' = IF page.error # "none" THEN [reading EXCEPT !.page = page]
                   ELSE [at |-> IF page.next = -1 THEN reading.at ELSE page.next,
                         got |-> reading.got \o page.rows, page |-> page, done |-> page.next = -1]
  /\ UNCHANGED source
ReaderNext == \E limit \in Limits : ReadPage(limit)
-----------------------------------------------------------------------------
\* Whoever follows "next" reads every visible row, or character, exactly once
\* and in order, whatever limits it asks for and wherever the budget ends a
\* page; every page makes way and fits its limits, and a summary counts every
\* visible row once (reader.mjs:16-17, 57-67, 73).
ReadsAreWhole ==
  LET all == IF source.mode = "text" THEN [i \in 1..source.length |-> i]
             ELSE SelectSeq([i \in 1..Len(source.rows) |-> i], LAMBDA i : source.rows[i].shown)
      page == reading.page
  IN /\ IsPrefix(reading.got, all) /\ (reading.done => reading.got = all)
     /\ page.next # -1 => page.rows # <<>>
     /\ page.mode = "table" => Chars(page) <= Budget /\ Chars(page) * source.wide <= MaxAnswer
     /\ page.mode = "summary" => page.count + page.nonNumeric = Len(all)
=============================================================================
