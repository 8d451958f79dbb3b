--------------------------------- MODULE Sheet ---------------------------------
(***************************************************************************)
(* The Google Sheet of a project, read and written as a table              *)
(* (realty/sheet.py, realty/google.py): the numbers people type, whole     *)
(* sheets made from the units, and a sync of any rows under any headers.   *)
(* Realty follows one row of it through interleaved pulls.                 *)
(*                                                                         *)
(* A header is the field it stands for, or another word.  `units` is the   *)
(* units by their id in the sheet, each with the status last exchanged     *)
(* with the sheet.                                                         *)
(***************************************************************************)
EXTENDS Integers, Sequences, FiniteSets, SequencesExt

(***************************************************************************)
(* Numbers: a text is its digits and marks; anything else is dropped.  The *)
(* number is in thousandths, <<>> when there is none.                      *)
(***************************************************************************)
Dot == -1
Comma == -2

Digits(text) == SelectSeq(text, LAMBDA c : c >= 0)

Value(digits) == FoldLeft(LAMBDA n, d : 10 * n + d, 0, digits)

Decimal(whole, fraction) ==
  <<1000 * Value(whole) + Value([i \in 1..3 |-> IF i \in DOMAIN fraction THEN fraction[i] ELSE 0])>>

Num(text) ==
  LET at(mark) == {i \in DOMAIN text : text[i] = mark}
      marks    == at(Dot) \cup at(Comma)
      last     == CHOOSE i \in marks : \A j \in marks : j <= i
      thousands == Decimal(Digits(text), <<>>)
      head     == Digits(SubSeq(text, 1, last - 1))
      tail     == Digits(SubSeq(text, last + 1, Len(text)))
  IN  IF Digits(text) = <<>> THEN <<>>
      ELSE IF marks = {} THEN thousands
      ELSE IF at(Dot) # {} /\ at(Comma) # {}
           THEN IF Cardinality(at(text[last])) > 1 THEN <<>> ELSE Decimal(head, tail)
      ELSE IF Cardinality(marks) > 1 THEN thousands
      ELSE IF text[last] = Comma /\ Len(tail) = 3 /\ head \notin {<<>>, <<0>>} THEN thousands
      ELSE Decimal(head, tail)

(***************************************************************************)
(* Rows                                                                    *)
(***************************************************************************)
Statuses == {"free", "interest", "reserved", "sold", "closed"}

\* An empty cell is a free unit; a word nobody knows is an error.
ParseStatus(word) ==
  IF word = "" THEN "free" ELSE IF word \in Statuses THEN word ELSE "unknown"

Column(headers, field) == SelectInSeq(headers, LAMBDA h : h = field)

\* Google leaves out the empty cells at the end of a row.
Cell(headers, row, field, default) ==
  LET i == Column(headers, field) IN IF i \in DOMAIN row THEN row[i] ELSE default

NewUnit ==
  [status |-> "free", exchanged |-> "", lead |-> "", layout |-> "",
   price |-> 0, perMetre |-> 0, archived |-> FALSE]

\* A change typed in the sheet wins; otherwise ours stays and goes back.  The
\* price of a square metre is worked out when there is none (of one metre here).
ReadRow(unit, headers, row) ==
  LET has(field) == Column(headers, field) # 0
      word   == ParseStatus(Cell(headers, row, "status", ""))
      typed  == has("status") /\ word \notin {"unknown", unit.exchanged, unit.status}
      status == IF typed THEN word ELSE unit.status
      layout == Cell(headers, row, "layout", "")
      price  == IF has("price") THEN Cell(headers, row, "price", 0) ELSE unit.price
      metre  == IF has("price_m2") THEN Cell(headers, row, "price_m2", 0) ELSE unit.perMetre
  IN  [status |-> status, exchanged |-> status, archived |-> FALSE, price |-> price,
       lead |-> IF typed /\ status \in {"free", "closed"} THEN "" ELSE unit.lead,
       layout |-> IF layout # "" THEN layout ELSE unit.layout,
       perMetre |-> IF metre = 0 THEN price ELSE metre]

\* The cells that do not say what the unit is now.
Writes(unit, headers, row) ==
  {<<f, v>> \in {<<"status", unit.status>>, <<"lead", unit.lead>>} :
     /\ Column(headers, f) # 0
     /\ IF f = "status" THEN ParseStatus(Cell(headers, row, f, "")) # v
                        ELSE Cell(headers, row, f, "") # v}

\* A row without an id is skipped, and so is a second row of the same id.
Sync(units, headers, rows) ==
  LET id(r)  == Cell(headers, rows[r], "ext_id", "")
      taken  == {r \in DOMAIN rows : id(r) # "" /\ \A q \in 1 .. r - 1 : id(q) # id(r)}
      seen   == {id(r) : r \in taken}
      row(u) == rows[CHOOSE r \in taken : id(r) = u]
      now    == [u \in DOMAIN units \cup seen |->
                  IF u \notin seen THEN [units[u] EXCEPT !.archived = TRUE]
                  ELSE ReadRow(IF u \in DOMAIN units THEN units[u] ELSE NewUnit, headers, row(u))]
  IN  [units |-> now,
       writes |-> UNION {{<<r>> \o w : w \in Writes(now[id(r)], headers, rows[r])} : r \in taken}]

(***************************************************************************)
(* Written: the letters of a column, a new sheet, and the write-back.      *)
(***************************************************************************)
\* The letters of a column, counted from 1; the sheet is read up to column ZZ.
ColLetter[column \in 0 .. 702] ==
  IF column = 0 THEN <<>> ELSE Append(ColLetter[(column - 1) \div 26], (column - 1) % 26)

\* The column Google takes letters for.
ColumnNamed(letters) == FoldLeft(LAMBDA n, letter : 26 * n + letter + 1, 0, letters)

WriteBack(headers, rows, writes) ==
  [r \in DOMAIN rows |->
     LET mine  == {w \in writes : w[1] = r}
         to(w) == ColumnNamed(ColLetter[Column(headers, w[2])])
         cells == IF mine = {} THEN Len(rows[r]) ELSE Len(headers)
     IN  [i \in 1 .. cells |->
            IF \E w \in mine : to(w) = i THEN (CHOOSE w \in mine : to(w) = i)[3]
            ELSE IF i <= Len(rows[r]) THEN rows[r][i]
            ELSE IF headers[i] \in {"price", "price_m2"} THEN 0 ELSE ""]]

TemplateHeaders == <<"ext_id", "price", "price_m2", "status", "layout", "lead">>

\* Google shows whole prices ("#,##0"); a price is in hundredths.
Shown(price) == 100 * ((price + 50) \div 100)

UnitRow(id, u) == <<id, Shown(u.price), Shown(u.perMetre), u.status, u.layout, u.lead>>

\* create_sheet: the units that are not archived, in any order; the example row of a
\* project without units is left out.
CreateSheet(units) ==
  {[i \in DOMAIN order |-> UnitRow(order[i], units[order[i]])] :
     order \in SetToSeqs({u \in DOMAIN units : ~units[u].archived})}
================================================================================
