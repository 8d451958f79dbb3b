------------------------------ MODULE MCRealty ------------------------------
(* One unit, two deals, and the stages a sales pipeline sets up; and the    *)
(* whole sheet of a project on small tables.                                *)
EXTENDS Realty, Sequences, TLC

Table == INSTANCE Sheet

MCTargetOf ==
  [s \in Stages |-> IF s = "booking" THEN "reserved" ELSE IF s = "lost" THEN "free" ELSE ""]

\* Deals and workers are interchangeable.
MCSymmetry == Permutations(Deals) \cup Permutations(Workers)

(***************************************************************************)
(* Numbers in the sheet                                                    *)
(***************************************************************************)
RECURSIVE Written(_)
Written(n) == IF n < 10 THEN <<n>> ELSE Written(n \div 10) \o <<n % 10>>

\* The digits of a whole number, with a mark between groups of three, or none.
Grouped(n, marks) ==
  LET digits == Written(n)
      back(i) == Len(digits) - i
      item(i) == IF back(i) > 0 /\ back(i) % 3 = 0 THEN <<digits[i]>> \o marks ELSE <<digits[i]>>
  IN  Table!FoldLeft(LAMBDA s, i : s \o item(i), <<>>, [i \in DOMAIN digits |-> i])

Wholes == {0, 7, 54, 100, 850, 1000, 1250, 85000, 545000, 1250000}
Marks == {<<>>, <<Table!Comma>>, <<Table!Dot>>}

\* A number is read as the person wrote it, in whichever of the usual ways: groups
\* with a space, a comma or a dot, and up to two decimals after the other mark.  The
\* one way that is taken for another number is a single dot before three digits.
NumbersRead ==
  \A n \in Wholes, group \in Marks, mark \in Marks \ {<<>>},
     fraction \in {<<>>, <<5>>, <<2, 5>>} :
    LET text == Grouped(n, group) \o (IF fraction = <<>> THEN <<>> ELSE mark \o fraction)
        clear == /\ group # mark
                 /\ ~(group = <<Table!Dot>> /\ n \in 1000 .. 999999 /\ fraction = <<>>)
    IN  clear => Table!Num(text) = Table!Decimal(Written(n), fraction)
ASSUME NumbersRead

(***************************************************************************)
(* Whole tables                                                            *)
(***************************************************************************)
SheetUnits ==
  [status : {"free", "reserved", "sold"}, exchanged : {"", "free", "reserved"},
   lead : {"", "deal"}, layout : {"2A"}, price : {0, 500}, perMetre : {0, 300},
   archived : BOOLEAN]

SheetHeaders ==
  {<<"ext_id", "status", "lead">>, <<"ext_id", "price", "price_m2">>,
   <<"lead", "other", "status", "ext_id", "status">>}

\* An empty cell first.
Values(field) ==
  CASE field = "ext_id" -> <<"", "a", "b">>
    [] field = "status" -> <<"", "free", "sold", "typo">>
    [] field = "lead" -> <<"", "deal">>
    [] field \in {"price", "price_m2"} -> <<0, 700>>
    [] OTHER -> <<"">>

\* The rows of a table, the last cells of which may be missing.
SheetRows(headers) ==
  LET value(field, k) == Values(field)[1 + (k % Len(Values(field)))]
  IN  UNION {{[i \in 1 .. n |-> value(headers[i], pick[i])] : pick \in [1 .. n -> 0 .. 3]} :
               n \in {1, Len(headers)}}

\* A row of its own that says nothing.
FreeRow(headers) == [i \in DOMAIN headers |-> IF headers[i] = "ext_id" THEN "b" ELSE Values(headers[i])[1]]

\* Whatever was typed, repeated, left out or unknown in the sheet, once a sync has
\* written back the two agree: what deals and the site do to the units afterwards
\* stays in the next sync and reaches the sheet, and nothing else moves; and when
\* nothing happens, a second sync changes nothing and has nothing to write.
SyncSettles ==
  \A headers \in SheetHeaders, unit \in SheetUnits, moves \in {"free", "reserved"} :
    \A one \in SheetRows(headers) : \A two \in {<<>>, one, FreeRow(headers)} :
      LET rows  == <<one, two>>
          first == Table!Sync([id \in {"a", "b"} |-> unit], headers, rows)
          written == Table!WriteBack(headers, rows, first.writes)
          again == Table!Sync(first.units, headers, written)
          moved == [id \in DOMAIN first.units |-> [first.units[id] EXCEPT !.status = moves]]
          third == Table!Sync(moved, headers, written)
          last  == Table!Sync(third.units, headers, Table!WriteBack(headers, written, third.writes))
      IN  /\ again = [units |-> first.units, writes |-> {}]
          /\ \A id \in DOMAIN moved : third.units[id].status = moves /\ third.units[id].lead = moved[id].lead
          /\ last = [units |-> third.units, writes |-> {}]
ASSUME SyncSettles

\* Every column that is read has letters of its own, as Google counts them.
ASSUME \A i \in 1 .. 702 : Table!ColumnNamed(Table!ColLetter[i]) = i

\* A sheet that is made from the units and pulled before anything moves changes
\* nothing of them that a buyer or a deal sees, and needs no write.
MadeReadsBack ==
  \A one, two \in [status : {"free", "reserved"}, exchanged : {"", "free"}, lead : {"", "deal"},
                   layout : {"", "2A"}, price : {0, 54500}, perMetre : {0, 300}, archived : BOOLEAN] :
    LET units == ("a" :> one) @@ ("b" :> two)
    IN  \A rows \in Table!CreateSheet(units) :
          LET read == Table!Sync(units, Table!TemplateHeaders, rows)
          IN  /\ read.writes = {}
              /\ \A u \in DOMAIN units : \A f \in {"status", "lead", "layout", "price", "archived"} :
                   read.units[u][f] = units[u][f]
ASSUME MadeReadsBack
=============================================================================
