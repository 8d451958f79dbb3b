----------------------------- MODULE MCDocuments -------------------------------
(* Instance of Documents for TLC: a text with a stray brace and two keywords,
   and the ways Word may split it into three runs; every one of them is checked
   on its own, one of them with everything else that happens; and the values that
   are filled in are checked on small inputs. *)
EXTENDS Documents, DocumentValues

MCText == <<"{", "{", "number", "}", "{", "name", "}", "x">>

Split(i, j) == <<SubSeq(MCText, 1, i), SubSeq(MCText, i + 1, j), SubSeq(MCText, j + 1, Len(MCText))>>

\* Each keyword over two runs, of which the middle one has parts of both.
MCTexts == {Split(3, 6)}

\* Both keywords have a value, or one of them.
ASSUME EverySplit ==
  \A i, j \in 0 .. Len(MCText), names \in SUBSET Names :
    \A values \in [names -> Numbers] :
      i <= j => FlattenSeq(FillParagraph(Split(i, j), values)) = FillHtml(MCText, values)

(***************************************************************************)
(* Values                                                                  *)
(***************************************************************************)

MCUnits == [milliard |-> 1000000000, million |-> 1000000, ming |-> 1000]

\* What the words say, read from left to right.
MCAmount(words) ==
  LET digit(ws, w) == CHOOSE d \in DOMAIN ws : ws[d] = w
      read(sum, w) ==
        CASE w = "nol" -> sum
          [] w \in Range(Ones) -> [sum EXCEPT !.part = @ + digit(Ones, w)]
          [] w \in Range(Tens) -> [sum EXCEPT !.part = @ + 10 * digit(Tens, w)]
          [] w = "yuz" -> [sum EXCEPT !.part = 100 * @]
          [] OTHER -> [all |-> sum.all + MCUnits[w] * sum.part, part |-> 0]
      sum == FoldLeft(read, [all |-> 0, part |-> 0], words)
  IN  sum.all + sum.part

\* The words of an amount say this amount, also where a part of it is 0.
ASSUME WordsSayAmount ==
  \A n \in (0 .. 2000) \cup {m * k + r : m \in {1000, 1000000, 100000000}, k \in 1 .. 21, r \in {0, 1, 999}} :
    MCAmount(AmountInWords(n)) = n

MCHas == [keys |-> {"k", "date"}, sources |-> {"s"}, builtins |-> {"date"}]
MCBinding ==
  [type: {"amo", "builtin", "date", "text", "number", "x"}, source: {"s", "t"}, key: {"date", "u"},
   offset_days: {-3651, -3650, 0}, style: {"ru", "y"}, value: {"", "v"}]

\* Bindings that were accepted name only what there is, and are accepted again as
\* they are; what they give a keyword does not depend on the other bindings.
ASSUME BindingsStand ==
  \A b, c \in MCBinding :
    LET one  == CleanBindings([k \in {"k"} |-> b], MCHas)
        both == CleanBindings([k \in {"k", "date"} |-> IF k = "k" THEN b ELSE c], MCHas)
        fill(bs) == LeadValues([date |-> "d"], [k |-> "own", date |-> "own"], bs, "7", [s |-> "read"],
                               [offset \in -3650 .. 3650, style \in DateStyles |-> style])
    IN  /\ one # Refused => CleanBindings(one, MCHas) = one
        /\ both # Refused => one # Refused /\ fill(both)["k"] = fill(one)["k"]

\* At most one text at a time has what the template binds to {number}, and the forms
\* take the binding away.
MCBound ==
  LET bound(values) == values["number"] \in BoundTexts
  IN  /\ Cardinality({d \in DOMAIN docs : bound(docs[d].values)})
           + Cardinality({p \in Procs : At(p, "save") /\ bound(proc[p].values)}) <= 1
      /\ \A p \in Procs : At(p, "edit") => proc[p].bound = NoText

MCSymmetry == Permutations(Procs) \cup Permutations(Leads)
================================================================================
