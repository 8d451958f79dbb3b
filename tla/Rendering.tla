------------------------------- MODULE Rendering -------------------------------
(***************************************************************************)
(* Filling the keywords of a document template (documents/render.py): a    *)
(* site template is one text; Word keeps a paragraph as runs, and may have *)
(* split "{number}" over several of them.                                  *)
(*                                                                         *)
(* A text is a sequence of tokens: a brace, a name, anything else.  The    *)
(* values are a function from the names that have one.                     *)
(***************************************************************************)
EXTENDS Integers, Sequences, SequencesExt

KeyLen == 3     \* a name in braces

\* KEY_RE.finditer, of the names that have a value: matches do not overlap, no name
\* holds a brace.
Matches(text, values) ==
  {a \in 1 .. Len(text) - KeyLen + 1 :
     text[a] = "{" /\ text[a + 1] \in DOMAIN values /\ text[a + 2] = "}"}

(***************************************************************************)
(* fill_html: KEY_RE.sub over the whole text.                              *)
(***************************************************************************)
FillHtml(text, values) ==
  LET ms == Matches(text, values)
  IN  FlattenSeq([i \in DOMAIN text |->
        IF i \in ms THEN <<values[text[i + 1]]>>
        ELSE IF \E a \in ms : i \in a .. a + KeyLen - 1 THEN <<>> ELSE <<text[i]>>])

(***************************************************************************)
(* _fill_paragraph: the keyword goes to the run where it starts; the other *)
(* runs keep their own text.                                               *)
(***************************************************************************)

\* Where each run starts in the joined text.
Starts(runs) == [i \in DOMAIN runs |-> 1 + Len(FlattenSeq(SubSeq(runs, 1, i - 1)))]

RunAt(starts, a) == CHOOSE i \in DOMAIN starts :
                      /\ starts[i] <= a
                      /\ \A j \in DOMAIN starts : starts[j] <= a => j <= i

PutValue(runs, starts, a, value) ==
  LET b     == a + KeyLen - 1
      first == RunAt(starts, a)
      last  == RunAt(starts, b)
      before  == SubSeq(runs[first], 1, a - starts[first])
      after(i) == SubSeq(runs[i], b - starts[i] + 2, Len(runs[i]))
  IN  [i \in DOMAIN runs |->
         IF i = first
         THEN before \o <<value>> \o (IF first = last THEN after(first) ELSE <<>>)
         ELSE IF i \in first + 1 .. last - 1 THEN <<>>
         ELSE IF i = last THEN after(last)
         ELSE runs[i]]

\* Right to left, so that the earlier offsets stay valid.
FillParagraph(runs, values) ==
  LET text       == FlattenSeq(runs)
      put(a, rs) == PutValue(rs, Starts(runs), a, values[text[a + 1]])
  IN  FoldRight(put, SetToSortSeq(Matches(text, values), <), runs)
================================================================================
