-------------------------------- MODULE Keywords --------------------------------
(***************************************************************************)
(* The {keywords} of an SMS text: the built-in ones, and a company's own,  *)
(* each read from a field of a lead in amoCRM or of a record in Odoo       *)
(* (sms/services.py, amocrm/variables.py, odoo_addons/uzbridge).           *)
(*                                                                         *)
(* A text is a sequence of words, a word a pair: <<"key", k>> for {k},     *)
(* <<"word", x>> for anything else.  The value of a keyword is a text.     *)
(***************************************************************************)
EXTENDS Naturals, Sequences, FiniteSets, SequencesExt, Functions

BUILTIN_VARIABLES == {"name", "company", "amount", "number", "link"}

IsKeyword(word) == word[1] = "key"

(***************************************************************************)
(* The company's own keywords of one integration: a function from keyword  *)
(* to source, replaced as a whole or left alone.  VARIABLE_KEY_RE and the  *)
(* integration's pattern say which keys and sources are well formed.       *)
(***************************************************************************)

\* Rows with neither are skipped.
Filled(rows) == SelectSeq(rows, LAMBDA r : r.key # "" \/ r.source # "")

Refused(rows, keys, sources) ==
  \E i \in DOMAIN rows :
    \/ rows[i].key \notin keys \ BUILTIN_VARIABLES
    \/ rows[i].source \notin sources
    \/ \E j \in 1 .. i - 1 : rows[j].key = rows[i].key

SaveVariables(table, given, keys, sources) ==
  LET rows == Filled(given)
  IN  IF Refused(rows, keys, sources) THEN table
      ELSE [k \in {rows[i].key : i \in DOMAIN rows} |->
              (CHOOSE r \in Range(rows) : r.key = k).source]

(***************************************************************************)
(* read_sources: a lead is its own fields and its contacts, of which one   *)
(* may be the main one; a field without a value reads as the empty text.   *)
(***************************************************************************)

\* The values of one field, of those that are not empty.
CfValue(values) == FlattenSeq(SelectSeq(values, LAMBDA v : v # <<>>))

NoFields == [f \in {} |-> <<>>]

MainContact(contacts) ==
  LET main == SelectInSeq(contacts, LAMBDA c : c.main)
  IN  IF contacts = <<>> THEN NoFields ELSE contacts[IF main # 0 THEN main ELSE 1].fields

ReadSource(lead, source) ==
  LET fields == IF source[1] = "lead" THEN lead.fields ELSE MainContact(lead.contacts)
  IN  IF source[2] \in DOMAIN fields THEN CfValue(fields[source[2]]) ELSE <<>>

ValuesForLead(table, lead) == [k \in DOMAIN table |-> ReadSource(lead, table[k])]

(***************************************************************************)
(* Filling a text.                                                         *)
(***************************************************************************)

\* format_map with _Blank: in one pass, and an unknown keyword stays as typed.
FormatMap(text, values) ==
  FlattenSeq([i \in DOMAIN text |->
    IF IsKeyword(text[i]) /\ text[i][2] \in DOMAIN values THEN values[text[i][2]] ELSE <<text[i]>>])

\* The built-in values win; amount, number and link are there when an invoice is.
Render(text, company, name, invoice, own) ==
  LET itsName == IF name = <<>> /\ "name" \in DOMAIN own THEN own["name"] ELSE name
  IN  FormatMap(text, invoice @@ [company |-> company, name |-> itsName] @@ own)

\* In Odoo the composer gives every built-in value, some of them empty,
ComposerValues(company, name, invoice) ==
  invoice @@ [k \in BUILTIN_VARIABLES |->
    CASE k = "company" -> company [] k = "name" -> name [] OTHER -> <<>>]

\* and the point of sale all but the company, which _uzbridge_fill adds.
PosValues(name, invoice) == invoice @@ [name |-> name]

\* Keyword by keyword, so that a value is filled by the keywords after it.
UzbridgeFill(text, given, company, own) ==
  LET values == given @@ [company |-> company] @@ own
      fill(t, k) == FormatMap(t, [j \in {k} |-> values[k]])
  IN  FoldLeft(fill, text, SetToSeq(DOMAIN values))

(***************************************************************************)
(* Odoo's copies of the approved templates and of its keywords.            *)
(***************************************************************************)

\* A template that is no longer approved is archived, and comes back as it was.
OdooTemplates(copies, rows) ==
  [id \in DOMAIN copies \cup DOMAIN rows |->
     IF id \in DOMAIN rows THEN [body |-> rows[id], active |-> TRUE]
     ELSE [copies[id] EXCEPT !.active = FALSE]]
=================================================================================
