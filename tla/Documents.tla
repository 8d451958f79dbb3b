------------------------------- MODULE Documents -------------------------------
(***************************************************************************)
(* Numbered documents for amoCRM leads (documents/services.py, api.py,     *)
(* amocrm/files.py): one template, its counter, the documents made from    *)
(* it, and their copies in the "files" tab of the lead.                    *)
(*                                                                         *)
(* A document is rendered outside any transaction (it asks amoCRM and runs *)
(* LibreOffice), numbered inside one, and put into amoCRM after it.        *)
(***************************************************************************)
EXTENDS Rendering, TLC

CONSTANTS
  Leads,
  Procs,        \* web processes
  NumberPrefixes, \* number prefixes a manager may choose
  Texts,        \* Word paragraphs of the template, by their runs
  BoundTexts,   \* what a template may bind {number} to
  LeadTexts,    \* what amoCRM may say of a lead
  MaxNumber,    \* the highest number (bound)
  MaxDocs,      \* documents made (bound)
  MaxFiles      \* files amoCRM creates (bound)

ASSUME LimitAssumption == {MaxNumber, MaxDocs, MaxFiles} \subseteq Nat

VARIABLES
  docx,         \* the runs of the uploaded Word file
  template,     \* the DocTemplate row
  docs,         \* GeneratedDoc rows, by primary key
  latest,       \* per lead, the document with the newest updated_at
  files,        \* amoCRM: versions of each file
  attached,     \* amoCRM: files in the tab of each lead
  proc          \* what each process is doing

documentsVars == <<docx, template, docs, latest, files, attached, proc>>

Kinds   == {"docx", "html"}
Formats == {"docx", "pdf"}
AtRest  == [step |-> "idle"]
NoFile  == [uuid |-> 0, format |-> ""]
NoText  == ""         \* nothing is bound to {number}

\* DocTemplate.format_number
FormatNumber(prefix, seq) == prefix \o ToString(seq)

Numbers == {FormatNumber(prefix, seq) : prefix \in NumberPrefixes, seq \in 1 .. MaxNumber + 1}

DocumentsTypeOK ==
  /\ docx \in Texts
  /\ template \in [there: BOOLEAN, next: 1 .. MaxNumber + 1, prefix: NumberPrefixes, kind: Kinds,
                  bound: BoundTexts \cup {NoText}]
  /\ Len(docs) <= MaxDocs
  /\ \A d \in DOMAIN docs : docs[d].seq \in 1 .. MaxNumber /\ docs[d].number \in Numbers
  /\ latest \in [Leads -> 0 .. Len(docs)]
  /\ DOMAIN files \subseteq 1 .. MaxFiles
  /\ attached \subseteq Leads \X (1 .. MaxFiles)
  /\ DOMAIN proc = Procs

DocumentsInit ==
  /\ docx \in Texts
  /\ template \in [there: {TRUE}, next: {1}, prefix: NumberPrefixes, kind: Kinds,
                  bound: BoundTexts \cup {NoText}]
  /\ docs = <<>> /\ latest = [l \in Leads |-> 0]
  /\ files = <<>> /\ attached = {}
  /\ proc = [p \in Procs |-> AtRest]

At(p, step) == proc[p].step = step
Go(p, r)    == proc' = [proc EXCEPT ![p] = r]
Done(p)     == Go(p, AtRest)

\* lead_values, of two keywords: {number}, which the template may bind to a text of
\* its own, and one that is read from the lead.
Names == {"number", "name"}
Filling(number, bound, name) ==
  [k \in Names |-> IF k = "name" THEN name ELSE IF bound = NoText THEN number ELSE bound]

\* render.render: Word templates run by run, site templates as one text.
Render(kind, values) ==
  IF kind = "docx" THEN FlattenSeq(FillParagraph(docx, values)) ELSE FillHtml(FlattenSeq(docx), values)

UsedSeqs == {docs[d].seq : d \in DOMAIN docs}

(***************************************************************************)
(* services.generate                                                       *)
(***************************************************************************)

\* The lead's document or the next number, then the text: outside the lock.
GenerateStart(p, lead, format) ==
  /\ At(p, "idle")
  /\ template.there
  /\ LET doc    == latest[lead]
         number == IF doc # 0 THEN docs[doc].number ELSE FormatNumber(template.prefix, template.next)
         file   == IF doc # 0 THEN docs[doc].file ELSE NoFile
     IN  \E name \in LeadTexts :
           LET values == Filling(number, template.bound, name)
           IN  Go(p, [step |-> "save", lead |-> lead, format |-> format, doc |-> doc, number |-> number,
                      values |-> values, content |-> Render(template.kind, values), file |-> file])
  /\ UNCHANGED <<docx, template, docs, latest, files, attached>>

\* Variant: the values that were read before the number was taken.
NumberedBefore(values, number) == values

\* Someone took the number meanwhile, or the template binds {number}: the real one is
\* filled, for every value that is equal to what was there.
Refilled(values, number) ==
  [k \in DOMAIN values |-> IF values[k] = values["number"] THEN number ELSE values[k]]

\* The first time takes the next number; (template, seq) is unique, and a
\* violation rolls the counter back as well.
GenerateNew(p) ==
  LET r      == proc[p]
      seq    == template.next
      number == FormatNumber(template.prefix, seq)
      values == Refilled(r.values, number)
      pk     == Len(docs) + 1
  IN  /\ At(p, "save") /\ r.doc = 0
      /\ IF template.there /\ seq \notin UsedSeqs
         THEN /\ pk <= MaxDocs /\ seq <= MaxNumber
              /\ template' = [template EXCEPT !.next = seq + 1]
              /\ docs' = Append(docs, [lead |-> r.lead, seq |-> seq, number |-> number, format |-> r.format,
                                       values |-> values, file |-> NoFile,
                                       content |-> IF number = r.values["number"] THEN r.content
                                                   ELSE Render(template.kind, values)])
              /\ latest' = [latest EXCEPT ![r.lead] = pk]
              /\ Go(p, [r EXCEPT !.step = "upload", !.doc = pk, !.number = number])
         ELSE Done(p) /\ UNCHANGED <<template, docs, latest>>
      /\ UNCHANGED <<docx, files, attached>>

\* Making it again keeps the number, and fills what the template binds to it.
GenerateAgain(p) ==
  LET r == proc[p]
  IN  /\ At(p, "save") /\ r.doc # 0
      /\ docs' = [docs EXCEPT ![r.doc].format = r.format, ![r.doc].content = r.content, ![r.doc].values = r.values]
      /\ latest' = [latest EXCEPT ![r.lead] = r.doc]
      /\ Go(p, [r EXCEPT !.step = "upload"])
      /\ UNCHANGED <<docx, template, files, attached>>

(***************************************************************************)
(* services._note: the file tab is a bonus, any failure ends it.           *)
(***************************************************************************)

Version(r) == [format |-> r.format, number |-> r.number]

\* Variant: every upload is a new version of the file there is.
SameAlways(r) == r.file.uuid

\* The same format as before: a new version of the file; otherwise a new file.
Same(r) == IF r.file.format = r.format THEN r.file.uuid ELSE 0

Upload(p) ==
  LET r    == proc[p]
      same == Same(r)
      uuid == IF same # 0 THEN same ELSE Len(files) + 1
  IN  /\ At(p, "upload")
      /\ uuid <= MaxFiles
      /\ files' = IF same # 0 THEN [files EXCEPT ![uuid] = @ \cup {Version(r)}] ELSE Append(files, {Version(r)})
      /\ Go(p, [r EXCEPT !.step = IF uuid # r.file.uuid THEN "attach" ELSE "record",
                         !.file = [uuid |-> uuid, format |-> r.format]])
      /\ UNCHANGED <<docx, template, docs, latest, attached>>

Attach(p) ==
  /\ At(p, "attach")
  /\ attached' = attached \cup {<<proc[p].lead, proc[p].file.uuid>>}
  /\ Go(p, [proc[p] EXCEPT !.step = "record"])
  /\ UNCHANGED <<docx, template, docs, latest, files>>

Record(p) ==
  /\ At(p, "record")
  /\ docs' = [docs EXCEPT ![proc[p].doc].file = proc[p].file]
  /\ Done(p)
  /\ UNCHANGED <<docx, template, latest, files, attached>>

(***************************************************************************)
(* The template (documents/api.py)                                         *)
(***************************************************************************)

\* save_template: every column of the row as it was read, the counter as well
\* unless the form sets it, above the numbers used.
EditStart(p) ==
  /\ At(p, "idle")
  /\ template.there
  /\ \E prefix \in NumberPrefixes, kind \in Kinds, next \in 1 .. MaxNumber, bound \in BoundTexts \cup {NoText} :
       /\ next = template.next \/ \A seq \in UsedSeqs : seq < next
       /\ Go(p, [step |-> "edit", next |-> next, prefix |-> prefix, kind |-> kind, bound |-> bound])
  /\ UNCHANGED <<docx, template, docs, latest, files, attached>>

EditSave(p) ==
  /\ At(p, "edit")
  /\ template' = [there |-> TRUE, next |-> proc[p].next, prefix |-> proc[p].prefix, kind |-> proc[p].kind,
                  bound |-> proc[p].bound]
  /\ Done(p)
  /\ UNCHANGED <<docx, docs, latest, files, attached>>

EditOnSite ==
  /\ template.there
  /\ template' = [template EXCEPT !.kind = "html"]
  /\ UNCHANGED <<docx, docs, latest, files, attached, proc>>

\* use-word, and uploading the Word file again.
UseWord ==
  /\ template.there
  /\ template' = [template EXCEPT !.kind = "docx"]
  /\ UNCHANGED <<docx, docs, latest, files, attached, proc>>

DeleteStart(p) ==
  /\ At(p, "idle")
  /\ template.there
  /\ docs = <<>>
  /\ Go(p, [step |-> "delete"])
  /\ UNCHANGED <<docx, template, docs, latest, files, attached>>

\* Variant: GeneratedDoc.template is on_delete=CASCADE.
DeleteCascade(p) ==
  /\ At(p, "delete")
  /\ template' = [template EXCEPT !.there = FALSE]
  /\ docs' = <<>> /\ latest' = [l \in Leads |-> 0]
  /\ Done(p)
  /\ UNCHANGED <<docx, files, attached>>

\* GeneratedDoc.template is on_delete=PROTECT.
Delete(p) ==
  /\ At(p, "delete")
  /\ template' = IF docs = <<>> THEN [template EXCEPT !.there = FALSE] ELSE template
  /\ Done(p)
  /\ UNCHANGED <<docx, docs, latest, files, attached>>

\* An error on the way (amoCRM, LibreOffice, no access to files), or a crash.
GiveUp(p) ==
  /\ ~At(p, "idle")
  /\ Done(p)
  /\ UNCHANGED <<docx, template, docs, latest, files, attached>>

Generate(p) ==
  \/ \E lead \in Leads, format \in Formats : GenerateStart(p, lead, format)
  \/ GenerateNew(p) \/ GenerateAgain(p)
  \/ Upload(p) \/ Attach(p) \/ Record(p)

DocumentsNext ==
  \/ \E p \in Procs : Generate(p) \/ EditStart(p) \/ EditSave(p) \/ DeleteStart(p) \/ Delete(p) \/ GiveUp(p)
  \/ EditOnSite \/ UseWord

DocumentsSpec == DocumentsInit /\ [][DocumentsNext]_documentsVars

(***************************************************************************)
(* Properties                                                              *)
(***************************************************************************)

\* The text of a document is the text of its template with the values of its row in
\* the place of every keyword, however Word split it, and {number} is its own number
\* or what the template binds to it: never the number of another document, which took
\* the one that was shown first.
TextIsFilled ==
  \A d \in DOMAIN docs :
    /\ docs[d].content = FillHtml(FlattenSeq(docx), docs[d].values)
    /\ docs[d].values["number"] \in {docs[d].number} \cup BoundTexts

\* The file a document points to is in the tab of its lead and holds this document
\* in one format only, whoever else made the document at the same time.
FilesTab ==
  \A d \in DOMAIN docs :
    LET file == docs[d].file
    IN  file # NoFile =>
          /\ <<docs[d].lead, file.uuid>> \in attached
          /\ files[file.uuid] = {[format |-> file.format, number |-> docs[d].number]}

\* A document stays, keeps its number, and its template is there: a template is
\* not deleted under a document that was made after the check.
DocumentsKept ==
  [][\A d \in DOMAIN docs :
       d \in DOMAIN docs' /\ docs'[d].number = docs[d].number /\ template'.there]_documentsVars
================================================================================
