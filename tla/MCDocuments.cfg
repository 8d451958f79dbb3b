\* Two leads, two processes, two documents, numbers to 2, two files; {number} may be
\* bound to one text, and a lead is named like the first number.
CONSTANTS
  Leads = {l1, l2}
  Procs = {p1, p2}
  NumberPrefixes = {"A"}
  Texts <- MCTexts
  BoundTexts = {"B"}
  LeadTexts = {"A1"}
  MaxNumber = 2
  MaxDocs = 2
  MaxFiles = 2
SYMMETRY MCSymmetry
CONSTRAINT MCBound
SPECIFICATION DocumentsSpec
CHECK_DEADLOCK FALSE
INVARIANTS
  TextIsFilled
  FilesTab
PROPERTIES
  DocumentsKept
