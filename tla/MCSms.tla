--------------------------------- MODULE MCSms ---------------------------------
(* Instance of Sms for TLC.  What fills the texts and keeps the amoCRM fields is
   checked on every small input first. *)
EXTENDS Sms, Keywords, LeadFields

(***************************************************************************)
(* Keywords                                                                *)
(***************************************************************************)

MCKeys    == {"", "k", "name", "1"}
MCSources == {"", "s", "t"}
MCRows    == BoundedSeq([key: MCKeys, source: MCSources], 2)
MCSaved   == {SaveVariables(NoFields, rows, {"k", "name"}, {"s", "t"}) : rows \in MCRows}

\* The keywords become the rows that were sent, every one of them, or stay as they
\* were; none of them hides a built-in one.
ASSUME SaveIsWhole ==
  \A rows \in MCRows : \A old \in MCSaved :
    LET new == SaveVariables(old, rows, {"k", "name"}, {"s", "t"})
    IN  /\ DOMAIN new \cap BUILTIN_VARIABLES = {}
        /\ new = old \/ \A i \in DOMAIN rows : rows[i] \in
             {[key |-> k, source |-> new[k]] : k \in DOMAIN new} \cup {[key |-> "", source |-> ""]}

MCWord(x) == <<<<"word", x>>>>
MCWords   == {<<"key", "k">>, <<"key", "link">>, <<"key", "u">>, <<"word", "x">>}
MCLead    == [fields |-> [s |-> <<MCWord("1"), <<>>, MCWord("2")>>],
              contacts |-> <<[main |-> FALSE, fields |-> NoFields],
                             [main |-> TRUE, fields |-> [s |-> <<MCWord("3")>>]]>>]
MCOwn     == {ValuesForLead(k :> <<entity, "s">>, MCLead) : k \in {"k", "u"}, entity \in {"lead", "contact"}}

\* Odoo, which fills a text keyword by keyword, makes the text the site makes in
\* one pass, as long as no value holds a keyword itself.
ASSUME OdooFillsAlike ==
  \A text \in BoundedSeq(MCWords, 3), own \in MCOwn :
    LET company == MCWord("c")
        invoice == [k \in {"amount", "number", "link"} |-> MCWord(k)]
    IN  /\ UzbridgeFill(text, ComposerValues(company, <<>>, invoice), company, own)
             = Render(text, company, <<>>, invoice, own)
        /\ UzbridgeFill(text, PosValues(<<>>, invoice), company, own)
             = Render(text, company, <<>>, invoice, own)

\* The templates Odoo offers are the approved ones, whatever it had before.
ASSUME OdooOffersApproved ==
  \A had, rows \in UNION {[ids -> {"a", "b"}] : ids \in SUBSET {1, 2}} :
    LET copies == OdooTemplates(OdooTemplates(NoFields, had), rows)
    IN  {id \in DOMAIN copies : copies[id].active} = DOMAIN rows
        /\ \A id \in DOMAIN rows : copies[id].body = rows[id]

(***************************************************************************)
(* Lead fields                                                             *)
(***************************************************************************)

MCNames   == {"old", "new"} \X {"link", "status", "theirs"}
MCFields  == {s \in BoundedSeq([id: {11, 12}, name: MCNames, group: {0, 1, 2}], 2) : \A i, j \in DOMAIN s : s[i].id = s[j].id => i = j}
MCGroups  == {<<>>, <<[id |-> 1, name |-> <<"new", "main">>], [id |-> 2, name |-> <<"old", "uzbridge">>]>>}
MCKept    == [group: {0, 2}, ids: {[n \in LinkFields |-> 0]}]

\* After the fields are made or found, doing it again changes nothing, with the
\* ids that were kept or after they were lost: our fields are never made twice.
ASSUME FieldsMadeOnce ==
  \A fields \in MCFields, groups \in MCGroups, kept \in MCKept, tabs \in BOOLEAN :
    LET once  == CreateLeadFields([groups |-> groups, fields |-> fields], kept, tabs)
        twice == CreateLeadFields(once.account, once.kept, tabs)
        lost  == CreateLeadFields(once.account, [once.kept EXCEPT !.ids = kept.ids], tabs)
    IN  /\ twice = once
        /\ Len(lost.account.fields) = Len(once.account.fields)

\* Every template can be picked: no two of them are offered as the same value.
ASSUME ValuesDiffer ==
  \A titles \in BoundedSeq({"a", "b"} \X (0 .. 1), 4) : IsInjective(EnumValues(titles))
=================================================================================
