------------------------------- MODULE LeadFields -------------------------------
(***************************************************************************)
(* Our fields in an amoCRM account (amocrm/fields.py, amocrm/services.py): *)
(* they are looked for before they are made, and renamed and moved into    *)
(* the "uzbridge" tab when an older version made them; and the list of SMS *)
(* templates that one of them offers.                                      *)
(*                                                                         *)
(* An account is its tabs and its fields, in amoCRM's order: a tab has an  *)
(* id and a name, a field an id, a name and the id of its tab, 0 for the   *)
(* main one.  A name is a pair: "old" for "uzbridge: ..." or "new", and    *)
(* what it says.  `kept` is what the connection remembers of them.         *)
(***************************************************************************)
EXTENDS Naturals, Sequences, SequencesExt

\* The id of the first that passes the test, or 0.
FirstId(s, Test(_)) == IF SelectInSeq(s, Test) = 0 THEN 0 ELSE s[SelectInSeq(s, Test)].id

\* amoCRM gives what it makes an id nothing else has.
FreshId(account) ==
  1 + FoldLeft(LAMBDA m, x : IF x.id > m THEN x.id ELSE m, 0, account.groups \o account.fields)

(***************************************************************************)
(* group_id: our tab, by its id or by a name it has had.                   *)
(***************************************************************************)
GROUP_NAME == <<"new", "uzbridge">>

OurGroup(groups, known) ==
  LET byId(g)   == g.id = known
      byName(g) == g.name[2] = "uzbridge"
  IN  IF FirstId(groups, byId) # 0 THEN FirstId(groups, byId) ELSE FirstId(groups, byName)

WithGroup(account, known) ==
  LET ours == OurGroup(account.groups, known)
  IN  [account EXCEPT !.groups =
         IF ours = 0 THEN Append(@, [id |-> FreshId(account), name |-> GROUP_NAME])
         ELSE [i \in DOMAIN @ |-> IF @[i].id = ours THEN [@[i] EXCEPT !.name = GROUP_NAME] ELSE @[i]]]

(***************************************************************************)
(* find: by the id we kept, by its old name, or by its name in our tab or  *)
(* in the main one.                                                        *)
(***************************************************************************)
Find(fields, known, name, gid) ==
  LET byId(f)   == f.id = known
      byOld(f)  == f.name = <<"old", name>>
      byName(f) == f.name = <<"new", name>> /\ (gid = 0 \/ f.group \in {gid, 0})
  IN  IF FirstId(fields, byId) # 0 THEN FirstId(fields, byId)
      ELSE IF FirstId(fields, byOld) # 0 THEN FirstId(fields, byOld)
      ELSE FirstId(fields, byName)

(***************************************************************************)
(* ensure: one PATCH for the fields that are found, one POST for the       *)
(* others.  Without a tab (amoCRM did not make it) none is moved.          *)
(***************************************************************************)
Ensure(account, kept, names, tabs) ==
  LET acc    == IF tabs THEN WithGroup(account, kept.group) ELSE account
      gid    == IF tabs THEN OurGroup(acc.groups, kept.group) ELSE kept.group
      found  == [n \in names |-> Find(acc.fields, kept.ids[n], n, gid)]
      patch(f) == LET n == CHOOSE n \in names : found[n] = f.id
                  IN  [f EXCEPT !.name = <<"new", n>>, !.group = IF gid # 0 THEN gid ELSE @]
      create == SetToSeq({n \in names : found[n] = 0})
      made   == [i \in DOMAIN create |->
        [id |-> FreshId(acc) + i - 1, name |-> <<"new", create[i]>>, group |-> gid]]
  IN  [account |-> [acc EXCEPT !.fields =
         [i \in DOMAIN @ |-> IF \E n \in names : found[n] = @[i].id THEN patch(@[i]) ELSE @[i]] \o made],
       kept |-> [group |-> gid,
                 ids |-> [n \in names |-> IF found[n] # 0 THEN found[n]
                                          ELSE FirstId(made, LAMBDA f : f.name[2] = n)]]]

\* create_lead_fields: the two fields the link and its state are written to.
LinkFields == {"link", "status"}

CreateLeadFields(account, kept, tabs) == Ensure(account, kept, LinkFields, tabs)

(***************************************************************************)
(* sync_sms_field: the values offered are the titles of the templates, a   *)
(* dot more for each that is taken, and a template keeps the id that       *)
(* amoCRM's answer gives its value.  A title is a pair: text and dots.     *)
(***************************************************************************)
Dotted(title, used) ==
  LET free(n) == <<title[1], title[2] + n>> \notin used
      n == CHOOSE n \in 0 .. Cardinality(used) : free(n) /\ \A k \in 0 .. n - 1 : ~free(k)
  IN  <<title[1], title[2] + n>>

EnumValues(titles) == FoldLeft(LAMBDA vs, t : Append(vs, Dotted(t, ToSet(vs))), <<>>, titles)

SyncSmsField(titles, answer) ==
  [i \in DOMAIN titles |->
     IF EnumValues(titles)[i] \in DOMAIN answer THEN answer[EnumValues(titles)[i]] ELSE 0]
=================================================================================
