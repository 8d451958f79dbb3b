---------------------------- MODULE MCOdooPayments ----------------------------
(* Instance of OdooPayments for TLC.  Which Odoo company hears of whose payments
   is checked first, after every short sequence of connects and disconnects. *)
EXTENDS OdooPayments, Connection

MCSymmetry == Permutations(Invoices) \cup Permutations(Callers)

(***************************************************************************)
(* Two companies of one Odoo database, keys of two companies of uzbridge.  *)
(***************************************************************************)

MCStart == [site |-> CreateKey(CreateKey(CreateKey(NewSite, "a"), "a"), "b"), odoo |-> <<NotConnected, NotConnected>>]
MCSteps == [op: {"connect", "lost"}, c: 1 .. 2, key: 1 .. 3] \cup [op: {"disconnect"}, c: 1 .. 2]
             \cup [op: {"revoke"}, key: 1 .. 2]

MCDo(world, s) ==
  CASE s.op = "connect"    -> Connect(world, s.c, s.key, "url")
    [] s.op = "lost"       -> ConnectLost(world, s.c, s.key, "url")
    [] s.op = "disconnect" -> Disconnect(world, s.c)
    [] s.op = "revoke"     -> [world EXCEPT !.site = RevokeKey(@, s.key)]

MCAfter == {FoldLeft(MCDo, MCStart, steps) : steps \in BoundedSeq(MCSteps, 3)}

\* A company that has connected hears of the payments of the company whose key it
\* used; another of its database goes on hearing of another's, but no more of the
\* same one's.
ASSUME ConnectedHears ==
  \A world \in MCAfter : \A c \in 1 .. 2, key \in 1 .. 3 :
    LET now == Connect(world, c, key, "url")
        own == KeyAuth(world.site, key)
    IN  own # "revoked" =>
          /\ Hears(now, own, "url") = c
          /\ \A other \in {"a", "b"} \ {own} :
               Hears(world, other, "url") # c => Hears(now, other, "url") = Hears(world, other, "url")

\* Nobody hears of payments of a company whose key it did not use, whatever was
\* connected, disconnected, lost or revoked before.
ASSUME HearsOwn ==
  \A world \in MCAfter : \A company \in {"a", "b"} :
    LET c == Hears(world, company, "url")
    IN  c # 0 => KeyAuth(world.site, world.odoo[c].key) \in {company, "revoked"}
===============================================================================
