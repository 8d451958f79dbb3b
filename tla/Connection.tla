------------------------------ MODULE Connection ------------------------------
(***************************************************************************)
(* How an Odoo database is connected to uzbridge: API keys and webhook     *)
(* endpoints on the site (developer/), and what each company of the        *)
(* database keeps (odoo_addons/uzbridge).                                  *)
(*                                                                         *)
(* `site` is [keys, hooks, secrets]: a key's company or "revoked", the     *)
(* secret of a company's endpoint at a URL, and how many were made.        *)
(* `odoo` is [key, secret] by Odoo company, 0 for the one that is not      *)
(* there; all the companies of a database have one URL.                    *)
(***************************************************************************)
EXTENDS Integers, Sequences, SequencesExt

(***************************************************************************)
(* The site                                                                *)
(***************************************************************************)
NewSite == [keys |-> <<>>, hooks |-> [h \in {} |-> 0], secrets |-> 0]

\* ApiKey.issue: a key is its place in the list.
CreateKey(site, company) == [site EXCEPT !.keys = Append(@, company)]

RevokeKey(site, key) == [site EXCEPT !.keys[key] = "revoked"]

KeyAuth(site, key) == IF key \in DOMAIN site.keys THEN site.keys[key] ELSE "revoked"

\* register_webhook: a URL that is registered again gets a new secret.
Register(site, company, url) ==
  LET secret == site.secrets + 1
  IN  [site EXCEPT !.secrets = secret,
                   !.hooks = [h \in DOMAIN site.hooks \cup {<<company, url>>} |->
                                IF h = <<company, url>> THEN secret ELSE site.hooks[h]]]

(***************************************************************************)
(* Odoo.  A Connect that fails, or is not answered, changes nothing there; *)
(* when the answer is lost, the secret it brought is.                      *)
(***************************************************************************)
NotConnected == [key |-> 0, secret |-> 0]

Connect(world, c, key, url) ==
  LET company == KeyAuth(world.site, key)
      site    == Register(world.site, company, url)
  IN  IF company = "revoked" THEN world
      ELSE [world EXCEPT !.site = site, !.odoo[c] = [key |-> key, secret |-> site.secrets]]

ConnectLost(world, c, key, url) == [Connect(world, c, key, url) EXCEPT !.odoo = world.odoo]

\* uzbridge is not told.
Disconnect(world, c) == [world EXCEPT !.odoo[c] = NotConnected]

(***************************************************************************)
(* A delivery, signed when it is sent, and the company Odoo takes it for.  *)
(***************************************************************************)
Tolerance == 300

Sign(secret, now) == [secret |-> secret, t |-> now]

VerifySignature(secret, header, now) ==
  /\ secret # 0 /\ header.secret = secret
  /\ now - header.t \in -Tolerance .. Tolerance

\* The first company whose secret it is, or 0: the call is forbidden.
ReceivedBy(odoo, header, now) ==
  SelectInSeq(odoo, LAMBDA o : VerifySignature(o.secret, header, now))

\* The company of an Odoo that takes the events of a company of uzbridge for its own.
Hears(world, company, url) ==
  IF <<company, url>> \notin DOMAIN world.site.hooks THEN 0
  ELSE ReceivedBy(world.odoo, Sign(world.site.hooks[<<company, url>>], 0), 0)
===============================================================================
