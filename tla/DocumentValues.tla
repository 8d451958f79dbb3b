---------------------------- MODULE DocumentValues ----------------------------
(***************************************************************************)
(* What is written in the place of a document's keywords                   *)
(* (documents/services.py): an amount in words, and where a template's     *)
(* bindings say that the value of a keyword comes from.                    *)
(***************************************************************************)
EXTENDS Integers, Sequences, FiniteSets, TLC

(***************************************************************************)
(* amount_in_words, in Uzbek, as contracts write sums.                     *)
(***************************************************************************)
Ones == <<"bir", "ikki", "uch", "tort", "besh", "olti", "yetti", "sakkiz", "toqqiz">>
Tens == <<"on", "yigirma", "ottiz", "qirq", "ellik", "oltmish", "yetmish", "sakson", "toqson">>

Word(words, digit) == IF digit = 0 THEN <<>> ELSE <<words[digit]>>

BelowThousand(n) ==
  (IF n >= 100 THEN Word(Ones, n \div 100) \o <<"yuz">> ELSE <<>>)
    \o Word(Tens, (n % 100) \div 10) \o Word(Ones, n % 10)

Part(n, name) == IF n = 0 THEN <<>> ELSE BelowThousand(n) \o <<name>>

AmountInWords(n) ==
  IF n = 0 THEN <<"nol">>
  ELSE Part(n \div 1000000000, "milliard") \o Part((n \div 1000000) % 1000, "million")
         \o Part((n \div 1000) % 1000, "ming") \o BelowThousand(n % 1000)

(***************************************************************************)
(* clean_bindings: each binding keeps what its type needs, one bad binding *)
(* refuses them all.  `has` is what may be named: keys that can stand in a *)
(* text, sources in amoCRM, built-in values.                               *)
(***************************************************************************)
DateStyles == {"short", "long", "ru"}

GoodBinding(b, has) ==
  CASE b.type = "amo"     -> b.source \in has.sources
    [] b.type = "builtin" -> b.key \in has.builtins
    [] b.type = "date"    -> b.offset_days \in -3650 .. 3650
    [] b.type \in {"text", "number"} -> TRUE
    [] OTHER -> FALSE

CleanBinding(b) ==
  CASE b.type = "amo"     -> [type |-> "amo", source |-> b.source]
    [] b.type = "builtin" -> [type |-> "builtin", key |-> b.key]
    [] b.type = "date"    -> [type |-> "date", offset_days |-> b.offset_days,
                              style |-> IF b.style \in DateStyles THEN b.style ELSE "short"]
    [] b.type = "text"    -> [type |-> "text", value |-> b.value]
    [] b.type = "number"  -> [type |-> "number"]

Refused == [type |-> "refused"]

CleanBindings(raw, has) ==
  IF \A k \in DOMAIN raw : k \in has.keys /\ GoodBinding(raw[k], has)
  THEN [k \in DOMAIN raw |-> CleanBinding(raw[k])] ELSE Refused

(***************************************************************************)
(* lead_values: the built-in values win over the company's own keywords,   *)
(* and a binding over both; a binding to a built-in value reads that of    *)
(* before any binding.                                                     *)
(***************************************************************************)
BoundValue(b, number, base, read, day) ==
  CASE b.type = "amo"     -> IF b.source \in DOMAIN read THEN read[b.source] ELSE ""
    [] b.type = "number"  -> number
    [] b.type = "date"    -> day[b.offset_days, b.style]
    [] b.type = "builtin" -> IF b.key \in DOMAIN base THEN base[b.key] ELSE ""
    [] b.type = "text"    -> b.value

LeadValues(builtin, own, bindings, number, read, day) ==
  LET base == builtin @@ own
  IN  [k \in DOMAIN bindings |-> BoundValue(bindings[k], number, base, read, day)] @@ base
===============================================================================
