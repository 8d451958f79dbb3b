\* Two deals, the site, the sheet and the timer move one unit.
CONSTANTS
  Units = {u1}
  Deals = {d1, d2}
  NoDeal = NoDeal
  Workers = {w1, w2}
  Stages = {"talks", "booking", "lost"}
  TargetOf <- MCTargetOf
  Words = {"free", "reserved", "norow"}
SPECIFICATION Spec
SYMMETRY MCSymmetry
INVARIANTS
  TypeOK
  LooseUnits
PROPERTIES
  NoTakeOver
  BookingHeld
