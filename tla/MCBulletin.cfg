\* Two members of one class, a second empty class, an honest or a forking operator.
SPECIFICATION Spec
CONSTANTS
  Agora = agora
  Other = other
  m1 = m1
  m2 = m2
  Members = {m1, m2}
  Classes <- MCClasses
  ClassOf <- MCClassOf
  Founding <- MCFounding
  MaxEpoch = 2
INVARIANTS ForksAreProvable EquippedAsPublished ViewsOnlyAdvance HonestNeverAccused
CHECK_DEADLOCK FALSE
