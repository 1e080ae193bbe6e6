SPECIFICATION Spec
CONSTANTS
  i1 = i1
  i2 = i2
  i3 = i3
  c1 = c1
  c2 = c2
  m1 = m1
  m2 = m2
  Instances <- ThreeInstances
  RowIds <- FourRows
  Calls <- TwoCalls
  Removers <- TwoRemovers
  Limits <- OneOrTwo
  Unlimited = Unlimited
  None = None
SYMMETRY Symmetry
INVARIANTS OneRowPerInstance SlotHoldersNotRefused
PROPERTIES NoSlotBeyondLimit
