SPECIFICATION Spec
CONSTANTS
  Rule = {r1, r2, r3}
  Request = {q1, q2}
  NoRule = NoRule
  NoRow = NoRow
  NoContent = NoContent
  MaxEdits = 2
INVARIANTS TypeOK PublishedComesFromDraft ReadIsOfItsVersion
PROPERTY PatchLosesNothing
SYMMETRY Symmetry
CHECK_DEADLOCK FALSE
