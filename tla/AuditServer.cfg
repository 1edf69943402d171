SPECIFICATION Spec
INVARIANTS TypeOK VersionIdentifiesContent RequestsKnowTheirBase
PROPERTIES VersionCountsWrites NoLostUpdate ConflictIsReal
CONSTANTS
  Client = {c1, c2}
  Part = {p1, p2}
  Column = {metadata}
  Value = {v1, v2}
  MaxVersion = 2
  MaxLife = 1
  EditBound = 1
  Keep = Keep
SYMMETRY Symmetry
