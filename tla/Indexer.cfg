SPECIFICATION FairSpec
CONSTANTS
  r1 = r1
  r2 = r2
  blank = blank
  one = one
  two = two
  Runs = {r1, r2}
  Paths = {p, q}
  Texts = {blank, one, two}
  Size <- ChunksOf
  Nothing = Nothing
  MaxEdits = 1
  MaxFailures = 1
INVARIANTS
  TypeOK
  WholeUnlessTorn
PROPERTIES
  CleanRunIsExact
  ReconvergesUnlessTorn
