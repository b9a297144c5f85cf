SPECIFICATION FairSpec
CONSTANTS
  r1 = r1
  r2 = r2
  blank = blank
  one = one
  two = two
  Runs = {r1}
  Paths = {p, q}
  Texts = {blank, one, two}
  Size <- ChunksOf
  Nothing = Nothing
  MaxEdits = 0
  MaxFailures = 1
PROPERTY Reconverges
