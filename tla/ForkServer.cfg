SPECIFICATION FairSpec
CONSTANTS
  c1 = c1
  c2 = c2
