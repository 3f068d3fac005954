CONSTANTS
  n1 = n1
  n2 = n2
  bad = bad
  school = school
  home = home
  Default = default
  Valid <- MCValid
  Refused = {bad}
  Swarms <- MCSwarms
  MaxRuns = 3
SPECIFICATION FairSpec
INVARIANTS
  TypeOK
  NameEverywhere
  Converges
PROPERTIES
  RunEnds
