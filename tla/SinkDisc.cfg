SPECIFICATION FairSpec
CONSTANTS
  t1 = t1
  t2 = t2
  Workers = {t1, t2}
  Xsize = 2
  Ysize = 5
  nlines = 2
INVARIANTS
  TypeOK
  SectionsInOrder
  OnlyCompleteSections
  ComesBackOnlyWithTheImage
PROPERTIES
  ComesBack
