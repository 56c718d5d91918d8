SPECIFICATION Spec
CONSTANTS
  N = 3
  Size = 2
  Again = {2}
INVARIANTS
  ListInv
  SkipsHaveCause
  RepeatsHaveCause
  CompletedWithRecords
  TotalFitsPage
