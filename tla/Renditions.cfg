SPECIFICATION SubsSpec
CONSTANTS
  Source <- MCSource
  Texts <- MCTexts
  LadderLists <- MCLadderLists
  PlayerLists <- MCPlayerLists
  MaxSubs = 2
  Roots = {r1, r2}
  Others = {v1}
  MaxPosts = 2
SYMMETRY MCSymmetry
INVARIANTS
    ListsCarried
    
    HeldRootsCarry
PROPERTIES
    PlayersListStays
CHECK_DEADLOCK FALSE
