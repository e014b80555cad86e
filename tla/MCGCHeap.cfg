SPECIFICATION Spec
CONSTANTS
  ArenaSize = 8
  Sizes = {0, 3, 4, 9}
  MaxAllocs = 5
  Calls <- DerivedSecond
  Null = Null
  Wild = Wild
INVARIANTS BlocksDisjoint FinalizedOnce ArenasFreed
