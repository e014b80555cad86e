SPECIFICATION Spec
CONSTANTS
  ArenaSize = 8
  Sizes = {0, 3, 4, 9}
  MaxAllocs = 3
  Calls <- DerivedFirst
  Null = Null
  Wild = Wild
INVARIANT FinalizedOnce
