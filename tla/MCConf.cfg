\* Maps and arrays four deep below the top level, one key left without a value.
CONSTANTS
  MaxStack = 4
  MaxValueless = 1
SPECIFICATION FairSpec
INVARIANTS TypeOK NoBug Mirrors KeysDue Whole
PROPERTIES OwnKeyWhileValued KeyFromWithin StopsAtEnd
