SPECIFICATION FairSpec
CONSTANTS
  Tasks = {tcps, tick}
  Tick = tick
  Reporters = {status}
  Size = 2
  Lens = {1, 2}
  Iters = 2
  MaxTokens = 1
  Stale = 1
  Losses = 1
INVARIANTS
  TypeOK
  NothingWithheld
PROPERTIES
  MarkHeals
  WaitEnds
