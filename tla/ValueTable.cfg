CONSTANTS
  MaxEntries = 2
  LearningThreshold = 2
  MaxId = 6
  Values <- MCValues
  PreloadLists <- MCPreloadLists
SPECIFICATION Spec
INVARIANTS TypeOK TableInv ReturnedIdIsLive LearnedOnlyWhenRepeated
PROPERTY IdsNeverRebound
