SPECIFICATION FairSpec
CONSTANTS
  Workers = {w1, w2}
  NumShards = 3
  edit = edit
  test = test
  docs = docs
  key = key
  cheap = cheap
  dear = dear
  TextChoices <- MCTextChoices
  Secretive = {key}
  Redacted = redacted
  Models = {cheap, dear}
  TaskModel = cheap
  Price <- MCPrice
  Sizes = {1, 2}
  TaskCap = 3
  HardCap = 5
  PerShard = 1
  NoFile = NoFile
  MaxRuns = 2
INVARIANT TypeOK
INVARIANT TapeIsPaid
INVARIANT TotalsNeverAhead
INVARIANT HandedOutInOrder
INVARIANT SingleRoundTrip
INVARIANT GreenMeansFaithful
PROPERTY RunsEnd
