SPECIFICATION MCSpec
CONSTANTS
  a = a  b = b  writer = writer  reader = reader  h1 = h1  h2 = h2  cron = cron
  Merge = Merge  Update = Update  Ignore = Ignore  None = None
  PRs = {a, b}
  Users = {writer, reader}
  Writers = {writer}
  Configs <- MCConfigs
  Handlers = {h1}
  Sweeper = cron
  MaxEvaluations = 1
  MaxEvents = 2
PROPERTIES QueuesVouched RemovalHolds HeldIsReleased LeftIsUpdated
