SPECIFICATION FairSpec
CONSTANTS
  Size = 4
  Chunks <- OneToTwo
  Targets = {1, 3, 4}
  Failures <- AllFailures
  EndsIdle = {TRUE, FALSE}
  SeekInDone = FALSE
INVARIANTS
  WishesAreObeyed
  DeletedLast
PROPERTIES
  DoneOnce
  SeekIsCarriedOut
  CloseCompletes
  ImplementsContract
