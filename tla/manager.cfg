\* One manager, two receiving queues, peers that send at will.
SPECIFICATION FairSpec
CONSTANTS
  hub = hub long = long short = short out = out big = big small = small
  Nothing = Nothing
  Managers = {hub}
  Queues = {long, short, out}
  Messages = {big, small}
  Rx <- HubRx
  Tx <- HubTx
  Size <- HubSize
  QueueLength <- HubQueueLength
  ArraySize = 2
  WorkInterval = 3
  TimerMod <- HubTimerMod
INVARIANTS
  WorkNotStarved
  TimerNotStarved
  QueuesTakeTurns
  NoSleepOnBacklog
  StopIsPrompt
  EndsOnlyWhenStopped
  IInv
PROPERTIES
  StopReturns
  MessagesHandled
  TimersCalled
