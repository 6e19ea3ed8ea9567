\* One sending thread without a lock, one receiving thread: the setting of
\* message_queue_add and of a MessageManager's worker.
SPECIFICATION Spec
CONSTANTS
  QueueLength = 7
  HeaderSize = 2
  m0 = m0
  m1 = m1
  m3 = m3
  mBig = mBig
  Messages <- MCMessages
  DataLength <- MCDataLength
  ReserveLengths = {1, 3}
  AddBuffers = {0, 5}
  GetBuffers = {1, 3, 5}
  Senders = {s1}
  Locking = "unlocked"
  StrongOrder = TRUE
  Nothing = Nothing
INVARIANTS
  InFlightIntact
  DeliveredIntact
  FullIsNotEmpty
  RoomIsExact
  SpaceReserved
  PeekStaysValid
  IInv
PROPERTIES
  ChecksStayValid
  ImplementsFifo
