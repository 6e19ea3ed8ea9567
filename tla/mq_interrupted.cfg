\* Two threads in message_queue_add_tx0_locked, one of them with a signal pending.
SPECIFICATION Spec
CONSTANTS
  QueueLength = 6
  HeaderSize = 2
  m0 = m0
  m1 = m1
  m3 = m3
  mBig = mBig
  Messages <- MCMessages
  DataLength <- MCDataLength
  ReserveLengths = {}
  AddBuffers = {}
  GetBuffers = {5}
  Senders = {s1, s2}
  Locking = "interruptible"
  StrongOrder = TRUE
  Nothing = Nothing
INVARIANTS
  SpaceReserved
