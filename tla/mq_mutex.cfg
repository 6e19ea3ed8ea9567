\* Two sending threads behind MessageQueueWriter::add_locked's mutex.
SPECIFICATION Spec
CONSTANTS
  QueueLength = 6
  HeaderSize = 2
  m0 = m0
  m1 = m1
  m3 = m3
  mBig = mBig
  Messages = {m0, m3}
  DataLength <- MCDataLength
  ReserveLengths = {}
  AddBuffers = {}
  GetBuffers = {5}
  Senders = {s1, s2}
  Locking = "mutex"
  StrongOrder = TRUE
  Nothing = Nothing
INVARIANTS
  SpaceReserved
PROPERTIES
  ImplementsFifo
