----------------------------- MODULE MessageQueue ------------------------------
(******************************************************************************)
(* The shared-memory message queue of common/message_queue.c: a byte ring     *)
(* written by one endpoint and read by the other with no lock between them.   *)
(*                                                                            *)
(* The sending side may be one thread (message_queue_add, _add_begin and      *)
(* _add_callback, "unlocked"), or several threads behind a lock: the          *)
(* std::mutex of MessageQueueWriter::add_locked ("mutex"), or the kernel      *)
(* mutex of message_queue_add_tx0_locked, which is taken with                 *)
(* mutex_lock_interruptible and whose -EINTR is ignored ("interruptible").    *)
(*                                                                            *)
(* A byte of the ring is <<m, i>>, byte i of message m: m_length and the      *)
(* other header fields are the bytes 0 .. HeaderSize-1, so m_length can be    *)
(* read back only from a header whose bytes all belong to one message.        *)
(* Positions and lengths are far below 2^64 (a mapping is at most 1 GB), so   *)
(* they are plain naturals.                                                   *)
(******************************************************************************)
EXTENDS Integers, Sequences

CONSTANTS
  QueueLength,     \* queueLength: bytes in m_queue
  HeaderSize,      \* sizeof(struct Message)
  Messages,        \* the messages clients send
  DataLength,      \* m_length of each message
  ReserveLengths,  \* dataLength values passed to message_queue_add_begin
  AddBuffers,      \* bufferLen values passed to message_queue_add_callback
  GetBuffers,      \* bufferLen values passed to message_queue_get
  Senders,         \* threads that add messages
  Locking,         \* "unlocked" | "mutex" | "interruptible"
  StrongOrder,     \* the other side sees a sender's stores in program order
  Nothing          \* no thread, no message, no byte, no length

ASSUME QueueLengthAssumption == QueueLength \in Nat \ {0}
ASSUME HeaderSizeAssumption == HeaderSize \in Nat \ {0}
ASSUME DataLengthAssumption == DataLength \in [Messages -> Nat]
ASSUME BufferAssumption ==
  ReserveLengths \subseteq Nat /\ AddBuffers \subseteq Nat /\ GetBuffers \subseteq Nat
ASSUME LockingAssumption == Locking \in {"unlocked", "mutex", "interruptible"}
ASSUME StrongOrderAssumption == StrongOrder \in BOOLEAN
ASSUME NothingAssumption ==
  Nothing \notin Senders /\ Nothing \notin Messages /\ Nothing \notin Nat

VARIABLES
  ring,      \* m_queue
  rd,        \* m_rd
  wr,        \* m_wr
  inflight,  \* history: the published, unconsumed messages and where they start
  lock,      \* who holds m_addMutex / add_mutex
  spc,       \* where each sender is
  smsg,      \* the message each sender is adding
  swr,       \* each sender's local wr
  stores,    \* the stores of the add in progress that are not visible yet
  rpc,       \* where the receiver is
  rlen,      \* message->m_length as the receiver read it
  rbuf,      \* the receiver's copy buffer
  peeked     \* the size message_queue_next_length last announced, if unconsumed

ringVars == <<ring, rd, wr, inflight>>
senderVars == <<lock, spc, smsg, swr, stores>>
receiverVars == <<rpc, rlen, rbuf, peeked>>
vars == <<ring, rd, wr, inflight, lock, spc, smsg, swr, stores, rpc, rlen, rbuf, peeked>>

--------------------------------------------------------------------------------
(* Positions, sizes and the content of the ring.                              *)

Positions == 0 .. QueueLength - 1

Bytes == (Messages \X Nat) \cup {Nothing}

Size(m) == DataLength[m] + HeaderSize

(* Bytes between the two positions; a position out of range makes it zero. *)
Avail(r, w) ==
  IF r >= QueueLength \/ w >= QueueLength \/ r = w THEN 0
  ELSE IF w > r THEN w - r ELSE QueueLength + w - r

(* Mutant of Free: no byte kept back. *)
FreeWithoutGap(r, w) == QueueLength - Avail(r, w)

(* One byte is always kept free, so that a full ring is not an empty one. *)
Free(r, w) == QueueLength - 1 - Avail(r, w)

(* Mutant of Advance: the modulo is forgotten. *)
AdvanceUnwrapped(p, n) == p + n

Advance(p, n) == (p + n) % QueueLength

(* Mutant of HasRoom: the room to the end of the ring, not the free space. *)
HasRoomToEnd(n) == wr < QueueLength /\ n <= QueueLength - wr

(* n bytes may be added. *)
HasRoom(n) == n <= Free(rd, wr) /\ wr < QueueLength

(* Mutant of InOnePiece: the end of the ring is not looked at. *)
InAnyPiece(p, n) == TRUE

(* n bytes from p on do not run past the end of the ring. *)
InOnePiece(p, n) == QueueLength - p >= n

(* Mutant of ByteFrom: the second piece starts where the first one did. *)
ByteFromUnwrapped(p, j) ==
  IF j < QueueLength - p THEN ring[p + j] ELSE ring[p + j - (QueueLength - p)]

(* Byte j of what is read from p on: in one piece, or two. *)
ByteFrom(p, j) == IF j < QueueLength - p THEN ring[p + j] ELSE ring[j - (QueueLength - p)]

(* The bytes of m as a sender lays them out in a buffer. *)
Image(m) == [i \in 0 .. Size(m) - 1 |-> <<m, i>>]

HeaderAt(p) == [i \in 0 .. HeaderSize - 1 |-> ring[Advance(p, i)]]

(* What reading m_length at position p may give: the length of the message    *)
(* whose header is there, and anything when no whole header is.               *)
LengthsAt(p) ==
  {n \in 0 .. QueueLength :
     \A m \in Messages :
       (\A i \in 0 .. HeaderSize - 1 : HeaderAt(p)[i] = <<m, i>>) => n = DataLength[m]}

Init ==
  /\ ring = [p \in Positions |-> Nothing]
  /\ rd = 0
  /\ wr = 0
  /\ inflight = <<>>
  /\ lock = Nothing
  /\ spc = [s \in Senders |-> "idle"]
  /\ smsg = [s \in Senders |-> Nothing]
  /\ swr = [s \in Senders |-> 0]
  /\ stores = [s \in Senders |-> {}]
  /\ rpc = "idle"
  /\ rlen = 0
  /\ rbuf = <<>>
  /\ peeked = Nothing

--------------------------------------------------------------------------------
(* The sending side.                                                          *)

Goto(s, label) == spc' = [spc EXCEPT ![s] = label]

(* message_queue_add returns: a locked variant still has to unlock. *)
Returned == IF Locking = "unlocked" THEN "idle" ELSE "unlock"

(* A client calls message_queue_add, or one of its locked variants. *)
CallAdd(s, m) ==
  /\ spc[s] = "idle"
  /\ smsg' = [smsg EXCEPT ![s] = m]
  /\ Goto(s, IF Locking = "unlocked" THEN "call" ELSE "wait")
  /\ UNCHANGED <<ringVars, receiverVars, lock, swr, stores>>

(* Mutant of LockAdd: the lock does not exclude. *)
LockAddAlways(s) ==
  /\ spc[s] = "wait"
  /\ lock' = s
  /\ Goto(s, "call")
  /\ UNCHANGED <<ringVars, receiverVars, smsg, swr, stores>>

(* The lock is taken when it is free. mutex_lock_interruptible also returns,  *)
(* with -EINTR and without the mutex, when it is held and a signal is         *)
(* pending, and the caller goes on all the same.                              *)
LockAdd(s) ==
  /\ spc[s] = "wait"
  /\ Locking = "mutex" => lock = Nothing
  /\ lock' = IF lock = Nothing THEN s ELSE lock
  /\ Goto(s, "call")
  /\ UNCHANGED <<ringVars, receiverVars, smsg, swr, stores>>

(* message_queue_add_l loads m_rd and m_wr: too little free space. *)
AddRefused(s) ==
  /\ spc[s] = "call"
  /\ ~HasRoom(Size(smsg[s]))
  /\ Goto(s, Returned)
  /\ UNCHANGED <<ringVars, receiverVars, lock, smsg, swr, stores>>

(* message_queue_add_l loads m_rd and m_wr: there is room, and the copy is    *)
(* one memcpy, or two when the message runs past the end of the ring.         *)
AddAccepted(s) ==
  /\ spc[s] = "call"
  /\ HasRoom(Size(smsg[s]))
  /\ swr' = [swr EXCEPT ![s] = wr]
  /\ stores' = [stores EXCEPT ![s] =
       IF InOnePiece(wr, Size(smsg[s])) THEN {"head", "wr"} ELSE {"head", "rest", "wr"}]
  /\ Goto(s, "store")
  /\ UNCHANGED <<ringVars, receiverVars, lock, smsg>>

(* Store x of s may become visible now. Nothing in the code orders the stores *)
(* but the program: with StrongOrder false (weakly ordered CPUs) any order    *)
(* is possible.                                                               *)
MayBeSeen(s, x) ==
  /\ x \in stores[s]
  /\ StrongOrder /\ x = "rest" => "head" \notin stores[s]
  /\ StrongOrder /\ x = "wr" => stores[s] = {"wr"}

Seen(s, x) ==
  /\ stores' = [stores EXCEPT ![s] = @ \ {x}]
  /\ Goto(s, IF stores[s] = {x} THEN Returned ELSE spc[s])

(* The memcpy to m_queue[wr], up to the end of the ring; in place, it stands  *)
(* for the InitMessageFn handler filling the message it was given.            *)
CopyHead(s) ==
  /\ spc[s] \in {"store", "inplace"}
  /\ MayBeSeen(s, "head")
  /\ ring' = [p \in Positions |->
       IF p >= swr[s] /\ p - swr[s] < Size(smsg[s]) THEN <<smsg[s], p - swr[s]>> ELSE ring[p]]
  /\ Seen(s, "head")
  /\ UNCHANGED <<rd, wr, inflight, receiverVars, lock, smsg, swr>>

(* The memcpy of what is left to m_queue[0]. *)
CopyRest(s) ==
  LET headSize == QueueLength - swr[s] IN
  /\ spc[s] = "store"
  /\ MayBeSeen(s, "rest")
  /\ ring' = [p \in Positions |->
       IF p < Size(smsg[s]) - headSize THEN <<smsg[s], headSize + p>> ELSE ring[p]]
  /\ Seen(s, "rest")
  /\ UNCHANGED <<rd, wr, inflight, receiverVars, lock, smsg, swr>>

(* message_queue_add_l stores m_wr: the message is now the receiver's. *)
Publish(s) ==
  /\ spc[s] = "store"
  /\ MayBeSeen(s, "wr")
  /\ wr' = Advance(swr[s], Size(smsg[s]))
  /\ inflight' = Append(inflight, [msg |-> smsg[s], at |-> swr[s]])
  /\ Seen(s, "wr")
  /\ UNCHANGED <<ring, rd, receiverVars, lock, smsg, swr>>

(* message_queue_add_begin_l finds room for dataLength bytes in one piece:    *)
(* the caller gets a pointer into the ring. It will put m there, which may be *)
(* shorter than what it asked room for.                                       *)
AddBeginInPlace(s, m, dataLength) ==
  /\ Locking = "unlocked"
  /\ spc[s] = "idle"
  /\ DataLength[m] <= dataLength
  /\ HasRoom(dataLength + HeaderSize)
  /\ InOnePiece(wr, dataLength + HeaderSize)
  /\ smsg' = [smsg EXCEPT ![s] = m]
  /\ swr' = [swr EXCEPT ![s] = wr]
  /\ stores' = [stores EXCEPT ![s] = {"head", "wr"}]
  /\ Goto(s, "inplace")
  /\ UNCHANGED <<ringVars, receiverVars, lock>>

(* message_queue_add_callback_l is given no pointer because the room runs     *)
(* past the end of the ring: if the caller's buffer is large enough the       *)
(* handler fills it, and the message is added from there.                     *)
AddCallbackBuffered(s, m, dataLength, bufferLen) ==
  /\ Locking = "unlocked"
  /\ spc[s] = "idle"
  /\ DataLength[m] <= dataLength
  /\ HasRoom(dataLength + HeaderSize)
  /\ ~InOnePiece(wr, dataLength + HeaderSize)
  /\ bufferLen >= dataLength + HeaderSize
  /\ smsg' = [smsg EXCEPT ![s] = m]
  /\ Goto(s, "call")
  /\ UNCHANGED <<ringVars, receiverVars, lock, swr, stores>>

(* The InitMessageFn handler returns false, whether or not it has already     *)
(* written into the ring: nothing is published.                               *)
HandlerDeclines(s) ==
  /\ spc[s] = "inplace"
  /\ "wr" \in stores[s]
  /\ stores' = [stores EXCEPT ![s] = {}]
  /\ Goto(s, "idle")
  /\ UNCHANGED <<ringVars, receiverVars, lock, smsg, swr>>

(* message_queue_add_complete_l publishes the message filled in place. It     *)
(* loads m_wr again, and the length the handler left in the message.          *)
AddComplete(s) ==
  /\ spc[s] = "inplace"
  /\ MayBeSeen(s, "wr")
  /\ wr < QueueLength
  /\ wr' = Advance(wr, Size(smsg[s]))
  /\ inflight' = Append(inflight, [msg |-> smsg[s], at |-> swr[s]])
  /\ Seen(s, "wr")
  /\ UNCHANGED <<ring, rd, receiverVars, lock, smsg, swr>>

(* The lock guard's destructor, or mutex_unlock: the latter opens the mutex   *)
(* even when an interrupted caller never held it.                             *)
UnlockAdd(s) ==
  /\ spc[s] = "unlock"
  /\ lock' = Nothing
  /\ Goto(s, "idle")
  /\ UNCHANGED <<ringVars, receiverVars, smsg, swr, stores>>

Sender(s) ==
  \/ \E m \in Messages : CallAdd(s, m)
  \/ LockAdd(s)
  \/ AddRefused(s)
  \/ AddAccepted(s)
  \/ CopyHead(s)
  \/ CopyRest(s)
  \/ Publish(s)
  \/ \E m \in Messages, n \in ReserveLengths : AddBeginInPlace(s, m, n)
  \/ \E m \in Messages, n \in ReserveLengths, b \in AddBuffers : AddCallbackBuffered(s, m, n, b)
  \/ HandlerDeclines(s)
  \/ AddComplete(s)
  \/ UnlockAdd(s)

--------------------------------------------------------------------------------
(* The receiving side: one thread.                                            *)

(* The first message leaves the queue. *)
Dequeue == inflight' = SubSeq(inflight, 2, Len(inflight))

(* message_queue_get_l, _get_begin_l or _next_length_l loads m_rd and m_wr    *)
(* and finds a message; with none, or a position out of range, it returns     *)
(* false and nothing changes.                                                 *)
Load(op) ==
  /\ rpc = "idle"
  /\ rd < QueueLength /\ wr < QueueLength
  /\ rd # wr
  /\ rpc' = op
  /\ UNCHANGED <<ringVars, senderVars, rlen, rbuf, peeked>>

(* message_queue_get_l copies the header out, byte by byte, and judges the    *)
(* length it carries against the ring and the caller's buffer.                *)
GetHeader(bufferLen) ==
  /\ rpc = "get"
  /\ \E length \in LengthsAt(rd) :
       IF /\ bufferLen >= HeaderSize
          /\ length + HeaderSize < QueueLength
          /\ length = 0 \/ bufferLen >= length + HeaderSize
       THEN rpc' = "copy" /\ rlen' = length /\ rbuf' = HeaderAt(rd)
       ELSE rpc' = "idle" /\ UNCHANGED <<rlen, rbuf>>
  /\ UNCHANGED <<ringVars, senderVars, peeked>>

(* Then the data, in one memcpy, or two when it runs past the end. *)
GetData ==
  /\ rpc = "copy"
  /\ rbuf' = [i \in 0 .. rlen + HeaderSize - 1 |->
                IF i < HeaderSize THEN rbuf[i] ELSE ByteFrom(Advance(rd, HeaderSize), i - HeaderSize)]
  /\ rpc' = "consume"
  /\ UNCHANGED <<ringVars, senderVars, rlen, peeked>>

(* Last, message_queue_get_l stores m_rd and the caller has its message. *)
GetConsume ==
  /\ rpc = "consume"
  /\ rd' = Advance(Advance(rd, HeaderSize), rlen)
  /\ Dequeue
  /\ rpc' = "copied"
  /\ peeked' = Nothing
  /\ UNCHANGED <<ring, wr, senderVars, rlen, rbuf>>

(* The message handler is done with the copy. *)
CopyHandled ==
  /\ rpc = "copied"
  /\ rpc' = "idle"
  /\ rlen' = 0
  /\ rbuf' = <<>>
  /\ UNCHANGED <<ringVars, senderVars, peeked>>

(* message_queue_get_begin_l: a message in one piece is handed out where it   *)
(* lies; for any other the caller gets no pointer and has to copy it.         *)
GetBegin ==
  /\ rpc = "begin"
  /\ \E length \in LengthsAt(rd) :
       IF /\ length + HeaderSize < QueueLength
          /\ InOnePiece(rd, length + HeaderSize)
       THEN rpc' = "inplace" /\ rlen' = length
       ELSE rpc' = "idle" /\ UNCHANGED rlen
  /\ UNCHANGED <<ringVars, senderVars, rbuf, peeked>>

(* message_queue_get_complete_l reads the length again and stores m_rd. *)
GetComplete ==
  /\ rpc = "inplace"
  /\ rd < QueueLength
  /\ \E length \in LengthsAt(rd) :
       IF length + HeaderSize < QueueLength
       THEN rd' = Advance(rd, length + HeaderSize) /\ Dequeue /\ peeked' = Nothing
       ELSE UNCHANGED <<rd, inflight, peeked>>
  /\ rpc' = "idle"
  /\ rlen' = 0
  /\ UNCHANGED <<ring, wr, senderVars, rbuf>>

(* Mutant of NextLength: the header is left out of the size announced. *)
NextLengthOfData ==
  /\ rpc = "peek"
  /\ \E length \in LengthsAt(rd) :
       peeked' = IF length + HeaderSize < QueueLength THEN length ELSE peeked
  /\ rpc' = "idle"
  /\ UNCHANGED <<ringVars, senderVars, rlen, rbuf>>

(* message_queue_next_length_l announces the size of the next message. *)
NextLength ==
  /\ rpc = "peek"
  /\ \E length \in LengthsAt(rd) :
       peeked' = IF length + HeaderSize < QueueLength THEN length + HeaderSize ELSE peeked
  /\ rpc' = "idle"
  /\ UNCHANGED <<ringVars, senderVars, rlen, rbuf>>

Receiver ==
  \/ \E op \in {"get", "begin", "peek"} : Load(op)
  \/ \E b \in GetBuffers : GetHeader(b)
  \/ GetData
  \/ GetConsume
  \/ CopyHandled
  \/ GetBegin
  \/ GetComplete
  \/ NextLength

Next == (\E s \in Senders : Sender(s)) \/ Receiver

Spec == Init /\ [][Next]_vars

--------------------------------------------------------------------------------
(* What the queue must guarantee.                                             *)

(* Every variable stays in its type; above all m_rd and m_wr never leave the  *)
(* ring, whatever the lengths added and however often it wraps, so the two    *)
(* "position out of range" errors of message_queue_get_l are unreachable.     *)
TypeOK ==
  /\ ring \in [Positions -> Bytes]
  /\ rd \in Positions /\ wr \in Positions
  /\ inflight \in Seq([msg : Messages, at : Positions])
  /\ lock \in Senders \cup {Nothing}
  /\ spc \in [Senders -> {"idle", "wait", "call", "store", "inplace", "unlock"}]
  /\ smsg \in [Senders -> Messages \cup {Nothing}]
  /\ swr \in [Senders -> Positions]
  /\ stores \in [Senders -> SUBSET {"head", "rest", "wr"}]
  /\ rpc \in {"idle", "get", "begin", "peek", "copy", "consume", "copied", "inplace"}
  /\ rlen \in 0 .. QueueLength
  /\ \E n \in 0 .. 2 * QueueLength + HeaderSize : rbuf \in [0 .. n - 1 -> Bytes]
  /\ peeked \in 0 .. QueueLength \cup {Nothing}

(* Every byte of every message that was published and not yet consumed is     *)
(* still what its sender wrote: neither the same sender's next messages nor   *)
(* another sender's reach it, around the end of the ring included.            *)
InFlightIntact ==
  \A k \in 1 .. Len(inflight) : \A i \in 0 .. Size(inflight[k].msg) - 1 :
    ring[Advance(inflight[k].at, i)] = <<inflight[k].msg, i>>

(* The message the receiver works on, whether message_queue_get_l has copied  *)
(* it out or message_queue_get_begin_l lets the handler read it in the ring,  *)
(* is byte for byte the oldest unconsumed one, for as long as the handler has *)
(* it: no sender running meanwhile changes a byte under it.                   *)
DeliveredIntact ==
  LET m == inflight[1].msg IN
  /\ rpc = "consume" => inflight # <<>> /\ rbuf = Image(m)
  /\ rpc = "inplace" =>
       /\ inflight # <<>>
       /\ rlen = DataLength[m]
       /\ \A i \in 0 .. Size(m) - 1 : rd + i < QueueLength /\ ring[rd + i] = <<m, i>>

(* m_rd = m_wr means empty and never full: the byte message_queue_get_free_l  *)
(* keeps back is enough, with messages of any mix of sizes.                   *)
FullIsNotEmpty == rd = wr <=> inflight = <<>>

(* The bytes of the messages that are published and not yet consumed.         *)
BytesWaiting ==
  LET bytes[k \in 0 .. Len(inflight)] ==
        IF k = 0 THEN 0 ELSE bytes[k - 1] + Size(inflight[k].msg)
  IN  bytes[Len(inflight)]

(* message_queue_add takes a message exactly when it fits beside the ones not *)
(* yet consumed, one byte kept back: wherever the ring stands, no byte of a   *)
(* consumed message, or of an add that was given up, is lost to later ones.   *)
RoomIsExact == \A m \in Messages : HasRoom(Size(m)) <=> BytesWaiting + Size(m) < QueueLength

(* While an add is between its check of the free space and its store of m_wr, *)
(* the space it checked stays free, m_wr is still the one it loaded, and no   *)
(* other sender is in the same position.                                      *)
SpaceReserved ==
  \A s \in Senders : spc[s] \in {"store", "inplace"} =>
    /\ wr = swr[s]
    /\ Size(smsg[s]) <= Free(rd, wr)
    /\ \A t \in Senders \ {s} : stores[t] = {}

(* The size message_queue_next_length_l announces stays the size of the next  *)
(* message until that message is consumed: a client that allocates a buffer   *)
(* of that size and then calls message_queue_get is given the message.        *)
PeekStaysValid ==
  peeked # Nothing => inflight # <<>> /\ peeked = Size(inflight[1].msg)

(* What a side sees of the other is only ever pessimistic: free space grows   *)
(* unless a sender publishes, available bytes grow unless the receiver        *)
(* consumes. The check made on loaded positions is valid until acted upon.    *)
ChecksStayValid ==
  [][ /\ wr' = wr => Free(rd', wr') >= Free(rd, wr)
      /\ rd' = rd => Avail(rd', wr') >= Avail(rd, wr) ]_<<rd, wr>>

(* The message a run of bytes spells, given the length the receiver read.     *)
Spelled(length, byte(_)) ==
  IF \E m \in Messages : length = DataLength[m] /\ \A i \in 0 .. Size(m) - 1 : byte(i) = <<m, i>>
  THEN CHOOSE m \in Messages :
         length = DataLength[m] /\ \A i \in 0 .. Size(m) - 1 : byte(i) = <<m, i>>
  ELSE <<"torn">>

(* The message the receiver's handler is looking at, as the handler sees it. *)
InHand ==
  CASE rpc = "inplace" -> Spelled(rlen, LAMBDA i : ring[Advance(rd, i)])
    [] rpc = "copied"  -> Spelled(rlen, LAMBDA i : IF i \in DOMAIN rbuf THEN rbuf[i] ELSE Nothing)
    [] OTHER           -> Nothing

(* The messages accepted and not yet given to the handler. *)
Contents == [k \in 1 .. Len(inflight) |-> inflight[k].msg]

Waiting == IF rpc = "inplace" THEN SubSeq(Contents, 2, Len(Contents)) ELSE Contents

Fifo == INSTANCE MessageFifo WITH queue <- Waiting, holding <- InHand

(* The byte ring with all its interleavings is a FIFO of whole messages: each *)
(* accepted message is handed to the receiver once, in order, as it was sent. *)
ImplementsFifo == Fifo!Spec

--------------------------------------------------------------------------------
(* Why it does: an inductive invariant, and the rule of use it depends on.    *)

(* The queue is used as it must be: stores become visible in order, and at    *)
(* most one thread adds at a time, being alone or behind a lock that holds.   *)
Disciplined ==
  /\ StrongOrder
  /\ \/ Locking = "mutex"
     \/ Locking = "unlocked" /\ \A s, t \in Senders : s = t

(* How far position p is ahead of m_rd. *)
Offset(p) == IF p >= rd THEN p - rd ELSE QueueLength + p - rd

(* Where message k of inflight ends, as an offset. *)
EndOffset(k) == Offset(inflight[k].at) + Size(inflight[k].msg)

(* The unconsumed messages lie end to end from m_rd to m_wr. *)
ChainInv ==
  /\ inflight = <<>> => rd = wr
  /\ inflight # <<>> => /\ inflight[1].at = rd
                       /\ EndOffset(Len(inflight)) = Avail(rd, wr)
  /\ \A k \in 1 .. Len(inflight) : EndOffset(k) <= Avail(rd, wr)
  /\ \A j, k \in 1 .. Len(inflight) :
       /\ j < k => EndOffset(j) <= Offset(inflight[k].at)
       /\ k = j + 1 => EndOffset(j) = Offset(inflight[k].at)

(* A sender at work holds the lock, or is the only sender. *)
LockInv ==
  \A s \in Senders :
    /\ spc[s] # "idle" => smsg[s] \in Messages
    /\ Locking = "unlocked" => spc[s] \notin {"wait", "unlock"}
    /\ Locking = "mutex" => spc[s] # "inplace"
    /\ Locking = "mutex" /\ spc[s] \in {"call", "store", "unlock"} => lock = s
    /\ spc[s] \notin {"store", "inplace"} => stores[s] = {}

(* What the add in progress of s has checked, and what it has written so far. *)
Adding(s) ==
  /\ swr[s] = wr
  /\ Size(smsg[s]) <= Free(rd, wr)
  /\ "wr" \in stores[s]
  /\ spc[s] = "inplace" => QueueLength - wr >= Size(smsg[s])
  /\ "head" \in stores[s] \/
       \A i \in 0 .. Size(smsg[s]) - 1 : wr + i < QueueLength => ring[wr + i] = <<smsg[s], i>>
  /\ "rest" \in stores[s] \/ QueueLength - wr >= Size(smsg[s]) \/
       \A i \in 0 .. Size(smsg[s]) - 1 :
         wr + i >= QueueLength => ring[wr + i - QueueLength] = <<smsg[s], i>>

WriteInv == \A s \in Senders : spc[s] \in {"store", "inplace"} => Adding(s)

(* What the receiver has found out, and what it has copied so far. *)
ReadInv ==
  LET m == inflight[1].msg IN
  /\ rpc \notin {"idle", "copied"} => inflight # <<>>
  /\ rpc \in {"copy", "consume", "inplace"} => rlen = DataLength[m]
  /\ rpc = "copy" => rbuf = [i \in 0 .. HeaderSize - 1 |-> <<m, i>>]
  /\ rpc = "consume" => rbuf = Image(m)
  /\ rpc = "inplace" => rd + Size(m) <= QueueLength
  /\ rpc = "copied" => \E n \in Messages : rlen = DataLength[n] /\ rbuf = Image(n)
  /\ peeked # Nothing => inflight # <<>> /\ peeked = Size(m)

(* The inductive invariant of a disciplined queue: every position, byte and   *)
(* length that a step relies on is what the step before left there.           *)
IInv ==
  /\ TypeOK
  /\ ChainInv
  /\ InFlightIntact
  /\ LockInv
  /\ WriteInv
  /\ ReadInv

================================================================================
