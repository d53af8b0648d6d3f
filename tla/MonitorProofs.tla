---------------------------- MODULE MonitorProofs ----------------------------
(* Theorems about Monitor: for any events, pipes, sizes and limits, any number
   of packets and calls, and every interleaving of the three threads.        *)
EXTENDS Monitor, SequenceTheorems, FiniteSetTheorems, TLAPS

(* The inductive invariant *)

\* Only the call that waits may have put a message beyond the capacity.
QueueInv == owner.at # "wait" => Len(queue_) <= QueueSize

\* A packet is being written below the limit, after its header was.
LimitInv ==
  /\ CntrLock => writer.event \in headerExists_
  /\ storage # "PIPE" =>
       /\ packetLimit_ # 0 => packetAmount_ <= packetLimit_ /\ \A e \in Event : dataWriters_[e].open
       /\ CntrLock => packetAmount_ < packetLimit_

\* items of the record in progress that are still to be written
Pending(e) ==
  IF writer = [at |-> "rec", event |-> e] THEN 2
  ELSE IF writer = [at |-> "data", event |-> e] THEN 1 ELSE 0

RoomInv == storage = "IOBUF" => \A e \in Event : Len(sink[e]) + Pending(e) <= BufferSize

\* A capture of e: a header, then records, or what failed writes left of them,
\* the last one without its data while the writer is about to write them.
Capture(s, e) ==
  /\ InPlace(s)
  /\ Len(s) % 2 = 0 <=> writer = [at |-> "data", event |-> e]

\* What restart has begun to clean up is not in order before its message is handled.
CaptureInv ==
  ~Restarting /\ storage # "PIPE" =>
    /\ \A e \in Event : /\ e \in headerExists_ <=> sink[e] # <<>>
                        /\ sink[e] # <<>> => Capture(sink[e], e)
    /\ packetLimit_ # 0 => IsFiniteSet(Records) /\ packetAmount_ = Cardinality(Records)

\* No event changes from one pipe to another.
OnePipeEach == \A e \in Event : \A p, q \in PipesOf[e] : p = q

\* the pipe that holds the first half of the record in progress
HalfIn(p) ==
  writer.at = "data" /\ dataWriters_[writer.event].open /\ p \in PipesOf[writer.event]

PipeInv ==
  /\ \A e \in Event : /\ dataWriters_[e].pipe \in PipesOf[e] \cup {NoPipe}
                      /\ pipeWriterDests_[e] \in PipesOf[e] \cup {NoPipe}
  /\ storage # "PIPE" => \A p \in Pipe : stream[p] = <<>>
  /\ storage = "PIPE" /\ Alive =>
       /\ \A p \in Pipe : WholeRecords(stream[p], 1) /\ (Len(stream[p]) % 2 = 1 <=> HalfIn(p))
       /\ writer.at = "data" /\ dataWriters_[writer.event].open => PipesOf[writer.event] # {}

IndInv ==
  /\ TypeOK /\ QueueInv /\ LimitInv /\ RoomInv /\ CaptureInv
  /\ OnePipeEach => PipeInv
-----------------------------------------------------------------------------
(* Records in files and pipes *)

LEMMA AppendItem ==
  ASSUME NEW s \in Seq(Items), WholeRecords(s, 1),
         NEW item, item = IF (Len(s) + 1 - 1) % 2 = 0 THEN "rec" ELSE "data"
  PROVE  WholeRecords(Append(s, item), 1)
<1>1. item \in Items
  BY DEF Items
<1>2. /\ Len(Append(s, item)) = Len(s) + 1 /\ Len(s) \in Nat
      /\ \A i \in 1 .. Len(s) : Append(s, item)[i] = s[i]
      /\ Append(s, item)[Len(s) + 1] = item
  BY <1>1, AppendProperties, LenProperties
<1> QED BY <1>2 DEF WholeRecords

(* The next item of a capture, or the loss of it *)
LEMMA AppendInPlace ==
  ASSUME NEW s \in Seq(Items), InPlace(s), NEW item \in Items, Fits(item, Len(s) + 1)
  PROVE  InPlace(Append(s, item))
<1>1. /\ Len(Append(s, item)) = Len(s) + 1 /\ Len(s) \in Nat
      /\ \A i \in 1 .. Len(s) : Append(s, item)[i] = s[i]
      /\ Append(s, item)[Len(s) + 1] = item
  BY AppendProperties, LenProperties
<1>2. ASSUME NEW i \in 1 .. Len(Append(s, item)) PROVE Fits(Append(s, item)[i], i)
  <2>1. CASE i = Len(s) + 1
    BY <1>1, <2>1
  <2>2. CASE i \in 1 .. Len(s)
    BY <1>1, <2>2 DEF InPlace
  <2> QED BY <1>1, <2>1, <2>2
<1> QED BY <1>2 DEF InPlace

(* What an item changes of the places of packets *)
LEMMA AppendPlaces ==
  ASSUME NEW s \in Seq(Items), NEW item \in Items, Fits(item, Len(s) + 1)
  PROVE  DataPlaces(Append(s, item)) =
           DataPlaces(s) \cup IF Belongs(Len(s) + 1) = "data" THEN {Len(s) + 1} ELSE {}
<1>1. /\ Len(Append(s, item)) = Len(s) + 1 /\ Len(s) \in Nat
      /\ \A i \in 1 .. Len(s) : Append(s, item)[i] = s[i]
      /\ Append(s, item)[Len(s) + 1] = item
  BY AppendProperties, LenProperties
<1>2. (item = "data" \/ (item = "lost" /\ Belongs(Len(s) + 1) = "data"))
        <=> Belongs(Len(s) + 1) = "data"
  BY DEF Fits
<1>3. 1 .. Len(s) + 1 = (1 .. Len(s)) \cup {Len(s) + 1} /\ Len(s) + 1 \notin 1 .. Len(s)
  BY <1>1
<1> QED BY <1>1, <1>2, <1>3 DEF DataPlaces

LEMMA Parity ==
  ASSUME NEW n \in Nat
  PROVE  /\ n % 2 \in {0, 1} /\ n + 1 >= 1 /\ (n # 0 => n >= 1 /\ n + 1 >= 2)
         /\ n % 2 = 0 => /\ (n + 1) % 2 = 1 /\ ~((n + 1) % 2 = 0)
                         /\ (n + 1 - 1) % 2 = 0 /\ ~((n + 1 - 2) % 2 = 0)
         /\ n % 2 = 1 => /\ (n + 1) % 2 = 0 /\ ~((n + 1) % 2 = 1)
                         /\ ~((n + 1 - 1) % 2 = 0) /\ (n + 1 - 2) % 2 = 0
OBVIOUS

(* What the types say of the writer thread *)
LEMMA WriterIs ==
  ASSUME TypeOK
  PROVE  /\ CntrLock => /\ writer.event \in Event
                        /\ writer = [at |-> writer.at, event |-> writer.event]
         /\ handles("packet") => writer.msg.event \in Event
         /\ handles("restart") => writer.msg.limit \in Limits
<1>1. writer \in WriterType
  BY DEF TypeOK
<1>2. CntrLock => writer \in [at : {"rec", "data"}, event : Event]
  BY <1>1 DEF CntrLock, WriterType, Reading
<1>3. writer.at = "handle" => writer.msg \in Msg
  BY <1>1 DEF WriterType, Reading
<1>4. writer.at = "handle" /\ writer.msg.kind = "packet" => writer.msg.event \in Event
  BY <1>3 DEF Msg, Packet, RestartMsg, StopMsg, ShutdownMsg
<1>5. writer.at = "handle" /\ writer.msg.kind = "restart" => writer.msg.limit \in Limits
  BY <1>3 DEF Msg, Packet, RestartMsg, StopMsg, ShutdownMsg
<1> QED BY <1>2, <1>4, <1>5 DEF handles

(* A restart stays on the way while messages are queued and calls go on. *)
LEMMA StillRestarting ==
  ASSUME TypeOK, Restarting,
         queue_' = queue_ \/ \E msg \in Msg : queue_' = Append(queue_, msg),
         owner' = owner \/ owner.at \notin {"create", "reset", "restart", "wait"},
         handles("restart") => handles("restart")'
  PROVE  Restarting'
<1>1. (\E i \in 1 .. Len(queue_) : queue_[i].kind = "restart")
        => \E i \in 1 .. Len(queue_') : queue_'[i].kind = "restart"
  <2>1. CASE queue_' = queue_
    BY <2>1
  <2>2. ASSUME NEW msg \in Msg, queue_' = Append(queue_, msg),
               NEW i \in 1 .. Len(queue_), queue_[i].kind = "restart"
        PROVE  \E j \in 1 .. Len(queue_') : queue_'[j].kind = "restart"
    <3>1. Len(queue_') = Len(queue_) + 1 /\ queue_'[i] = queue_[i] /\ Len(queue_) \in Nat
      BY <2>2, AppendProperties, LenProperties DEF TypeOK
    <3> QED BY <2>2, <3>1
  <2> QED BY <2>1, <2>2
<1> QED BY <1>1 DEF Restarting

(* Steps that write nothing and do not touch the limit: no record is in progress
   before or after, or it is the same one; a crash for want of a pipe aside.   *)
LEMMA NothingWritten ==
  ASSUME IndInv, TypeOK', QueueInv', ~Restarting' => ~Restarting,
         UNCHANGED <<storage, sink, stream, headerExists_, packetAmount_, packetLimit_>>,
         \/ writer' = writer
         \/ writer'.at \notin {"rec", "data"} /\ (~CntrLock \/ (storage = "PIPE" /\ ~Alive')),
         \A e \in Event :
           /\ dataWriters_'[e].open = dataWriters_[e].open
           /\ dataWriters_'[e].pipe \in {dataWriters_[e].pipe, NoPipe} \cup PipesOf[e]
           /\ pipeWriterDests_'[e] \in {pipeWriterDests_[e], NoPipe} \cup PipesOf[e],
         ~Alive => ~Alive'
  PROVE  IndInv'
<1> USE DEF IndInv
<1>1. LimitInv'
  BY WriterIs DEF LimitInv, CntrLock
<1>0. storage # "PIPE" =>
        \A e \in Event, at \in {"rec", "data"} :
          writer' = [at |-> at, event |-> e] <=> writer = [at |-> at, event |-> e]
  <2>1. CASE writer' = writer
    BY <2>1
  <2>2. CASE storage # "PIPE" /\ writer'.at \notin {"rec", "data"} /\ writer.at \notin {"rec", "data"}
    <3>1. \A e, at : [at |-> at, event |-> e].at = at
      OBVIOUS
    <3> QED BY <2>2, <3>1
  <2> QED BY <2>1, <2>2 DEF CntrLock
<1>2. RoomInv'
  BY <1>0 DEF RoomInv, Pending
<1>3. CaptureInv'
  <2>1. Records' = Records
    BY DEF Records, DataPlaces
  <2>2. storage # "PIPE" => \A e \in Event : Capture(sink[e], e) => Capture(sink[e], e)'
    BY <1>0 DEF Capture, InPlace, Fits
  <2> QED BY <2>1, <2>2 DEF CaptureInv
<1>4. OnePipeEach => PipeInv'
  BY WriterIs DEF PipeInv, HalfIn, CntrLock
<1> QED BY <1>1, <1>2, <1>3, <1>4
-----------------------------------------------------------------------------
(* The steps *)

USE DEF fileVars, countVars

\* Appending a message to a queue that has room, or by a call that then waits
LEMMA QueueAppend ==
  ASSUME TypeOK, NEW msg \in Msg, Len(queue_) <= QueueSize
  PROVE  /\ Append(queue_, msg) \in Seq(Msg) /\ Len(Append(queue_, msg)) <= QueueSize + 1
         /\ Len(queue_) < QueueSize => Len(Append(queue_, msg)) <= QueueSize
<1>1. Len(Append(queue_, msg)) = Len(queue_) + 1 /\ Append(queue_, msg) \in Seq(Msg)
  BY AppendProperties DEF TypeOK
<1>2. Len(queue_) \in Nat /\ QueueSize \in Nat
  BY MonitorAssumption, LenProperties DEF TypeOK
<1> QED BY <1>1, <1>2

LEMMA EventBaseStep ==
  ASSUME IndInv, UNCHANGED storage, NEW e \in Event, handlePerfBufferEvent(e), Alive
  PROVE  IndInv'
<1> USE DEF IndInv
<1>1. /\ queue_' = (IF Len(queue_) < QueueSize THEN Append(queue_, Packet(e)) ELSE queue_)
      /\ packets' = packets + 1
      /\ UNCHANGED <<writer, owner, dataWriters_, pipeWriterDests_, fileVars,
                     enabledEvents_, countVars, calls>>
  BY DEF handlePerfBufferEvent
<1>2. Packet(e) \in Msg
  BY DEF Msg
<1>3. /\ queue_' \in Seq(Msg) /\ Len(queue_') <= QueueSize + 1
      /\ Len(queue_) <= QueueSize => Len(queue_') <= QueueSize
  <2>1. Len(queue_) \in Nat /\ QueueSize \in Nat
    BY MonitorAssumption, LenProperties DEF TypeOK
  <2>2. Len(queue_) < QueueSize => Len(queue_) <= QueueSize
    BY <2>1
  <2> QED BY <1>1, <1>2, <2>1, <2>2, QueueAppend DEF TypeOK
<1>4. TypeOK' /\ QueueInv'
  BY <1>1, <1>3 DEF TypeOK, QueueInv
<1>5. ~Restarting' => ~Restarting
  BY <1>1, <1>2, StillRestarting DEF handles
<1> QED BY <1>1, <1>4, <1>5, NothingWritten

(* The writer thread: what it reads it handles, so that a restart on the queue
   becomes one in progress.                                                  *)
LEMMA ReadStep == ASSUME IndInv, UNCHANGED storage, blockingRead PROVE IndInv'
<1> USE DEF IndInv
<1>1. /\ writer.at = "read" /\ queue_ # <<>>
      /\ writer' = [at |-> "handle", msg |-> Head(queue_)] /\ queue_' = Tail(queue_)
      /\ UNCHANGED <<owner, dataWriters_, pipeWriterDests_, fileVars, enabledEvents_,
                     countVars, packets, calls>>
  BY DEF blockingRead
<1>2. /\ Head(queue_) \in Msg /\ Head(queue_) = queue_[1]
      /\ Tail(queue_) \in Seq(Msg) /\ Len(Tail(queue_)) = Len(queue_) - 1 /\ Len(queue_) \in Nat
      /\ \A i \in 1 .. Len(Tail(queue_)) : Tail(queue_)[i] = queue_[i + 1]
  BY <1>1, HeadTailProperties, LenProperties DEF TypeOK
<1>3. writer' \in WriterType
  BY <1>1, <1>2 DEF WriterType
<1>4. QueueSize \in Nat
  BY MonitorAssumption
<1>5. TypeOK' /\ QueueInv'
  BY <1>1, <1>2, <1>3, <1>4 DEF TypeOK, QueueInv
<1>6. ~Restarting' => ~Restarting
  <2>1. ASSUME NEW i \in 1 .. Len(queue_), queue_[i].kind = "restart" PROVE Restarting'
    <3>1. CASE i = 1
      BY <1>1, <1>2, <2>1, <3>1 DEF Restarting, handles
    <3>2. CASE i # 1
      <4>1. i - 1 \in 1 .. Len(queue_') /\ queue_'[i - 1] = queue_[i]
        BY <1>1, <1>2, <3>2
      <4> QED BY <2>1, <4>1 DEF Restarting
    <3> QED BY <3>1, <3>2
  <2> QED BY <1>1, <2>1 DEF Restarting, handles
<1> QED BY <1>1, <1>5, <1>6, NothingWritten DEF CntrLock, Alive

LEMMA QuietWriterStep ==
  ASSUME IndInv, UNCHANGED storage, handleShutdown \/ skipPacket \/ nullPipeCrash, Alive
  PROVE  IndInv'
<1> USE DEF IndInv
<1>1. /\ writer' \in {Reading, [at |-> "done"], [at |-> "crashed"]}
      /\ writer'.at \notin {"rec", "data"}
      /\ ~CntrLock \/ (storage = "PIPE" /\ ~Alive')
      /\ ~handles("restart")
      /\ UNCHANGED <<queue_, owner, dataWriters_, pipeWriterDests_, fileVars,
                     enabledEvents_, countVars, packets, calls>>
  BY DEF handleShutdown, skipPacket, nullPipeCrash, NullPipe, handles, CntrLock, Reading, Alive
<1>2. TypeOK' /\ QueueInv'
  BY <1>1 DEF TypeOK, QueueInv, WriterType
<1>3. ~Restarting' => ~Restarting
  BY <1>1, StillRestarting
<1> QED BY <1>1, <1>2, <1>3, NothingWritten

(* The owner's calls.  One that queues a restart is restarting until the writer
   thread has handled it.                                                    *)
LEMMA QueueingCall ==
  ASSUME IndInv, UNCHANGED storage,
         stopMonitor \/ (\E n \in Limits : restartMonitor(n) \/ restartMonitorReset(n))
           \/ restartAfterReset \/ destroy
  PROVE  IndInv'
<1> USE DEF IndInv
<1>1. /\ owner.at # "wait"
      /\ UNCHANGED <<writer, dataWriters_, pipeWriterDests_, fileVars, enabledEvents_,
                     countVars, packets>>
      /\ calls' \in {calls, calls + 1}
  BY DEF stopMonitor, restartMonitor, restartMonitorReset, restartAfterReset, destroy, Begin, Idle
<1>0. calls' \in Nat
  BY <1>1 DEF TypeOK
<1>2. \/ /\ owner.at \in {"idle", "restart"}
         /\ \E msg \in Msg : queue_' = Append(queue_, msg)
                               /\ (owner.at = "restart" => msg.kind = "restart")
         /\ owner'.at = "wait"
      \/ /\ owner.at = "idle"
         /\ \/ Len(queue_) < QueueSize /\ queue_' = Append(queue_, ShutdownMsg)
            \/ queue_' = queue_
         /\ owner'.at = "join"
  <2>1. CASE stopMonitor \/ \E n \in Limits : restartMonitor(n) \/ restartMonitorReset(n)
    BY <2>1 DEF stopMonitor, restartMonitor, restartMonitorReset, Begin, Idle, Msg
  <2>2. CASE restartAfterReset
    <3>1. owner.limit \in Limits
      BY <2>2 DEF restartAfterReset, TypeOK, OwnerType, OwnerNext, Idle
    <3>2. RestartMsg(owner.limit) \in Msg /\ RestartMsg(owner.limit).kind = "restart"
      BY <3>1 DEF Msg, RestartMsg
    <3> QED BY <2>2, <3>2 DEF restartAfterReset
  <2>3. CASE destroy
    BY <2>3 DEF destroy, Begin, Idle
  <2> QED BY <2>1, <2>2, <2>3
<1>3. owner' \in OwnerType
  <2>1. \A n \in Limits : [at |-> "create", limit |-> n] \in OwnerNext
    BY DEF OwnerNext
  <2>2. Idle \in OwnerNext
    BY DEF OwnerNext
  <2>3. \A x \in OwnerNext : [at |-> "wait", next |-> x] \in OwnerType
    BY DEF OwnerType
  <2>4. \A b \in BOOLEAN : [at |-> "join", queued |-> b] \in OwnerType
    BY DEF OwnerType
  <2>5. (Len(queue_) < QueueSize) \in BOOLEAN
    OBVIOUS
  <2> QED BY <2>1, <2>2, <2>3, <2>4, <2>5
          DEF stopMonitor, restartMonitor, restartMonitorReset, restartAfterReset, destroy, Begin
<1>4. /\ queue_' \in Seq(Msg) /\ Len(queue_') <= QueueSize + 1
      /\ owner'.at # "wait" => Len(queue_') <= QueueSize
  <2>1. Len(queue_) <= QueueSize /\ ShutdownMsg \in Msg
    BY <1>1 DEF QueueInv, Msg
  <2> QED BY <1>2, <2>1, QueueAppend DEF TypeOK
<1>5. TypeOK' /\ QueueInv'
  BY <1>0, <1>1, <1>3, <1>4 DEF TypeOK, QueueInv
<1>6. ~Restarting' => ~Restarting
  <2>1. CASE owner.at = "restart"
    <3>1. PICK msg \in Msg : queue_' = Append(queue_, msg) /\ msg.kind = "restart"
      BY <1>2, <2>1
    <3>2. queue_'[Len(queue_')] = msg /\ Len(queue_') \in Nat /\ Len(queue_') >= 1
      BY <3>1, AppendProperties, LenProperties DEF TypeOK
    <3>3. \E i \in 1 .. Len(queue_') : queue_'[i].kind = "restart"
      BY <3>1, <3>2
    <3> QED BY <3>3 DEF Restarting
  <2>2. CASE owner.at = "idle"
    <3>1. ShutdownMsg \in Msg
      BY DEF Msg
    <3> QED BY <1>1, <1>2, <2>2, <3>1, StillRestarting DEF handles
  <2> QED BY <1>2, <2>1, <2>2
<1> QED BY <1>1, <1>5, <1>6, NothingWritten DEF Alive

(* wait: the message it waits for is within the capacity. *)
LEMMA WaitStep == ASSUME IndInv, UNCHANGED storage, wait PROVE IndInv'
<1> USE DEF IndInv
<1>1. /\ owner.at = "wait" /\ Len(queue_) <= QueueSize /\ owner' = owner.next
      /\ UNCHANGED <<queue_, writer, dataWriters_, pipeWriterDests_, fileVars, enabledEvents_,
                     countVars, packets, calls>>
  BY DEF wait, blockingWriteReturns
<1>2. owner \in [at : {"wait"}, next : OwnerNext]
  BY <1>1 DEF TypeOK, OwnerType, OwnerNext, Idle
<1>3. owner' \in OwnerNext
  BY <1>1, <1>2
<1>4. TypeOK' /\ QueueInv'
  BY <1>1, <1>3 DEF TypeOK, QueueInv, OwnerType
<1>5. ~Restarting' => ~Restarting
  <2>1. CASE owner.next = Idle
    BY <1>1, <2>1 DEF Restarting, handles
  <2>2. CASE owner.next # Idle
    BY <1>1, <1>3, <2>2 DEF Restarting, OwnerNext
  <2> QED BY <2>1, <2>2
<1> QED BY <1>1, <1>4, <1>5, NothingWritten DEF Alive

(* Events are enabled and disabled, pipes set and taken away, and the destructor
   joins the writer thread.                                                  *)
LEMMA RewiringCall ==
  ASSUME IndInv, UNCHANGED storage,
         \/ \E e \in Event : \/ enableWriterEvent(e)
                             \/ disableWriterEvent(e)
                             \/ unsetAsyncPipeWriter(e)
                             \/ \E p \in PipesOf[e] : setAsyncPipeWriter(e, p)
         \/ setEnable \/ unsetPipe \/ join
  PROVE  IndInv'
<1> USE DEF IndInv
<1>1. /\ owner.at \in {"idle", "set", "unset", "join"}
      /\ UNCHANGED <<queue_, writer, fileVars, countVars, packets>>
      /\ calls' \in {calls, calls + 1}
  BY DEF enableWriterEvent, disableWriterEvent, unsetAsyncPipeWriter, setAsyncPipeWriter,
         setEnable, unsetPipe, join, Begin, Idle
<1>0. calls' \in Nat
  BY <1>1 DEF TypeOK
<1>2. owner.at \in {"set", "unset"} => owner.event \in Event
  BY DEF TypeOK, OwnerType, OwnerNext, Idle
<1>3. owner' \in OwnerType /\ owner'.at # "wait"
  <2>1. /\ Idle \in OwnerType /\ Idle.at # "wait" /\ [at |-> "destroyed"] \in OwnerType
        /\ \A e \in Event : /\ [at |-> "set", event |-> e] \in OwnerType
                            /\ [at |-> "unset", event |-> e] \in OwnerType
    BY DEF OwnerType, OwnerNext, Idle
  <2>2. \/ owner' = Idle \/ owner' = [at |-> "destroyed"]
        \/ \E e \in Event : owner' = [at |-> "set", event |-> e]
        \/ \E e \in Event : owner' = [at |-> "unset", event |-> e]
    <3>1. CASE \E e \in Event : \E p \in PipesOf[e] : setAsyncPipeWriter(e, p)
      BY <3>1 DEF setAsyncPipeWriter, Begin
    <3>2. CASE \E e \in Event : unsetAsyncPipeWriter(e)
      BY <3>2 DEF unsetAsyncPipeWriter, Begin
    <3>3. CASE \E e \in Event : enableWriterEvent(e) \/ disableWriterEvent(e)
      BY <3>3 DEF enableWriterEvent, disableWriterEvent, Begin
    <3>4. CASE setEnable \/ unsetPipe \/ join
      BY <3>4 DEF setEnable, unsetPipe, join
    <3> QED BY <3>1, <3>2, <3>3, <3>4
  <2>3. \A e \in Event : [at |-> "set", event |-> e].at # "wait"
                         /\ [at |-> "unset", event |-> e].at # "wait"
    OBVIOUS
  <2>4. CASE owner' = Idle \/ owner' = [at |-> "destroyed"]
    BY <2>1, <2>4
  <2>5. CASE \E e \in Event : owner' = [at |-> "set", event |-> e]
    BY <2>1, <2>3, <2>5
  <2>6. CASE \E e \in Event : owner' = [at |-> "unset", event |-> e]
    BY <2>1, <2>3, <2>6
  <2> QED BY <2>2, <2>4, <2>5, <2>6
<1>4. enabledEvents_' \subseteq Event
  BY <1>2 DEF enableWriterEvent, disableWriterEvent, unsetAsyncPipeWriter,
              setAsyncPipeWriter, setEnable, unsetPipe, join, TypeOK
<1>5. /\ dataWriters_' \in [Event -> [open : BOOLEAN, pipe : Pipe \cup {NoPipe}]]
      /\ pipeWriterDests_' \in [Event -> Pipe \cup {NoPipe}]
      /\ \A e \in Event :
           /\ dataWriters_'[e].open = dataWriters_[e].open
           /\ dataWriters_'[e].pipe \in {dataWriters_[e].pipe, NoPipe} \cup PipesOf[e]
           /\ pipeWriterDests_'[e] \in {pipeWriterDests_[e], NoPipe} \cup PipesOf[e]
  <2>1. CASE \E e \in Event : \E p \in PipesOf[e] : setAsyncPipeWriter(e, p)
    <3>1. PICK e \in Event : \E p \in PipesOf[e] : setAsyncPipeWriter(e, p)
      BY <2>1
    <3>2. PICK p \in PipesOf[e] : setAsyncPipeWriter(e, p)
      BY <3>1
    <3>3. p \in Pipe
      BY <3>2, MonitorAssumption
    <3> QED BY <3>2, <3>3 DEF setAsyncPipeWriter, TypeOK
  <2>2. CASE unsetPipe
    BY <1>2, <2>2 DEF unsetPipe, TypeOK
  <2>3. CASE UNCHANGED <<dataWriters_, pipeWriterDests_>>
    BY <2>3 DEF TypeOK
  <2> QED BY <2>1, <2>2, <2>3 DEF enableWriterEvent, disableWriterEvent, unsetAsyncPipeWriter,
                                  setEnable, join
<1>6. TypeOK' /\ QueueInv'
  BY <1>0, <1>1, <1>3, <1>4, <1>5 DEF TypeOK, QueueInv
<1>7. ~Restarting' => ~Restarting
  BY <1>1, StillRestarting DEF handles
<1> QED BY <1>1, <1>5, <1>6, <1>7, NothingWritten DEF Alive

(* restartMonitor with a storage: files opened anew and writers replaced, with a
   restart under way until the message is handled.                           *)
LEMMA CreateStep == ASSUME IndInv, UNCHANGED storage, createWriters PROVE IndInv'
<1> USE DEF IndInv
<1>1. /\ owner.at = "create" /\ owner' = [at |-> "reset", limit |-> owner.limit]
      /\ sink' = IF storage = "FILE" THEN [e \in Event |-> <<>>] ELSE sink
      /\ UNCHANGED <<queue_, writer, dataWriters_, pipeWriterDests_, stream,
                     enabledEvents_, countVars, packets, calls>>
  BY DEF createWriters
<1>2. owner.limit \in Limits
  BY <1>1 DEF TypeOK, OwnerType, OwnerNext, Idle
<1>3. owner' \in OwnerType
  BY <1>1, <1>2 DEF OwnerType, OwnerNext
<1>4. sink' \in [Event -> Seq(Items)]
  BY <1>1 DEF TypeOK
<1>5. TypeOK' /\ QueueInv'
  BY <1>1, <1>3, <1>4 DEF TypeOK, QueueInv
<1>6. Restarting'
  BY <1>1 DEF Restarting
<1>7. LimitInv' /\ RoomInv' /\ (OnePipeEach => PipeInv')
  BY <1>1 DEF LimitInv, RoomInv, Pending, PipeInv, HalfIn, CntrLock, Alive
<1> QED BY <1>5, <1>6, <1>7 DEF CaptureInv

LEMMA ResetStep == ASSUME IndInv, UNCHANGED storage, resetWriters PROVE IndInv'
<1> USE DEF IndInv
<1>1. /\ owner.at = "reset" /\ owner' = [at |-> "restart", limit |-> owner.limit]
      /\ ~CntrLock
      /\ dataWriters_' = [e \in Event |-> [open |-> TRUE, pipe |-> pipeWriterDests_[e]]]
      /\ UNCHANGED <<queue_, writer, pipeWriterDests_, fileVars, enabledEvents_,
                     countVars, packets, calls>>
  BY DEF resetWriters, NewWriter
<1>2. owner.limit \in Limits
  BY <1>1 DEF TypeOK, OwnerType, OwnerNext, Idle
<1>3. owner' \in OwnerType
  BY <1>1, <1>2 DEF OwnerType, OwnerNext
<1>4. dataWriters_' \in [Event -> [open : BOOLEAN, pipe : Pipe \cup {NoPipe}]]
  BY <1>1 DEF TypeOK
<1>5. TypeOK' /\ QueueInv'
  BY <1>1, <1>3, <1>4 DEF TypeOK, QueueInv
<1>6. Restarting'
  BY <1>1 DEF Restarting
<1>7. LimitInv' /\ RoomInv'
  BY <1>1 DEF LimitInv, RoomInv, Pending, CntrLock
<1>8. OnePipeEach => PipeInv'
  BY <1>1 DEF PipeInv, HalfIn, CntrLock, Alive
<1> QED BY <1>5, <1>6, <1>7, <1>8 DEF CaptureInv

(* restart and stop messages *)
LEMMA RestartStep == ASSUME IndInv, UNCHANGED storage, restartWriters PROVE IndInv'
<1> USE DEF IndInv
<1>1. /\ handles("restart") /\ writer' = Reading
      /\ headerExists_' = {} /\ packetLimit_' = writer.msg.limit /\ packetAmount_' = 0
      /\ dataWriters_' = [e \in Event |-> [dataWriters_[e] EXCEPT !.open = TRUE]]
      /\ sink' = [e \in Event |-> <<>>]
      /\ UNCHANGED <<queue_, owner, pipeWriterDests_, stream, enabledEvents_,
                     bufferFull_, packets, calls>>
  BY DEF restartWriters
<1>2. packetLimit_' \in Nat /\ BufferSize \in Nat
  BY <1>1, WriterIs, MonitorAssumption
<1>3. writer' \in WriterType
  BY <1>1 DEF WriterType
<1>4. /\ dataWriters_' \in [Event -> [open : BOOLEAN, pipe : Pipe \cup {NoPipe}]]
      /\ \A e \in Event : dataWriters_'[e].open /\ dataWriters_'[e].pipe = dataWriters_[e].pipe
  BY <1>1 DEF TypeOK
<1>5. sink' \in [Event -> Seq(Items)] /\ \A e \in Event : sink'[e] = <<>> /\ Len(sink'[e]) = 0
  BY <1>1
<1>6. TypeOK' /\ QueueInv'
  BY <1>1, <1>2, <1>3, <1>4, <1>5 DEF TypeOK, QueueInv
<1>7. writer'.at = "read" /\ writer.at = "handle"
  BY <1>1 DEF Reading, handles
<1>8. LimitInv'
  BY <1>1, <1>2, <1>4, <1>7 DEF LimitInv, CntrLock
<1>9. RoomInv'
  <2>1. \A e \in Event : Pending(e)' = 0
    BY <1>1 DEF Pending, Reading
  <2> QED BY <1>2, <1>5, <2>1 DEF RoomInv
<1>10. CaptureInv'
  <2>1. Records' = {}
    BY <1>5 DEF Records, DataPlaces
  <2>2. IsFiniteSet(Records') /\ Cardinality(Records') = 0
    BY <2>1, FS_EmptySet
  <2> QED BY <1>1, <1>5, <2>2 DEF CaptureInv
<1>11. OnePipeEach => PipeInv'
  BY <1>1, <1>4, <1>7 DEF PipeInv, HalfIn, Alive
<1> QED BY <1>6, <1>8, <1>9, <1>10, <1>11

LEMMA StopStep == ASSUME IndInv, UNCHANGED storage, stopWriters PROVE IndInv'
<1> USE DEF IndInv
<1>1. /\ handles("stop") /\ writer' = Reading
      /\ packetLimit_' = 0 /\ packetAmount_' = 0
      /\ dataWriters_' = [e \in Event |->
           [dataWriters_[e] EXCEPT !.open = (storage = "IOBUF")]]
      /\ UNCHANGED <<queue_, owner, pipeWriterDests_, fileVars, enabledEvents_,
                     headerExists_, bufferFull_, packets, calls>>
  BY DEF stopWriters
<1>2. writer' \in WriterType
  BY <1>1 DEF WriterType
<1>3. /\ dataWriters_' \in [Event -> [open : BOOLEAN, pipe : Pipe \cup {NoPipe}]]
      /\ \A e \in Event : dataWriters_'[e].pipe = dataWriters_[e].pipe
  BY <1>1 DEF TypeOK
<1>4. TypeOK' /\ QueueInv'
  BY <1>1, <1>2, <1>3 DEF TypeOK, QueueInv
<1>5. writer'.at = "read" /\ writer.at = "handle" /\ ~handles("restart")
  BY <1>1 DEF Reading, handles
<1>6. LimitInv'
  BY <1>1, <1>5 DEF LimitInv, CntrLock
<1>7. \A e, at : [at |-> at, event |-> e].at = at
  OBVIOUS
<1>8. RoomInv'
  <2>1. \A e \in Event : Pending(e)' = 0 /\ Pending(e) = 0
    BY <1>5, <1>7 DEF Pending
  <2> QED BY <1>1, <2>1 DEF RoomInv
<1>9. ~Restarting' => ~Restarting
  BY <1>1, <1>5, StillRestarting
<1>10. CaptureInv'
  <2>0. \A e \in Event : /\ writer # [at |-> "data", event |-> e]
                        /\ writer' # [at |-> "data", event |-> e]
    BY <1>5, <1>7
  <2>1. \A e \in Event : Capture(sink[e], e) => Capture(sink[e], e)'
    BY <1>1, <2>0 DEF Capture, InPlace, Fits
  <2>2. ASSUME ~Restarting', storage # "PIPE", NEW e \in Event
        PROVE  /\ e \in headerExists_' <=> sink'[e] # <<>>
               /\ sink'[e] # <<>> => Capture(sink[e], e)'
    BY <1>1, <1>9, <2>1, <2>2 DEF CaptureInv
  <2> QED BY <1>1, <2>2 DEF CaptureInv
<1>11. OnePipeEach => PipeInv'
  BY <1>1, <1>3, <1>5 DEF PipeInv, HalfIn, Alive
<1> QED BY <1>4, <1>6, <1>8, <1>10, <1>11

(* Packets.  A packet is taken up only below the limit, so that every writer is
   open, and with room for the header that its capture may still need.       *)
LEMMA StartStep == ASSUME IndInv, UNCHANGED storage, startPacket PROVE IndInv'
<1> USE DEF IndInv
<1>3. PICK e \in Event : e = writer.msg.event
  BY WriterIs DEF startPacket
<1>0. PICK content \in AfterHeader(e) :
        /\ sink' = [sink EXCEPT ![e] = content]
        /\ \/ /\ writer' = [at |-> "rec", event |-> e] /\ Available(content, 2)
              /\ bufferFull_' = bufferFull_
           \/ writer' = Reading /\ bufferFull_' = bufferFull_ + 1
  BY <1>3 DEF startPacket
<1>1. /\ handles("packet") /\ ~SkipsPacket(e)
      /\ sink' = [sink EXCEPT ![e] = content]
      /\ headerExists_' = headerExists_ \cup {e}
      /\ UNCHANGED <<queue_, owner, dataWriters_, pipeWriterDests_, stream,
                     enabledEvents_, packetAmount_, packetLimit_, packets, calls>>
  BY <1>0, <1>3 DEF startPacket
<1>2. \/ /\ writer' = [at |-> "rec", event |-> e] /\ Available(content, 2)
         /\ bufferFull_' = bufferFull_
      \/ writer' = Reading /\ bufferFull_' = bufferFull_ + 1
  BY <1>0
<1>4. storage # "PIPE" => packetAmount_ < packetLimit_ /\ dataWriters_[e].open
  BY <1>1, <1>3 DEF SkipsPacket, packetLimitOverride, LimitInv, TypeOK
<1>5. /\ content \in Seq(Items)
      /\ \/ content = sink[e]
         \/ /\ e \notin headerExists_ /\ storage # "PIPE"
            /\ Len(content) = Len(sink[e]) + 1
            /\ \A i \in 1 .. Len(sink[e]) : content[i] = sink[e][i]
  <2>1. sink[e] \in Seq(Items) /\ Written(e, "hdr") \subseteq Items
    BY <1>3 DEF Written, Items, TypeOK
  <2>2. CASE content = sink[e]
    BY <2>1, <2>2
  <2>3. CASE content # sink[e]
    <3>1. PICK item \in Items : content = Append(sink[e], item)
      BY <1>0, <2>1, <2>3 DEF AfterHeader, WithHeader
    <3>2. e \notin headerExists_ /\ storage # "PIPE"
      BY <1>0, <2>3 DEF AfterHeader, WithHeader
    <3> QED BY <2>1, <3>1, <3>2, AppendProperties
  <2> QED BY <2>2, <2>3
<1>6. e \notin headerExists_ /\ storage # "PIPE" =>
        \E item \in Items : content = Append(sink[e], item) /\ Fits(item, 1)
  <2>1. \A item \in Written(e, "hdr") : item \in Items /\ Fits(item, 1)
    BY DEF Written, Items, Fits, Belongs
  <2> QED BY <1>0, <1>4, <2>1 DEF AfterHeader, WithHeader
<1>7. writer' \in WriterType
  BY <1>2, <1>3 DEF WriterType
<1>8. sink' \in [Event -> Seq(Items)] /\ sink'[e] = content
      /\ \A f \in Event \ {e} : sink'[f] = sink[f]
  BY <1>1, <1>3, <1>5 DEF TypeOK
<1>9. bufferFull_' \in Nat
  BY <1>2 DEF TypeOK
<1>10. TypeOK' /\ QueueInv'
  BY <1>1, <1>3, <1>7, <1>8, <1>9 DEF TypeOK, QueueInv
<1>11. writer.at = "handle" /\ ~handles("restart") /\ writer'.at \in {"rec", "read"}
       /\ (writer'.at = "rec" => writer'.event = e)
  BY <1>1, <1>2 DEF Reading, handles
<1>12. \A f : writer # [at |-> "data", event |-> f] /\ writer' # [at |-> "data", event |-> f]
              /\ writer # [at |-> "rec", event |-> f]
  BY <1>11
<1>13. LimitInv'
  BY <1>1, <1>4, <1>11 DEF LimitInv, CntrLock
<1>14. RoomInv'
  <2>1. SUFFICES ASSUME storage = "IOBUF", NEW f \in Event
                 PROVE  Len(sink'[f]) + Pending(f)' <= BufferSize
    BY DEF RoomInv
  <2>2. BufferSize \in Nat /\ Len(sink[f]) \in Nat /\ Len(sink'[f]) \in Nat
    BY MonitorAssumption, <1>8, LenProperties DEF TypeOK
  <2>3. Len(sink[f]) <= BufferSize
    <3>1. Pending(f) = 0
      BY <1>12 DEF Pending
    <3>2. Len(sink[f]) + Pending(f) <= BufferSize
      BY <2>1 DEF RoomInv
    <3> QED BY <2>2, <3>1, <3>2
  <2>4. CASE f # e
    <3>1. Pending(f)' = 0
      BY <1>11, <1>12, <2>4 DEF Pending
    <3> QED BY <1>8, <2>2, <2>3, <2>4, <3>1
  <2>5. CASE f = e /\ writer' = [at |-> "rec", event |-> e]
    <3>1. Pending(f)' = 2
      BY <2>5 DEF Pending
    <3>2. Len(content) + 2 <= BufferSize
      BY <1>2, <2>1, <2>5 DEF Available, Reading
    <3> QED BY <1>8, <2>2, <2>5, <3>1, <3>2
  <2>6. CASE f = e /\ writer' = Reading
    <3>1. Pending(f)' = 0
      BY <2>6 DEF Pending, Reading
    <3>2. e \notin headerExists_ => Len(sink[e]) + 1 <= BufferSize
      BY <1>1, <2>1 DEF SkipsPacket, Available
    <3> QED BY <1>5, <1>8, <2>2, <2>3, <2>6, <3>1, <3>2
  <2> QED BY <1>2, <2>4, <2>5, <2>6
<1>15. ~Restarting' => ~Restarting
  BY <1>1, <1>11, StillRestarting
<1>16. CaptureInv'
  <2>1. SUFFICES ASSUME ~Restarting', storage # "PIPE"
                 PROVE  /\ \A f \in Event : /\ f \in headerExists_' <=> sink'[f] # <<>>
                                            /\ sink'[f] # <<>> => Capture(sink[f], f)'
                        /\ packetLimit_' # 0 => IsFiniteSet(Records') /\ packetAmount_' = Cardinality(Records')
    BY <1>1 DEF CaptureInv
  <2>2. /\ \A f \in Event : /\ f \in headerExists_ <=> sink[f] # <<>>
                            /\ sink[f] # <<>> => Capture(sink[f], f)
        /\ packetLimit_ # 0 => IsFiniteSet(Records) /\ packetAmount_ = Cardinality(Records)
    BY <1>15, <2>1 DEF CaptureInv
  <2>3. \A f \in Event : Capture(sink[f], f) /\ sink'[f] = sink[f] => Capture(sink[f], f)'
    BY <1>12 DEF Capture, InPlace, Fits
  <2>4. CASE e \in headerExists_
    <3>1. sink' = sink
      BY <1>0, <1>3, <2>4 DEF TypeOK, AfterHeader
    <3>2. Records' = Records
      BY <3>1 DEF Records
    <3> QED BY <1>1, <2>2, <2>3, <2>4, <3>1, <3>2
  <2>5. CASE e \notin headerExists_
    <3>0. PICK item \in Items : content = Append(sink[e], item) /\ Fits(item, 1)
      BY <1>6, <2>1, <2>5
    <3>1. /\ sink[e] \in Seq(Items) /\ sink[e] = <<>> /\ Len(sink[e]) = 0
          /\ Len(content) = 1 /\ content # <<>>
      <4>1. sink[e] \in Seq(Items) /\ sink[e] = <<>> /\ Len(sink[e]) = 0
        BY <2>2, <2>5 DEF TypeOK
      <4> QED BY <3>0, <4>1, AppendProperties
    <3>2. InPlace(content)
      <4>1. InPlace(sink[e]) /\ Len(sink[e]) + 1 = 1
        BY <3>1 DEF InPlace
      <4> QED BY <3>0, <3>1, <4>1, AppendInPlace
    <3>3. Records' = Records
      <4>1. DataPlaces(content) = DataPlaces(sink[e])
        <5>1. Len(sink[e]) + 1 = 1 /\ Belongs(1) # "data"
          BY <3>1 DEF Belongs
        <5> QED BY <3>0, <3>1, <5>1, AppendPlaces
      <4>2. \A f \in Event : DataPlaces(sink'[f]) = DataPlaces(sink[f])
        BY <1>8, <4>1
      <4> QED BY <4>2 DEF Records
    <3>4. \A f \in Event \ {e} : /\ f \in headerExists_' <=> sink'[f] # <<>>
                                 /\ sink'[f] # <<>> => Capture(sink[f], f)'
      BY <1>1, <1>8, <2>2, <2>3
    <3>5. e \in headerExists_' /\ sink'[e] # <<>>
      BY <1>1, <1>8, <3>1
    <3>6. Capture(sink[e], e)'
      BY <1>8, <1>12, <3>1, <3>2 DEF Capture, InPlace, Fits
    <3> QED BY <1>1, <2>2, <3>3, <3>4, <3>5, <3>6
  <2> QED BY <2>4, <2>5
<1>17. OnePipeEach => PipeInv'
  BY <1>1, <1>5, <1>11 DEF PipeInv, HalfIn, Alive
<1> QED BY <1>10, <1>13, <1>14, <1>16, <1>17

\* What an item goes into: the capture of its event, which is open, or its pipe
LEMMA WriteData ==
  ASSUME IndInv, CntrLock, NEW e \in Event, e = writer.event, NEW item \in Items, writeData(e, item)
  PROVE  /\ sink' \in [Event -> Seq(Items)] /\ stream' \in [Pipe -> Seq(Items)]
         /\ \A f \in Event \ {e} : sink'[f] = sink[f]
         /\ storage # "PIPE" => /\ stream' = stream /\ packetLimit_ # 0
                                /\ \E written \in Items :
                                     /\ written = item \/ (storage = "FILE" /\ written = "lost")
                                     /\ sink'[e] = Append(sink[e], written)
         /\ storage = "PIPE" => /\ sink' = sink
                                /\ ~dataWriters_[e].open => stream' = stream
                                /\ dataWriters_[e].open /\ OnePipeEach =>
                                     \E p \in Pipe : /\ PipesOf[e] = {p}
                                                     /\ stream'[p] = Append(stream[p], item)
                                                     /\ \A q \in Pipe \ {p} : stream'[q] = stream[q]
<1> USE DEF IndInv
<1>1. storage # "PIPE" => dataWriters_[e].open /\ packetLimit_ # 0
  BY DEF LimitInv, TypeOK
<1>2. /\ sink \in [Event -> Seq(Items)] /\ stream \in [Pipe -> Seq(Items)]
      /\ dataWriters_ \in [Event -> [open : BOOLEAN, pipe : Pipe \cup {NoPipe}]]
      /\ \A written \in Items : Append(sink[e], written) \in Seq(Items)
  BY DEF TypeOK
<1>3. CASE storage # "PIPE"
  <2>1. PICK written \in Written(e, item) : sink' = [sink EXCEPT ![e] = Append(@, written)]
    BY <1>1, <1>3 DEF writeData
  <2>2. written \in Items /\ (written = item \/ (storage = "FILE" /\ written = "lost"))
    BY DEF Written, Items
  <2>3. stream' = stream
    BY <1>1, <1>3 DEF writeData
  <2> QED BY <1>1, <1>2, <1>3, <2>1, <2>2, <2>3
<1>4. CASE storage = "PIPE" /\ ~dataWriters_[e].open
  BY <1>2, <1>4 DEF writeData
<1>5. CASE storage = "PIPE" /\ dataWriters_[e].open
  <2> DEFINE p == dataWriters_[e].pipe
  <2>1. /\ p \in Pipe /\ p # NoPipe /\ sink' = sink
        /\ stream' = [stream EXCEPT ![p] = Append(stream[p], item)]
    BY <1>2, <1>5 DEF writeData
  <2>2. Append(stream[p], item) \in Seq(Items)
    BY <1>2, <2>1
  <2>3. OnePipeEach => PipesOf[e] = {p}
    BY <2>1, ZenonT(60) DEF OnePipeEach, PipeInv
  <2> HIDE DEF p
  <2> QED BY <1>2, <1>5, <2>1, <2>2, <2>3
<1> QED BY <1>3, <1>4, <1>5

LEMMA RecordHeaderStep == ASSUME IndInv, UNCHANGED storage, writeRecordHeader, Alive PROVE IndInv'
<1> USE DEF IndInv
<1>1. PICK e \in Event : writer = [at |-> "rec", event |-> e]
  <2>1. writer.at = "rec" /\ CntrLock
    BY DEF writeRecordHeader, CntrLock
  <2> QED BY <2>1, WriterIs
<1>2. /\ CntrLock /\ writer.at = "rec" /\ writer.event = e
      /\ writer' = [at |-> "data", event |-> e] /\ writeData(e, "rec")
      /\ UNCHANGED <<queue_, owner, dataWriters_, pipeWriterDests_, enabledEvents_,
                     countVars, packets, calls>>
  BY <1>1 DEF writeRecordHeader, CntrLock
<1>3. "rec" \in Items
  BY DEF Items
<1>4. /\ sink' \in [Event -> Seq(Items)] /\ stream' \in [Pipe -> Seq(Items)]
      /\ \A f \in Event \ {e} : sink'[f] = sink[f]
      /\ storage # "PIPE" => /\ stream' = stream /\ packetLimit_ # 0
                             /\ \E written \in Items :
                                  /\ written = "rec" \/ (storage = "FILE" /\ written = "lost")
                                  /\ sink'[e] = Append(sink[e], written)
      /\ storage = "PIPE" => /\ sink' = sink
                             /\ ~dataWriters_[e].open => stream' = stream
                             /\ dataWriters_[e].open /\ OnePipeEach =>
                                  \E p \in Pipe : /\ PipesOf[e] = {p}
                                                  /\ stream'[p] = Append(stream[p], "rec")
                                                  /\ \A q \in Pipe \ {p} : stream'[q] = stream[q]
  BY <1>2, <1>3, WriteData
<1>w. PICK item \in Items : storage # "PIPE" =>
        /\ item = "rec" \/ (storage = "FILE" /\ item = "lost")
        /\ sink'[e] = Append(sink[e], item)
  BY <1>3, <1>4
<1>5. writer' \in WriterType
  BY <1>2 DEF WriterType
<1>6. TypeOK' /\ QueueInv'
  BY <1>2, <1>4, <1>5 DEF TypeOK, QueueInv
<1>7. LimitInv'
  BY <1>2 DEF LimitInv, CntrLock
<1>8. /\ sink[e] \in Seq(Items) /\ Len(sink[e]) \in Nat
      /\ Len(Append(sink[e], item)) = Len(sink[e]) + 1
      /\ Append(sink[e], item)[Len(sink[e]) + 1] = item
  BY AppendProperties, LenProperties DEF TypeOK
<1>9. /\ writer'.at = "data" /\ writer'.event = e
      /\ \A f \in Event \ {e} : writer' # [at |-> "data", event |-> f]
      /\ \A f : writer' # [at |-> "rec", event |-> f] /\ writer # [at |-> "data", event |-> f]
      /\ \A f \in Event \ {e} : writer # [at |-> "rec", event |-> f]
  BY <1>1, <1>2
<1>10. RoomInv'
  <2>1. SUFFICES ASSUME storage = "IOBUF", NEW f \in Event
                 PROVE  Len(sink'[f]) + Pending(f)' <= BufferSize
    BY DEF RoomInv
  <2>2. Len(sink[f]) + Pending(f) <= BufferSize /\ BufferSize \in Nat
    BY <2>1, MonitorAssumption DEF RoomInv
  <2>3. CASE f = e
    <3>1. Pending(f) = 2 /\ Pending(f)' = 1
      BY <1>1, <1>2, <1>9, <2>3 DEF Pending
    <3> QED BY <1>w, <1>8, <2>1, <2>2, <2>3, <3>1
  <2>4. CASE f # e
    <3>1. Pending(f) = 0 /\ Pending(f)' = 0
      BY <1>9, <2>4 DEF Pending
    <3> QED BY <1>4, <2>2, <2>4, <3>1
  <2> QED BY <2>3, <2>4
<1>11. ~Restarting' => ~Restarting
  BY <1>2, StillRestarting DEF handles
<1>12. CaptureInv'
  <2>1. SUFFICES ASSUME ~Restarting', storage # "PIPE"
                 PROVE  /\ \A f \in Event : /\ f \in headerExists_' <=> sink'[f] # <<>>
                                            /\ sink'[f] # <<>> => Capture(sink[f], f)'
                        /\ packetLimit_' # 0 => IsFiniteSet(Records') /\ packetAmount_' = Cardinality(Records')
    BY <1>2 DEF CaptureInv
  <2>2. /\ \A f \in Event : /\ f \in headerExists_ <=> sink[f] # <<>>
                            /\ sink[f] # <<>> => Capture(sink[f], f)
        /\ packetLimit_ # 0 => IsFiniteSet(Records) /\ packetAmount_ = Cardinality(Records)
    BY <1>11, <2>1 DEF CaptureInv
  <2>3. e \in headerExists_ /\ sink[e] # <<>> /\ Capture(sink[e], e)
    BY <1>2, <2>2 DEF LimitInv
  <2>4. \A f \in Event \ {e} : /\ f \in headerExists_' <=> sink'[f] # <<>>
                               /\ sink'[f] # <<>> => Capture(sink[f], f)'
    <3>1. ASSUME NEW f \in Event \ {e}, sink[f] # <<>> PROVE Capture(sink[f], f)'
      <4>1. Capture(sink[f], f) /\ sink'[f] = sink[f]
        BY <1>4, <2>2, <3>1
      <4>2. writer # [at |-> "data", event |-> f] /\ writer' # [at |-> "data", event |-> f]
        BY <1>9
      <4> QED BY <4>1, <4>2 DEF Capture, InPlace, Fits
    <3> QED BY <1>2, <1>4, <2>2, <3>1
  <2>5. sink'[e] = Append(sink[e], item) /\ sink'[e] # <<>>
        /\ (item = "rec" \/ (storage = "FILE" /\ item = "lost"))
    BY <1>w, <1>8, <2>1
  <2>6. InPlace(sink[e]) /\ Len(sink[e]) % 2 # 0 /\ Len(sink[e]) # 0
    <3>1. InPlace(sink[e])
      BY <2>3 DEF Capture
    <3>2. Len(sink[e]) % 2 # 0
      BY <1>9, <2>3 DEF Capture
    <3>3. Len(sink[e]) # 0
      BY <1>8, <2>3
    <3> QED BY <3>1, <3>2, <3>3
  <2>7. /\ Len(sink[e]) >= 1 /\ 2 <= Len(sink[e]) + 1
        /\ (Len(sink[e]) + 1) % 2 = 0 /\ Len(sink[e]) + 1 # 1
    <3>0. \A n \in Nat : n # 0 => n + 1 # 1
      OBVIOUS
    <3>1. Len(sink[e]) \in Nat /\ Len(sink[e]) % 2 # 0 /\ Len(sink[e]) # 0
      BY <1>8, <2>6
    <3> QED BY ONLY <3>0, <3>1, Parity
  <2>12. Belongs(Len(sink[e]) + 1) = "rec" /\ Fits(item, Len(sink[e]) + 1)
    BY <2>5, <2>7 DEF Belongs, Fits
  <2>8. Capture(sink[e], e)'
    <3>1. Len(sink'[e]) % 2 = 0
      BY <1>8, <2>5, <2>7
    <3>2. InPlace(sink'[e])
      BY <1>8, <2>5, <2>6, <2>12, AppendInPlace
    <3> QED BY <1>2, <1>9, <3>1, <3>2 DEF Capture, InPlace, Fits
  <2>9. Records' = Records
    <3>1. DataPlaces(sink'[e]) = DataPlaces(sink[e])
      BY <1>8, <2>5, <2>12, AppendPlaces
    <3>2. \A f \in Event : DataPlaces(sink'[f]) = DataPlaces(sink[f])
      BY <1>4, <3>1
    <3> QED BY <3>2 DEF Records
  <2>10. e \in headerExists_'
    BY <1>2, <2>3
  <2> QED BY <1>2, <2>2, <2>4, <2>5, <2>8, <2>9, <2>10
<1>13. OnePipeEach => PipeInv'
  <2>1. SUFFICES ASSUME OnePipeEach PROVE PipeInv'
    OBVIOUS
  <2>2. CASE storage # "PIPE"
    BY <1>2, <1>4, <2>1, <2>2 DEF PipeInv
  <2>3. CASE storage = "PIPE" /\ ~dataWriters_[e].open
    BY <1>2, <1>4, <1>9, <2>1, <2>3 DEF PipeInv, HalfIn
  <2>4. CASE storage = "PIPE" /\ dataWriters_[e].open
    <3>1. PICK p \in Pipe : /\ PipesOf[e] = {p} /\ stream'[p] = Append(stream[p], "rec")
                            /\ \A q \in Pipe \ {p} : stream'[q] = stream[q]
      BY <1>4, <2>1, <2>4
    <3>2. \A q \in Pipe : WholeRecords(stream[q], 1) /\ Len(stream[q]) % 2 # 1
      BY <1>2, <2>1, <2>4 DEF PipeInv, HalfIn
    <3>3. stream[p] \in Seq(Items) /\ Len(stream[p]) \in Nat /\ Len(stream'[p]) = Len(stream[p]) + 1
      BY <1>3, <3>1, AppendProperties, LenProperties DEF TypeOK
    <3>4. /\ 1 <= Len(stream[p]) + 1 /\ (Len(stream[p]) + 1 - 1) % 2 = 0
          /\ (Len(stream[p]) + 1) % 2 = 1
      <4>1. Len(stream[p]) \in Nat /\ Len(stream[p]) % 2 # 1
        BY <3>2, <3>3
      <4> QED BY ONLY <4>1, Parity
    <3>5. WholeRecords(stream'[p], 1)
      BY <1>3, <3>1, <3>2, <3>3, <3>4, AppendItem, ZenonT(60)
    <3>6. \A q \in Pipe : HalfIn(q)' <=> q = p
      BY <1>2, <1>9, <2>4, <3>1 DEF HalfIn
    <3>7. \A q \in Pipe : WholeRecords(stream'[q], 1) /\ (Len(stream'[q]) % 2 = 1 <=> HalfIn(q)')
      BY <3>1, <3>2, <3>3, <3>4, <3>5, <3>6
    <3> QED BY <1>2, <1>9, <2>1, <2>4, <3>1, <3>7 DEF PipeInv
  <2> QED BY <2>2, <2>3, <2>4
<1> QED BY <1>6, <1>7, <1>10, <1>12, <1>13

LEMMA RecordDataStep == ASSUME IndInv, UNCHANGED storage, writeRecordData, Alive PROVE IndInv'
<1> USE DEF IndInv
<1>1. PICK e \in Event : writer = [at |-> "data", event |-> e]
  <2>1. writer.at = "data" /\ CntrLock
    BY DEF writeRecordData, CntrLock
  <2> QED BY <2>1, WriterIs
<1>2. /\ CntrLock /\ writer.at = "data" /\ writer.event = e
      /\ writer' = Reading /\ writeData(e, "data") /\ packetAmount_' = packetAmount_ + 1
      /\ UNCHANGED <<queue_, owner, dataWriters_, pipeWriterDests_, enabledEvents_,
                     headerExists_, packetLimit_, bufferFull_, packets, calls>>
  BY <1>1 DEF writeRecordData, CntrLock
<1>3. "data" \in Items
  BY DEF Items
<1>4. /\ sink' \in [Event -> Seq(Items)] /\ stream' \in [Pipe -> Seq(Items)]
      /\ \A f \in Event \ {e} : sink'[f] = sink[f]
      /\ storage # "PIPE" => /\ stream' = stream /\ packetLimit_ # 0
                             /\ \E written \in Items :
                                  /\ written = "data" \/ (storage = "FILE" /\ written = "lost")
                                  /\ sink'[e] = Append(sink[e], written)
      /\ storage = "PIPE" => /\ sink' = sink
                             /\ ~dataWriters_[e].open => stream' = stream
                             /\ dataWriters_[e].open /\ OnePipeEach =>
                                  \E p \in Pipe : /\ PipesOf[e] = {p}
                                                  /\ stream'[p] = Append(stream[p], "data")
                                                  /\ \A q \in Pipe \ {p} : stream'[q] = stream[q]
  BY <1>2, <1>3, WriteData
<1>w. PICK item \in Items : storage # "PIPE" =>
        /\ item = "data" \/ (storage = "FILE" /\ item = "lost")
        /\ sink'[e] = Append(sink[e], item)
  BY <1>3, <1>4
<1>5. writer' \in WriterType
  BY <1>2 DEF WriterType
<1>6. packetAmount_ \in Nat /\ packetLimit_ \in Nat /\ packetAmount_' \in Nat
  BY <1>2 DEF TypeOK
<1>7. TypeOK' /\ QueueInv'
  BY <1>2, <1>4, <1>5, <1>6 DEF TypeOK, QueueInv
<1>8. /\ sink[e] \in Seq(Items) /\ Len(sink[e]) \in Nat
      /\ Len(Append(sink[e], item)) = Len(sink[e]) + 1
      /\ Append(sink[e], item)[Len(sink[e]) + 1] = item
  BY AppendProperties, LenProperties DEF TypeOK
<1>9. /\ writer'.at = "read"
      /\ \A f : writer' # [at |-> "data", event |-> f]
      /\ \A f : writer' # [at |-> "rec", event |-> f] /\ writer # [at |-> "rec", event |-> f]
      /\ \A f \in Event \ {e} : writer # [at |-> "data", event |-> f]
  <2>1. writer'.at = "read"
    BY <1>2 DEF Reading
  <2> QED BY <1>1, <2>1
<1>10. LimitInv'
  BY <1>2, <1>6, <1>9 DEF LimitInv, CntrLock
<1>11. RoomInv'
  <2>1. SUFFICES ASSUME storage = "IOBUF", NEW f \in Event
                 PROVE  Len(sink'[f]) + Pending(f)' <= BufferSize
    BY DEF RoomInv
  <2>2. Len(sink[f]) + Pending(f) <= BufferSize /\ BufferSize \in Nat
    BY <2>1, MonitorAssumption DEF RoomInv
  <2>3. CASE f = e
    <3>1. Pending(f) = 1 /\ Pending(f)' = 0
      BY <1>1, <1>9, <2>3 DEF Pending
    <3> QED BY <1>w, <1>8, <2>1, <2>2, <2>3, <3>1
  <2>4. CASE f # e
    <3>1. Pending(f) = 0 /\ Pending(f)' = 0
      BY <1>9, <2>4 DEF Pending
    <3> QED BY <1>4, <2>2, <2>4, <3>1
  <2> QED BY <2>3, <2>4
<1>12. ~Restarting' => ~Restarting
  BY <1>2, StillRestarting DEF handles
<1>13. CaptureInv'
  <2>1. SUFFICES ASSUME ~Restarting', storage # "PIPE"
                 PROVE  /\ \A f \in Event : /\ f \in headerExists_' <=> sink'[f] # <<>>
                                            /\ sink'[f] # <<>> => Capture(sink[f], f)'
                        /\ packetLimit_' # 0 => IsFiniteSet(Records') /\ packetAmount_' = Cardinality(Records')
    BY <1>2 DEF CaptureInv
  <2>2. /\ \A f \in Event : /\ f \in headerExists_ <=> sink[f] # <<>>
                            /\ sink[f] # <<>> => Capture(sink[f], f)
        /\ packetLimit_ # 0 => IsFiniteSet(Records) /\ packetAmount_ = Cardinality(Records)
    BY <1>12, <2>1 DEF CaptureInv
  <2>3. e \in headerExists_ /\ sink[e] # <<>> /\ Capture(sink[e], e)
    BY <1>2, <2>2 DEF LimitInv
  <2>4. \A f \in Event \ {e} : /\ f \in headerExists_' <=> sink'[f] # <<>>
                               /\ sink'[f] # <<>> => Capture(sink[f], f)'
    <3>1. ASSUME NEW f \in Event \ {e}, sink[f] # <<>> PROVE Capture(sink[f], f)'
      <4>1. Capture(sink[f], f) /\ sink'[f] = sink[f]
        BY <1>4, <2>2, <3>1
      <4>2. writer # [at |-> "data", event |-> f] /\ writer' # [at |-> "data", event |-> f]
        BY <1>9
      <4> QED BY <4>1, <4>2 DEF Capture, InPlace, Fits
    <3> QED BY <1>2, <1>4, <2>2, <3>1
  <2>5. sink'[e] = Append(sink[e], item) /\ sink'[e] # <<>>
        /\ (item = "data" \/ (storage = "FILE" /\ item = "lost"))
    BY <1>w, <1>8, <2>1
  <2>6. InPlace(sink[e]) /\ Len(sink[e]) % 2 = 0 /\ Len(sink[e]) # 0
    <3>1. InPlace(sink[e])
      BY <2>3 DEF Capture
    <3>2. Len(sink[e]) % 2 = 0
      BY <1>1, <2>3 DEF Capture
    <3>3. Len(sink[e]) # 0
      BY <1>8, <2>3
    <3> QED BY <3>1, <3>2, <3>3
  <2>7. /\ Len(sink[e]) >= 1 /\ 2 <= Len(sink[e]) + 1
        /\ ~((Len(sink[e]) + 1) % 2 = 0) /\ Len(sink[e]) + 1 # 1
    <3>0. \A n \in Nat : n # 0 => n + 1 # 1
      OBVIOUS
    <3>1. Len(sink[e]) \in Nat /\ Len(sink[e]) % 2 = 0 /\ Len(sink[e]) # 0
      BY <1>8, <2>6
    <3> QED BY ONLY <3>0, <3>1, Parity
  <2>12. Belongs(Len(sink[e]) + 1) = "data" /\ Fits(item, Len(sink[e]) + 1)
    BY <2>5, <2>7 DEF Belongs, Fits
  <2>8. Capture(sink[e], e)'
    <3>1. ~(Len(sink'[e]) % 2 = 0)
      BY <1>8, <2>5, <2>7
    <3>2. InPlace(sink'[e])
      BY <1>8, <2>5, <2>6, <2>12, AppendInPlace
    <3> QED BY <1>2, <1>9, <3>1, <3>2 DEF Capture, InPlace, Fits
  <2>9. Records' = Records \cup {<<e, Len(sink[e]) + 1>>} /\ <<e, Len(sink[e]) + 1>> \notin Records
    <3>1. DataPlaces(sink'[e]) = DataPlaces(sink[e]) \cup {Len(sink[e]) + 1}
      BY <1>8, <2>5, <2>12, AppendPlaces
    <3>2. \A f \in Event \ {e} : sink'[f] = sink[f]
      BY <1>4
    <3>3. \A r : r \in Records <=> \E f \in Event : \E j \in DataPlaces(sink[f]) : r = <<f, j>>
      BY DEF Records
    <3>4. \A r : r \in Records' <=> \E f \in Event : \E j \in DataPlaces(sink'[f]) : r = <<f, j>>
      BY DEF Records, DataPlaces
    <3>5. ASSUME NEW r PROVE r \in Records' <=> r \in Records \/ r = <<e, Len(sink[e]) + 1>>
      BY <3>1, <3>2, <3>3, <3>4
    <3>6. Len(sink[e]) + 1 \notin DataPlaces(sink[e])
      BY <1>8 DEF DataPlaces
    <3> QED BY <3>3, <3>5, <3>6
  <2>10. IsFiniteSet(Records') /\ packetAmount_' = Cardinality(Records')
    <3>1. IsFiniteSet(Records) /\ packetAmount_ = Cardinality(Records)
      BY <1>4, <2>1, <2>2
    <3> QED BY <1>2, <2>9, <3>1, FS_AddElement
  <2>11. e \in headerExists_'
    BY <1>2, <2>3
  <2> QED BY <2>4, <2>5, <2>8, <2>10, <2>11
<1>14. OnePipeEach => PipeInv'
  <2>1. SUFFICES ASSUME OnePipeEach PROVE PipeInv'
    OBVIOUS
  <2>2. CASE storage # "PIPE"
    BY <1>2, <1>4, <2>1, <2>2 DEF PipeInv
  <2>3. CASE storage = "PIPE" /\ ~dataWriters_[e].open
    BY <1>2, <1>4, <1>9, <2>1, <2>3 DEF PipeInv, HalfIn
  <2>4. CASE storage = "PIPE" /\ dataWriters_[e].open
    <3>1. PICK p \in Pipe : /\ PipesOf[e] = {p} /\ stream'[p] = Append(stream[p], "data")
                            /\ \A q \in Pipe \ {p} : stream'[q] = stream[q]
      BY <1>4, <2>1, <2>4
    <3>2. \A q \in Pipe : WholeRecords(stream[q], 1) /\ (Len(stream[q]) % 2 = 1 <=> q = p)
      BY <1>2, <2>1, <2>4, <3>1 DEF PipeInv, HalfIn
    <3>3. stream[p] \in Seq(Items) /\ Len(stream[p]) \in Nat /\ Len(stream'[p]) = Len(stream[p]) + 1
      BY <1>3, <3>1, AppendProperties, LenProperties DEF TypeOK
    <3>4. /\ 1 <= Len(stream[p]) + 1 /\ ~((Len(stream[p]) + 1 - 1) % 2 = 0)
          /\ ~((Len(stream[p]) + 1) % 2 = 1)
      <4>1. Len(stream[p]) \in Nat /\ Len(stream[p]) % 2 = 1
        BY <3>2, <3>3
      <4> QED BY ONLY <4>1, Parity
    <3>5. WholeRecords(stream'[p], 1)
      BY <1>3, <3>1, <3>2, <3>3, <3>4, AppendItem
    <3>6. \A q \in Pipe : WholeRecords(stream'[q], 1) /\ ~(Len(stream'[q]) % 2 = 1)
      BY <3>1, <3>2, <3>3, <3>4, <3>5
    <3> QED BY <1>2, <1>9, <2>1, <2>4, <3>6 DEF PipeInv, HalfIn
  <2> QED BY <2>2, <2>3, <2>4
<1> QED BY <1>7, <1>10, <1>11, <1>13, <1>14
-----------------------------------------------------------------------------
(* Captures, their count and the records in pipes are what every step keeps. *)

LEMMA InitHolds == Init => IndInv
<1> SUFFICES ASSUME Init PROVE IndInv
  OBVIOUS
<1> USE DEF Init
<1>1. PcktLimit \in Nat /\ BufferSize \in Nat /\ QueueSize \in Nat
  BY MonitorAssumption
<1>2. writer.at = "read" /\ owner.at = "idle"
  BY DEF Reading, Idle
<1>3. /\ \A e \in Event : sink[e] = <<>> /\ Len(sink[e]) = 0
      /\ \A p \in Pipe : stream[p] = <<>> /\ Len(stream[p]) = 0
  OBVIOUS
<1>4. TypeOK /\ QueueInv
  BY <1>1 DEF TypeOK, QueueInv, WriterType, OwnerType, OwnerNext
<1>5. LimitInv
  BY <1>1, <1>2 DEF LimitInv, CntrLock
<1>6. RoomInv
  BY <1>1, <1>2, <1>3 DEF RoomInv, Pending
<1>7. CaptureInv
  <2>1. Records = {}
    BY <1>3 DEF Records, DataPlaces
  <2> QED BY <1>3, <2>1, FS_EmptySet DEF CaptureInv
<1>8. PipeInv
  BY <1>2, <1>3 DEF PipeInv, HalfIn, WholeRecords
<1> QED BY <1>4, <1>5, <1>6, <1>7, <1>8 DEF IndInv

LEMMA StepHolds == IndInv /\ [Next]_vars => IndInv'
<1>1. ASSUME IndInv, Next PROVE IndInv'
  <2>1. CASE UNCHANGED storage /\ \E e \in Event : handlePerfBufferEvent(e)
    BY <1>1, <2>1, EventBaseStep DEF Next
  <2>2. CASE WriterStep
    BY <1>1, <2>2, ReadStep, QuietWriterStep, RestartStep, StopStep, StartStep,
       RecordHeaderStep, RecordDataStep DEF WriterStep, Next
  <2>3. CASE OwnerCall
    BY <1>1, <2>3, QueueingCall, RewiringCall DEF OwnerCall
  <2>4. CASE OwnerStep
    BY <1>1, <2>4, WaitStep, CreateStep, ResetStep, QueueingCall, RewiringCall DEF OwnerStep
  <2> QED BY <1>1, <2>1, <2>2, <2>3, <2>4 DEF Next
<1>2. ASSUME IndInv, UNCHANGED vars PROVE IndInv'
  BY <1>2 DEF vars, IndInv, TypeOK, QueueInv, LimitInv, RoomInv, CaptureInv, PipeInv, CntrLock,
              Pending, Capture, Restarting, handles, Records, DataPlaces,
              InPlace, Fits, HalfIn, Alive
<1> QED BY <1>1, <1>2

(* Every step of the three threads keeps the invariant the theorems rest on. *)
THEOREM Inductive == Spec => []IndInv
BY InitHolds, StepHolds, PTL DEF Spec

\* TypeOK: types, and one message at most beyond the capacity of the queue.
THEOREM TypeCorrect == Spec => []TypeOK
<1>1. IndInv => TypeOK
  BY DEF IndInv
<1> QED BY Inductive, <1>1, PTL

\* CaptureWellFormed: outside a restart every capture is a header and whole
\* records, the writes to a file that failed left out.
THEOREM CapturesAreWellFormed == Spec => []CaptureWellFormed
<1>1. IndInv => CaptureWellFormed
  BY DEF IndInv, CaptureInv, Capture, CaptureWellFormed
<1> QED BY Inductive, <1>1, PTL

\* AmountMatchesCapture: what getStats reports is the number of the records of the
\* captures, those included whose writes failed.
THEOREM AmountIsExact == Spec => []AmountMatchesCapture
<1>1. IndInv => AmountMatchesCapture
  BY DEF IndInv, CaptureInv, LimitInv, AmountMatchesCapture
<1> QED BY Inductive, <1>1, PTL

\* BufferBound: a buffer never holds more than its size.
THEOREM BuffersBounded == Spec => []BufferBound
<1>1. ASSUME IndInv, storage = "IOBUF", NEW e \in Event PROVE Len(sink[e]) <= BufferSize
  <2>1. Len(sink[e]) + Pending(e) <= BufferSize /\ BufferSize \in Nat /\ Len(sink[e]) \in Nat
    BY <1>1, MonitorAssumption, LenProperties DEF IndInv, RoomInv, TypeOK
  <2>2. Pending(e) \in {0, 1, 2}
    BY DEF Pending
  <2> QED BY <2>1, <2>2
<1>2. IndInv => BufferBound
  BY <1>1 DEF BufferBound
<1> QED BY Inductive, <1>2, PTL

\* PipeFramed: unless an event is moved from one pipe to another in the middle of
\* a record, which setAsyncPipeWriter does not prevent, pipes hold whole records.
THEOREM PipesAreFramed == OnePipeEach => (Spec => []PipeFramed)
<1> SUFFICES ASSUME OnePipeEach PROVE Spec => []PipeFramed
  OBVIOUS
<1>1. ASSUME IndInv PROVE PipeFramed
  <2>1. SUFFICES ASSUME Alive, NEW p \in Pipe
                 PROVE  /\ WholeRecords(stream[p], 1)
                        /\ Len(stream[p]) % 2 = 1 =>
                             writer.at = "data" /\ dataWriters_[writer.event].pipe \in {p, NoPipe}
    BY DEF PipeFramed
  <2>2. CASE storage # "PIPE"
    <3>1. stream[p] = <<>> /\ Len(<<>>) = 0
      BY <1>1, <2>2 DEF IndInv, PipeInv
    <3> QED BY <3>1 DEF WholeRecords
  <2>3. CASE storage = "PIPE"
    <3>1. WholeRecords(stream[p], 1) /\ (Len(stream[p]) % 2 = 1 <=> HalfIn(p))
      BY <1>1, <2>1, <2>3 DEF IndInv, PipeInv
    <3>2. ASSUME HalfIn(p)
          PROVE  writer.at = "data" /\ dataWriters_[writer.event].pipe \in {p, NoPipe}
      <4>1. writer.event \in Event
        BY <1>1, <3>2, WriterIs DEF IndInv, HalfIn, CntrLock
      <4> QED BY <1>1, <3>2, <4>1, ZenonT(60) DEF IndInv, PipeInv, HalfIn, OnePipeEach
    <3> QED BY <3>1, <3>2
  <2> QED BY <2>2, <2>3
<1>2. IndInv => PipeFramed
  BY <1>1
<1> QED BY Inductive, <1>2, PTL
-----------------------------------------------------------------------------
(* The end of the writer thread: the safety half of ShutdownEnds *)

OnlyPackets(i) == \A j \in i .. Len(queue_) : queue_[j].kind = "packet"
Destroying == owner.at = "join" /\ owner.queued

\* The destructor's message is the last of the owner's, is not lost, and is what ends the
\* writer thread: until then a call of the owner has a thread to wait for, and with it
\* every control message before it has been handled.
ShutdownComesLast ==
  /\ \A i \in 1 .. Len(queue_) : queue_[i].kind = "shutdown" => Destroying /\ OnlyPackets(i + 1)
  /\ handles("shutdown") => Destroying /\ OnlyPackets(1)
  /\ writer.at = "done" => (Destroying \/ owner.at = "destroyed") /\ OnlyPackets(1)
  /\ Destroying /\ Alive =>
       \/ \E i \in 1 .. Len(queue_) : queue_[i].kind = "shutdown"
       \/ handles("shutdown")
       \/ writer.at = "done"
  /\ owner.at = "destroyed" => writer.at = "done"

\* What a step does to the queue, the writer thread and the owner
Arrives ==
  /\ writer' = writer /\ owner' = owner
  /\ queue_' = queue_ \/ \E e \in Event : queue_' = Append(queue_, Packet(e))
Reads ==
  /\ writer.at = "read" /\ queue_ # <<>> /\ owner' = owner
  /\ writer' = [at |-> "handle", msg |-> Head(queue_)] /\ queue_' = Tail(queue_)
Writes ==
  /\ queue_' = queue_ /\ owner' = owner
  /\ \/ writer.at = "handle" /\ writer'.at \in {"read", "rec"} /\ ~handles("shutdown")
     \/ handles("shutdown") /\ writer'.at = "done"
     \/ writer.at = "rec" /\ writer'.at = "data"
     \/ writer.at = "data" /\ writer'.at = "read"
     \/ writer.at \in {"rec", "data"} /\ writer'.at = "crashed"
Queues ==
  /\ writer' = writer /\ owner.at \notin {"join", "destroyed"} /\ owner'.at = "wait"
  /\ \E msg \in Msg : msg.kind \in {"stop", "restart"} /\ queue_' = Append(queue_, msg)
Ends ==
  /\ writer' = writer
  /\ \/ owner.at = "idle" /\ owner' = [at |-> "join", queued |-> TRUE] /\ queue_' = Append(queue_, ShutdownMsg)
     \/ owner.at = "idle" /\ owner' = [at |-> "join", queued |-> FALSE] /\ queue_' = queue_
     \/ owner.at = "join" /\ writer.at = "done" /\ owner'.at = "destroyed" /\ queue_' = queue_
GoesOn ==
  /\ writer' = writer /\ queue_' = queue_
  /\ {owner.at, owner'.at} \cap {"join", "destroyed"} = {}

LEMMA WriterKinds == ASSUME TypeOK, WriterStep PROVE Reads \/ Writes
<1>1. ASSUME blockingRead PROVE Reads
  BY <1>1 DEF blockingRead, Reads
<1>2. ASSUME handleShutdown PROVE Writes
  BY <1>2 DEF handleShutdown, handles, Writes
<1>3. ASSUME restartWriters \/ stopWriters \/ skipPacket \/ startPacket PROVE Writes
  <2>1. writer.at = "handle" /\ ~handles("shutdown") /\ queue_' = queue_ /\ owner' = owner
    BY <1>3 DEF restartWriters, stopWriters, skipPacket, startPacket, handles
  <2>2. writer' = Reading \/ \E e : writer' = [at |-> "rec", event |-> e]
    BY <1>3 DEF restartWriters, stopWriters, skipPacket, startPacket
  <2> QED BY <2>1, <2>2 DEF Writes, Reading
<1>4. ASSUME writeRecordHeader PROVE Writes
  <2>1. writer \in [at : {"rec", "data"}, event : Event]
    BY <1>4 DEF writeRecordHeader, TypeOK, WriterType, Reading
  <2> QED BY <1>4, <2>1 DEF writeRecordHeader, Writes
<1>5. ASSUME writeRecordData PROVE Writes
  BY <1>5 DEF writeRecordData, Writes, Reading
<1>6. ASSUME nullPipeCrash PROVE Writes
  BY <1>6 DEF nullPipeCrash, CntrLock, Writes
<1> QED BY <1>1, <1>2, <1>3, <1>4, <1>5, <1>6 DEF WriterStep

LEMMA OwnerKinds == ASSUME TypeOK, OwnerCall \/ OwnerStep PROVE Queues \/ Ends \/ GoesOn
<1>1. ASSUME stopMonitor \/ \E n \in Limits : restartMonitor(n) \/ restartMonitorReset(n)
      PROVE  Queues
  <2>1. writer' = writer /\ owner.at = "idle" /\ owner'.at = "wait"
    BY <1>1 DEF stopMonitor, restartMonitor, restartMonitorReset, Begin, Idle
  <2>2. \E msg \in {StopMsg} \cup {RestartMsg(n) : n \in Limits} : queue_' = Append(queue_, msg)
    BY <1>1 DEF stopMonitor, restartMonitor, restartMonitorReset
  <2>3. \A msg \in {StopMsg} \cup {RestartMsg(n) : n \in Limits} :
          msg \in Msg /\ msg.kind \in {"stop", "restart"}
    BY DEF Msg, StopMsg, RestartMsg
  <2> QED BY <2>1, <2>2, <2>3 DEF Queues
<1>2. ASSUME restartAfterReset PROVE Queues
  <2>1. owner.at = "restart" /\ owner.limit \in Limits
    BY <1>2 DEF restartAfterReset, TypeOK, OwnerType, OwnerNext, Idle
  <2>2. RestartMsg(owner.limit) \in Msg /\ RestartMsg(owner.limit).kind = "restart"
    BY <2>1 DEF Msg, RestartMsg
  <2> QED BY <1>2, <2>1, <2>2 DEF restartAfterReset, Queues
<1>3. ASSUME destroy PROVE Ends
  <2>1. owner = Idle /\ writer' = writer
    BY <1>3 DEF destroy, Begin
  <2>2. owner.at = "idle"
    BY <2>1 DEF Idle
  <2>3. CASE Len(queue_) < QueueSize
    <3>1. owner' = [at |-> "join", queued |-> TRUE] /\ queue_' = Append(queue_, ShutdownMsg)
      BY <1>3, <2>3 DEF destroy, Begin
    <3> QED BY <2>1, <2>2, <3>1 DEF Ends
  <2>4. CASE ~(Len(queue_) < QueueSize)
    <3>1. (Len(queue_) < QueueSize) = FALSE
      BY <2>4
    <3>2. owner' = [at |-> "join", queued |-> Len(queue_) < QueueSize] /\ queue_' = queue_
      BY <1>3, <2>4 DEF destroy, Begin
    <3>3. owner' = [at |-> "join", queued |-> FALSE]
      BY <3>1, <3>2
    <3> QED BY <2>1, <2>2, <3>2, <3>3 DEF Ends
  <2> QED BY <2>3, <2>4
<1>4. ASSUME join PROVE Ends
  BY <1>4 DEF join, Ends
<1>5. ASSUME wait PROVE GoesOn
  <2>1. owner.at = "wait" /\ owner.next \in OwnerNext
    BY <1>5 DEF wait, TypeOK, OwnerType, OwnerNext, Idle
  <2>2. owner.next.at \notin {"join", "destroyed"}
    BY <2>1 DEF OwnerNext, Idle
  <2> QED BY <1>5, <2>1, <2>2 DEF wait, GoesOn
<1>6. ASSUME createWriters \/ resetWriters \/ setEnable \/ unsetPipe PROVE GoesOn
  BY <1>6 DEF createWriters, resetWriters, setEnable, unsetPipe, GoesOn, Idle
<1>7. ASSUME NEW e \in Event,
             enableWriterEvent(e) \/ disableWriterEvent(e) \/ unsetAsyncPipeWriter(e)
               \/ \E p \in PipesOf[e] : setAsyncPipeWriter(e, p)
      PROVE  GoesOn
  BY <1>7 DEF enableWriterEvent, disableWriterEvent, unsetAsyncPipeWriter, setAsyncPipeWriter,
              Begin, GoesOn, Idle
<1> QED BY <1>1, <1>2, <1>3, <1>4, <1>5, <1>6, <1>7 DEF OwnerCall, OwnerStep

LEMMA StepKinds ==
  ASSUME TypeOK, Next
  PROVE  \/ Arrives
         \/ WriterStep /\ (Reads \/ Writes)
         \/ Queues \/ Ends \/ GoesOn
<1>1. (\E e \in Event : handlePerfBufferEvent(e)) => Arrives
  BY DEF handlePerfBufferEvent, Arrives
<1> QED BY <1>1, WriterKinds, OwnerKinds DEF Next

\* The messages of a queue after one more, and after the first is taken
LEMMA QueueOfOneMore ==
  ASSUME TypeOK, NEW msg, queue_' = Append(queue_, msg)
  PROVE  /\ Len(queue_) \in Nat /\ Len(queue_') = Len(queue_) + 1
         /\ queue_'[Len(queue_) + 1] = msg
         /\ \A i \in 1 .. Len(queue_) : queue_'[i] = queue_[i]
BY LenProperties DEF TypeOK

LEMMA QueueOfOneLess ==
  ASSUME TypeOK, queue_ # <<>>, queue_' = Tail(queue_)
  PROVE  /\ Len(queue_) \in Nat \ {0} /\ Len(queue_') = Len(queue_) - 1
         /\ Head(queue_) = queue_[1]
         /\ \A i \in 1 .. Len(queue_') : queue_'[i] = queue_[i + 1]
BY HeadTailProperties, LenProperties, EmptySeq DEF TypeOK

LEMMA ArrivesKeeps == ASSUME TypeOK, ShutdownComesLast, Arrives PROVE ShutdownComesLast'
<1>1. CASE queue_' = queue_
  BY <1>1 DEF Arrives, ShutdownComesLast, Destroying, OnlyPackets, handles, Alive
<1>2. CASE \E e \in Event : queue_' = Append(queue_, Packet(e))
  <2>1. PICK e \in Event : queue_' = Append(queue_, Packet(e))
    BY <1>2
  <2>2. /\ Len(queue_) \in Nat /\ Len(queue_') = Len(queue_) + 1
        /\ queue_'[Len(queue_) + 1].kind = "packet"
        /\ \A i \in 1 .. Len(queue_) : queue_'[i] = queue_[i]
    BY <2>1, QueueOfOneMore DEF Packet
  <2>3. ASSUME NEW i \in Nat \ {0}, OnlyPackets(i) PROVE OnlyPackets(i)'
    BY <2>2, <2>3 DEF OnlyPackets
  <2>4. writer' = writer /\ owner' = owner
    BY DEF Arrives
  <2>5. Destroying' = Destroying /\ handles("shutdown")' = handles("shutdown") /\ Alive' = Alive
    BY <2>4 DEF Destroying, handles, Alive
  <2>6. ASSUME NEW i \in 1 .. Len(queue_'), queue_'[i].kind = "shutdown"
        PROVE  Destroying' /\ OnlyPackets(i + 1)'
    <3>1. i \in 1 .. Len(queue_) /\ queue_[i].kind = "shutdown" /\ i + 1 \in Nat \ {0}
      BY <2>2, <2>6
    <3> QED BY <2>3, <2>5, <3>1 DEF ShutdownComesLast
  <2>7. (\E i \in 1 .. Len(queue_) : queue_[i].kind = "shutdown")
          => \E i \in 1 .. Len(queue_') : queue_'[i].kind = "shutdown"
    BY <2>2
  <2> HIDE DEF OnlyPackets, Destroying, handles, Alive
  <2> QED BY <2>3, <2>4, <2>5, <2>6, <2>7 DEF ShutdownComesLast
<1> QED BY <1>1, <1>2 DEF Arrives

LEMMA ReadsKeeps == ASSUME TypeOK, ShutdownComesLast, Reads PROVE ShutdownComesLast'
<1>1. /\ writer.at = "read" /\ owner' = owner
      /\ writer' = [at |-> "handle", msg |-> Head(queue_)]
      /\ Len(queue_) \in Nat \ {0} /\ Len(queue_') = Len(queue_) - 1 /\ Head(queue_) = queue_[1]
      /\ \A i \in 1 .. Len(queue_') : queue_'[i] = queue_[i + 1]
  BY QueueOfOneLess DEF Reads
<1>2. ASSUME NEW i \in Nat \ {0}, OnlyPackets(i + 1) PROVE OnlyPackets(i)'
  BY <1>1, <1>2 DEF OnlyPackets
<1>3. Destroying' = Destroying
  BY <1>1 DEF Destroying
<1>4. handles("shutdown")' <=> queue_[1].kind = "shutdown"
  BY <1>1 DEF handles
<1>5. ASSUME NEW i \in 1 .. Len(queue_'), queue_'[i].kind = "shutdown"
      PROVE  Destroying' /\ OnlyPackets(i + 1)'
  <2>1. i + 1 \in 1 .. Len(queue_) /\ queue_[i + 1].kind = "shutdown" /\ i + 1 \in Nat \ {0}
    BY <1>1, <1>5
  <2> QED BY <1>2, <1>3, <2>1 DEF ShutdownComesLast
<1>6. handles("shutdown")' => Destroying' /\ OnlyPackets(1)'
  <2>1. 1 \in 1 .. Len(queue_) /\ 1 \in Nat \ {0}
    BY <1>1
  <2> QED BY <1>2, <1>3, <1>4, <2>1 DEF ShutdownComesLast
<1>7. Destroying' =>
        (\E i \in 1 .. Len(queue_') : queue_'[i].kind = "shutdown") \/ handles("shutdown")'
  <2> SUFFICES ASSUME Destroying' PROVE (\E i \in 1 .. Len(queue_') : queue_'[i].kind = "shutdown") \/ handles("shutdown")'
    OBVIOUS
  <2>1. PICK i \in 1 .. Len(queue_) : queue_[i].kind = "shutdown"
    BY <1>1, <1>3 DEF ShutdownComesLast, handles, Alive
  <2>2. CASE i = 1
    BY <1>4, <2>1, <2>2
  <2>3. CASE i # 1
    <3>1. i - 1 \in 1 .. Len(queue_') /\ queue_'[i - 1] = queue_[i]
      BY <1>1, <2>3
    <3> QED BY <2>1, <3>1
  <2> QED BY <2>2, <2>3
<1>8. owner'.at # "destroyed" /\ writer'.at = "handle"
  BY <1>1 DEF ShutdownComesLast
<1> QED BY <1>5, <1>6, <1>7, <1>8 DEF ShutdownComesLast

LEMMA WritesKeeps == ASSUME TypeOK, ShutdownComesLast, Writes PROVE ShutdownComesLast'
<1>1. /\ queue_' = queue_ /\ owner' = owner /\ Destroying' = Destroying
      /\ \A i : OnlyPackets(i)' <=> OnlyPackets(i)
  BY DEF Writes, Destroying, OnlyPackets
<1>2. writer'.at # "handle" /\ writer.at # "done"
  BY DEF Writes, handles
<1>3. writer'.at = "done" => handles("shutdown")
  BY DEF Writes
<1>4. handles("shutdown") => writer'.at = "done"
  BY DEF Writes, handles
<1>5. ~handles("shutdown")'
  BY <1>2 DEF handles
<1>6. writer.at = "crashed" => FALSE
  BY DEF Writes, handles
<1>7. Alive
  BY <1>6 DEF Alive
<1>8. owner'.at # "destroyed"
  BY <1>1, <1>2 DEF ShutdownComesLast
<1>9. \A i \in 1 .. Len(queue_') : queue_'[i].kind = "shutdown" => Destroying' /\ OnlyPackets(i + 1)'
  BY <1>1 DEF ShutdownComesLast
<1>10. writer'.at = "done" => (Destroying' \/ owner'.at = "destroyed") /\ OnlyPackets(1)'
  BY <1>1, <1>3 DEF ShutdownComesLast
<1>11. Destroying' =>
         \/ \E i \in 1 .. Len(queue_') : queue_'[i].kind = "shutdown"
         \/ writer'.at = "done"
  BY <1>1, <1>2, <1>4, <1>7 DEF ShutdownComesLast
<1> QED BY <1>5, <1>8, <1>9, <1>10, <1>11 DEF ShutdownComesLast

LEMMA QueuesKeeps == ASSUME TypeOK, ShutdownComesLast, Queues PROVE ShutdownComesLast'
<1>1. PICK msg \in Msg : msg.kind \in {"stop", "restart"} /\ queue_' = Append(queue_, msg)
  BY DEF Queues
<1>2. /\ Len(queue_) \in Nat /\ Len(queue_') = Len(queue_) + 1
      /\ queue_'[Len(queue_) + 1] = msg
      /\ \A i \in 1 .. Len(queue_) : queue_'[i] = queue_[i]
  BY <1>1, QueueOfOneMore
<1>3. writer' = writer /\ ~Destroying /\ owner.at # "destroyed" /\ ~Destroying' /\ owner'.at = "wait"
  BY DEF Queues, Destroying
<1>4. \A i \in 1 .. Len(queue_) : queue_[i].kind # "shutdown"
  BY <1>3 DEF ShutdownComesLast
<1>5. \A i \in 1 .. Len(queue_') : queue_'[i].kind # "shutdown"
  BY <1>1, <1>2, <1>4
<1>6. ~handles("shutdown") /\ writer.at # "done"
  BY <1>3 DEF ShutdownComesLast
<1>7. ~handles("shutdown")' /\ writer'.at # "done"
  BY <1>3, <1>6 DEF handles
<1> QED BY <1>3, <1>5, <1>7 DEF ShutdownComesLast

LEMMA EndsKeeps == ASSUME TypeOK, ShutdownComesLast, Ends PROVE ShutdownComesLast'
<1>1. writer' = writer /\ handles("shutdown")' = handles("shutdown")
  BY DEF Ends, handles
<1>2. ASSUME owner.at = "idle"
      PROVE  /\ \A i \in 1 .. Len(queue_) : queue_[i].kind # "shutdown"
             /\ ~handles("shutdown") /\ writer.at # "done"
  BY <1>2 DEF ShutdownComesLast, Destroying
<1>3. CASE owner.at = "idle" /\ owner' = [at |-> "join", queued |-> TRUE]
             /\ queue_' = Append(queue_, ShutdownMsg)
  <2>1. /\ Len(queue_) \in Nat /\ Len(queue_') = Len(queue_) + 1
        /\ queue_'[Len(queue_) + 1].kind = "shutdown"
        /\ \A i \in 1 .. Len(queue_) : queue_'[i] = queue_[i]
    BY <1>3, QueueOfOneMore DEF ShutdownMsg
  <2>2. Destroying' /\ owner'.at # "destroyed"
    BY <1>3 DEF Destroying
  <2>3. ASSUME NEW i \in 1 .. Len(queue_'), queue_'[i].kind = "shutdown"
        PROVE  OnlyPackets(i + 1)'
    <3>1. i = Len(queue_')
      BY <1>2, <1>3, <2>1, <2>3
    <3> QED BY <2>1, <3>1 DEF OnlyPackets
  <2>4. \E i \in 1 .. Len(queue_') : queue_'[i].kind = "shutdown"
    BY <2>1
  <2> QED BY <1>1, <1>2, <1>3, <2>2, <2>3, <2>4 DEF ShutdownComesLast
<1>4. CASE owner.at = "idle" /\ owner' = [at |-> "join", queued |-> FALSE] /\ queue_' = queue_
  <2>1. ~Destroying' /\ owner'.at # "destroyed"
    BY <1>4 DEF Destroying
  <2> QED BY <1>1, <1>2, <1>4, <2>1 DEF ShutdownComesLast
<1>5. CASE owner.at = "join" /\ writer.at = "done" /\ owner'.at = "destroyed" /\ queue_' = queue_
  <2>1. ~Destroying' /\ Destroying /\ ~handles("shutdown")
    BY <1>5 DEF ShutdownComesLast, Destroying, handles
  <2>2. OnlyPackets(1) /\ OnlyPackets(1)' = OnlyPackets(1)
    BY <1>5 DEF ShutdownComesLast, OnlyPackets
  <2>3. \A i \in 1 .. Len(queue_) : queue_[i].kind # "shutdown"
    BY <2>2 DEF OnlyPackets
  <2> QED BY <1>1, <1>5, <2>1, <2>2, <2>3 DEF ShutdownComesLast
<1> QED BY <1>3, <1>4, <1>5 DEF Ends

LEMMA GoesOnKeeps == ASSUME ShutdownComesLast, GoesOn PROVE ShutdownComesLast'
<1>1. /\ writer' = writer /\ queue_' = queue_ /\ handles("shutdown")' = handles("shutdown")
      /\ ~Destroying /\ owner.at # "destroyed" /\ ~Destroying' /\ owner'.at # "destroyed"
  BY DEF GoesOn, Destroying, handles
<1> QED BY <1>1 DEF ShutdownComesLast

\* The destructor's shutdown message is behind every control message and in front of
\* packets only, is not lost once it has found room, and nothing else ends the writer
\* thread (stop messages of other calls, a full queue).
THEOREM ShutdownIsLast == Spec => []ShutdownComesLast
<1>1. Init => ShutdownComesLast
  BY DEF Init, Reading, Idle, ShutdownComesLast, Destroying, handles
<1>2. TypeOK /\ ShutdownComesLast /\ [Next]_vars => ShutdownComesLast'
  <2>1. UNCHANGED vars => Arrives
    BY DEF vars, Arrives
  <2> QED BY <2>1, StepKinds, ArrivesKeeps, ReadsKeeps, WritesKeeps, QueuesKeeps, EndsKeeps, GoesOnKeeps
<1> QED BY <1>1, <1>2, TypeCorrect, PTL DEF Spec

\* Steps the writer thread still takes for the message it holds
Stage ==
  CASE writer.at = "handle" -> 3 [] writer.at = "rec" -> 2 [] writer.at = "data" -> 1 [] OTHER -> 0

\* Each step of the writer thread brings it nearer to the shutdown message, and no step of
\* another thread takes it farther away; what it does with the message is to end.
ShutdownNears ==
  /\ \A i \in 1 .. Len(queue_) : queue_[i].kind = "shutdown" =>
       /\ WriterStep =>
            \/ i = 1 /\ handles("shutdown")'
            \/ ~Alive'
            \/ \E j \in 1 .. Len(queue_') :
                 queue_'[j].kind = "shutdown" /\ 4 * j + Stage' < 4 * i + Stage
       /\ ~WriterStep => i \in 1 .. Len(queue_') /\ queue_'[i] = queue_[i] /\ writer' = writer
  /\ handles("shutdown") => IF WriterStep THEN writer'.at = "done" ELSE writer' = writer

LEMMA StageIs ==
  /\ Stage \in 0 .. 3
  /\ writer.at = "handle" => Stage = 3
  /\ writer.at = "rec" => Stage = 2
  /\ writer.at = "data" => Stage = 1
  /\ writer.at = "read" \/ writer.at = "done" => Stage = 0
BY DEF Stage

LEMMA StageIsNext ==
  (/\ Stage \in 0 .. 3
   /\ writer.at = "handle" => Stage = 3
   /\ writer.at = "rec" => Stage = 2
   /\ writer.at = "data" => Stage = 1
   /\ writer.at = "read" \/ writer.at = "done" => Stage = 0)'
BY StageIs, PTL

LEMMA QueueGrows ==
  ASSUME TypeOK, Arrives \/ Queues \/ Ends \/ GoesOn
  PROVE  /\ writer' = writer
         /\ \A i \in 1 .. Len(queue_) : i \in 1 .. Len(queue_') /\ queue_'[i] = queue_[i]
<1>1. writer' = writer /\ (queue_' = queue_ \/ \E msg : queue_' = Append(queue_, msg))
  BY DEF Arrives, Queues, Ends, GoesOn
<1>2. ASSUME NEW msg, queue_' = Append(queue_, msg), NEW i \in 1 .. Len(queue_)
      PROVE  i \in 1 .. Len(queue_') /\ queue_'[i] = queue_[i]
  <2>1. Len(queue_) \in Nat /\ Len(queue_') = Len(queue_) + 1 /\ queue_'[i] = queue_[i]
    BY <1>2, QueueOfOneMore
  <2> QED BY <2>1
<1> QED BY <1>1, <1>2

LEMMA NearsShutdown ==
  ASSUME TypeOK, Next
  PROVE  ShutdownNears
<1>1. ASSUME WriterStep, NEW i \in 1 .. Len(queue_), queue_[i].kind = "shutdown"
      PROVE  \/ i = 1 /\ handles("shutdown")'
             \/ ~Alive'
             \/ \E j \in 1 .. Len(queue_') :
                  queue_'[j].kind = "shutdown" /\ 4 * j + Stage' < 4 * i + Stage
  <2>1. CASE Reads
    <3>1. /\ Len(queue_) \in Nat \ {0} /\ Len(queue_') = Len(queue_) - 1 /\ Head(queue_) = queue_[1]
          /\ \A j \in 1 .. Len(queue_') : queue_'[j] = queue_[j + 1]
      BY <2>1, QueueOfOneLess DEF Reads
    <3>2. i = 1 => handles("shutdown")'
      BY <1>1, <2>1, <3>1 DEF Reads, handles
    <3>3. ASSUME i # 1
          PROVE  i - 1 \in 1 .. Len(queue_') /\ queue_'[i - 1] = queue_[i]
      BY <3>1, <3>3
    <3>4. Stage' = 3 /\ Stage = 0
      BY <2>1, StageIs, StageIsNext DEF Reads
    <3>5. 4 * (i - 1) + 3 < 4 * i + 0
      OBVIOUS
    <3> QED BY <1>1, <3>2, <3>3, <3>4, <3>5
  <2>2. CASE Writes
    <3>1. queue_' = queue_
      BY <2>2 DEF Writes
    <3>2. writer'.at = "crashed" => ~Alive'
      BY DEF Alive
    <3>3. writer'.at # "crashed" => Stage \in 0 .. 3 /\ Stage' \in 0 .. 3 /\ Stage' < Stage
      BY <2>2, StageIs, StageIsNext DEF Writes, handles
    <3>4. writer'.at # "crashed" => 4 * i + Stage' < 4 * i + Stage
      BY <3>3
    <3> QED BY <1>1, <3>1, <3>2, <3>4
  <2> QED BY <1>1, <2>1, <2>2, WriterKinds
<1>2. ASSUME ~WriterStep, NEW i \in 1 .. Len(queue_)
      PROVE  i \in 1 .. Len(queue_') /\ queue_'[i] = queue_[i] /\ writer' = writer
  BY <1>2, StepKinds, QueueGrows
<1>3. ASSUME handles("shutdown"), WriterStep
      PROVE  writer'.at = "done"
  <2>1. Reads \/ Writes
    BY <1>3, WriterKinds
  <2> QED BY <1>3, <2>1 DEF Reads, Writes, handles
<1>4. ~WriterStep => writer' = writer
  BY StepKinds, QueueGrows
<1> QED BY <1>1, <1>2, <1>3, <1>4 DEF ShutdownNears

\* No call and no packet can put off the end of the writer thread: the number of steps it
\* takes to the shutdown message falls with each of them and never rises, although the
\* event base and blocked calls go on queueing.
THEOREM ShutdownNearsEnd == Spec => [][ShutdownNears]_vars
<1>1. TypeOK /\ Next => ShutdownNears
  BY NearsShutdown
<1> QED BY <1>1, TypeCorrect, PTL DEF Spec
=============================================================================
