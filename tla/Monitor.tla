------------------------------- MODULE Monitor -------------------------------
(***************************************************************************)
(* The capture pipeline: class VsoshlbMonitor, its PcapWriter and the     *)
(* DataWriters (src/vsoshlb/lib).  Three threads share it:                *)
(*   - the event base thread, where VsoshlbEventReader puts packets of    *)
(*     the perf buffer on queue_ and drops them when it is full;          *)
(*   - the writer thread, PcapWriter::runMulti, which holds cntrLock_     *)
(*     from the look at a message to the end of its iteration;            *)
(*   - the owner's thread, which stops, restarts and re-wires the writers *)
(*     through control messages on the same queue and through calls of    *)
(*     which only resetWriters and getStats take the lock.                *)
(*                                                                         *)
(* A file or a buffer is the sequence of what was written to it: "hdr"    *)
(* (the pcap header), "rec" (a record header), "data" (the packet), and   *)
(* "lost" for an item whose write to a file failed: none or a part of its *)
(* bytes are there.  What two descriptors open on one file leave of each  *)
(* other's bytes until restart truncates the file is not told apart.      *)
(***************************************************************************)
EXTENDS Integers, Sequences, FiniteSets

CONSTANTS
  Event,         \* config_.events
  Storages,      \* what config_.storage may be: "FILE", "IOBUF", "PIPE"
  Pipe,          \* AsyncPipeWriters
  PipesOf,       \* event -> those the owner may set for it
  NoPipe,        \* a null pipe_
  QueueSize,     \* config_.queueSize
  PcktLimit,     \* config_.pcktLimit
  BufferSize,    \* room of an IOBuf, in items ("hdr", "rec", "data")
  Limits,        \* limits the owner passes to restartMonitor
  OwnerCalls,    \* the calls this owner makes
  MaxPackets,    \* bound: packets that come from the perf buffer
  MaxGaps,       \* bound: failed writes to a file since it was truncated
  MaxCalls       \* bound: calls of the owner

ASSUME MonitorAssumption ==
  /\ Storages \subseteq {"FILE", "IOBUF", "PIPE"}
  /\ NoPipe \notin Pipe /\ PipesOf \in [Event -> SUBSET Pipe]
  /\ IsFiniteSet(Event)
  /\ {QueueSize, PcktLimit, BufferSize, MaxPackets, MaxGaps, MaxCalls} \subseteq Nat
  /\ QueueSize > 0
  /\ Limits \subseteq Nat
  /\ OwnerCalls \subseteq {"stop", "restart", "reset", "enable", "disable",
                           "set", "unset", "destroy"}

VARIABLES
  storage,             \* config_.storage
  queue_,              \* with the messages of blocked writers at its end
  writer,              \* the writer thread
  owner,               \* the owner's call in progress
  dataWriters_,        \* event -> [open, pipe]; open is also enabled_
  pipeWriterDests_,
  sink,                \* event -> content of its file or buffer
  stream,              \* pipe -> what went into it
  enabledEvents_, headerExists_, packetAmount_, packetLimit_, bufferFull_,
  packets, calls       \* how many there were so far

fileVars == <<sink, stream>>
countVars == <<headerExists_, packetAmount_, packetLimit_, bufferFull_>>
vars == <<storage, queue_, writer, owner, dataWriters_, pipeWriterDests_, fileVars,
          enabledEvents_, countVars, packets, calls>>

Packet(e) == [kind |-> "packet", event |-> e]
StopMsg == [kind |-> "stop"]
RestartMsg(limit) == [kind |-> "restart", limit |-> limit]
ShutdownMsg == [kind |-> "shutdown"]
Msg == {Packet(e) : e \in Event} \cup {RestartMsg(n) : n \in Limits}
         \cup {StopMsg, ShutdownMsg}

Reading == [at |-> "read"]
Idle == [at |-> "idle"]

\* packetLimitOverride_: no packet limit for pipes
packetLimitOverride == storage = "PIPE"

\* createWriters: a new pipe writer has the destination that was saved
NewWriter(e) == [open |-> TRUE, pipe |-> pipeWriterDests_[e]]

Init ==
  /\ storage \in Storages
  /\ queue_ = <<>>
  /\ writer = Reading
  /\ owner = Idle
  /\ pipeWriterDests_ = [e \in Event |-> NoPipe]
  /\ dataWriters_ = [e \in Event |-> [open |-> TRUE, pipe |-> NoPipe]]
  /\ sink = [e \in Event |-> <<>>]
  /\ stream = [p \in Pipe |-> <<>>]
  /\ enabledEvents_ = Event
  /\ headerExists_ = {}
  /\ packetAmount_ = 0
  /\ packetLimit_ = PcktLimit
  /\ bufferFull_ = 0
  /\ packets = 0
  /\ calls = 0
-----------------------------------------------------------------------------
(* The event base thread *)

\* Mutant: the packet is queued however full the queue is.
MutQueueUnbounded(e) ==
  /\ packets < MaxPackets
  /\ packets' = packets + 1
  /\ queue_' = Append(queue_, Packet(e))
  /\ UNCHANGED <<writer, owner, dataWriters_, pipeWriterDests_, fileVars,
                 enabledEvents_, countVars, calls>>

\* handlePerfBufferEvent: a full queue drops the packet.  Writers blocked in
\* blockingWrite have their places already (folly::MPMCQueue gives tickets).
handlePerfBufferEvent(e) ==
  /\ packets < MaxPackets
  /\ packets' = packets + 1
  /\ queue_' = IF Len(queue_) < QueueSize THEN Append(queue_, Packet(e)) ELSE queue_
  /\ UNCHANGED <<writer, owner, dataWriters_, pipeWriterDests_, fileVars,
                 enabledEvents_, countVars, calls>>
-----------------------------------------------------------------------------
(* The writer thread *)

CntrLock == writer.at \in {"rec", "data"}

\* Mutant: the thread reads only below the limit, as PcapWriter::run does.
MutReadUntilLimit ==
  /\ writer.at = "read"
  /\ packetLimit_ = 0 \/ packetAmount_ < packetLimit_
  /\ queue_ # <<>>
  /\ writer' = [at |-> "handle", msg |-> Head(queue_)]
  /\ queue_' = Tail(queue_)
  /\ UNCHANGED <<owner, dataWriters_, pipeWriterDests_, fileVars, enabledEvents_,
                 countVars, packets, calls>>

blockingRead ==
  /\ writer.at = "read"
  /\ queue_ # <<>>
  /\ writer' = [at |-> "handle", msg |-> Head(queue_)]
  /\ queue_' = Tail(queue_)
  /\ UNCHANGED <<owner, dataWriters_, pipeWriterDests_, fileVars, enabledEvents_,
                 countVars, packets, calls>>

handles(kind) == writer.at = "handle" /\ writer.msg.kind = kind

\* Mutant: the shutdown message is taken for a stop.
MutShutdownContinues ==
  /\ handles("shutdown")
  /\ writer' = Reading
  /\ UNCHANGED <<queue_, owner, dataWriters_, pipeWriterDests_, fileVars,
                 enabledEvents_, countVars, packets, calls>>

handleShutdown ==
  /\ handles("shutdown")
  /\ writer' = [at |-> "done"]
  /\ UNCHANGED <<queue_, owner, dataWriters_, pipeWriterDests_, fileVars,
                 enabledEvents_, countVars, packets, calls>>

\* Mutant: headerExists_ is not cleared.
MutRestartKeepsHeaders ==
  /\ handles("restart")
  /\ dataWriters_' = [e \in Event |-> [dataWriters_[e] EXCEPT !.open = TRUE]]
  /\ sink' = [e \in Event |-> <<>>]
  /\ packetLimit_' = writer.msg.limit
  /\ packetAmount_' = 0
  /\ writer' = Reading
  /\ UNCHANGED <<queue_, owner, pipeWriterDests_, stream, enabledEvents_,
                 headerExists_, bufferFull_, packets, calls>>

\* restartWriters: files are truncated, buffers cleared, pipes enabled
restartWriters ==
  /\ handles("restart")
  /\ headerExists_' = {}
  /\ dataWriters_' = [e \in Event |-> [dataWriters_[e] EXCEPT !.open = TRUE]]
  /\ sink' = [e \in Event |-> <<>>]
  /\ packetLimit_' = writer.msg.limit
  /\ packetAmount_' = 0
  /\ writer' = Reading
  /\ UNCHANGED <<queue_, owner, pipeWriterDests_, stream, enabledEvents_,
                 bufferFull_, packets, calls>>

\* stopWriters: files are closed and pipes disabled, buffers do nothing
stopWriters ==
  /\ handles("stop")
  /\ dataWriters_' = [e \in Event |->
       [dataWriters_[e] EXCEPT !.open = (storage = "IOBUF")]]
  /\ packetLimit_' = 0
  /\ packetAmount_' = 0
  /\ writer' = Reading
  /\ UNCHANGED <<queue_, owner, pipeWriterDests_, fileVars, enabledEvents_,
                 headerExists_, bufferFull_, packets, calls>>

\* available: only buffers run out of room
Available(content, n) == storage = "IOBUF" => Len(content) + n <= BufferSize

\* FileWriter::writeData logs a write that fails, and the caller goes on
Gaps(e) == {i \in 1 .. Len(sink[e]) : sink[e][i] = "lost"}
Written(e, item) ==
  {item} \cup IF storage = "FILE" /\ Cardinality(Gaps(e)) < MaxGaps THEN {"lost"} ELSE {}

\* a closed file takes nothing; a pipe writer keeps the header for itself
WithHeader(e) ==
  IF storage = "PIPE" \/ ~dataWriters_[e].open THEN {sink[e]}
  ELSE {Append(sink[e], item) : item \in Written(e, "hdr")}

\* what writePcapHeader leaves
AfterHeader(e) == IF e \in headerExists_ THEN {sink[e]} ELSE WithHeader(e)

\* the branches of runMulti that leave a packet alone
SkipsPacket(e) ==
  \/ ~packetLimitOverride /\ packetAmount_ >= packetLimit_
  \/ e \notin enabledEvents_
  \/ e \notin headerExists_ /\ ~Available(sink[e], 1)

skipPacket ==
  /\ handles("packet")
  /\ SkipsPacket(writer.msg.event)
  /\ writer' = Reading
  /\ UNCHANGED <<queue_, owner, dataWriters_, pipeWriterDests_, fileVars,
                 enabledEvents_, countVars, packets, calls>>

\* Mutant: the record is written whether or not there is room for it.
MutNoRoomTest ==
  /\ handles("packet")
  /\ ~SkipsPacket(writer.msg.event)
  /\ LET e == writer.msg.event
     IN \E content \in AfterHeader(e) :
        /\ sink' = [sink EXCEPT ![e] = content]
        /\ headerExists_' = headerExists_ \cup {e}
        /\ writer' = [at |-> "rec", event |-> e]
        /\ UNCHANGED bufferFull_
  /\ UNCHANGED <<queue_, owner, dataWriters_, pipeWriterDests_, stream,
                 enabledEvents_, packetAmount_, packetLimit_, packets, calls>>

\* writePcapHeader, then the room for the record
startPacket ==
  /\ handles("packet")
  /\ ~SkipsPacket(writer.msg.event)
  /\ LET e == writer.msg.event
     IN \E content \in AfterHeader(e) :
        /\ sink' = [sink EXCEPT ![e] = content]
        /\ headerExists_' = headerExists_ \cup {e}
        /\ IF Available(content, 2)
           THEN writer' = [at |-> "rec", event |-> e] /\ UNCHANGED bufferFull_
           ELSE writer' = Reading /\ bufferFull_' = bufferFull_ + 1
  /\ UNCHANGED <<queue_, owner, dataWriters_, pipeWriterDests_, stream,
                 enabledEvents_, packetAmount_, packetLimit_, packets, calls>>

\* writeData of the three kinds of writers; pipe_ is not tested for null
writeData(e, item) ==
  \/ ~dataWriters_[e].open /\ UNCHANGED fileVars
  \/ /\ dataWriters_[e].open /\ storage # "PIPE"
     /\ \E written \in Written(e, item) : sink' = [sink EXCEPT ![e] = Append(@, written)]
     /\ UNCHANGED stream
  \/ /\ dataWriters_[e].open /\ storage = "PIPE" /\ dataWriters_[e].pipe # NoPipe
     /\ stream' = [stream EXCEPT ![dataWriters_[e].pipe] = Append(@, item)]
     /\ UNCHANGED sink

NullPipe(e) ==
  dataWriters_[e].open /\ storage = "PIPE" /\ dataWriters_[e].pipe = NoPipe

\* writePacket: the record header, then the packet
writeRecordHeader ==
  /\ writer.at = "rec"
  /\ writeData(writer.event, "rec")
  /\ writer' = [writer EXCEPT !.at = "data"]
  /\ UNCHANGED <<queue_, owner, dataWriters_, pipeWriterDests_, enabledEvents_,
                 countVars, packets, calls>>

\* Mutant: ++packetAmount_ is missing.
MutAmountNotCounted ==
  /\ writer.at = "data"
  /\ writeData(writer.event, "data")
  /\ writer' = Reading
  /\ UNCHANGED <<queue_, owner, dataWriters_, pipeWriterDests_, enabledEvents_,
                 countVars, packets, calls>>

writeRecordData ==
  /\ writer.at = "data"
  /\ writeData(writer.event, "data")
  /\ packetAmount_' = packetAmount_ + 1
  /\ writer' = Reading
  /\ UNCHANGED <<queue_, owner, dataWriters_, pipeWriterDests_, enabledEvents_,
                 headerExists_, packetLimit_, bufferFull_, packets, calls>>

\* pipe_->write through a null pointer: the process dies
nullPipeCrash ==
  /\ CntrLock
  /\ NullPipe(writer.event)
  /\ writer' = [at |-> "crashed"]
  /\ UNCHANGED <<queue_, owner, dataWriters_, pipeWriterDests_, fileVars,
                 enabledEvents_, countVars, packets, calls>>

WriterStep ==
  /\ UNCHANGED storage
  /\ \/ blockingRead
     \/ handleShutdown
     \/ restartWriters
     \/ stopWriters
     \/ skipPacket
     \/ startPacket
     \/ writeRecordHeader
     \/ writeRecordData
     \/ nullPipeCrash
-----------------------------------------------------------------------------
(* The owner's thread.  Its calls are sequences of steps.                  *)

Begin(name, next) ==
  /\ name \in OwnerCalls
  /\ owner = Idle
  /\ calls < MaxCalls
  /\ calls' = calls + 1
  /\ owner' = next

\* blockingWrite returns once its message is within the capacity
blockingWriteReturns == Len(queue_) <= QueueSize

stopMonitor ==
  /\ Begin("stop", [at |-> "wait", next |-> Idle])
  /\ queue_' = Append(queue_, StopMsg)
  /\ UNCHANGED <<writer, dataWriters_, pipeWriterDests_, fileVars, enabledEvents_,
                 countVars, packets>>

wait ==
  /\ owner.at = "wait"
  /\ blockingWriteReturns
  /\ owner' = owner.next
  /\ UNCHANGED <<queue_, writer, dataWriters_, pipeWriterDests_, fileVars,
                 enabledEvents_, countVars, packets, calls>>

\* the restart message, the last thing restartMonitor does
restartMonitor(limit) ==
  /\ Begin("restart", [at |-> "wait", next |-> Idle])
  /\ queue_' = Append(queue_, RestartMsg(limit))
  /\ UNCHANGED <<writer, dataWriters_, pipeWriterDests_, fileVars, enabledEvents_,
                 countVars, packets>>

\* restartMonitor with a storage: stopMonitor first
restartMonitorReset(limit) ==
  /\ Begin("reset", [at |-> "wait", next |-> [at |-> "create", limit |-> limit]])
  /\ queue_' = Append(queue_, StopMsg)
  /\ UNCHANGED <<writer, dataWriters_, pipeWriterDests_, fileVars, enabledEvents_,
                 countVars, packets>>

\* createWriters opens the files anew; the writers in use are still the old ones
createWriters ==
  /\ owner.at = "create"
  /\ owner' = [at |-> "reset", limit |-> owner.limit]
  /\ sink' = IF storage = "FILE" THEN [e \in Event |-> <<>>] ELSE sink
  /\ UNCHANGED <<queue_, writer, dataWriters_, pipeWriterDests_, stream,
                 enabledEvents_, countVars, packets, calls>>

\* Mutant: resetWriters does not take cntrLock_.
MutResetNoLock ==
  /\ owner.at = "reset"
  /\ dataWriters_' = [e \in Event |-> NewWriter(e)]
  /\ owner' = [at |-> "restart", limit |-> owner.limit]
  /\ UNCHANGED <<queue_, writer, pipeWriterDests_, fileVars, enabledEvents_,
                 countVars, packets, calls>>

\* resetWriters: the old writers are stopped and replaced; headerExists_ stays
resetWriters ==
  /\ owner.at = "reset"
  /\ ~CntrLock
  /\ dataWriters_' = [e \in Event |-> NewWriter(e)]
  /\ owner' = [at |-> "restart", limit |-> owner.limit]
  /\ UNCHANGED <<queue_, writer, pipeWriterDests_, fileVars, enabledEvents_,
                 countVars, packets, calls>>

restartAfterReset ==
  /\ owner.at = "restart"
  /\ queue_' = Append(queue_, RestartMsg(owner.limit))
  /\ owner' = [at |-> "wait", next |-> Idle]
  /\ UNCHANGED <<writer, dataWriters_, pipeWriterDests_, fileVars, enabledEvents_,
                 countVars, packets, calls>>

enableWriterEvent(e) ==
  /\ Begin("enable", Idle)
  /\ enabledEvents_' = enabledEvents_ \cup {e}
  /\ UNCHANGED <<queue_, writer, dataWriters_, pipeWriterDests_, fileVars,
                 countVars, packets>>

disableWriterEvent(e) ==
  /\ Begin("disable", Idle)
  /\ enabledEvents_' = enabledEvents_ \ {e}
  /\ UNCHANGED <<queue_, writer, dataWriters_, pipeWriterDests_, fileVars,
                 countVars, packets>>

\* setAsyncPipeWriter: the destination is saved; a pipe writer gets it, and
\* only then is the event enabled
setAsyncPipeWriter(e, p) ==
  /\ Begin("set", IF storage = "PIPE" THEN [at |-> "set", event |-> e] ELSE Idle)
  /\ pipeWriterDests_' = [pipeWriterDests_ EXCEPT ![e] = p]
  /\ dataWriters_' = IF storage = "PIPE"
                     THEN [dataWriters_ EXCEPT ![e].pipe = p] ELSE dataWriters_
  /\ UNCHANGED <<queue_, writer, fileVars, enabledEvents_, countVars, packets>>

setEnable ==
  /\ owner.at = "set"
  /\ enabledEvents_' = enabledEvents_ \cup {owner.event}
  /\ owner' = Idle
  /\ UNCHANGED <<queue_, writer, dataWriters_, pipeWriterDests_, fileVars,
                 countVars, packets, calls>>

\* unsetAsyncPipeWriter: the event is disabled, then the pipe taken away
unsetAsyncPipeWriter(e) ==
  /\ storage = "PIPE"
  /\ Begin("unset", [at |-> "unset", event |-> e])
  /\ enabledEvents_' = enabledEvents_ \ {e}
  /\ UNCHANGED <<queue_, writer, dataWriters_, pipeWriterDests_, fileVars,
                 countVars, packets>>

unsetPipe ==
  /\ owner.at = "unset"
  /\ dataWriters_' = [dataWriters_ EXCEPT ![owner.event].pipe = NoPipe]
  /\ pipeWriterDests_' = [pipeWriterDests_ EXCEPT ![owner.event] = NoPipe]
  /\ owner' = Idle
  /\ UNCHANGED <<queue_, writer, fileVars, enabledEvents_, countVars, packets,
                 calls>>

\* ~VsoshlbMonitor: write gives up on a full queue, join waits all the same
destroy ==
  /\ Begin("destroy", [at |-> "join", queued |-> Len(queue_) < QueueSize])
  /\ queue_' = IF Len(queue_) < QueueSize THEN Append(queue_, ShutdownMsg) ELSE queue_
  /\ UNCHANGED <<writer, dataWriters_, pipeWriterDests_, fileVars, enabledEvents_,
                 countVars, packets>>

join ==
  /\ owner.at = "join"
  /\ writer.at = "done"
  /\ owner' = [at |-> "destroyed"]
  /\ UNCHANGED <<queue_, writer, dataWriters_, pipeWriterDests_, fileVars,
                 enabledEvents_, countVars, packets, calls>>

OwnerCall ==
  /\ UNCHANGED storage
  /\ \/ stopMonitor
     \/ \E n \in Limits : restartMonitor(n) \/ restartMonitorReset(n)
     \/ \E e \in Event : \/ enableWriterEvent(e)
                         \/ disableWriterEvent(e)
                         \/ unsetAsyncPipeWriter(e)
                         \/ \E p \in PipesOf[e] : setAsyncPipeWriter(e, p)
     \/ destroy

OwnerStep ==
  /\ UNCHANGED storage
  /\ \/ wait
     \/ createWriters
     \/ resetWriters
     \/ restartAfterReset
     \/ setEnable
     \/ unsetPipe
     \/ join

Alive == writer.at # "crashed"

Next ==
  /\ Alive
  /\ \/ UNCHANGED storage /\ \E e \in Event : handlePerfBufferEvent(e)
     \/ WriterStep
     \/ OwnerCall
     \/ OwnerStep

\* both threads go on with what they have begun
Spec == Init /\ [][Next]_vars /\ WF_vars(Alive /\ WriterStep)
                             /\ WF_vars(Alive /\ OwnerStep)
-----------------------------------------------------------------------------
(* Properties *)

Items == {"hdr", "rec", "data", "lost"}
WriterType ==
  {Reading, [at |-> "done"], [at |-> "crashed"]}
    \cup [at : {"handle"}, msg : Msg] \cup [at : {"rec", "data"}, event : Event]
OwnerNext == {Idle} \cup [at : {"create", "reset", "restart"}, limit : Limits]
OwnerType ==
  OwnerNext \cup [at : {"wait"}, next : OwnerNext]
    \cup [at : {"set", "unset"}, event : Event]
    \cup [at : {"join"}, queued : BOOLEAN] \cup {[at |-> "destroyed"]}

\* Every message, counter and state of the two threads has its type, and the
\* queue holds at most one message more than its capacity: the owner's.
TypeOK ==
  /\ storage \in Storages
  /\ queue_ \in Seq(Msg) /\ Len(queue_) <= QueueSize + 1
  /\ writer \in WriterType
  /\ owner \in OwnerType
  /\ dataWriters_ \in [Event -> [open : BOOLEAN, pipe : Pipe \cup {NoPipe}]]
  /\ pipeWriterDests_ \in [Event -> Pipe \cup {NoPipe}]
  /\ sink \in [Event -> Seq(Items)]
  /\ stream \in [Pipe -> Seq(Items)]
  /\ enabledEvents_ \subseteq Event
  /\ headerExists_ \subseteq Event
  /\ {packetAmount_, packetLimit_, bufferFull_, packets, calls} \subseteq Nat

\* a restart that has not come to its end: its call or its message is on the way
Restarting ==
  \/ owner.at \in {"create", "reset", "restart"}
  \/ owner.at = "wait" /\ owner.next # Idle
  \/ \E i \in 1 .. Len(queue_) : queue_[i].kind = "restart"
  \/ handles("restart")

WholeRecords(s, first) ==
  \A i \in first .. Len(s) : s[i] = IF (i - first) % 2 = 0 THEN "rec" ELSE "data"

\* each item of a capture is the one that belongs in its place, or a write to
\* a file that failed
Belongs(i) == IF i = 1 THEN "hdr" ELSE IF i % 2 = 0 THEN "rec" ELSE "data"
Fits(item, i) == item = Belongs(i) \/ (storage = "FILE" /\ item = "lost")
InPlace(s) == \A i \in 1 .. Len(s) : Fits(s[i], i)

\* Once no restart is under way, every capture file or buffer is a pcap
\* stream: the header once, in front, then whole records, the last one
\* excepted while it is being written (headerExists_ against the truncation
\* of restart, and resetWriters under cntrLock_).  What a failed write leaves
\* out of a file is not made up for: its place is lost, and no other.
CaptureWellFormed ==
  ~Restarting /\ storage # "PIPE" =>
    \A e \in Event : sink[e] # <<>> =>
      /\ InPlace(sink[e])
      /\ Len(sink[e]) % 2 = 0 => writer = [at |-> "data", event |-> e]

\* the records of the captures, by the places of their packets: those that are
\* there, and those lost
DataPlaces(s) ==
  {i \in 1 .. Len(s) : s[i] = "data" \/ (s[i] = "lost" /\ Belongs(i) = "data")}
Records == UNION {{<<e, i>> : i \in DataPlaces(sink[e])} : e \in Event}

\* Unless stopped or restarting, the amount that getStats reports is the number
\* of records in the captures, those counted that a failed write left out, and
\* it keeps within the limit of the last restart.
AmountMatchesCapture ==
  ~Restarting /\ storage # "PIPE" /\ packetLimit_ # 0 =>
    /\ packetAmount_ = Cardinality(Records)
    /\ packetAmount_ <= packetLimit_

\* A buffer never holds more than its size.
BufferBound == storage = "IOBUF" => \A e \in Event : Len(sink[e]) <= BufferSize

\* What goes into a pipe is whole records, one after the other, through stops,
\* resets, and the pipe being taken away and set again: its reader finds the
\* records by their headers (EventPipeCallback::readBuffer).
PipeFramed ==
  Alive => \A p \in Pipe :
    /\ WholeRecords(stream[p], 1)
    /\ Len(stream[p]) % 2 = 1 =>
         writer.at = "data" /\ dataWriters_[writer.event].pipe \in {p, NoPipe}

\* Every call but the destructor returns, unless the process dies: blockingWrite
\* finds room because the writer thread never stops reading, and cntrLock_ is
\* given back.
CallsReturn ==
  (owner.at \notin {"idle", "join", "destroyed"}) ~> (owner = Idle \/ ~Alive)

\* A shutdown message that found room ends the writer thread and the join,
\* whatever is in front of it.
ShutdownEnds ==
  (owner.at = "join" /\ owner.queued) ~> (owner.at = "destroyed" \/ ~Alive)
=============================================================================
