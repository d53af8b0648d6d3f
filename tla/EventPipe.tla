------------------------------ MODULE EventPipe ------------------------------
(***************************************************************************)
(* EventPipeCallback (src/vsoshlb/lib/EventPipeCallback.{h,cpp}): the read *)
(* callback of one event's pipe.  The pipe carries pcap records end to end *)
(* and hands them over in chunks that know nothing of records; the reader  *)
(* thread cuts whole records out of what it has, keeps the rest, and sends *)
(* each record to the clients subscribed at that moment.  Clients come and *)
(* go on other threads; each of their operations holds the write lock of   *)
(* cb_subsmap_, a send holds its read lock.                                *)
(*                                                                         *)
(* Bytes are in units: a record is HdrSize units of header, of which the   *)
(* first tells incl_len, and then incl_len units of packet.                *)
(***************************************************************************)
EXTENDS Integers, Sequences

CONSTANTS
  Client,
  HdrSize,       \* rec_hdr_sz
  Lens,          \* incl_len of the records
  ReadBufSize,   \* the most that one read returns, kReadBufSize
  MaxRecords     \* bound: records put into the pipe

ASSUME EventPipeAssumption ==
  /\ {HdrSize, ReadBufSize} \subseteq Nat \ {0}
  /\ Lens \subseteq Nat \ {0}
  /\ MaxRecords \in Nat

VARIABLES
  pipe,          \* units written and not yet read
  written,       \* number of records written
  readBuffer_,
  reader,        \* the reader thread: idle, or in readBuffer with a cursor
  event_enabled_,
  cb_subsmap_,
  received       \* client -> records that sendEvent gave it, 0 for a torn one

vars == <<pipe, written, readBuffer_, reader, event_enabled_, cb_subsmap_, received>>

Idle == [at |-> "idle"]
Unit == [rec : 1 .. MaxRecords, part : Nat \ {0}, len : Lens]
RecordUnits(n, len) == [i \in 1 .. HdrSize + len |-> [rec |-> n, part |-> i, len |-> len]]

\* initialize enables the callback before it gives it to the reader
Init ==
  /\ pipe = <<>>
  /\ written = 0
  /\ readBuffer_ = <<>>
  /\ reader = Idle
  /\ event_enabled_ = TRUE
  /\ cb_subsmap_ = {}
  /\ received = [c \in Client |-> <<>>]
-----------------------------------------------------------------------------
\* PcapWriter::writePacket through a PipeWriter: header and packet
writePacket(len) ==
  /\ written < MaxRecords
  /\ written' = written + 1
  /\ pipe' = pipe \o RecordUnits(written + 1, len)
  /\ UNCHANGED <<readBuffer_, reader, event_enabled_, cb_subsmap_, received>>

\* readDataAvailable: n units behind what was left over, all in one buffer
readDataAvailable(n) ==
  /\ reader = Idle
  /\ n <= Len(pipe)
  /\ reader' = [at |-> "loop", buf |-> readBuffer_ \o SubSeq(pipe, 1, n), pos |-> 0]
  /\ pipe' = SubSeq(pipe, n + 1, Len(pipe))
  /\ readBuffer_' = <<>>
  /\ UNCHANGED <<written, event_enabled_, cb_subsmap_, received>>

\* Mutant: one unit more than needed.
MutCanAdvanceStrict(n) == reader.pos + n < Len(reader.buf)

canAdvance(n) == reader.pos + n <= Len(reader.buf)

\* incl_len of the header at the cursor; units of a packet taken for a header
\* tell nothing about lengths
InclLen == LET u == reader.buf[reader.pos + 1] IN IF u.part = 1 THEN u.len ELSE 0

RecordComplete == canAdvance(HdrSize) /\ canAdvance(HdrSize + InclLen)

\* a complete record becomes msg; the cursor moves behind it
readRecord ==
  /\ reader.at = "loop"
  /\ RecordComplete
  /\ LET end == reader.pos + HdrSize + InclLen
         msg == SubSeq(reader.buf, reader.pos + 1, end)
     IN reader' = [at |-> IF event_enabled_ THEN "send" ELSE "loop",
                   buf |-> reader.buf, pos |-> end, msg |-> msg]
  /\ UNCHANGED <<pipe, written, readBuffer_, event_enabled_, cb_subsmap_, received>>

RecordOf(msg) ==
  IF msg = RecordUnits(msg[1].rec, msg[1].len) THEN msg[1].rec ELSE 0

\* sendEvent for every client, under the read lock
sendEvent ==
  /\ reader.at = "send"
  /\ received' = [c \in Client |->
       IF c \in cb_subsmap_ THEN Append(received[c], RecordOf(reader.msg))
                            ELSE received[c]]
  /\ reader' = [reader EXCEPT !.at = "loop"]
  /\ UNCHANGED <<pipe, written, readBuffer_, event_enabled_, cb_subsmap_>>

\* Mutant: no retreat to the header of the record that is incomplete.
MutNoRetreat ==
  /\ reader.at = "loop"
  /\ ~RecordComplete
  /\ LET pos == IF canAdvance(HdrSize) THEN reader.pos + HdrSize ELSE reader.pos
     IN readBuffer_' = SubSeq(reader.buf, pos + 1, Len(reader.buf))
  /\ reader' = Idle
  /\ UNCHANGED <<pipe, written, event_enabled_, cb_subsmap_, received>>

\* the loop ends at the start of the first incomplete record
keepLeftover ==
  /\ reader.at = "loop"
  /\ ~RecordComplete
  /\ readBuffer_' = SubSeq(reader.buf, reader.pos + 1, Len(reader.buf))
  /\ reader' = Idle
  /\ UNCHANGED <<pipe, written, event_enabled_, cb_subsmap_, received>>

addClientSubscription(c) ==
  /\ c \notin cb_subsmap_
  /\ received[c] = <<>>          \* ids are not given again: who got records stays away
  /\ cb_subsmap_' = cb_subsmap_ \cup {c}
  /\ UNCHANGED <<pipe, written, readBuffer_, reader, event_enabled_, received>>

removeClientSubscription(c) ==
  /\ c \in cb_subsmap_
  /\ cb_subsmap_' = cb_subsmap_ \ {c}
  /\ UNCHANGED <<pipe, written, readBuffer_, reader, event_enabled_, received>>

\* tearDown disables the callback
disable ==
  /\ event_enabled_
  /\ event_enabled_' = FALSE
  /\ UNCHANGED <<pipe, written, readBuffer_, reader, cb_subsmap_, received>>

ReaderStep ==
  \/ \E n \in 1 .. ReadBufSize : readDataAvailable(n)
  \/ readRecord
  \/ sendEvent
  \/ keepLeftover

Next ==
  \/ \E len \in Lens : writePacket(len)
  \/ ReaderStep
  \/ \E c \in Client : addClientSubscription(c) \/ removeClientSubscription(c)
  \/ disable

\* the event base goes on reading while there is something to read
Spec == Init /\ [][Next]_vars /\ WF_vars(ReaderStep)
-----------------------------------------------------------------------------
(* Properties *)

\* "we can respond without worrying about breaking the bounds between two
\* consecutive pcap records" (EventPipeCallback.cpp:21-23): whatever the chunks
\* of the pipe, a client gets whole records, in order, without a gap from its
\* first to its last, and what is kept for the next read is less than a record.
WholeRecordsInOrder ==
  /\ \A c \in Client : LET r == received[c] IN
       r # <<>> => r[1] > 0 /\ \A i \in 1 .. Len(r) : r[i] = r[1] + i - 1
  /\ readBuffer_ # <<>> => Len(readBuffer_) < HdrSize + readBuffer_[1].len

Received(c, n) == \E i \in 1 .. Len(received[c]) : received[c][i] = n

\* the header of record n has not been read yet
Unread(n) == \E i \in 1 .. Len(pipe) : pipe[i].rec = n /\ pipe[i].part = 1

\* A record that is in the pipe reaches every client that stays subscribed,
\* unless the callback is disabled: no chunking of the pipe makes the loop wait
\* for bytes that it has.
RecordsArrive ==
  \A c \in Client, n \in 1 .. MaxRecords :
    (c \in cb_subsmap_ /\ Unread(n))
      ~> (Received(c, n) \/ c \notin cb_subsmap_ \/ ~event_enabled_)
=============================================================================
