---------------------------- MODULE EventPipeProofs ----------------------------
(***************************************************************************)
(* Proof that the clients of an event get whole records in order, for      *)
(* every number of clients and records, every size of the records and      *)
(* every way the pipe cuts its bytes into reads.                           *)
(*                                                                         *)
(* What lies ahead of the reader's cursor is one stream, part of it in the *)
(* reader's buffer and the rest in the pipe.  The argument is that the     *)
(* stream always begins at the header of a record and ends at the end of   *)
(* the last one written (Framed): a read moves units from the pipe to the  *)
(* buffer and leaves the stream alone, a complete record takes exactly the *)
(* first record off it, and the retreat at the end of the loop leaves it   *)
(* alone again.  Framed says of every unit where its whole record lies, so *)
(* no induction over the stream is needed.                                 *)
(***************************************************************************)
EXTENDS EventPipe, SequenceTheorems, TLAPS

USE EventPipeAssumption

\* The buffer the reader works on, and the cursor in it
Buf == IF reader.at = "idle" THEN readBuffer_ ELSE reader.buf
Pos == IF reader.at = "idle" THEN 0 ELSE reader.pos

\* The stream ahead of the cursor
Kept == Len(Buf) - Pos
Left == Kept + Len(pipe)
Ahead == [i \in 1 .. Left |-> IF i <= Kept THEN Buf[Pos + i] ELSE pipe[i - Kept]]

\* The number of the next record that the cursor meets
NextRec == IF Left = 0 THEN written + 1 ELSE Ahead[1].rec

Size(u) == HdrSize + u.len

\* S[1 .. n] is a sequence of whole records with consecutive numbers, the last
\* of them the record w.  The record that unit i belongs to starts behind i - part.
FramedAt(S, n, w, i) ==
  /\ S[i] \in Unit
  /\ S[i].part <= i /\ S[i].part <= Size(S[i])
  /\ i - S[i].part + Size(S[i]) <= n
  /\ \A k \in 1 .. Size(S[i]) :
       S[i - S[i].part + k] = [rec |-> S[i].rec, part |-> k, len |-> S[i].len]
  /\ IF i - S[i].part + Size(S[i]) = n THEN S[i].rec = w
     ELSE S[i - S[i].part + Size(S[i]) + 1].rec = S[i].rec + 1

Framed(S, n, w) == \A i \in 1 .. n : FramedAt(S, n, w, i)

Types ==
  /\ pipe \in Seq(Unit)
  /\ written \in 0 .. MaxRecords
  /\ readBuffer_ \in Seq(Unit)
  /\ event_enabled_ \in BOOLEAN
  /\ cb_subsmap_ \subseteq Client
  /\ received \in [Client -> Seq(Nat)]

ReaderType ==
  /\ reader.at \in {"idle", "loop", "send"}
  /\ reader.at = "idle" => reader = Idle
  /\ reader.at # "idle" => reader.buf \in Seq(Unit) /\ reader.pos \in 0 .. Len(reader.buf)
  /\ reader.at = "send" =>
       reader \in [at : {"send"}, buf : Seq(Unit), pos : Nat, msg : Seq(Unit)]

StreamInv == Framed(Ahead, Left, written)

\* The record taken off the stream and not sent yet is the one before the next.
MsgInv ==
  reader.at = "send" =>
    /\ NextRec > 1
    /\ \E len \in Lens : reader.msg = RecordUnits(NextRec - 1, len)

\* What sendEvent has given to the clients that are still subscribed ends with
\* the last record it sent.
Sent == IF reader.at = "send" THEN NextRec - 2 ELSE NextRec - 1

ClientInv ==
  \A c \in Client : received[c] # <<>> =>
    /\ received[c][1] > 0
    /\ \A i \in 1 .. Len(received[c]) : received[c][i] = received[c][1] + i - 1
    /\ c \in cb_subsmap_ /\ (event_enabled_ \/ reader.at = "send") =>
         received[c][Len(received[c])] = Sent

LeftoverInv == readBuffer_ # <<>> => Len(readBuffer_) < HdrSize + readBuffer_[1].len

IndInv == Types /\ ReaderType /\ StreamInv /\ MsgInv /\ ClientInv /\ LeftoverInv
-----------------------------------------------------------------------------
(* Sequences *)

\* What follows the first n elements
LEMMA Rest ==
  ASSUME NEW U, NEW s \in Seq(U), NEW n \in 0 .. Len(s)
  PROVE  /\ SubSeq(s, n + 1, Len(s)) \in Seq(U)
         /\ Len(SubSeq(s, n + 1, Len(s))) = Len(s) - n
         /\ \A i \in 1 .. Len(s) - n : SubSeq(s, n + 1, Len(s))[i] = s[n + i]
<1>1. n \in Nat /\ Len(s) \in Nat /\ n <= Len(s) /\ \A i \in n + 1 .. Len(s) : s[i] \in U
  OBVIOUS
<1>2. /\ SubSeq(s, n + 1, Len(s)) \in Seq(U)
      /\ Len(SubSeq(s, n + 1, Len(s)))
           = IF n + 1 <= Len(s) THEN Len(s) - (n + 1) + 1 ELSE 0
      /\ \A i \in 1 .. Len(s) - (n + 1) + 1 :
           SubSeq(s, n + 1, Len(s))[i] = s[n + 1 + i - 1]
  BY <1>1, SubSeqProperties
<1>3. \A i \in 1 .. Len(s) - n : n + 1 + i - 1 = n + i
  BY <1>1
<1> QED BY <1>1, <1>2, <1>3

\* The elements from m + 1 to m + n
LEMMA Part ==
  ASSUME NEW U, NEW s \in Seq(U), NEW m \in Nat, NEW n \in Nat, m + n <= Len(s)
  PROVE  /\ SubSeq(s, m + 1, m + n) \in Seq(U)
         /\ Len(SubSeq(s, m + 1, m + n)) = n
         /\ \A i \in 1 .. n : SubSeq(s, m + 1, m + n)[i] = s[m + i]
<1>1. \A i \in m + 1 .. m + n : s[i] \in U
  OBVIOUS
<1>2. /\ SubSeq(s, m + 1, m + n) \in Seq(U)
      /\ Len(SubSeq(s, m + 1, m + n))
           = IF m + 1 <= m + n THEN m + n - (m + 1) + 1 ELSE 0
      /\ \A i \in 1 .. m + n - (m + 1) + 1 :
           SubSeq(s, m + 1, m + n)[i] = s[m + 1 + i - 1]
  BY <1>1, SubSeqProperties
<1>3. \A i \in 1 .. n : m + 1 + i - 1 = m + i
  OBVIOUS
<1> QED BY <1>2, <1>3

\* Two sequences end to end
LEMMA Joined ==
  ASSUME NEW U, NEW a \in Seq(U), NEW b \in Seq(U)
  PROVE  /\ a \o b \in Seq(U)
         /\ Len(a \o b) = Len(a) + Len(b)
         /\ \A i \in 1 .. Len(a) : (a \o b)[i] = a[i]
         /\ \A i \in 1 .. Len(b) : (a \o b)[Len(a) + i] = b[i]
<1>1. Len(a) \in Nat /\ Len(b) \in Nat
  OBVIOUS
<1>2. ASSUME NEW i \in 1 .. Len(b) PROVE (a \o b)[Len(a) + i] = b[i]
  <2>1. Len(a) + i \in 1 .. Len(a) + Len(b) /\ ~(Len(a) + i <= Len(a))
        /\ Len(a) + i - Len(a) = i
    BY <1>1
  <2> QED BY <2>1, ConcatProperties
<1> QED BY <1>1, <1>2, ConcatProperties
-----------------------------------------------------------------------------
(* Streams *)

LEMMA UnitType ==
  ASSUME NEW u \in Unit
  PROVE  /\ u.rec \in 1 .. MaxRecords /\ u.part \in Nat \ {0} /\ u.len \in Lens
         /\ u.len \in Nat \ {0} /\ Size(u) \in Nat \ {0}
<1>1. u.rec \in 1 .. MaxRecords /\ u.part \in Nat \ {0} /\ u.len \in Lens
  BY DEF Unit
<1>2. u.len \in Nat \ {0} /\ HdrSize \in Nat \ {0}
  BY <1>1
<1> QED BY <1>1, <1>2 DEF Size

\* A stream begins with the header of a record that is in it as a whole.
LEMMA FirstRecord ==
  ASSUME NEW S, NEW n \in Nat, NEW w, Framed(S, n, w), n > 0
  PROVE  /\ S[1] \in Unit /\ S[1].part = 1
         /\ Size(S[1]) \in 1 .. n
         /\ \A k \in 1 .. Size(S[1]) :
              S[k] = [rec |-> S[1].rec, part |-> k, len |-> S[1].len]
         /\ IF Size(S[1]) = n THEN S[1].rec = w
            ELSE S[Size(S[1]) + 1].rec = S[1].rec + 1
<1>1. 1 \in 1 .. n
  OBVIOUS
<1>2. /\ S[1] \in Unit /\ S[1].part <= 1
      /\ 1 - S[1].part + Size(S[1]) <= n
      /\ \A k \in 1 .. Size(S[1]) :
           S[1 - S[1].part + k] = [rec |-> S[1].rec, part |-> k, len |-> S[1].len]
      /\ IF 1 - S[1].part + Size(S[1]) = n THEN S[1].rec = w
         ELSE S[1 - S[1].part + Size(S[1]) + 1].rec = S[1].rec + 1
  BY <1>1 DEF Framed, FramedAt
<1>3. S[1].part = 1 /\ Size(S[1]) \in Nat \ {0}
  BY <1>2, UnitType
<1> QED BY <1>2, <1>3

\* The stream without its first record
LEMMA DropFirst ==
  ASSUME NEW S, NEW n \in Nat, NEW w, Framed(S, n, w), n > 0,
         NEW d, d = Size(S[1]),
         NEW T, \A i \in 1 .. n - d : T[i] = S[d + i]
  PROVE  Framed(T, n - d, w)
<1>1. d \in 1 .. n /\ d = HdrSize + S[1].len
      /\ \A k \in 1 .. d : S[k] = [rec |-> S[1].rec, part |-> k, len |-> S[1].len]
  BY FirstRecord DEF Size
<1> SUFFICES ASSUME NEW i \in 1 .. n - d
             PROVE  /\ T[i] \in Unit
                    /\ T[i].part <= i /\ T[i].part <= Size(T[i])
                    /\ i - T[i].part + Size(T[i]) <= n - d
                    /\ \A k \in 1 .. Size(T[i]) : T[i - T[i].part + k]
                         = [rec |-> T[i].rec, part |-> k, len |-> T[i].len]
                    /\ IF i - T[i].part + Size(T[i]) = n - d THEN T[i].rec = w
                       ELSE T[i - T[i].part + Size(T[i]) + 1].rec = T[i].rec + 1
  BY DEF Framed, FramedAt
<1>2. PICK j \in 1 .. n : j = d + i
  BY <1>1
<1> DEFINE u == S[j]
<1>10. T[i] = u
  BY <1>2
<1>3. /\ u \in Unit
      /\ u.part <= j /\ u.part <= Size(u)
      /\ j - u.part + Size(u) <= n
      /\ \A k \in 1 .. Size(u) :
           S[j - u.part + k] = [rec |-> u.rec, part |-> k, len |-> u.len]
      /\ IF j - u.part + Size(u) = n THEN u.rec = w
         ELSE S[j - u.part + Size(u) + 1].rec = u.rec + 1
  BY DEF Framed, FramedAt
<1>4. u.part \in Nat \ {0} /\ u.len \in Nat \ {0} /\ Size(u) = HdrSize + u.len
  <2>1. u.part \in Nat \ {0} /\ u.len \in Nat \ {0}
    BY <1>3, UnitType
  <2>2. Size(u) = HdrSize + u.len
    BY DEF Size
  <2> QED BY <2>1, <2>2
<1> HIDE DEF u
<1>5. u.part <= i
  <2> SUFFICES ASSUME u.part > i PROVE FALSE
    BY <1>4
  <2> DEFINE k == u.part - i
  <2>1. k \in 1 .. Size(u) /\ j - u.part + k = d
    BY <1>1, <1>2, <1>3, <1>4
  <2>2. S[d] = [rec |-> u.rec, part |-> k, len |-> u.len]
    BY <1>3, <2>1
  <2>3. S[d] = [rec |-> S[1].rec, part |-> d, len |-> S[1].len]
    BY <1>1
  <2>4. k = d /\ u.len = S[1].len
    BY <2>2, <2>3
  <2> QED BY <2>4, <1>1, <1>2, <1>3, <1>4
<1>6. \A x \in 1 .. n - d : T[x] = S[d + x]
  OBVIOUS
<1>7. ASSUME NEW k \in 1 .. Size(u)
      PROVE  T[i - u.part + k] = [rec |-> u.rec, part |-> k, len |-> u.len]
  <2>1. i - u.part + k \in 1 .. n - d
    BY <1>1, <1>2, <1>3, <1>4, <1>5
  <2>2. T[i - u.part + k] = S[j - u.part + k]
    BY <2>1, <1>6, <1>1, <1>2, <1>4, d + (i - u.part + k) = j - u.part + k
  <2> QED BY <2>2, <1>3
<1>8. ASSUME i - u.part + Size(u) # n - d
      PROVE  T[i - u.part + Size(u) + 1].rec = u.rec + 1
  <2>1. i - u.part + Size(u) + 1 \in 1 .. n - d
    BY <1>1, <1>2, <1>3, <1>4, <1>5, <1>8
  <2>2. T[i - u.part + Size(u) + 1] = S[j - u.part + Size(u) + 1]
    BY <2>1, <1>6, <1>1, <1>2, <1>4,
       d + (i - u.part + Size(u) + 1) = j - u.part + Size(u) + 1
  <2> QED BY <2>2, <1>1, <1>2, <1>3, <1>4, <1>8
<1>9. i - u.part + Size(u) = n - d => u.rec = w
  BY <1>1, <1>2, <1>3, <1>4
<1>11. j - u.part + Size(u) <= n => i - u.part + Size(u) <= n - d
  BY <1>1, <1>2, <1>3, <1>4
<1>12. /\ u \in Unit /\ u.part <= i /\ u.part <= Size(u)
       /\ i - u.part + Size(u) <= n - d
       /\ \A k \in 1 .. Size(u) :
            T[i - u.part + k] = [rec |-> u.rec, part |-> k, len |-> u.len]
       /\ IF i - u.part + Size(u) = n - d THEN u.rec = w
          ELSE T[i - u.part + Size(u) + 1].rec = u.rec + 1
  BY <1>3, <1>5, <1>7, <1>8, <1>9, <1>11
<1> QED BY <1>10, <1>12, Zenon

\* The stream with one more record behind it
LEMMA AppendRecord ==
  ASSUME NEW S, NEW n \in Nat, NEW w \in Nat, Framed(S, n, w), w < MaxRecords,
         NEW len \in Lens,
         NEW T,
         \A i \in 1 .. n : T[i] = S[i],
         \A k \in 1 .. HdrSize + len :
           T[n + k] = [rec |-> w + 1, part |-> k, len |-> len]
  PROVE  Framed(T, n + HdrSize + len, w + 1)
<1> DEFINE m == n + HdrSize + len
<1>1. len \in Nat \ {0} /\ HdrSize \in Nat \ {0} /\ MaxRecords \in Nat
  OBVIOUS
<1> SUFFICES ASSUME NEW i \in 1 .. m
             PROVE  /\ T[i] \in Unit
                    /\ T[i].part <= i /\ T[i].part <= Size(T[i])
                    /\ i - T[i].part + Size(T[i]) <= m
                    /\ \A k \in 1 .. Size(T[i]) : T[i - T[i].part + k]
                         = [rec |-> T[i].rec, part |-> k, len |-> T[i].len]
                    /\ IF i - T[i].part + Size(T[i]) = m THEN T[i].rec = w + 1
                       ELSE T[i - T[i].part + Size(T[i]) + 1].rec = T[i].rec + 1
  BY DEF Framed, FramedAt
<1>2. CASE i \in 1 .. n
  <2> DEFINE u == S[i]
  <2>1. T[i] = u
    BY <1>2
  <2>2. /\ u \in Unit
        /\ u.part <= i /\ u.part <= Size(u)
        /\ i - u.part + Size(u) <= n
        /\ \A k \in 1 .. Size(u) :
             S[i - u.part + k] = [rec |-> u.rec, part |-> k, len |-> u.len]
        /\ IF i - u.part + Size(u) = n THEN u.rec = w
           ELSE S[i - u.part + Size(u) + 1].rec = u.rec + 1
    BY <1>2 DEF Framed, FramedAt
  <2>3. u.part \in Nat \ {0} /\ u.len \in Nat \ {0} /\ Size(u) \in Nat
    BY <2>2, UnitType
  <2> HIDE DEF u
  <2>4. ASSUME NEW k \in 1 .. Size(u)
        PROVE  T[i - u.part + k] = [rec |-> u.rec, part |-> k, len |-> u.len]
    <3>1. i - u.part + k \in 1 .. n
      BY <1>2, <2>2, <2>3
    <3> QED BY <3>1, <2>2
  <2>5. T[i - u.part + Size(u) + 1].rec = u.rec + 1
    <3>1. CASE i - u.part + Size(u) = n
      <4>1. T[n + 1] = [rec |-> w + 1, part |-> 1, len |-> len]
        BY <1>1
      <4> QED BY <3>1, <4>1, <2>2
    <3>2. CASE i - u.part + Size(u) # n
      <4>1. i - u.part + Size(u) + 1 \in 1 .. n
        BY <1>2, <2>2, <2>3, <3>2
      <4> QED BY <4>1, <3>2, <2>2
    <3> QED BY <3>1, <3>2
  <2>6. i - u.part + Size(u) < m
    BY <1>1, <2>2, <2>3
  <2> QED BY <1>1, <2>1, <2>2, <2>3, <2>4, <2>5, <2>6
<1>3. CASE i \notin 1 .. n
  <2> DEFINE k == i - n
  <2>1. k \in 1 .. HdrSize + len /\ i = n + k
    BY <1>1, <1>3
  <2>2. T[i] = [rec |-> w + 1, part |-> k, len |-> len]
    BY <2>1
  <2>3. T[i].rec = w + 1 /\ T[i].part = k /\ T[i].len = len /\ Size(T[i]) = HdrSize + len
    BY <2>2 DEF Size
  <2>4. T[i] \in Unit
    BY <2>1, <2>2, <1>1 DEF Unit
  <2>5. i - T[i].part = n
    BY <2>1, <2>3
  <2> QED BY <1>1, <2>1, <2>3, <2>4, <2>5
<1> QED BY <1>2, <1>3
-----------------------------------------------------------------------------
(* The stream ahead of the cursor, and what the actions do to it *)

LEMMA StreamBounds ==
  ASSUME Types, ReaderType
  PROVE  /\ Buf \in Seq(Unit) /\ Pos \in 0 .. Len(Buf) /\ Kept \in Nat /\ Left \in Nat
         /\ Len(Buf) = Pos + Kept /\ Left = Kept + Len(pipe) /\ Len(pipe) \in Nat
<1>1. Buf \in Seq(Unit)
  BY DEF Types, ReaderType, Buf
<1>2. Len(Buf) \in Nat
  BY <1>1
<1>3. Pos \in 0 .. Len(Buf)
  BY <1>2 DEF ReaderType, Buf, Pos
<1>4. Len(pipe) \in Nat
  BY DEF Types
<1> HIDE DEF Buf, Pos
<1> QED BY <1>1, <1>2, <1>3, <1>4 DEF Kept, Left

LEMMA StreamUnit ==
  ASSUME Types, ReaderType, NEW i \in 1 .. Left
  PROVE  Ahead[i] = IF i <= Kept THEN Buf[Pos + i] ELSE pipe[i - Kept]
BY DEF Ahead

\* The first record of a stream that is not empty, and its number
LEMMA NextRecIs ==
  ASSUME Types, ReaderType, StreamInv
  PROVE  /\ NextRec \in Nat \ {0}
         /\ Left > 0 => Ahead[1] \in Unit /\ NextRec = Ahead[1].rec
<1>1. Left \in Nat
  BY StreamBounds
<1>2. CASE Left = 0
  BY <1>1, <1>2 DEF NextRec, Types
<1>3. CASE Left > 0
  <2>1. Ahead[1] \in Unit
    BY <1>1, <1>3, FirstRecord DEF StreamInv
  <2>2. Ahead[1].rec \in 1 .. MaxRecords
    BY <2>1, UnitType
  <2> QED BY <1>3, <2>1, <2>2 DEF NextRec
<1> QED BY <1>1, <1>2, <1>3

\* The stream and what is known of it stay as they are.
LEMMA SameStream ==
  ASSUME Types, ReaderType, StreamInv,
         Left' = Left, written' = written,
         \A i \in 1 .. Left : Ahead'[i] = Ahead[i]
  PROVE  StreamInv' /\ NextRec' = NextRec
<1>1. Left \in Nat /\ DOMAIN Ahead = 1 .. Left /\ DOMAIN Ahead' = 1 .. Left
  BY StreamBounds DEF Ahead
<1>2. Ahead' = Ahead
  BY <1>1 DEF Ahead
<1> QED BY <1>2 DEF StreamInv, NextRec

LEMMA UnitsOfRecord ==
  ASSUME NEW n \in 1 .. MaxRecords, NEW len \in Lens
  PROVE  /\ RecordUnits(n, len) \in Seq(Unit)
         /\ Len(RecordUnits(n, len)) = HdrSize + len
         /\ \A k \in 1 .. HdrSize + len :
              RecordUnits(n, len)[k] = [rec |-> n, part |-> k, len |-> len]
<1>1. HdrSize + len \in Nat
  OBVIOUS
<1>2. \A k \in 1 .. HdrSize + len : [rec |-> n, part |-> k, len |-> len] \in Unit
  BY <1>1 DEF Unit
<1> QED BY <1>1, <1>2 DEF RecordUnits

\* Writing a record appends it to the stream.
LEMMA WriteStream ==
  ASSUME Types, ReaderType, StreamInv, NEW len \in Lens, writePacket(len)
  PROVE  StreamInv' /\ NextRec' = NextRec /\ pipe' \in Seq(Unit)
<1> DEFINE r == RecordUnits(written + 1, len)
<1>1. written + 1 \in 1 .. MaxRecords /\ written \in Nat /\ written < MaxRecords
  BY DEF Types, writePacket
<1>2. /\ r \in Seq(Unit) /\ Len(r) = HdrSize + len
      /\ \A k \in 1 .. HdrSize + len : r[k] = [rec |-> written + 1, part |-> k, len |-> len]
  BY <1>1, UnitsOfRecord
<1> HIDE DEF r
<1>3. pipe \in Seq(Unit) /\ pipe' = pipe \o r
  BY DEF Types, writePacket, r
<1>4. /\ pipe' \in Seq(Unit) /\ Len(pipe') = Len(pipe) + HdrSize + len
      /\ \A i \in 1 .. Len(pipe) : pipe'[i] = pipe[i]
      /\ \A k \in 1 .. HdrSize + len : pipe'[Len(pipe) + k] = r[k]
  <2>3. pipe \in Seq(Unit) /\ r \in Seq(Unit)
    BY <1>2, <1>3
  <2>1. /\ pipe \o r \in Seq(Unit) /\ Len(pipe \o r) = Len(pipe) + Len(r)
        /\ \A i \in 1 .. Len(pipe) : (pipe \o r)[i] = pipe[i]
        /\ \A i \in 1 .. Len(r) : (pipe \o r)[Len(pipe) + i] = r[i]
    BY ONLY <2>3, Joined
  <2>2. Len(pipe) \in Nat /\ Len(pipe) + (HdrSize + len) = Len(pipe) + HdrSize + len
    BY <1>3
  <2> QED BY <1>2, <1>3, <2>1, <2>2
<1>5. Buf' = Buf /\ Pos' = Pos /\ Kept' = Kept
  BY DEF writePacket, Buf, Pos, Kept
<1>6. Left' = Left + HdrSize + len
  <2>1. Kept \in Nat /\ Len(pipe) \in Nat /\ len \in Nat /\ HdrSize \in Nat
    BY StreamBounds
  <2> QED BY <2>1, <1>4, <1>5 DEF Left
<1>7. ASSUME NEW i \in 1 .. Left PROVE Ahead'[i] = Ahead[i]
  <2>1. i \in 1 .. Left'
    <3>1. Left \in Nat /\ len \in Nat /\ HdrSize \in Nat /\ i \in 1 .. Left
      BY StreamBounds
    <3> QED BY ONLY <1>6, <3>1
  <2>2. Ahead'[i] = IF i <= Kept THEN Buf[Pos + i] ELSE pipe'[i - Kept]
    BY <2>1, <1>5 DEF Ahead
  <2>3. i > Kept => i - Kept \in 1 .. Len(pipe)
    BY StreamBounds
  <2>4. Ahead[i] = IF i <= Kept THEN Buf[Pos + i] ELSE pipe[i - Kept]
    BY StreamUnit
  <2>5. i \in Int /\ Kept \in Int
    BY StreamBounds
  <2>6. CASE i <= Kept
    BY <2>2, <2>4, <2>6
  <2>7. CASE i > Kept
    BY <2>2, <2>3, <2>4, <2>5, <2>7, <1>4
  <2> QED BY <2>5, <2>6, <2>7
<1>8. ASSUME NEW k \in 1 .. HdrSize + len
      PROVE  Ahead'[Left + k] = [rec |-> written + 1, part |-> k, len |-> len]
  <2>1. Left + k \in 1 .. Left' /\ ~(Left + k <= Kept) /\ Left + k - Kept = Len(pipe) + k
    <3>1. k \in Nat \ {0} /\ k <= HdrSize + len /\ HdrSize \in Nat /\ len \in Nat
      OBVIOUS
    <3>2. Kept \in Nat /\ Len(pipe) \in Nat /\ Left = Kept + Len(pipe)
      BY StreamBounds
    <3> QED BY <3>1, <3>2, <1>6
  <2>4. \A i \in 1 .. Left' :
          Ahead'[i] = IF i <= Kept THEN Buf[Pos + i] ELSE pipe'[i - Kept]
    BY <1>5 DEF Ahead
  <2>5. PICK j \in 1 .. Left' : j = Left + k
    BY <2>1
  <2>2. Ahead'[Left + k] = pipe'[Left + k - Kept]
    <3>1. Left \in Int /\ Kept \in Int /\ k \in Int
      BY StreamBounds
    <3> QED BY <2>1, <2>4, <2>5, <3>1
  <2>3. pipe'[Len(pipe) + k] = r[k]
    BY <1>4
  <2> QED BY <2>1, <2>2, <2>3, <1>2, <1>5
<1>9. StreamInv'
  <2>1. Framed(Ahead', Left + HdrSize + len, written + 1)
    BY <1>1, <1>7, <1>8, AppendRecord, StreamBounds DEF StreamInv
  <2>2. written' = written + 1
    BY DEF writePacket
  <2> QED BY <2>1, <2>2, <1>6 DEF StreamInv
<1>10. NextRec' = NextRec
  <2>1. Left \in Nat /\ Left' > 0
    <3>1. Left \in Nat /\ len \in Nat /\ HdrSize \in Nat \ {0}
      BY StreamBounds
    <3> QED BY ONLY <1>6, <3>1
  <2>2. NextRec' = Ahead'[1].rec
    BY <2>1 DEF NextRec
  <2>3. CASE Left = 0
    <3>1. Ahead'[0 + 1] = [rec |-> written + 1, part |-> 1, len |-> len]
      BY <2>3, <1>8
    <3> QED BY <2>2, <2>3, <3>1 DEF NextRec
  <2>4. CASE Left # 0
    BY <2>1, <2>2, <2>4, <1>7 DEF NextRec
  <2> QED BY <2>3, <2>4
<1> QED BY <1>4, <1>9, <1>10

\* A read moves units from the pipe to the buffer.
LEMMA ReadStream ==
  ASSUME Types, ReaderType, StreamInv, NEW n \in 1 .. ReadBufSize, readDataAvailable(n)
  PROVE  /\ StreamInv' /\ NextRec' = NextRec
         /\ pipe' \in Seq(Unit) /\ reader'.buf \in Seq(Unit)
<1>1. /\ reader = Idle /\ n \in Nat \ {0} /\ n <= Len(pipe)
      /\ pipe \in Seq(Unit) /\ readBuffer_ \in Seq(Unit)
  BY DEF readDataAvailable, Types
<1> DEFINE in == SubSeq(pipe, 1, n)
<1>2. /\ in \in Seq(Unit) /\ Len(in) = n
      /\ \A i \in 1 .. n : in[i] = pipe[i]
  <2>1. 0 \in Nat /\ 0 + n <= Len(pipe) /\ 0 + 1 = 1 /\ 0 + n = n /\ \A i \in 1 .. n : 0 + i = i
    BY <1>1
  <2> QED BY <1>1, <2>1, Part
<1>3. pipe' = SubSeq(pipe, n + 1, Len(pipe)) /\ reader'.at = "loop" /\ reader'.pos = 0
      /\ reader'.buf = readBuffer_ \o in
  BY DEF readDataAvailable
<1>4. /\ pipe' \in Seq(Unit) /\ Len(pipe') = Len(pipe) - n
      /\ \A i \in 1 .. Len(pipe) - n : pipe'[i] = pipe[n + i]
  <2>1. n \in 0 .. Len(pipe)
    BY <1>1
  <2>2. /\ SubSeq(pipe, n + 1, Len(pipe)) \in Seq(Unit)
        /\ Len(SubSeq(pipe, n + 1, Len(pipe))) = Len(pipe) - n
        /\ \A i \in 1 .. Len(pipe) - n : SubSeq(pipe, n + 1, Len(pipe))[i] = pipe[n + i]
    <3>1. pipe \in Seq(Unit)
      BY <1>1
    <3> QED BY ONLY <2>1, <3>1, Rest
  <2>3. pipe' = SubSeq(pipe, n + 1, Len(pipe))
    BY <1>3
  <2> QED BY ONLY <2>2, <2>3, Zenon
<1> HIDE DEF in
<1>5. /\ reader'.buf \in Seq(Unit) /\ Len(reader'.buf) = Len(readBuffer_) + n
      /\ \A i \in 1 .. Len(readBuffer_) : reader'.buf[i] = readBuffer_[i]
      /\ \A i \in 1 .. n : reader'.buf[Len(readBuffer_) + i] = in[i]
  <2>2. readBuffer_ \in Seq(Unit) /\ in \in Seq(Unit)
    BY <1>1, <1>2
  <2>1. /\ readBuffer_ \o in \in Seq(Unit)
        /\ Len(readBuffer_ \o in) = Len(readBuffer_) + Len(in)
        /\ \A i \in 1 .. Len(readBuffer_) : (readBuffer_ \o in)[i] = readBuffer_[i]
        /\ \A i \in 1 .. Len(in) : (readBuffer_ \o in)[Len(readBuffer_) + i] = in[i]
    BY ONLY <2>2, Joined
  <2> QED BY <1>2, <1>3, <2>1
<1>6. Buf = readBuffer_ /\ Pos = 0
  BY <1>1 DEF Buf, Pos, Idle
<1>7. Buf' = reader'.buf /\ Pos' = 0
  BY <1>3 DEF Buf, Pos
<1>8. Kept = Len(readBuffer_) /\ Kept \in Nat /\ Len(pipe) \in Nat
  BY <1>1, <1>6 DEF Kept
<1>9. Kept' = Kept + n
  <2>1. Kept' = Len(reader'.buf) - 0
    BY <1>7 DEF Kept
  <2> QED BY <2>1, <1>5, <1>8, <1>1
<1>10. Left' = Left
  BY <1>4, <1>8, <1>9, <1>1 DEF Left
<1>11. ASSUME NEW i \in 1 .. Left PROVE Ahead'[i] = Ahead[i]
  <2>1. Ahead'[i] = IF i <= Kept + n THEN reader'.buf[0 + i] ELSE pipe'[i - (Kept + n)]
    BY <1>7, <1>9, <1>10 DEF Ahead
  <2>2. Ahead[i] = IF i <= Kept THEN readBuffer_[0 + i] ELSE pipe[i - Kept]
    BY <1>6, StreamUnit
  <2>3. Left = Kept + Len(pipe) /\ i \in Nat \ {0}
    BY <1>8 DEF Left
  <2>4. CASE i <= Kept
    BY <2>1, <2>2, <2>3, <2>4, <1>1, <1>5, <1>8
  <2>5. CASE i > Kept /\ i <= Kept + n
    <3>1. i - Kept \in 1 .. n /\ Len(readBuffer_) + (i - Kept) = i /\ 0 + i = i
      BY <2>5, <2>3, <1>1, <1>8
    <3>2. reader'.buf[i] = pipe[i - Kept]
      BY <3>1, <1>2, <1>5
    <3> QED BY <2>1, <2>2, <2>5, <3>1, <3>2, <1>8
  <2>6. CASE i > Kept + n
    <3>1. i - (Kept + n) \in 1 .. Len(pipe) - n /\ n + (i - (Kept + n)) = i - Kept /\ i > Kept
      BY <2>6, <2>3, <1>1, <1>8
    <3>2. pipe'[i - (Kept + n)] = pipe[i - Kept]
      BY <3>1, <1>4
    <3>3. ~(i <= Kept + n) /\ ~(i <= Kept)
      BY <2>6, <3>1, <2>3, <1>1, <1>8
    <3> QED BY <2>1, <2>2, <3>2, <3>3
  <2> QED BY <2>4, <2>5, <2>6, <2>3, <1>1, <1>8
<1>12. written' = written
  BY DEF readDataAvailable
<1> QED BY <1>4, <1>5, <1>10, <1>11, <1>12, SameStream

\* In the loop a header that is in the buffer tells the length of the record.
LEMMA HeaderAhead ==
  ASSUME Types, ReaderType, StreamInv, reader.at = "loop", canAdvance(HdrSize)
  PROVE  /\ Left > 0 /\ Ahead[1] \in Unit
         /\ InclLen = Ahead[1].len /\ Ahead[1] = Buf[Pos + 1]
<1>1. Buf = reader.buf /\ Pos = reader.pos
  BY DEF Buf, Pos
<1>2. /\ Len(Buf) = Pos + Kept /\ Pos \in Nat /\ Kept \in Nat /\ Len(pipe) \in Nat
      /\ Left = Kept + Len(pipe)
  BY StreamBounds
<1>3. Kept >= HdrSize /\ HdrSize \in Nat \ {0}
  BY <1>1, <1>2 DEF canAdvance
<1>4. Left > 0 /\ 1 \in 1 .. Left /\ 1 <= Kept
  BY <1>2, <1>3
<1>5. Ahead[1] = Buf[Pos + 1]
  BY <1>4, StreamUnit
<1>6. Ahead[1] \in Unit /\ Ahead[1].part = 1
  <2>1. Framed(Ahead, Left, written) /\ Left \in Nat /\ Left > 0
    BY <1>2, <1>4 DEF StreamInv
  <2> QED BY ONLY <2>1, FirstRecord
<1>7. InclLen = Ahead[1].len
  BY <1>1, <1>5, <1>6 DEF InclLen
<1> QED BY <1>4, <1>5, <1>6, <1>7

\* A complete record is the first of the stream, and is taken off it.
LEMMA TakeRecord ==
  ASSUME Types, ReaderType, StreamInv, readRecord
  PROVE  /\ StreamInv' /\ NextRec' = NextRec + 1
         /\ reader'.pos \in 0 .. Len(reader.buf)
         /\ \E len \in Lens : reader'.msg = RecordUnits(NextRec, len)
         /\ reader'.msg \in Seq(Unit)
<1> DEFINE d == HdrSize + InclLen
<1>1. reader.at = "loop" /\ canAdvance(HdrSize) /\ canAdvance(d)
  BY DEF readRecord, RecordComplete
<1>2. /\ Left > 0 /\ Ahead[1] \in Unit
      /\ InclLen = Ahead[1].len /\ Ahead[1] = Buf[Pos + 1]
  BY <1>1, HeaderAhead
<1>3. d = Size(Ahead[1]) /\ d \in Nat \ {0} /\ Ahead[1].len \in Lens
  BY <1>2, UnitType DEF Size
<1>4. reader' = [at |-> IF event_enabled_ THEN "send" ELSE "loop", buf |-> reader.buf,
                 pos |-> reader.pos + d,
                 msg |-> SubSeq(reader.buf, reader.pos + 1, reader.pos + d)]
  <2>1. reader.pos + HdrSize + InclLen = reader.pos + d
    BY <1>1, <1>2, UnitType DEF ReaderType
  <2> QED BY <2>1 DEF readRecord
<1>5. Buf = reader.buf /\ Pos = reader.pos
  BY <1>1 DEF Buf, Pos
<1>6. /\ Buf \in Seq(Unit) /\ Len(Buf) = Pos + Kept /\ Pos \in Nat /\ Kept \in Nat
      /\ Len(pipe) \in Nat /\ Left = Kept + Len(pipe)
  BY StreamBounds
<1>7. d <= Kept
  <2>1. Pos + d <= Len(Buf)
    BY <1>1, <1>5 DEF canAdvance
  <2> HIDE DEF d
  <2> QED BY <2>1, <1>3, <1>6
<1> HIDE DEF d
<1>8. Buf' = Buf /\ Pos' = Pos + d /\ pipe' = pipe /\ written' = written
  <2>1. reader'.at # "idle" /\ reader'.buf = reader.buf /\ reader'.pos = reader.pos + d
    BY <1>4
  <2> QED BY <2>1, <1>5 DEF Buf, Pos, readRecord
<1>9. Kept' = Kept - d
  <2>1. Kept' = Len(Buf) - (Pos + d)
    BY <1>8 DEF Kept
  <2> QED BY <2>1, <1>3, <1>6
<1>10. Left' = Left - d
  <2>1. Left' = Kept - d + Len(pipe)
    BY <1>8, <1>9 DEF Left
  <2> QED BY <2>1, <1>3, <1>6
<1>11. ASSUME NEW i \in 1 .. Left - d PROVE Ahead'[i] = Ahead[d + i]
  <2>1. Ahead'[i] = IF i <= Kept - d THEN Buf[Pos + d + i] ELSE pipe[i - (Kept - d)]
    BY <1>8, <1>9, <1>10 DEF Ahead
  <2>2. PICK j \in 1 .. Left : j = d + i
    <3>1. d \in Nat \ {0} /\ Left \in Nat /\ d <= Left /\ i \in 1 .. Left - d
      BY <1>3, <1>6, <1>7
    <3> QED BY ONLY <3>1
  <2>3. Ahead[j] = IF j <= Kept THEN Buf[Pos + j] ELSE pipe[j - Kept]
    BY StreamUnit
  <2>4. Pos + d + i = Pos + j /\ i - (Kept - d) = j - Kept /\ (i <= Kept - d <=> j <= Kept)
    <3>1. Pos \in Int /\ d \in Int /\ i \in Int /\ Kept \in Int /\ j = d + i
      BY <2>2, <1>3, <1>6
    <3> QED BY ONLY <3>1
  <2> QED BY <2>1, <2>2, <2>3, <2>4
<1>12. StreamInv'
  <2>2. Framed(Ahead, Left, written) /\ Left \in Nat /\ Left > 0 /\ d = Size(Ahead[1])
    BY <1>2, <1>3, <1>6 DEF StreamInv
  <2>3. \A i \in 1 .. Left - d : Ahead'[i] = Ahead[d + i]
    BY <1>11
  <2>1. Framed(Ahead', Left - d, written)
    BY ONLY <2>2, <2>3, DropFirst
  <2> QED BY <2>1, <1>8, <1>10 DEF StreamInv
<1>13. /\ \A k \in 1 .. d : Ahead[k] = [rec |-> Ahead[1].rec, part |-> k, len |-> Ahead[1].len]
       /\ IF d = Left THEN Ahead[1].rec = written ELSE Ahead[d + 1].rec = Ahead[1].rec + 1
  <2>1. Framed(Ahead, Left, written) /\ Left \in Nat /\ Left > 0 /\ d = Size(Ahead[1])
    BY <1>2, <1>3, <1>6 DEF StreamInv
  <2>2. /\ \A k \in 1 .. Size(Ahead[1]) :
             Ahead[k] = [rec |-> Ahead[1].rec, part |-> k, len |-> Ahead[1].len]
        /\ IF Size(Ahead[1]) = Left THEN Ahead[1].rec = written
           ELSE Ahead[Size(Ahead[1]) + 1].rec = Ahead[1].rec + 1
    BY ONLY <2>1, FirstRecord
  <2> QED BY <2>1, <2>2
<1>14. NextRec = Ahead[1].rec
  BY <1>2, NextRecIs
<1>15. NextRec' = NextRec + 1
  <2>1. CASE d = Left
    <3>1. Left' = 0
      BY <1>3, <1>10, <2>1
    <3> QED BY <3>1, <2>1, <1>8, <1>13, <1>14 DEF NextRec
  <2>2. CASE d # Left
    <3>1. Left' # 0 /\ 1 \in 1 .. Left - d
      BY <1>3, <1>6, <1>7, <1>10, <2>2
    <3>2. Ahead'[1] = Ahead[d + 1]
      BY <3>1, <1>11
    <3> QED BY <3>1, <3>2, <2>2, <1>13, <1>14 DEF NextRec
  <2> QED BY <2>1, <2>2
<1>16. reader'.pos \in 0 .. Len(reader.buf)
  BY <1>3, <1>4, <1>5, <1>6, <1>7
<1>17. /\ reader'.msg \in Seq(Unit) /\ Len(reader'.msg) = d
       /\ \A k \in 1 .. d : reader'.msg[k] = Buf[Pos + k]
  <2>1. Pos + d <= Len(Buf) /\ d \in Nat /\ Pos \in Nat /\ Buf \in Seq(Unit)
    BY <1>3, <1>6, <1>7
  <2>2. reader'.msg = SubSeq(Buf, Pos + 1, Pos + d)
    BY <1>4, <1>5
  <2>3. /\ SubSeq(Buf, Pos + 1, Pos + d) \in Seq(Unit)
        /\ Len(SubSeq(Buf, Pos + 1, Pos + d)) = d
        /\ \A k \in 1 .. d : SubSeq(Buf, Pos + 1, Pos + d)[k] = Buf[Pos + k]
    BY ONLY <2>1, Part
  <2> QED BY ONLY <2>2, <2>3, Zenon
<1>18. reader'.msg = RecordUnits(NextRec, Ahead[1].len)
  <2>1. NextRec \in 1 .. MaxRecords
    BY <1>2, <1>14, UnitType
  <2>2. /\ RecordUnits(NextRec, Ahead[1].len) \in Seq(Unit)
        /\ Len(RecordUnits(NextRec, Ahead[1].len)) = d
        /\ \A k \in 1 .. d : RecordUnits(NextRec, Ahead[1].len)[k]
             = [rec |-> NextRec, part |-> k, len |-> Ahead[1].len]
    BY <2>1, <1>3, UnitsOfRecord DEF Size
  <2>3. ASSUME NEW k \in 1 .. d PROVE Buf[Pos + k] = Ahead[k]
    <3>1. k \in 1 .. Left /\ k <= Kept
      BY <1>3, <1>6, <1>7
    <3> QED BY <3>1, StreamUnit
  <2>4. ASSUME NEW k \in 1 .. d PROVE reader'.msg[k] = RecordUnits(NextRec, Ahead[1].len)[k]
    <3>1. reader'.msg[k] = Ahead[k]
      BY <2>3, <1>17
    <3>2. Ahead[k] = [rec |-> NextRec, part |-> k, len |-> Ahead[1].len]
      BY <1>13, <1>14
    <3> QED BY <3>1, <3>2, <2>2
  <2> QED BY <2>2, <2>4, <1>17, SeqEqual
<1> QED BY <1>3, <1>12, <1>15, <1>16, <1>17, <1>18

\* The retreat leaves the stream alone, and keeps less than a record.
LEMMA RetreatStream ==
  ASSUME Types, ReaderType, StreamInv, keepLeftover
  PROVE  StreamInv' /\ NextRec' = NextRec /\ readBuffer_' \in Seq(Unit) /\ LeftoverInv'
<1>1. reader.at = "loop" /\ reader' = Idle /\ pipe' = pipe /\ written' = written
      /\ readBuffer_' = SubSeq(reader.buf, reader.pos + 1, Len(reader.buf))
  BY DEF keepLeftover
<1>2. Buf = reader.buf /\ Pos = reader.pos
  BY <1>1 DEF Buf, Pos
<1>3. /\ Buf \in Seq(Unit) /\ Len(Buf) = Pos + Kept /\ Pos \in 0 .. Len(Buf) /\ Kept \in Nat
      /\ Len(pipe) \in Nat /\ Left = Kept + Len(pipe)
  BY StreamBounds
<1>4. /\ readBuffer_' \in Seq(Unit) /\ Len(readBuffer_') = Kept
      /\ \A i \in 1 .. Kept : readBuffer_'[i] = Buf[Pos + i]
  <2>1. /\ readBuffer_' \in Seq(Unit) /\ Len(readBuffer_') = Len(Buf) - Pos
        /\ \A i \in 1 .. Len(Buf) - Pos : readBuffer_'[i] = Buf[Pos + i]
    <3>1. Buf \in Seq(Unit) /\ Pos \in 0 .. Len(Buf)
      BY <1>3
    <3>2. /\ SubSeq(Buf, Pos + 1, Len(Buf)) \in Seq(Unit)
          /\ Len(SubSeq(Buf, Pos + 1, Len(Buf))) = Len(Buf) - Pos
          /\ \A i \in 1 .. Len(Buf) - Pos : SubSeq(Buf, Pos + 1, Len(Buf))[i] = Buf[Pos + i]
      BY ONLY <3>1, Rest
    <3>3. readBuffer_' = SubSeq(Buf, Pos + 1, Len(Buf))
      BY <1>1, <1>2
    <3> QED BY ONLY <3>2, <3>3, Zenon
  <2>2. Len(Buf) - Pos = Kept
    BY <1>3
  <2> QED BY <2>1, <2>2
<1>5. Buf' = readBuffer_' /\ Pos' = 0
  BY <1>1 DEF Buf, Pos, Idle
<1>6. Kept' = Kept
  <2>1. Kept' = Len(readBuffer_') - 0
    BY <1>5 DEF Kept
  <2> QED BY <2>1, <1>3, <1>4
<1>7. Left' = Left
  BY <1>1, <1>6 DEF Left
<1>8. ASSUME NEW i \in 1 .. Left PROVE Ahead'[i] = Ahead[i]
  <2>1. Ahead'[i] = IF i <= Kept THEN readBuffer_'[0 + i] ELSE pipe[i - Kept]
    BY <1>1, <1>5, <1>6, <1>7 DEF Ahead
  <2>2. Ahead[i] = IF i <= Kept THEN Buf[Pos + i] ELSE pipe[i - Kept]
    BY StreamUnit
  <2>3. i <= Kept => i \in 1 .. Kept
    BY <1>3
  <2>4. 0 + i = i
    BY <1>3
  <2> QED BY <2>1, <2>2, <2>3, <2>4, <1>4
<1>9. StreamInv' /\ NextRec' = NextRec
  BY <1>1, <1>7, <1>8, SameStream
<1>10. LeftoverInv'
  <2> SUFFICES ASSUME readBuffer_' # <<>>
               PROVE  Len(readBuffer_') < HdrSize + readBuffer_'[1].len
    BY DEF LeftoverInv
  <2>1. Kept > 0
    BY <1>3, <1>4
  <2>2. readBuffer_'[1] = Buf[Pos + 1] /\ readBuffer_'[1] \in Unit
    BY <1>3, <1>4, <2>1
  <2>3. readBuffer_'[1].len \in Nat \ {0} /\ HdrSize \in Nat \ {0}
    BY <2>2, UnitType
  <2>4. CASE ~canAdvance(HdrSize)
    <3>1. ~(Pos + HdrSize <= Len(Buf))
      BY <2>4, <1>2 DEF canAdvance
    <3> QED BY <3>1, <2>3, <1>3, <1>4
  <2>5. CASE canAdvance(HdrSize)
    <3>1. InclLen = readBuffer_'[1].len
      BY <2>2, <2>5, <1>1, HeaderAhead
    <3>2. ~canAdvance(HdrSize + InclLen)
      BY <2>5 DEF keepLeftover, RecordComplete
    <3>3. ~(Pos + (HdrSize + readBuffer_'[1].len) <= Len(Buf))
      BY <3>1, <3>2, <1>2 DEF canAdvance
    <3> QED BY <3>3, <2>3, <1>3, <1>4
  <2> QED BY <2>4, <2>5
<1> QED BY <1>4, <1>9, <1>10
-----------------------------------------------------------------------------
(* The invariant *)

LEMMA InitHolds == Init => IndInv
<1> SUFFICES ASSUME Init PROVE IndInv
  OBVIOUS
<1>1. Types /\ ReaderType /\ LeftoverInv /\ MsgInv /\ ClientInv
  <2>1. reader.at = "idle" /\ readBuffer_ = <<>> /\ \A c \in Client : received[c] = <<>>
    BY DEF Init, Idle
  <2>2. \A U : <<>> \in Seq(U)
    OBVIOUS
  <2>3. written \in 0 .. MaxRecords /\ received \in [Client -> Seq(Nat)]
    BY <2>2 DEF Init
  <2> QED BY <2>1, <2>2, <2>3 DEF Init, Types, ReaderType, LeftoverInv, MsgInv, ClientInv
<1>2. Left = 0
  BY DEF Init, Left, Kept, Buf, Pos, Idle
<1> QED BY <1>1, <1>2 DEF IndInv, StreamInv, Framed

\* Nothing that the clients see depends on what is behind the cursor.
LEMMA SameReader ==
  ASSUME MsgInv, ClientInv, NextRec' = NextRec, reader' = reader,
         UNCHANGED <<event_enabled_, cb_subsmap_, received>>
  PROVE  MsgInv' /\ ClientInv'
BY DEF MsgInv, ClientInv, Sent

LEMMA WriteHolds ==
  ASSUME IndInv, NEW len \in Lens, writePacket(len)
  PROVE  IndInv'
<1>1. StreamInv' /\ NextRec' = NextRec /\ pipe' \in Seq(Unit)
  BY WriteStream DEF IndInv
<1>2. Types'
  <2>1. written' \in 0 .. MaxRecords
    BY DEF IndInv, Types, writePacket
  <2> QED BY <1>1, <2>1 DEF IndInv, Types, writePacket
<1>3. ReaderType' /\ LeftoverInv'
  BY DEF IndInv, ReaderType, LeftoverInv, writePacket
<1>4. MsgInv' /\ ClientInv'
  BY <1>1, SameReader DEF IndInv, writePacket
<1> QED BY <1>1, <1>2, <1>3, <1>4 DEF IndInv

LEMMA ReadHolds ==
  ASSUME IndInv, NEW n \in 1 .. ReadBufSize, readDataAvailable(n)
  PROVE  IndInv'
<1>1. /\ StreamInv' /\ NextRec' = NextRec
      /\ pipe' \in Seq(Unit) /\ reader'.buf \in Seq(Unit)
  BY ReadStream DEF IndInv
<1>2. reader.at = "idle" /\ reader'.at = "loop" /\ reader'.pos = 0 /\ readBuffer_' = <<>>
  BY DEF readDataAvailable, Idle
<1>3. Types' /\ LeftoverInv'
  BY <1>1, <1>2 DEF IndInv, Types, LeftoverInv, readDataAvailable
<1>4. ReaderType'
  <2>1. reader'.pos \in 0 .. Len(reader'.buf)
    BY <1>1, <1>2
  <2> QED BY <1>1, <1>2, <2>1 DEF ReaderType
<1>5. MsgInv' /\ ClientInv'
  BY <1>1, <1>2 DEF IndInv, MsgInv, ClientInv, Sent, readDataAvailable
<1> QED BY <1>1, <1>3, <1>4, <1>5 DEF IndInv

LEMMA RecordHolds ==
  ASSUME IndInv, readRecord
  PROVE  IndInv'
<1>1. /\ StreamInv' /\ NextRec' = NextRec + 1 /\ NextRec \in Nat \ {0}
      /\ reader'.pos \in 0 .. Len(reader.buf)
      /\ \E len \in Lens : reader'.msg = RecordUnits(NextRec, len)
      /\ reader'.msg \in Seq(Unit)
  BY TakeRecord, NextRecIs DEF IndInv
<1>2. /\ reader.at = "loop" /\ reader.buf \in Seq(Unit)
      /\ reader'.at = IF event_enabled_ THEN "send" ELSE "loop"
      /\ reader'.buf = reader.buf
      /\ reader' = [at |-> reader'.at, buf |-> reader'.buf, pos |-> reader'.pos,
                    msg |-> reader'.msg]
      /\ UNCHANGED <<pipe, written, readBuffer_, event_enabled_, cb_subsmap_, received>>
  BY DEF readRecord, IndInv, ReaderType
<1>3. Types' /\ LeftoverInv'
  BY <1>2 DEF IndInv, Types, LeftoverInv
<1>4. ReaderType'
  <2>1. reader'.pos \in Nat /\ Len(reader.buf) \in Nat
    BY <1>1, <1>2
  <2>2. reader'.at = "send" =>
          reader' \in [at : {"send"}, buf : Seq(Unit), pos : Nat, msg : Seq(Unit)]
    BY <1>1, <1>2, <2>1
  <2>3. reader'.at \in {"loop", "send"}
    BY <1>2
  <2> QED BY <1>1, <1>2, <2>2, <2>3 DEF ReaderType
<1>5. MsgInv'
  <2>1. NextRec' > 1 /\ NextRec' - 1 = NextRec
    BY <1>1
  <2> QED BY <1>1, <2>1 DEF MsgInv
<1>6. ClientInv'
  <2>1. event_enabled_ => Sent' = Sent
    <3>1. Sent = NextRec - 1
      BY <1>2 DEF Sent
    <3>2. event_enabled_ => Sent' = NextRec + 1 - 2
      BY <1>1, <1>2 DEF Sent
    <3> QED BY <1>1, <3>1, <3>2
  <2>2. ~event_enabled_ => reader'.at = "loop"
    BY <1>2
  <2> QED BY <1>2, <2>1, <2>2 DEF IndInv, ClientInv
<1> QED BY <1>1, <1>3, <1>4, <1>5, <1>6 DEF IndInv

\* A record that the reader cut out is recognised as a whole one.
LEMMA WholeRecord ==
  ASSUME NEW n \in 1 .. MaxRecords, NEW len \in Lens
  PROVE  RecordOf(RecordUnits(n, len)) = n
<1>1. 1 \in 1 .. HdrSize + len
  OBVIOUS
<1>2. RecordUnits(n, len)[1] = [rec |-> n, part |-> 1, len |-> len]
  BY <1>1 DEF RecordUnits
<1> QED BY <1>2 DEF RecordOf

\* A list of consecutive numbers goes on.
LEMMA OneMore ==
  ASSUME NEW r \in Seq(Nat), NEW n \in Nat \ {0},
         r # <<>> => /\ r[1] > 0
                     /\ \A i \in 1 .. Len(r) : r[i] = r[1] + i - 1
                     /\ r[Len(r)] = n - 1
  PROVE  /\ Append(r, n) # <<>> /\ Append(r, n)[1] > 0
         /\ \A i \in 1 .. Len(Append(r, n)) :
              Append(r, n)[i] = Append(r, n)[1] + i - 1
         /\ Append(r, n)[Len(Append(r, n))] = n
<1> DEFINE a == Append(r, n)
<1>1. /\ a \in Seq(Nat) /\ Len(a) = Len(r) + 1
      /\ \A i \in 1 .. Len(r) : a[i] = r[i]
      /\ a[Len(r) + 1] = n
      /\ Len(r) \in Nat
  OBVIOUS
<1> HIDE DEF a
<1>2. CASE r = <<>>
  <2>1. Len(r) = 0
    BY <1>2
  <2>2. Len(a) = 1 /\ a[1] = n /\ a # <<>>
    BY <1>1, <2>1
  <2>3. \A i \in 1 .. Len(a) : a[i] = a[1] + i - 1
    BY <2>2
  <2>4. a # <<>> /\ a[1] > 0 /\ a[Len(a)] = n
    BY <2>2
  <2> QED BY <2>3, <2>4 DEF a
<1>3. CASE r # <<>>
  <2>1. Len(r) \in Nat \ {0} /\ 1 \in 1 .. Len(r) /\ Len(r) \in 1 .. Len(r)
    BY <1>1, <1>3
  <2>2. a[1] = r[1] /\ r[1] \in Nat /\ r[1] > 0
    <3>1. r[1] \in Nat
      BY <2>1
    <3> QED BY <3>1, <1>1, <1>3, <2>1
  <2>3. n = r[1] + (Len(r) + 1) - 1
    <3>1. r[Len(r)] = r[1] + Len(r) - 1 /\ r[Len(r)] = n - 1
      BY <1>3, <2>1
    <3>2. n - 1 = r[1] + Len(r) - 1 /\ n \in Int /\ r[1] \in Int /\ Len(r) \in Int
      BY <2>1, <2>2, <3>1
    <3> QED BY ONLY <3>2
  <2>4. ASSUME NEW i \in 1 .. Len(a)
        PROVE  a[i] = a[1] + i - 1
    <3>1. CASE i \in 1 .. Len(r)
      BY <3>1, <1>1, <1>3, <2>2
    <3>2. CASE i = Len(r) + 1
      BY <3>2, <1>1, <2>2, <2>3
    <3> QED BY <3>1, <3>2, <1>1
  <2>5. a # <<>> /\ a[1] > 0 /\ a[Len(a)] = n
    BY <1>1, <2>1, <2>2
  <2> QED BY <2>4, <2>5 DEF a
<1> QED BY <1>2, <1>3

LEMMA SendHolds ==
  ASSUME IndInv, sendEvent
  PROVE  IndInv'
<1>1. /\ reader.at = "send"
      /\ reader \in [at : {"send"}, buf : Seq(Unit), pos : Nat, msg : Seq(Unit)]
      /\ reader.pos \in 0 .. Len(reader.buf)
      /\ reader' = [reader EXCEPT !.at = "loop"]
      /\ UNCHANGED <<pipe, written, readBuffer_, event_enabled_, cb_subsmap_>>
  BY DEF IndInv, ReaderType, sendEvent
<1>2. reader'.at = "loop" /\ reader'.buf = reader.buf /\ reader'.pos = reader.pos
  BY <1>1
<1>3. ReaderType' /\ LeftoverInv'
  BY <1>1, <1>2 DEF IndInv, ReaderType, LeftoverInv
<1>4. StreamInv' /\ NextRec' = NextRec
  <2>1. Buf' = Buf /\ Pos' = Pos
    BY <1>1, <1>2 DEF Buf, Pos
  <2>2. Left' = Left /\ Kept' = Kept
    BY <1>1, <2>1 DEF Left, Kept
  <2>3. Ahead' = Ahead
    BY <1>1, <2>1, <2>2 DEF Ahead
  <2> QED BY <1>1, <2>2, <2>3 DEF IndInv, StreamInv, NextRec
<1>5. MsgInv'
  BY <1>2 DEF MsgInv
<1> DEFINE n == NextRec - 1
<1>6. n \in Nat \ {0} /\ RecordOf(reader.msg) = n
  <2>1. NextRec \in Nat \ {0} /\ NextRec > 1
    BY <1>1, NextRecIs DEF IndInv, MsgInv
  <2>2. PICK len \in Lens : reader.msg = RecordUnits(n, len)
    BY <1>1 DEF IndInv, MsgInv
  <2>3. n \in 1 .. MaxRecords
    <3>1. CASE Left = 0
      BY <3>1, <2>1 DEF NextRec, IndInv, Types
    <3>2. CASE Left # 0
      <4>1. Ahead[1] \in Unit /\ NextRec = Ahead[1].rec
        BY <3>2, NextRecIs, StreamBounds DEF IndInv
      <4>2. NextRec \in 1 .. MaxRecords
        BY <4>1, UnitType
      <4> QED BY <4>2, <2>1
    <3> QED BY <3>1, <3>2
  <2> QED BY <2>2, <2>3, WholeRecord
<1>7. Sent = n - 1 /\ Sent' = n
  <2>1. Sent = NextRec - 2 /\ Sent' = NextRec - 1
    BY <1>1, <1>2, <1>4 DEF Sent
  <2>2. NextRec \in Int
    BY NextRecIs DEF IndInv
  <2> QED BY <2>1, <2>2
<1> HIDE DEF n
<1>8. received' \in [Client -> Seq(Nat)]
      /\ \A c \in Client : received'[c] = IF c \in cb_subsmap_ THEN Append(received[c], n)
                                           ELSE received[c]
  BY <1>6 DEF IndInv, Types, sendEvent
<1>9. Types'
  BY <1>1, <1>8 DEF IndInv, Types
<1>10. ClientInv'
  <2> SUFFICES ASSUME NEW c \in Client, received'[c] # <<>>
               PROVE  /\ received'[c][1] > 0
                      /\ \A i \in 1 .. Len(received'[c]) :
                           received'[c][i] = received'[c][1] + i - 1
                      /\ c \in cb_subsmap_ => received'[c][Len(received'[c])] = n
    BY <1>1, <1>2, <1>7 DEF ClientInv
  <2>1. CASE c \in cb_subsmap_
    <3>1. received[c] \in Seq(Nat) /\ received'[c] = Append(received[c], n)
      BY <2>1, <1>8 DEF IndInv, Types
    <3>2. received[c] # <<>> =>
            /\ received[c][1] > 0
            /\ \A i \in 1 .. Len(received[c]) : received[c][i] = received[c][1] + i - 1
            /\ received[c][Len(received[c])] = n - 1
      BY <2>1, <1>1, <1>7 DEF IndInv, ClientInv
    <3>3. /\ Append(received[c], n)[1] > 0
          /\ \A i \in 1 .. Len(Append(received[c], n)) :
               Append(received[c], n)[i] = Append(received[c], n)[1] + i - 1
          /\ Append(received[c], n)[Len(Append(received[c], n))] = n
      <4>1. n \in Nat \ {0} /\ received[c] \in Seq(Nat)
        BY <3>1, <1>6
      <4> QED BY ONLY <4>1, <3>2, OneMore
    <3> QED BY ONLY <3>1, <3>3, Zenon
  <2>2. CASE c \notin cb_subsmap_
    BY <2>2, <1>8 DEF IndInv, ClientInv
  <2> QED BY <2>1, <2>2
<1> QED BY <1>3, <1>4, <1>5, <1>9, <1>10 DEF IndInv

LEMMA RetreatHolds ==
  ASSUME IndInv, keepLeftover
  PROVE  IndInv'
<1>1. StreamInv' /\ NextRec' = NextRec /\ readBuffer_' \in Seq(Unit) /\ LeftoverInv'
  BY RetreatStream DEF IndInv
<1>2. reader.at = "loop" /\ reader' = Idle /\ reader'.at = "idle"
      /\ UNCHANGED <<pipe, written, event_enabled_, cb_subsmap_, received>>
  BY DEF keepLeftover, Idle
<1>3. Types' /\ ReaderType' /\ MsgInv'
  BY <1>1, <1>2 DEF IndInv, Types, ReaderType, MsgInv
<1>4. ClientInv'
  BY <1>1, <1>2 DEF IndInv, ClientInv, Sent
<1> QED BY <1>1, <1>3, <1>4 DEF IndInv

\* Clients come and go, and the callback is disabled, behind the reader's back.
LEMMA ClientsHold ==
  ASSUME IndInv,
         \/ \E c \in Client : addClientSubscription(c) \/ removeClientSubscription(c)
         \/ disable
  PROVE  IndInv'
<1>1. /\ UNCHANGED <<pipe, written, readBuffer_, reader, received>>
      /\ cb_subsmap_' \subseteq Client /\ event_enabled_' \in BOOLEAN
  BY DEF addClientSubscription, removeClientSubscription, disable, IndInv, Types
<1>2. Types' /\ ReaderType' /\ LeftoverInv'
  BY <1>1 DEF IndInv, Types, ReaderType, LeftoverInv
<1>3. Left' = Left /\ Ahead' = Ahead /\ NextRec' = NextRec /\ Sent' = Sent
  BY <1>1 DEF Left, Ahead, NextRec, Kept, Buf, Pos, Sent
<1>4. StreamInv' /\ MsgInv'
  BY <1>1, <1>3 DEF IndInv, StreamInv, MsgInv
<1>5. /\ event_enabled_' => event_enabled_
      /\ \A c \in Client : c \in cb_subsmap_' => c \in cb_subsmap_ \/ received[c] = <<>>
  BY DEF addClientSubscription, removeClientSubscription, disable
<1>6. ClientInv'
  BY <1>1, <1>3, <1>5 DEF IndInv, ClientInv
<1> QED BY <1>2, <1>4, <1>6 DEF IndInv

LEMMA StepHolds == IndInv /\ [Next]_vars => IndInv'
<1> SUFFICES ASSUME IndInv, [Next]_vars PROVE IndInv'
  OBVIOUS
<1>1. ASSUME NEW len \in Lens, writePacket(len) PROVE IndInv'
  BY <1>1, WriteHolds
<1>2. ASSUME NEW n \in 1 .. ReadBufSize, readDataAvailable(n) PROVE IndInv'
  BY <1>2, ReadHolds
<1>3. CASE readRecord
  BY <1>3, RecordHolds
<1>4. CASE sendEvent
  BY <1>4, SendHolds
<1>5. CASE keepLeftover
  BY <1>5, RetreatHolds
<1>6. CASE \/ \E c \in Client : addClientSubscription(c) \/ removeClientSubscription(c)
           \/ disable
  BY <1>6, ClientsHold
<1>7. CASE UNCHANGED vars
  <2>1. /\ Left' = Left /\ Ahead' = Ahead /\ NextRec' = NextRec
        /\ UNCHANGED <<pipe, written, readBuffer_, reader, event_enabled_, cb_subsmap_, received>>
    BY <1>7 DEF vars, Left, Ahead, NextRec, Kept, Buf, Pos
  <2> QED BY <2>1, SameReader
          DEF IndInv, Types, ReaderType, StreamInv, LeftoverInv
<1> QED BY <1>1, <1>2, <1>3, <1>4, <1>5, <1>6, <1>7 DEF Next, ReaderStep

LEMMA Inductive == Spec => []IndInv
BY InitHolds, StepHolds, PTL DEF Spec

\* Every record is in one piece: whatever the sizes of the reads, a client gets
\* whole records, in order, without a gap from its first to its last, and what
\* readBuffer keeps for the next read is less than a record.
THEOREM RecordsStayWhole == Spec => []WholeRecordsInOrder
<1>1. IndInv => WholeRecordsInOrder
  BY DEF IndInv, ClientInv, LeftoverInv, WholeRecordsInOrder
<1> QED BY <1>1, Inductive, PTL

\* What lies ahead of the reader's cursor, in its buffer and in the pipe, is a
\* sequence of whole records with consecutive numbers up to the last one written:
\* no read, send or retreat loses a unit or the place of a header.
THEOREM StreamStaysFramed == Spec => []StreamInv
<1>1. IndInv => StreamInv
  BY DEF IndInv
<1> QED BY <1>1, Inductive, PTL
=============================================================================
