------------------------- MODULE BufferStreamProofs -------------------------
(***************************************************************************)
(* For every ring size: the buffer implements the bounded byte stream.     *)
(* What is in the ring is the source's bytes from cseq to pseq, so that a  *)
(* step is known by what it does to the two cursors and to done.           *)
(***************************************************************************)
EXTENDS BufferProofs, BufferStream, SequenceTheorems

\* The bytes from number c up to, not including, number p.
Bytes(c, p) == [i \in 1..(p - c) |-> c + i - 1]

LEMMA ContentsAreBytes == IInv => Contents = Bytes(cseq, pseq)
<1> SUFFICES ASSUME IInv PROVE Contents = Bytes(cseq, pseq)
  OBVIOUS
<1>1. pseq \in Nat /\ cseq \in Nat /\ src \in Nat /\ pseq <= src
  BY DEF IInv, TypeOK, Cursors
<1>2. ASSUME NEW i \in 1..(pseq - cseq) PROVE buf[Slot(cseq + i - 1)] = cseq + i - 1
  <2>1. cseq + i - 1 \in cseq..(src - 1)
    BY <1>1, <1>2
  <2> QED
    BY <2>1 DEF IInv, Intact
<1> QED
  BY <1>2 DEF Contents, Bytes

\* The same in the next state.
LEMMA NextContents == IInv' => Contents' = Bytes(cseq', pseq')
<1>1. (IInv => Contents = Bytes(cseq, pseq))'
  BY ContentsAreBytes, PTL
<1> QED
  BY <1>1 DEF Bytes

\* Two sequences of numbers that continue each other make one.
LEMMA Continue ==
  ASSUME NEW s \in Seq(Nat), NEW t \in Seq(Nat), NEW r \in Seq(Nat),
         Len(r) = Len(s) + Len(t),
         \A i \in 1..Len(s) : r[i] = s[i],
         \A i \in 1..Len(t) : r[Len(s) + i] = t[i]
  PROVE  r = s \o t
<1>1. s \o t \in Seq(Nat) /\ Len(s \o t) = Len(r)
  BY ConcatProperties
<1>2. ASSUME NEW i \in 1..Len(r) PROVE r[i] = (s \o t)[i]
  <2>1. (s \o t)[i] = IF i <= Len(s) THEN s[i] ELSE t[i - Len(s)]
    BY ConcatProperties
  <2>2. Len(s) \in Nat /\ Len(t) \in Nat /\ i \in Nat
    OBVIOUS
  <2>3. CASE i <= Len(s)
    BY <2>1, <2>2, <2>3
  <2>4. CASE ~(i <= Len(s))
    <3>1. i - Len(s) \in 1..Len(t) /\ i = Len(s) + (i - Len(s))
      BY <2>2, <2>4
    <3> QED
      BY <2>1, <2>4, <3>1
  <2> QED
    BY <2>3, <2>4
<1> QED
  BY <1>1, <1>2, SeqEqual

\* What Put does to a run of bytes.
LEMMA BytesPut ==
  ASSUME NEW c \in Nat, NEW p \in Nat, c <= p, NEW n \in Nat
  PROVE  Bytes(c, p + n) = Bytes(c, p) \o [k \in 1..n |-> p + k - 1]
<1>1. /\ Bytes(c, p) \in Seq(Nat) /\ Len(Bytes(c, p)) = p - c
      /\ \A i \in 1..(p - c) : Bytes(c, p)[i] = c + i - 1
  BY DEF Bytes
<1>2. /\ [k \in 1..n |-> p + k - 1] \in Seq(Nat)
      /\ Len([k \in 1..n |-> p + k - 1]) = n
      /\ \A i \in 1..n : [k \in 1..n |-> p + k - 1][i] = p + i - 1
  OBVIOUS
<1>3. /\ Bytes(c, p + n) \in Seq(Nat) /\ Len(Bytes(c, p + n)) = (p - c) + n
      /\ \A i \in 1..(p - c) : Bytes(c, p + n)[i] = c + i - 1
      /\ \A i \in 1..n : Bytes(c, p + n)[(p - c) + i] = p + i - 1
  BY DEF Bytes
<1>4. ASSUME NEW s, s = Bytes(c, p), NEW t, t = [k \in 1..n |-> p + k - 1],
             NEW r, r = Bytes(c, p + n)
      PROVE  r = s \o t
  <2>1. /\ s \in Seq(Nat) /\ Len(s) = p - c
        /\ \A i \in 1..Len(s) : s[i] = c + i - 1
    BY <1>1, <1>4
  <2>2. t \in Seq(Nat) /\ Len(t) = n /\ \A i \in 1..Len(t) : t[i] = p + i - 1
    BY <1>2, <1>4
  <2>3. r \in Seq(Nat) /\ Len(r) = Len(s) + Len(t)
    BY <1>3, <1>4, <2>1, <2>2
  <2>4. \A i \in 1..Len(s) : r[i] = s[i]
    BY <1>3, <1>4, <2>1
  <2>5. \A i \in 1..Len(t) : r[Len(s) + i] = t[i]
    BY <1>3, <1>4, <2>1, <2>2
  <2> QED
    BY <2>1, <2>2, <2>3, <2>4, <2>5, Continue
<1> QED
  BY <1>4

\* What Take does to it.
LEMMA BytesTake ==
  ASSUME NEW c \in Nat, NEW p \in Nat, NEW n \in Nat, c + n <= p
  PROVE  Bytes(c + n, p) = SubSeq(Bytes(c, p), n + 1, Len(Bytes(c, p)))
<1> DEFINE s == Bytes(c, p)
<1>1. s \in Seq(Nat) /\ Len(s) = p - c /\ \A i \in 1..(p - c) : s[i] = c + i - 1
  BY DEF Bytes
<1>2. SubSeq(s, n + 1, p - c) = [i \in 1..((p - c) - n) |-> s[n + i]]
  BY <1>1
<1>3. \A i \in 1..((p - c) - n) : s[n + i] = (c + n) + i - 1
  BY <1>1
<1>4. p - (c + n) = (p - c) - n
  OBVIOUS
<1> HIDE DEF s
<1> QED
  BY <1>1, <1>2, <1>3, <1>4 DEF Bytes, s

\* A step that keeps cursors and done is hidden: copies into free slots, too.
LEMMA HiddenStep ==
  ASSUME IInv, IInv', UNCHANGED <<pseq, cseq, done>>
  PROVE  UNCHANGED Pipe!vars
<1>1. Contents = Bytes(cseq, pseq) /\ Contents' = Bytes(cseq', pseq')
  BY ContentsAreBytes, NextContents
<1> QED
  BY <1>1 DEF Pipe!vars

\* Publish puts the bytes copied, for which there is room.
LEMMA PublishPuts ==
  ASSUME IInv, IInv', Publish
  PROVE  [Pipe!Next]_(Pipe!vars)
<1>1. /\ pseq \in Nat /\ cseq \in Nat /\ pn \in Nat /\ cseq <= pseq
      /\ pseq + pn <= cseq + Size /\ pseq' = pseq + pn /\ UNCHANGED <<cseq, done>>
  BY DEF IInv, TypeOK, Cursors, GrantIsFree, Publish, Producing
<1>2. Contents = Bytes(cseq, pseq) /\ Contents' = Bytes(cseq, pseq + pn)
  BY <1>1, ContentsAreBytes, NextContents
<1>3. CASE pn = 0
  BY <1>1, <1>2, <1>3 DEF Pipe!vars
<1>4. CASE pn # 0
  <2>1. Len(Contents) = pseq - cseq
    BY <1>1, <1>2 DEF Bytes
  <2>2. pn \in 1..(Size - Len(Contents))
    BY <1>1, <1>4, <2>1, SizeAssumption
  <2>3. Contents' = Contents \o [k \in 1..pn |-> pseq + k - 1]
    BY <1>1, <1>2, BytesPut
  <2> QED
    BY <1>1, <2>2, <2>3 DEF Pipe!Put, Pipe!Next
<1> QED
  BY <1>3, <1>4

\* A release takes bytes from the front.
LEMMA ReleaseTakes ==
  ASSUME IInv, IInv', NEW n \in Nat, Available(n), Release(n)
  PROVE  [Pipe!Next]_(Pipe!vars)
<1>1. /\ pseq \in Nat /\ cseq \in Nat /\ cseq + n <= pseq
      /\ cseq' = cseq + n /\ UNCHANGED <<pseq, done>>
  BY DEF IInv, TypeOK, Available, Release, ring
<1>2. Contents = Bytes(cseq, pseq) /\ Contents' = Bytes(cseq + n, pseq)
  BY <1>1, ContentsAreBytes, NextContents
<1>3. CASE n = 0
  BY <1>1, <1>2, <1>3 DEF Pipe!vars
<1>4. CASE n # 0
  <2>1. Len(Contents) = pseq - cseq
    BY <1>1, <1>2 DEF Bytes
  <2>2. n \in 1..Len(Contents)
    BY <1>1, <1>4, <2>1
  <2>3. Contents' = SubSeq(Contents, n + 1, Len(Contents))
    BY <1>1, <1>2, BytesTake
  <2> QED
    BY <1>1, <2>2, <2>3 DEF Pipe!Take, Pipe!Next
<1> QED
  BY <1>3, <1>4

LEMMA ProducerMaps ==
  ASSUME IInv, IInv', Producer
  PROVE  [Pipe!Next]_(Pipe!vars)
<1> USE DEF ring
<1>1. CASE Publish
  BY <1>1, PublishPuts
<1>2. CASE \E m \in 1..Size : Fill(m) \/ WrapToWrite(m)
  BY <1>2, HiddenStep DEF Fill, WrapToWrite
<1>3. CASE \E n \in 1..Size+1 : CallWrite(n) \/ CallWriteWait(n)
  BY <1>3, HiddenStep DEF CallWrite, CallWriteWait, ProducerCall
<1>4. CASE WaitForWriteSpace \/ SpaceLock \/ SpaceTest \/ SpaceIsDone \/ SpaceWait
  BY <1>4, HiddenStep
     DEF WaitForWriteSpace, SpaceLock, SpaceTest, SpaceIsDone, SpaceWait
<1>5. CASE SignalConsumer \/ CallReadFrom \/ ReadError \/ RingCopy
  BY <1>5, HiddenStep DEF SignalConsumer, CallReadFrom, ProducerCall, ReadError, RingCopy
<1> QED
  BY <1>1, <1>2, <1>3, <1>4, <1>5 DEF Producer, ProducerInternal

LEMMA ConsumerMaps ==
  ASSUME IInv, IInv', Consumer
  PROVE  [Pipe!Next]_(Pipe!vars)
<1> USE DEF ring
<1>1. CASE ReadCopied
  <2>1. view \in Nat /\ Available(view) /\ Release(view)
    BY <1>1 DEF ReadCopied, IInv, TypeOK, SeenIsCommitted, Available
  <2> QED
    BY <2>1, ReleaseTakes
<1>2. CASE WriteToCommit
  <2>1. view \in Nat /\ Available(view) /\ Release(view)
    BY <1>2 DEF WriteToCommit, IInv, TypeOK
  <2> QED
    BY <2>1, ReleaseTakes
<1>3. ASSUME NEW n \in 1..Size, CallReadCommit(n) PROVE [Pipe!Next]_(Pipe!vars)
  BY <1>3, ReleaseTakes, SizeAssumption DEF CallReadCommit
<1>4. CASE \E n \in 1..Size : CallReadPeek(n) \/ CallReadWait(n) \/ CallRead(n)
  BY <1>4, HiddenStep DEF CallReadPeek, CallReadWait, PeekCall, CallRead
<1>5. CASE CallWriteTo \/ WriteToError \/ SignalProducer
  BY <1>5, HiddenStep DEF CallWriteTo, WriteToError, SignalProducer
<1>6. CASE WriteToHead \/ ReadHead \/ DataLock \/ DataRelock
  BY <1>6, HiddenStep DEF WriteToHead, ReadHead, DataLock, DataRelock
<1>7. CASE DataTest \/ DataIsDone \/ DataWait
  BY <1>7, HiddenStep DEF DataTest, DataIsDone, DataWait
<1> QED
  BY <1>1, <1>2, <1>3, <1>4, <1>5, <1>6, <1>7 DEF Consumer, ConsumerInternal

LEMMA CloseMaps ==
  ASSUME IInv, IInv', NEW t \in Threads, CloseStep(t) \/ CallClose(t)
  PROVE  [Pipe!Next]_(Pipe!vars)
<1> USE DEF ring
<1>1. CASE CloseMark(t)
  <2>1. done' = TRUE /\ UNCHANGED <<pseq, cseq>>
    BY <1>1 DEF CloseMark
  <2>2. Contents = Bytes(cseq, pseq) /\ Contents' = Bytes(cseq, pseq)
    BY <2>1, ContentsAreBytes, NextContents
  <2> QED
    BY <2>1, <2>2 DEF Pipe!Close, Pipe!Next
<1>2. CASE ClosePcond(t) \/ CloseCcond(t) \/ CallClose(t)
  BY <1>2, HiddenStep DEF ClosePcond, CloseCcond, CallClose
<1> QED
  BY <1>1, <1>2 DEF CloseStep

(* Whatever the calls and however the two goroutines and Close interleave,  *)
(* the users of a buffer see a bounded FIFO byte stream that can be closed. *)
THEOREM BufferImplementsByteStream == Spec => ImplementsByteStream
<1>1. Init => Pipe!Init
  <2> SUFFICES ASSUME Init PROVE Pipe!Init
    OBVIOUS
  <2>1. Contents = <<>>
    BY DEF Init, Contents
  <2> QED
    BY <2>1 DEF Init, Pipe!Init
<1>2. IInv /\ IInv' /\ [Next]_vars => [Pipe!Next]_(Pipe!vars)
  <2> SUFFICES ASSUME IInv, IInv', [Next]_vars PROVE [Pipe!Next]_(Pipe!vars)
    OBVIOUS
  <2>1. ASSUME NEW t \in Threads, CloseStep(t) \/ (t \in Closers /\ CallClose(t))
        PROVE  [Pipe!Next]_(Pipe!vars)
    BY <2>1, CloseMaps
  <2>2. CASE UNCHANGED vars
    BY <2>2, HiddenStep DEF vars, ring
  <2> QED
    BY <2>1, <2>2, ProducerMaps, ConsumerMaps DEF Next, Threads
<1> QED
  BY Invariance, <1>1, <1>2, PTL DEF Spec, ImplementsByteStream, Pipe!Spec
=============================================================================
