---------------------------- MODULE BufferProofs ----------------------------
(***************************************************************************)
(* For every ring size and every number of bytes: the types of a buffer's  *)
(* state, and the inductive invariant from which it follows that the       *)
(* producer never overwrites an unread byte (NoOverwrite) and that the     *)
(* bytes of the source come out whole and in order (InOrder).  Then: the   *)
(* wait loop of waitForWriteSpace and that of Read, which test their       *)
(* condition under the mutex of their condition variable, lose no wake-up  *)
(* (NoLostWakeup).                                                         *)
(***************************************************************************)
EXTENDS Buffer, TLAPS

(* The cursors keep their order, and the window from the reader's cursor to *)
(* the last byte copied in is never longer than the ring.                   *)
Cursors == gate <= cseq /\ cseq <= pseq /\ pseq <= src /\ src <= cseq + Size

(* Every byte copied in and not released is in its slot: also the bytes that *)
(* were copied but are not committed yet.                                    *)
Intact == \A j \in cseq..(src - 1) : buf[Slot(j)] = j

\* The space waitForWriteSpace granted is free.
GrantIsFree == ppc \in {"fill", "set"} => pseq + pn <= cseq + Size

\* Bytes the producer has copied but not committed while it is in a call.
Uncommitted == IF pstage = "commit" THEN pn ELSE 0

(* The producer copies only when nothing it copied before is uncommitted.   *)
(* Close may cut WriteCommit short, but then the producer never copies      *)
(* again: done stays TRUE and waitForWriteSpace returns io.EOF.             *)
CopyThenCommit ==
  /\ ppc \in {"lock", "test", "isDone", "wait", "parked"} => src = pseq + Uncommitted
  /\ ppc = "space" /\ ~done => src = pseq + Uncommitted
  /\ ppc = "idle" /\ ~done => src = pseq
  /\ ppc = "fill" => src = pseq /\ pstage = "reserve"
  /\ ppc = "set" => src = pseq + pn
  /\ ppc = "signal" => src = pseq

\* What the consumer has seen and holds is committed.
SeenIsCommitted == cppos <= pseq /\ cseq + view <= pseq

IInv ==
  /\ TypeOK
  /\ Cursors
  /\ Intact
  /\ GrantIsFree
  /\ CopyThenCommit
  /\ SeenIsCommitted


-----------------------------------------------------------------------------
(* Arithmetic of the ring.                                                  *)

\* Division with remainder.
LEMMA Division ==
  ASSUME NEW n \in Nat \ {0}, NEW a \in Int
  PROVE  /\ a \div n \in Int /\ a % n \in 0..(n-1)
         /\ a = n * (a \div n) + (a % n)
  BY SMT

\* The remainder does not see a multiple of n.
LEMMA RemainderOf ==
  ASSUME NEW n \in Nat \ {0}, NEW q \in Int, NEW r \in 0..(n-1)
  PROVE  (n * q + r) % n = r
  BY SMT

\* No two multiples of n are closer than n.
LEMMA NoMultipleBetween ==
  ASSUME NEW n \in Nat \ {0}, NEW p \in Int, NEW q \in Int,
         0 < n * q - n * p, n * q - n * p < n
  PROVE  FALSE
  BY SMT

\* Positions less than one lap apart are in different slots.
LEMMA SlotsDiffer ==
  ASSUME NEW n \in Nat \ {0}, NEW i \in Int, NEW j \in Int, i < j, j - i < n
  PROVE  i % n # j % n
<1>1. SUFFICES ASSUME i % n = j % n PROVE FALSE
  OBVIOUS
<1> DEFINE p == i \div n
           q == j \div n
           r == i % n
<1>2. /\ p \in Int /\ q \in Int /\ r \in Int
      /\ i = n * p + r /\ j = n * q + r
  BY <1>1, Division
<1> HIDE DEF p, q, r
<1>3. j - i = n * q - n * p
  BY <1>2, SMT
<1> QED
  BY <1>2, <1>3, NoMultipleBetween

\* The distance of a slot from a cursor is that of any position in the slot.
LEMMA SlotDistance ==
  ASSUME NEW n \in Nat \ {0}, NEW a \in Int, NEW b \in Int
  PROVE  ((a % n) - b) % n = (a - b) % n
<1> DEFINE q == a \div n
           d == a - b
           e == (a % n) - b
<1>1. q \in Int /\ d \in Int /\ e \in Int /\ e = d - n * q
  BY Division
<1>2. /\ d \div n \in Int /\ d % n \in 0..(n-1)
      /\ d = n * (d \div n) + (d % n)
  BY <1>1, Division
<1>3. e = n * ((d \div n) - q) + (d % n) /\ (d \div n) - q \in Int
  BY <1>1, <1>2
<1> HIDE DEF q, d, e
<1>4. e % n = d % n
  BY <1>2, <1>3, RemainderOf
<1> QED
  BY <1>4 DEF d, e

\* The remainder within a lap, ahead of zero and behind it.
LEMMA WithinALap ==
  ASSUME NEW n \in Nat \ {0}, NEW d \in Int
  PROVE  /\ 0 <= d /\ d < n => d % n = d
         /\ -n <= d /\ d < 0 => d % n = d + n
<1>1. ASSUME 0 <= d, d < n PROVE d % n = d
  BY <1>1, RemainderOf
<1>2. ASSUME -n <= d, d < 0 PROVE d % n = d + n
  <2>1. d = n * (-1) + (d + n) /\ d + n \in 0..(n-1)
    BY <1>2
  <2> QED
    BY <2>1, RemainderOf
<1> QED
  BY <1>1, <1>2

LEMMA SlotInRing == ASSUME NEW j \in Nat PROVE Slot(j) \in 0..Size-1
  BY SizeAssumption, Division DEF Slot

(* CopyIn(m) with room for m bytes keeps every byte of the window and adds  *)
(* the m new ones.                                                          *)
LEMMA CopyKeepsOrder ==
  ASSUME TypeOK, Intact, Cursors, src = pseq,
         NEW m \in Nat, pseq + m <= cseq + Size,
         CopyIn(m)
  PROVE  /\ \A j \in cseq..(src' - 1) : buf'[Slot(j)] = j
         /\ buf' \in [0..Size-1 -> Nat \cup {Blank}]
         /\ src' = src + m
<1> USE SizeAssumption
<1>t. pseq \in Nat /\ cseq \in Nat /\ src \in Nat
  BY DEF TypeOK
<1>1. src' = src + m
  BY DEF CopyIn
<1>2. ASSUME NEW j \in cseq..(src' - 1) PROVE buf'[Slot(j)] = j
  <2> DEFINE d == j - pseq
  <2>1. j \in Nat /\ d \in Int /\ d < m /\ -Size <= d /\ d + Size >= m
    BY <1>1, <1>2, <1>t DEF Cursors
  <2>2. Slot(j) \in 0..Size-1
    BY <2>1, SlotInRing
  <2>3. (Slot(j) - pseq) % Size = d % Size
    <3>1. j \in Int /\ pseq \in Int /\ Size \in Nat \ {0}
      BY <2>1, <1>t
    <3>2. ((j % Size) - pseq) % Size = (j - pseq) % Size
      BY <3>1, SlotDistance, Zenon
    <3> QED
      BY <3>2 DEF Slot
  <2>4. buf'[Slot(j)] = IF d % Size < m THEN src + (d % Size) ELSE buf[Slot(j)]
    BY <2>2, <2>3 DEF CopyIn
  <2>5. CASE d >= 0
    <3>1. d < Size
      BY <2>1, <1>t DEF Cursors
    <3>2. d % Size = d
      BY <2>1, <2>5, <3>1, WithinALap
    <3> QED
      BY <2>1, <2>4, <3>2, <1>t
  <2>6. CASE d < 0
    <3>1. d % Size = d + Size
      BY <2>1, <2>6, WithinALap
    <3>2. buf'[Slot(j)] = buf[Slot(j)]
      BY <2>1, <2>4, <3>1
    <3>3. j \in cseq..(src - 1)
      BY <1>2, <2>1, <2>6, <1>t
    <3> QED
      BY <3>2, <3>3 DEF Intact
  <2> QED
    BY <2>1, <2>5, <2>6
<1>3. buf' \in [0..Size-1 -> Nat \cup {Blank}]
  <2>1. ASSUME NEW i \in 0..Size-1
        PROVE  (IF (i - pseq) % Size < m THEN src + ((i - pseq) % Size) ELSE buf[i])
                 \in Nat \cup {Blank}
    <3>1. (i - pseq) % Size \in 0..Size-1
      BY <1>t, Division
    <3> QED
      BY <3>1, <1>t DEF TypeOK
  <2> QED
    BY <2>1 DEF CopyIn
<1> QED
  BY <1>1, <1>2, <1>3

-----------------------------------------------------------------------------
(* Types.                                                                   *)

LEMMA InitTypes == Init => TypeOK
<1> SUFFICES ASSUME Init PROVE TypeOK
  OBVIOUS
<1>1. buf \in [0..Size-1 -> Nat \cup {Blank}]
  BY DEF Init
<1>2. kpc \in [Threads -> {"none", "mark", "pcond", "ccond"}]
  BY DEF Init
<1> QED
  BY <1>1, <1>2 DEF Init, TypeOK, ProducerPCs, ConsumerPCs

\* A thread's place in Close stays one of the four.
LEMMA ClosePlaces ==
  ASSUME TypeOK, NEW t \in Threads, NEW k \in {"none", "mark", "pcond", "ccond"},
         kpc' = [kpc EXCEPT ![t] = k]
  PROVE  kpc' \in [Threads -> {"none", "mark", "pcond", "ccond"}]
  BY DEF TypeOK

LEMMA CloseTypes ==
  ASSUME IInv, NEW t \in Threads, CloseStep(t) \/ CallClose(t)
  PROVE  TypeOK'
<1> USE DEF TypeOK, ProducerPCs, ConsumerPCs, ring, pvars, cvars
<1>i. TypeOK
  BY DEF IInv
<1>1. CASE CloseMark(t)
  BY <1>i, <1>1, ClosePlaces DEF CloseMark
<1>2. CASE ClosePcond(t)
  BY <1>i, <1>2, ClosePlaces DEF ClosePcond, WakeProducer
<1>3. CASE CloseCcond(t)
  BY <1>i, <1>3, ClosePlaces DEF CloseCcond, WakeConsumer
<1>4. CASE CallClose(t)
  BY <1>i, <1>4, ClosePlaces DEF CallClose, StartClose
<1> QED
  BY <1>1, <1>2, <1>3, <1>4 DEF CloseStep

LEMMA ProducerTypes == ASSUME IInv, Producer PROVE TypeOK'
<1> USE SizeAssumption DEF TypeOK, ProducerPCs, ConsumerPCs, ring, pvars, cvars
<1>i. TypeOK
  BY DEF IInv
<1>t. "producer" \in Threads
  BY DEF Threads
<1>1. CASE WaitForWriteSpace
  BY <1>i, <1>1, <1>t, ClosePlaces DEF WaitForWriteSpace, ProducerEOF, StartClose, Granted
<1>2. CASE SpaceLock
  BY <1>i, <1>2 DEF SpaceLock
<1>3. CASE SpaceTest
  <2>1. ppc' \in ProducerPCs /\ gate' \in Nat
    BY <1>i, <1>3 DEF SpaceTest, Granted
  <2>2. plocked' \in BOOLEAN
    BY <1>i, <1>3 DEF SpaceTest
  <2>3. UNCHANGED <<buf, src, pseq, cseq, done, clocked, pop, pstage, pn, cvars, kpc>>
    BY <1>3 DEF SpaceTest
  <2> QED
    BY <1>i, <2>1, <2>2, <2>3
<1>4. CASE SpaceIsDone
  <2>1. kpc' = kpc \/ kpc' = [kpc EXCEPT !["producer"] = "mark"]
    BY <1>4 DEF SpaceIsDone, ProducerEOF, StartClose
  <2>2. kpc' \in [Threads -> {"none", "mark", "pcond", "ccond"}]
    BY <1>i, <1>t, <2>1, ClosePlaces
  <2>3. ppc' \in {"idle", "wait"}
    BY <1>4 DEF SpaceIsDone, ProducerEOF
  <2>4. UNCHANGED <<ring, cseq, done, plocked, clocked, pop, pstage, pn, cvars>>
    BY <1>4 DEF SpaceIsDone
  <2> QED
    BY <1>i, <2>2, <2>3, <2>4
<1>5. CASE SpaceWait
  <2>1. plocked' \in BOOLEAN
    BY <1>5 DEF SpaceWait
  <2> QED
    BY <1>i, <1>5, <2>1 DEF SpaceWait
<1>6. CASE Publish
  BY <1>i, <1>6 DEF Publish
<1>7. CASE SignalConsumer
  BY <1>i, <1>7 DEF SignalConsumer, WakeConsumer
<1>8. CASE CallReadFrom
  BY <1>i, <1>8 DEF CallReadFrom, ProducerCall
<1>9. CASE ReadError
  BY <1>i, <1>9, <1>t, ClosePlaces DEF ReadError, StartClose
<1>10. CASE RingCopy
  <2>1. src = pseq /\ pseq + pn <= cseq + Size /\ CopyIn(pn) /\ pn \in Nat
    BY <1>i, <1>10 DEF IInv, RingCopy, Producing, CopyThenCommit, GrantIsFree
  <2>2. buf' \in [0..Size-1 -> Nat \cup {Blank}] /\ src' \in Nat
    BY <1>i, <2>1, CopyKeepsOrder DEF IInv
  <2> QED
    BY <1>i, <1>10, <2>2 DEF RingCopy
<1>11. ASSUME NEW n \in 1..Size+1, CallWrite(n) \/ CallWriteWait(n) PROVE TypeOK'
  BY <1>i, <1>11 DEF CallWrite, CallWriteWait, ProducerCall
<1>12. ASSUME NEW m \in 1..Size, Fill(m) PROVE TypeOK'
  <2>1. src = pseq /\ m <= pn /\ pseq + pn <= cseq + Size /\ CopyIn(m)
    BY <1>i, <1>12, SlotInRing
       DEF IInv, Fill, Producing, CopyThenCommit, GrantIsFree, ToRingEnd, Min2
  <2>2. buf' \in [0..Size-1 -> Nat \cup {Blank}] /\ src' \in Nat
    BY <1>i, <2>1, CopyKeepsOrder DEF IInv
  <2> QED
    BY <1>i, <1>12, <2>2 DEF Fill
<1>13. ASSUME NEW m \in 1..Size, WrapToWrite(m) PROVE TypeOK'
  BY <1>i, <1>13 DEF WrapToWrite
<1> QED
  BY <1>1, <1>2, <1>3, <1>4, <1>5, <1>6, <1>7, <1>8, <1>9, <1>10, <1>11, <1>12, <1>13
     DEF Producer, ProducerInternal

LEMMA ConsumerTypes == ASSUME IInv, Consumer PROVE TypeOK'
<1> USE SizeAssumption DEF TypeOK, ProducerPCs, ConsumerPCs, ring, pvars, cvars
<1>i. TypeOK
  BY DEF IInv
<1>t. "consumer" \in Threads
  BY DEF Threads
<1>1. CASE WriteToHead
  BY <1>i, <1>1, <1>t, ClosePlaces DEF WriteToHead, StartClose
<1>2. CASE ReadHead
  <2>1. Slot(cseq) \in 0..Size-1
    BY <1>i, SlotInRing
  <2> QED
    BY <1>i, <1>2, <2>1 DEF ReadHead, Min2, BufLen
<1>3. CASE DataLock
  BY <1>i, <1>3 DEF DataLock
<1>4. CASE DataRelock
  BY <1>i, <1>4 DEF DataRelock
<1>5. CASE DataTest
  <2>1. Need \in Nat
    BY <1>i DEF Need
  <2>2. ~NoData => cppos - cseq \in Nat
    BY <1>i, <2>1 DEF NoData
  <2>3. ~NoData => Min2(cn, cppos - cseq) \in Nat
    BY <1>i, <2>2 DEF Min2
  <2>4. view' \in Nat
    BY <1>i, <1>5, <2>3 DEF DataTest
  <2>5. clocked' \in BOOLEAN /\ cpc' \in ConsumerPCs
    BY <1>i, <1>5 DEF DataTest
  <2> QED
    BY <1>i, <1>5, <2>4, <2>5 DEF DataTest
<1>6. CASE DataIsDone
  <2>1. kpc' = kpc \/ kpc' = [kpc EXCEPT !["consumer"] = "mark"]
    BY <1>6 DEF DataIsDone, StartClose
  <2>2. kpc' \in [Threads -> {"none", "mark", "pcond", "ccond"}]
    BY <1>i, <1>t, <2>1, ClosePlaces
  <2>3. cpc' \in {"wait", "eof"}
    BY <1>6 DEF DataIsDone
  <2>4. UNCHANGED <<ring, cseq, done, plocked, clocked, pvars, cop, cn, cppos, view>>
    BY <1>6 DEF DataIsDone
  <2> QED
    BY <1>i, <2>2, <2>3, <2>4
<1>7. CASE DataWait
  <2>1. clocked' \in BOOLEAN
    BY <1>7 DEF DataWait
  <2> QED
    BY <1>i, <1>7, <2>1 DEF DataWait
<1>8. CASE ReadCopied
  BY <1>i, <1>8 DEF ReadCopied, Release
<1>9. CASE WriteToCommit
  BY <1>i, <1>9 DEF WriteToCommit, Release
<1>10. CASE SignalProducer
  BY <1>i, <1>10 DEF SignalProducer, WakeProducer
<1>11. CASE CallWriteTo
  BY <1>i, <1>11 DEF CallWriteTo
<1>12. CASE WriteToError
  BY <1>i, <1>12, <1>t, ClosePlaces DEF WriteToError, StartClose
<1>13. ASSUME NEW n \in 1..Size, CallReadPeek(n) \/ CallReadWait(n) PROVE TypeOK'
  BY <1>i, <1>13 DEF CallReadPeek, CallReadWait, PeekCall
<1>14. ASSUME NEW n \in 1..Size, CallRead(n) PROVE TypeOK'
  BY <1>i, <1>14 DEF CallRead
<1>15. ASSUME NEW n \in 1..Size, CallReadCommit(n) PROVE TypeOK'
  BY <1>i, <1>15 DEF CallReadCommit, Release
<1> QED
  BY <1>1, <1>2, <1>3, <1>4, <1>5, <1>6, <1>7, <1>8, <1>9, <1>10, <1>11, <1>12, <1>13,
     <1>14, <1>15
     DEF Consumer, ConsumerInternal

-----------------------------------------------------------------------------
(* The cursors and what is between them.                                    *)

\* The part of the invariant that is about the ring.
RingInv == Cursors /\ Intact /\ GrantIsFree /\ CopyThenCommit /\ SeenIsCommitted

LEMMA InitRing == Init => RingInv
<1> SUFFICES ASSUME Init PROVE RingInv
  OBVIOUS
<1>1. \A j \in cseq..(src - 1) : FALSE
  BY DEF Init
<1> QED
  BY <1>1, SizeAssumption
     DEF Init, RingInv, Cursors, Intact, GrantIsFree, CopyThenCommit, SeenIsCommitted

LEMMA CloseRing ==
  ASSUME IInv, NEW t \in Threads, CloseStep(t) \/ CallClose(t)
  PROVE  RingInv'
<1> USE DEF IInv, TypeOK, RingInv, Cursors, Intact, Slot, GrantIsFree, CopyThenCommit,
            Uncommitted, SeenIsCommitted, ring, pvars, cvars
<1>1. CASE CloseMark(t)
  BY <1>1 DEF CloseMark
<1>2. CASE ClosePcond(t)
  BY <1>2 DEF ClosePcond, WakeProducer
<1>3. CASE CloseCcond(t)
  BY <1>3 DEF CloseCcond
<1>4. CASE CallClose(t)
  BY <1>4 DEF CallClose
<1> QED
  BY <1>1, <1>2, <1>3, <1>4 DEF CloseStep

LEMMA ProducerRing == ASSUME IInv, Producer PROVE RingInv'
<1> USE SizeAssumption
    DEF IInv, TypeOK, RingInv, Cursors, Intact, Slot, GrantIsFree, CopyThenCommit,
        Uncommitted, SeenIsCommitted, ring, pvars, cvars, Producing
<1>1. CASE WaitForWriteSpace
  BY <1>1 DEF WaitForWriteSpace, ProducerEOF, Granted, MustAskReader
<1>2. CASE SpaceLock
  BY <1>2 DEF SpaceLock
<1>3. CASE SpaceTest
  BY <1>3 DEF SpaceTest, Granted, NoRoom
<1>4. CASE SpaceIsDone
  BY <1>4 DEF SpaceIsDone, ProducerEOF
<1>5. CASE SpaceWait
  BY <1>5 DEF SpaceWait
<1>6. CASE Publish
  BY <1>6 DEF Publish
<1>7. CASE SignalConsumer
  BY <1>7 DEF SignalConsumer
<1>8. CASE CallReadFrom
  BY <1>8 DEF CallReadFrom, ProducerCall
<1>9. CASE ReadError
  BY <1>9 DEF ReadError
<1>10. CASE RingCopy
  <2>1. src = pseq /\ pseq + pn <= cseq + Size /\ CopyIn(pn) /\ pn \in Nat
    BY <1>10 DEF RingCopy
  <2> HIDE DEF TypeOK, Intact, Cursors, Slot
  <2>2. /\ \A j \in cseq..(src' - 1) : buf'[Slot(j)] = j
        /\ src' = src + pn
    BY <2>1, CopyKeepsOrder
  <2> USE DEF TypeOK, Intact, Cursors
  <2> QED
    BY <1>10, <2>1, <2>2 DEF RingCopy
<1>11. ASSUME NEW n \in 1..Size+1, CallWrite(n) \/ CallWriteWait(n) PROVE RingInv'
  <2>1. \E op \in {"Write", "WriteWait"} : ProducerCall(op, n)
    BY <1>11 DEF CallWrite, CallWriteWait
  <2> QED
    BY <2>1 DEF ProducerCall
<1>12. ASSUME NEW m \in 1..Size, Fill(m) PROVE RingInv'
  <2>1. src = pseq /\ m <= pn /\ pseq + pn <= cseq + Size /\ CopyIn(m)
    BY <1>12, SlotInRing DEF Fill, ToRingEnd, Min2
  <2> HIDE DEF TypeOK, Intact, Cursors, Slot
  <2>2. /\ \A j \in cseq..(src' - 1) : buf'[Slot(j)] = j
        /\ src' = src + m
    <3>1. m \in Nat /\ pseq + m <= cseq + Size
      BY <2>1 DEF TypeOK
    <3> QED
      BY <2>1, <3>1, CopyKeepsOrder
  <2> USE DEF TypeOK, Intact, Cursors
  <2> QED
    BY <1>12, <2>1, <2>2 DEF Fill
<1>13. ASSUME NEW m \in 1..Size, WrapToWrite(m) PROVE RingInv'
  BY <1>13 DEF WrapToWrite
<1> QED
  BY <1>1, <1>2, <1>3, <1>4, <1>5, <1>6, <1>7, <1>8, <1>9, <1>10, <1>11, <1>12, <1>13
     DEF Producer, ProducerInternal

\* Releasing committed bytes keeps what is left of the window.
LEMMA ReleaseRing ==
  ASSUME IInv, NEW n \in Nat, Available(n), Release(n)
  PROVE  RingInv'
<1> USE SizeAssumption DEF IInv, TypeOK, Available, Release, ring, pvars
<1>1. /\ cseq' = cseq + n /\ cseq' \in Nat /\ cseq' <= pseq
      /\ UNCHANGED <<buf, src, pseq, gate, pvars, done, cppos>> /\ view' = 0
  OBVIOUS
<1>2. Intact'
  BY <1>1 DEF Intact, Slot
<1>3. Cursors' /\ GrantIsFree' /\ SeenIsCommitted'
  BY <1>1 DEF Cursors, GrantIsFree, SeenIsCommitted
<1>4. CopyThenCommit'
  BY <1>1 DEF CopyThenCommit, Uncommitted
<1> QED
  BY <1>2, <1>3, <1>4 DEF RingInv

LEMMA ConsumerRing == ASSUME IInv, Consumer PROVE RingInv'
<1> USE SizeAssumption
    DEF IInv, TypeOK, RingInv, Cursors, Intact, Slot, GrantIsFree, CopyThenCommit,
        Uncommitted, SeenIsCommitted, ring, pvars, cvars, Consuming
<1>1. CASE WriteToHead
  BY <1>1 DEF WriteToHead
<1>2. CASE ReadHead
  BY <1>2 DEF ReadHead, Min2, BufLen
<1>3. CASE DataLock
  BY <1>3 DEF DataLock
<1>4. CASE DataRelock
  BY <1>4 DEF DataRelock
<1>5. CASE DataTest
  <2>1. Need \in Nat
    BY DEF Need
  <2>2. ~NoData => Min2(cn, cppos - cseq) \in Nat /\ cseq + Min2(cn, cppos - cseq) <= cppos
    BY <2>1 DEF NoData, Min2
  <2> QED
    BY <1>5, <2>2 DEF DataTest
<1>6. CASE DataIsDone
  BY <1>6 DEF DataIsDone
<1>7. CASE DataWait
  BY <1>7 DEF DataWait
<1>8. CASE ReadCopied
  BY <1>8, ReleaseRing DEF ReadCopied, Available
<1>9. CASE WriteToCommit
  BY <1>9, ReleaseRing DEF WriteToCommit
<1>10. CASE SignalProducer
  BY <1>10 DEF SignalProducer, WakeProducer
<1>11. CASE CallWriteTo
  BY <1>11 DEF CallWriteTo
<1>12. CASE WriteToError
  BY <1>12 DEF WriteToError
<1>13. ASSUME NEW n \in 1..Size, CallReadPeek(n) \/ CallReadWait(n) PROVE RingInv'
  <2>1. \E op \in {"ReadPeek", "ReadWait"} : PeekCall(op, n)
    BY <1>13 DEF CallReadPeek, CallReadWait
  <2> QED
    BY <2>1 DEF PeekCall
<1>14. ASSUME NEW n \in 1..Size, CallRead(n) PROVE RingInv'
  BY <1>14 DEF CallRead
<1>15. ASSUME NEW n \in 1..Size, CallReadCommit(n) PROVE RingInv'
  BY <1>15, ReleaseRing DEF CallReadCommit
<1> QED
  BY <1>1, <1>2, <1>3, <1>4, <1>5, <1>6, <1>7, <1>8, <1>9, <1>10, <1>11, <1>12, <1>13,
     <1>14, <1>15
     DEF Consumer, ConsumerInternal

-----------------------------------------------------------------------------
(* The theorems.                                                            *)

LEMMA Inductive == IInv /\ [Next]_vars => IInv'
<1> SUFFICES ASSUME IInv, [Next]_vars PROVE TypeOK' /\ RingInv'
  BY DEF IInv, RingInv
<1>1. CASE Producer
  BY <1>1, ProducerTypes, ProducerRing
<1>2. CASE Consumer
  BY <1>2, ConsumerTypes, ConsumerRing
<1>3. ASSUME NEW t \in Threads, CloseStep(t) \/ (t \in Closers /\ CallClose(t))
      PROVE  TypeOK' /\ RingInv'
  BY <1>3, CloseTypes, CloseRing
<1>4. CASE UNCHANGED vars
  BY <1>4 DEF IInv, RingInv, vars, ring, pvars, cvars, TypeOK, Cursors, Intact,
              GrantIsFree, CopyThenCommit, Uncommitted, SeenIsCommitted, Slot
<1> QED
  BY <1>1, <1>2, <1>3, <1>4 DEF Next, Threads

(* The invariant holds of every execution of the buffer, whatever its size. *)
THEOREM Invariance == Spec => []IInv
<1>1. Init => IInv
  BY InitTypes, InitRing DEF IInv, RingInv
<1> QED
  BY <1>1, Inductive, PTL DEF Spec

(* The types of the buffer's state (newBuffer and every operation).         *)
THEOREM TypeCorrect == Spec => []TypeOK
<1>1. IInv => TypeOK
  BY DEF IInv
<1> QED
  BY <1>1, Invariance, PTL

(* The producer's copy never lands on a byte the consumer has not released: *)
(* waitForWriteSpace with its cached cursor is enough protection, because   *)
(* what it grants fits into the ring behind the reader's cursor.            *)
THEOREM NeverOverwrites == Spec => []NoOverwrite
<1>1. IInv => NoOverwrite
  <2> SUFFICES ASSUME IInv, NEW i \in Reserved, NEW j \in cseq..(pseq - 1)
               PROVE  Slot(i) # Slot(j)
    BY DEF NoOverwrite
  <2>1. /\ i \in Int /\ j \in Int /\ j < i /\ i - j < Size
    BY SizeAssumption DEF IInv, TypeOK, Cursors, GrantIsFree, Reserved
  <2> QED
    BY <2>1, SizeAssumption, SlotsDiffer DEF Slot
<1> QED
  BY <1>1, Invariance, PTL

(* The consumer reads the bytes of the source, each once and in order, and  *)
(* the slice it works on is committed for as long as it holds it.           *)
THEOREM StaysInOrder == Spec => []InOrder
<1>1. IInv => InOrder
  BY DEF IInv, TypeOK, Cursors, Intact, SeenIsCommitted, InOrder
<1> QED
  BY <1>1, Invariance, PTL

-----------------------------------------------------------------------------
(* Wake-ups.                                                                *)

\* A wait loop holds its mutex from the test to the wait.
LoopsHoldMutex ==
  /\ ppc \in {"test", "isDone", "wait"} => plocked
  /\ cpc \in {"test", "isDone", "wait"} => clocked

(* Room that appears after the producer has found none is announced: the    *)
(* consumer has released, and cannot broadcast before the producer waits.   *)
RoomAnnounced == ppc \in {"isDone", "wait", "parked"} /\ ~NoRoom => cpc = "signal"

\* Likewise a Close that begins after the producer has looked at done.
CloseAnnounced ==
  ppc \in {"wait", "parked"} /\ done => \E t \in Threads : kpc[t] = "pcond"

(* Likewise a byte committed after Read has loaded pseq, which it does with *)
(* the mutex held, and not before it, as ReadPeek and ReadWait do.          *)
DataAnnounced ==
  /\ cpc = "lock" => cop # "Read"
  /\ cpc = "test" /\ cop = "Read" /\ cppos < pseq => ppc = "signal"
  /\ cpc \in {"isDone", "wait", "parked"} /\ cop = "Read" /\ cseq < pseq => ppc = "signal"

WakeInv == LoopsHoldMutex /\ RoomAnnounced /\ CloseAnnounced /\ DataAnnounced

\* A thread that begins Close was not in it, and no other moves.
LEMMA BeginsClose ==
  ASSUME TypeOK, NEW t \in Threads, kpc[t] = "none", StartClose(t),
         NEW s \in Threads, kpc[s] = "pcond"
  PROVE  kpc'[s] = "pcond"
  BY DEF TypeOK, StartClose

LEMMA CloseWake ==
  ASSUME IInv, WakeInv, NEW t \in Threads, CloseStep(t) \/ CallClose(t)
  PROVE  WakeInv'
<1> USE DEF WakeInv, LoopsHoldMutex, RoomAnnounced, CloseAnnounced, DataAnnounced,
            NoRoom, ring, pvars, cvars
<1>i. TypeOK
  BY DEF IInv
<1>1. CASE CloseMark(t)
  <2>1. kpc'[t] = "pcond"
    BY <1>i, <1>1 DEF CloseMark, TypeOK
  <2> QED
    BY <1>1, <2>1 DEF CloseMark
<1>2. CASE ClosePcond(t)
  <2>1. ppc' \notin {"test", "isDone", "wait", "parked"}
    BY <1>2 DEF ClosePcond, WakeProducer
  <2>2. ppc = "signal" <=> ppc' = "signal"
    BY <1>2 DEF ClosePcond, WakeProducer
  <2> QED
    BY <1>2, <2>1, <2>2 DEF ClosePcond
<1>3. CASE CloseCcond(t)
  <2>1. \A s \in Threads : kpc[s] = "pcond" => kpc'[s] = "pcond"
    BY <1>i, <1>3 DEF CloseCcond, TypeOK
  <2> QED
    BY <1>3, <2>1 DEF CloseCcond, WakeConsumer
<1>4. CASE CallClose(t)
  <2>1. \A s \in Threads : kpc[s] = "pcond" => kpc'[s] = "pcond"
    BY <1>i, <1>4, BeginsClose DEF CallClose
  <2> QED
    BY <1>4, <2>1 DEF CallClose
<1> QED
  BY <1>1, <1>2, <1>3, <1>4 DEF CloseStep

LEMMA ProducerWake ==
  ASSUME IInv, WakeInv, Producer
  PROVE  WakeInv'
<1> USE DEF WakeInv, LoopsHoldMutex, RoomAnnounced, CloseAnnounced, DataAnnounced,
            NoRoom, ring, pvars, cvars, Producing
<1>i. TypeOK /\ SeenIsCommitted
  BY DEF IInv
<1>t. "producer" \in Threads
  BY DEF Threads
<1>1. CASE WaitForWriteSpace
  BY <1>1 DEF WaitForWriteSpace, ProducerEOF, Granted
<1>2. CASE SpaceLock
  BY <1>2 DEF SpaceLock
<1>3. CASE SpaceTest
  BY <1>3 DEF SpaceTest, Granted
<1>4. CASE SpaceIsDone
  BY <1>4 DEF SpaceIsDone, ProducerEOF
<1>5. CASE SpaceWait
  BY <1>5 DEF SpaceWait
<1>6. CASE Publish
  BY <1>6 DEF Publish
<1>7. CASE SignalConsumer
  BY <1>7 DEF SignalConsumer, WakeConsumer
<1>8. CASE CallReadFrom
  BY <1>8 DEF CallReadFrom, ProducerCall
<1>9. CASE ReadError
  BY <1>9 DEF ReadError
<1>10. CASE RingCopy
  BY <1>10 DEF RingCopy
<1>11. ASSUME NEW n \in 1..Size+1, CallWrite(n) \/ CallWriteWait(n) PROVE WakeInv'
  BY <1>11 DEF CallWrite, CallWriteWait, ProducerCall
<1>12. ASSUME NEW m \in 1..Size, Fill(m) PROVE WakeInv'
  BY <1>12 DEF Fill
<1>13. ASSUME NEW m \in 1..Size, WrapToWrite(m) PROVE WakeInv'
  BY <1>13 DEF WrapToWrite
<1> QED
  BY <1>1, <1>2, <1>3, <1>4, <1>5, <1>6, <1>7, <1>8, <1>9, <1>10, <1>11, <1>12, <1>13
     DEF Producer, ProducerInternal

LEMMA ConsumerWake ==
  ASSUME IInv, WakeInv, Consumer
  PROVE  WakeInv'
<1> USE DEF WakeInv, LoopsHoldMutex, RoomAnnounced, CloseAnnounced, DataAnnounced,
            NoRoom, ring, pvars, cvars, Consuming
<1>i. TypeOK /\ SeenIsCommitted
  BY DEF IInv
<1>t. "consumer" \in Threads
  BY DEF Threads
<1>1. CASE WriteToHead
  <2>1. \A s \in Threads : kpc[s] = "pcond" => kpc'[s] = "pcond"
    BY <1>i, <1>t, <1>1, BeginsClose DEF WriteToHead
  <2> QED
    BY <1>1, <2>1 DEF WriteToHead
<1>2. CASE ReadHead
  BY <1>2 DEF ReadHead
<1>3. CASE DataLock
  BY <1>3 DEF DataLock
<1>4. CASE DataRelock
  BY <1>i, <1>4 DEF DataRelock, TypeOK
<1>5. CASE DataTest
  <2>1. /\ UNCHANGED <<pseq, cseq, ppc, done, kpc, cop, cppos>>
        /\ cpc = "test" /\ cpc' \notin {"test", "wait", "parked", "lock"}
        /\ cpc' = "isDone" => NoData
    BY <1>5 DEF DataTest
  <2>2. cop = "Read" /\ cseq < pseq /\ NoData => cppos < pseq
    BY <1>i DEF NoData, Need, TypeOK
  <2>3. LoopsHoldMutex' /\ RoomAnnounced'
    BY <1>5 DEF DataTest
  <2>4. CloseAnnounced'
    BY <2>1
  <2>5. DataAnnounced'
    BY <2>1, <2>2
  <2> QED
    BY <2>3, <2>4, <2>5
<1>6. CASE DataIsDone
  <2>1. \A s \in Threads : kpc[s] = "pcond" => kpc'[s] = "pcond"
    BY <1>i, <1>t, <1>6, BeginsClose DEF DataIsDone
  <2> QED
    BY <1>6, <2>1 DEF DataIsDone
<1>7. CASE DataWait
  BY <1>7 DEF DataWait
<1>8. CASE ReadCopied \/ WriteToCommit
  BY <1>8 DEF ReadCopied, WriteToCommit, Release
<1>9. CASE SignalProducer
  BY <1>9 DEF SignalProducer, WakeProducer
<1>10. CASE CallWriteTo
  BY <1>10 DEF CallWriteTo, Ready
<1>11. CASE WriteToError
  <2>1. \A s \in Threads : kpc[s] = "pcond" => kpc'[s] = "pcond"
    BY <1>i, <1>t, <1>11, BeginsClose DEF WriteToError
  <2> QED
    BY <1>11, <2>1 DEF WriteToError
<1>12. ASSUME NEW n \in 1..Size, CallReadPeek(n) \/ CallReadWait(n) PROVE WakeInv'
  BY <1>12 DEF CallReadPeek, CallReadWait, PeekCall, Ready
<1>13. ASSUME NEW n \in 1..Size, CallRead(n) PROVE WakeInv'
  BY <1>13 DEF CallRead, Ready
<1>14. ASSUME NEW n \in 1..Size, CallReadCommit(n) PROVE WakeInv'
  BY <1>14 DEF CallReadCommit, Release
<1> QED
  BY <1>1, <1>2, <1>3, <1>4, <1>5, <1>6, <1>7, <1>8, <1>9, <1>10, <1>11, <1>12, <1>13,
     <1>14
     DEF Consumer, ConsumerInternal

(* A goroutine that waits although it could go on has its broadcast coming: *)
(* the producer in waitForWriteSpace, for room and for Close, and the       *)
(* consumer in Read, for data.                                              *)
THEOREM WakeupsAreNotLost == Spec => []NoLostWakeup
<1>1. Init => WakeInv
  BY DEF Init, WakeInv, LoopsHoldMutex, RoomAnnounced, CloseAnnounced, DataAnnounced
<1>2. IInv /\ WakeInv /\ [Next]_vars => WakeInv'
  <2> SUFFICES ASSUME IInv, WakeInv, [Next]_vars PROVE WakeInv'
    OBVIOUS
  <2>1. ASSUME NEW t \in Threads, CloseStep(t) \/ (t \in Closers /\ CallClose(t))
        PROVE  WakeInv'
    BY <2>1, CloseWake
  <2>2. CASE UNCHANGED vars
    BY <2>2 DEF vars, ring, pvars, cvars, WakeInv, LoopsHoldMutex, RoomAnnounced,
                CloseAnnounced, DataAnnounced, NoRoom
  <2> QED
    BY <2>1, <2>2, ProducerWake, ConsumerWake DEF Next, Threads
<1>3. WakeInv => NoLostWakeup
  BY DEF WakeInv, RoomAnnounced, CloseAnnounced, DataAnnounced, NoLostWakeup
<1> QED
  BY Invariance, <1>1, <1>2, <1>3, PTL DEF Spec
=============================================================================
