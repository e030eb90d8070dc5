------------------------------- MODULE Buffer -------------------------------
(***************************************************************************)
(* The connection buffer of agent/buffer.go and master/buffer.go (the two  *)
(* files are the same code): a ring of Size bytes between one producing    *)
(* and one consuming goroutine, two cursors that only grow, a cached copy  *)
(* of the reader's cursor (gate), a done flag, and two condition variables *)
(* with a mutex each (pcond for the producer, ccond for the consumer).     *)
(*                                                                         *)
(* One action is one atomic operation on shared memory: an atomic load or  *)
(* store, a Lock, the parking half of Cond.Wait, or a short critical       *)
(* section that only broadcasts.  A byte is the position it had in the     *)
(* stream the producer copies in, so that order and loss are visible.      *)
(***************************************************************************)
EXTENDS Integers

CONSTANTS
  Size,       \* len(buf)
  Block,      \* defaultReadBlockSize = defaultWriteBlockSize
  MaxBytes,   \* bound of the model: bytes the producer is ever given
  Closers     \* goroutines other than the two ends that call Close

\* newBuffer refuses a size that is smaller than two blocks ...
ASSUME SizeAssumption ==
  /\ Size \in Nat \ {0}
  /\ Block \in Nat \ {0}
  /\ 2 * Block <= Size
  /\ MaxBytes \in Nat

\* ... or that is not a power of two, which is what makes "& mask" be "% Size".
ASSUME PowerOfTwo == \E k \in 0..Size : Size = 2 ^ k

ASSUME CloserAssumption == Closers \cap {"producer", "consumer"} = {}

Threads == Closers \cup {"producer", "consumer"}

VARIABLES
  buf,      \* the ring: slot -> byte (its position in the source), or Blank
  src,      \* number of bytes the producer has copied into the ring
  pseq,     \* pseq.cursor: bytes committed by the producer
  gate,     \* pseq.gate: the producer's cached copy of cseq
  cseq,     \* cseq.cursor: bytes released by the consumer
  done,     \* the buffer is closed
  plocked,  \* pcond.L is held by the producer's wait loop
  clocked,  \* ccond.L is held by the consumer's wait loop
  ppc,      \* where the producer is
  pop,      \* the producer's call
  pstage,   \* "reserve" before the copy, "commit" inside WriteCommit
  pn,       \* bytes asked of waitForWriteSpace
  cpc,      \* where the consumer is
  cop,      \* the consumer's call
  cn,       \* bytes asked by that call
  cppos,    \* the consumer's local copy of pseq
  view,     \* length of the slice the consumer holds, from cseq on
  kpc       \* where each thread is inside Close

ring  == <<buf, src, pseq, gate>>
pvars == <<ppc, pop, pstage, pn>>
cvars == <<cpc, cop, cn, cppos, view>>
vars  == <<ring, cseq, done, plocked, clocked, pvars, cvars, kpc>>

Blank == -1
Min2(a, b) == IF a <= b THEN a ELSE b

Slot(pos) == pos % Size

\* Variant: the cursors subtracted the wrong way round.
BufLenSwapped == cseq - pseq

\* Len: committed and not released.
BufLen == pseq - cseq

Init ==
  /\ buf = [i \in 0..Size-1 |-> Blank]
  /\ src = 0 /\ pseq = 0 /\ gate = 0 /\ cseq = 0
  /\ done = FALSE /\ plocked = FALSE /\ clocked = FALSE
  /\ ppc = "idle" /\ pop = "none" /\ pstage = "reserve" /\ pn = 0
  /\ cpc = "idle" /\ cop = "none" /\ cn = 0 /\ cppos = 0 /\ view = 0
  /\ kpc = [t \in Threads |-> "none"]

-----------------------------------------------------------------------------
(* Broadcasts.  A parked goroutine goes to reacquire its mutex.            *)

\* Variant: the broadcast on pcond is missing.
WakeProducerDropped == ppc' = ppc

WakeProducer == ppc' = IF ppc = "parked" THEN "lock" ELSE ppc
WakeConsumer == cpc' = IF cpc = "parked" THEN "relock" ELSE cpc

(* Close: set done, then broadcast pcond and ccond, both under pcond.L.    *)

StartClose(t) == kpc' = [kpc EXCEPT ![t] = "mark"]

CloseMark(t) ==
  /\ kpc[t] = "mark"
  /\ done' = TRUE
  /\ kpc' = [kpc EXCEPT ![t] = "pcond"]
  /\ UNCHANGED <<ring, cseq, plocked, clocked, pvars, cvars>>

ClosePcond(t) ==
  /\ kpc[t] = "pcond" /\ ~plocked
  /\ WakeProducer
  /\ kpc' = [kpc EXCEPT ![t] = "ccond"]
  /\ UNCHANGED <<ring, cseq, done, plocked, clocked, pop, pstage, pn, cvars>>

CloseCcond(t) ==
  /\ kpc[t] = "ccond" /\ ~plocked
  /\ WakeConsumer
  /\ kpc' = [kpc EXCEPT ![t] = "none"]
  /\ UNCHANGED <<ring, cseq, done, plocked, clocked, pvars, cop, cn, cppos, view>>

CloseStep(t) == CloseMark(t) \/ ClosePcond(t) \/ CloseCcond(t)

\* client.close in the master calls Close on both buffers of a connection.
CallClose(t) ==
  /\ kpc[t] = "none"
  /\ StartClose(t)
  /\ UNCHANGED <<ring, cseq, done, plocked, clocked, pvars, cvars>>

-----------------------------------------------------------------------------
(* The producer.                                                           *)

Producing(pc) == ppc = pc /\ kpc["producer"] = "none"

\* The bound of the model.
Supply(m) == src + m <= MaxBytes

ProducerCall(op, n) ==
  /\ Producing("idle")
  /\ ppc' = "space" /\ pop' = op /\ pstage' = "reserve" /\ pn' = n
  /\ UNCHANGED <<ring, cseq, done, plocked, clocked, cvars, kpc>>

CallReadFrom     == ProducerCall("ReadFrom", Block)
CallWrite(n)     == Supply(n) /\ ProducerCall("Write", n)
CallWriteWait(n) == Supply(n) /\ ProducerCall("WriteWait", n)

\* io.EOF out of waitForWriteSpace; ReadFrom returns and its deferred Close runs.
ProducerEOF ==
  /\ ppc' = "idle"
  /\ IF pop = "ReadFrom" THEN StartClose("producer") ELSE kpc' = kpc

\* waitForWriteSpace succeeds.
Granted == ppc' = IF pstage = "reserve" THEN "fill" ELSE "set"

\* Variant: the fast path is one byte too generous.
MustAskReaderOffByOne == pseq + pn > gate + Size + 1 \/ gate > pseq

\* The fast-path test on the cached cursor, and the test on the real one.
MustAskReader == pseq + pn > gate + Size \/ gate > pseq
NoRoom        == pseq + pn > cseq + Size

WaitForWriteSpace ==
  /\ Producing("space")
  /\ IF done THEN ProducerEOF
     ELSE /\ IF MustAskReader THEN ppc' = "lock" ELSE Granted
          /\ kpc' = kpc
  /\ UNCHANGED <<ring, cseq, done, plocked, clocked, pop, pstage, pn, cvars>>

SpaceLock ==
  /\ Producing("lock") /\ ~plocked
  /\ plocked' = TRUE /\ ppc' = "test"
  /\ UNCHANGED <<ring, cseq, done, clocked, pop, pstage, pn, cvars, kpc>>

SpaceTest ==
  /\ Producing("test")
  /\ IF NoRoom
     THEN ppc' = "isDone" /\ UNCHANGED <<gate, plocked>>
     ELSE gate' = cseq /\ plocked' = FALSE /\ Granted
  /\ UNCHANGED <<buf, src, pseq, cseq, done, clocked, pop, pstage, pn, cvars, kpc>>

\* The return inside the wait loop leaves pcond.L locked.
SpaceIsDone ==
  /\ Producing("isDone")
  /\ IF done THEN ProducerEOF ELSE ppc' = "wait" /\ kpc' = kpc
  /\ UNCHANGED <<ring, cseq, done, plocked, clocked, pop, pstage, pn, cvars>>

SpaceWait ==
  /\ Producing("wait")
  /\ ppc' = "parked" /\ plocked' = FALSE
  /\ UNCHANGED <<ring, cseq, done, clocked, pop, pstage, pn, cvars, kpc>>

\* The slice given to the filler stops at the end of the ring.
ToRingEnd == Min2(pn, Size - Slot(pseq))

\* Variant: the copy runs one byte past the slice.
CopyInOverrun(m) ==
  /\ buf' = [i \in 0..Size-1 |->
               LET k == (i - pseq) % Size IN IF k <= m THEN src + k ELSE buf[i]]
  /\ src' = src + m

\* The next m bytes of the source go to the m slots from the cursor on.
CopyIn(m) ==
  /\ buf' = [i \in 0..Size-1 |->
               LET k == (i - pseq) % Size IN IF k < m THEN src + k ELSE buf[i]]
  /\ src' = src + m

\* r.Read in ReadFrom, or the client of WriteWait, fills m bytes and commits them.
Fill(m) ==
  /\ Producing("fill")
  /\ \/ pop = "ReadFrom" /\ m <= ToRingEnd /\ Supply(m)
     \/ pop = "WriteWait" /\ pn <= Size - Slot(pseq) /\ m <= pn
  /\ CopyIn(m)
  /\ ppc' = "space" /\ pstage' = "commit" /\ pn' = m
  /\ UNCHANGED <<pseq, gate, cseq, done, plocked, clocked, pop, cvars, kpc>>

\* WriteWait reports a wrap; the client encodes aside and calls Write.
WrapToWrite(m) ==
  /\ Producing("fill") /\ pop = "WriteWait"
  /\ pn > Size - Slot(pseq) /\ m <= pn
  /\ ppc' = "space" /\ pop' = "Write" /\ pn' = m
  /\ UNCHANGED <<ring, cseq, done, plocked, clocked, pstage, cvars, kpc>>

\* ringCopy in Write: all bytes, across the end of the ring.
RingCopy ==
  /\ Producing("fill") /\ pop = "Write"
  /\ CopyIn(pn)
  /\ ppc' = "set"
  /\ UNCHANGED <<pseq, gate, cseq, done, plocked, clocked, pop, pstage, pn, cvars, kpc>>

\* Variant: ReadFrom without its deferred Close.
ReadErrorNoClose ==
  /\ Producing("fill") /\ pop = "ReadFrom"
  /\ ppc' = "idle"
  /\ UNCHANGED <<ring, cseq, done, plocked, clocked, pop, pstage, pn, cvars, kpc>>

\* r.Read fails: ReadFrom returns and its deferred Close runs.
ReadError ==
  /\ Producing("fill") /\ pop = "ReadFrom"
  /\ ppc' = "idle" /\ StartClose("producer")
  /\ UNCHANGED <<ring, cseq, done, plocked, clocked, pop, pstage, pn, cvars>>

\* pseq.set at the end of Write and of WriteCommit.
Publish ==
  /\ Producing("set")
  /\ pseq' = pseq + pn /\ ppc' = "signal"
  /\ UNCHANGED <<buf, src, gate, cseq, done, plocked, clocked, pop, pstage, pn, cvars, kpc>>

\* Broadcast ccond under ccond.L; ReadFrom then starts its next round.
SignalConsumer ==
  /\ Producing("signal") /\ ~clocked
  /\ WakeConsumer
  /\ IF pop = "ReadFrom"
     THEN ppc' = "space" /\ pstage' = "reserve" /\ pn' = Block
     ELSE ppc' = "idle" /\ UNCHANGED <<pstage, pn>>
  /\ UNCHANGED <<ring, cseq, done, plocked, clocked, pop, cop, cn, cppos, view, kpc>>

ProducerInternal ==
  \/ WaitForWriteSpace \/ SpaceLock \/ SpaceTest \/ SpaceIsDone \/ SpaceWait
  \/ Publish \/ SignalConsumer

-----------------------------------------------------------------------------
(* The consumer.                                                           *)

Consuming(pc) == cpc = pc /\ kpc["consumer"] = "none"

\* Between calls: nothing held, or a slice in hand.
Ready == Consuming("idle") \/ Consuming("view")

\* ReadPeek and ReadWait load pseq before they lock ccond.L.
PeekCall(op, n) ==
  /\ Ready /\ cop # "WriteTo"
  /\ cpc' = "lock" /\ cop' = op /\ cn' = n /\ cppos' = pseq /\ view' = 0
  /\ UNCHANGED <<ring, cseq, done, plocked, clocked, pvars, kpc>>

CallReadPeek(n) == PeekCall("ReadPeek", n)
CallReadWait(n) == PeekCall("ReadWait", n)

CallRead(n) ==
  /\ Ready /\ cop # "WriteTo"
  /\ cpc' = (IF done /\ BufLen = 0 THEN "eof" ELSE "head")
  /\ cop' = "Read" /\ cn' = n /\ view' = 0
  /\ UNCHANGED <<ring, cseq, done, plocked, clocked, pvars, cppos, kpc>>

CallWriteTo ==
  /\ Ready /\ cop # "WriteTo"
  /\ cpc' = "head" /\ cop' = "WriteTo" /\ cn' = Block /\ view' = 0
  /\ UNCHANGED <<ring, cseq, done, plocked, clocked, pvars, cppos, kpc>>

\* WriteTo's loop: leave when done, else ReadPeek a block.
WriteToHead ==
  /\ Consuming("head") /\ cop = "WriteTo"
  /\ IF done THEN cpc' = "eof" /\ StartClose("consumer") /\ cppos' = cppos
     ELSE cpc' = "lock" /\ kpc' = kpc /\ cppos' = pseq
  /\ UNCHANGED <<ring, cseq, done, plocked, clocked, pvars, cop, cn, view>>

\* Read's loop: copy what is there up to the end of the ring, or wait.
ReadHead ==
  /\ Consuming("head") /\ cop = "Read"
  /\ cppos' = pseq
  /\ IF cseq < pseq
     THEN cpc' = "copy" /\ view' = Min2(Min2(cn, BufLen), Size - Slot(cseq))
     ELSE cpc' = "relock" /\ view' = view
  /\ UNCHANGED <<ring, cseq, done, plocked, clocked, pvars, cop, cn, kpc>>

DataLock ==
  /\ Consuming("lock") /\ ~clocked
  /\ clocked' = TRUE /\ cpc' = "test"
  /\ UNCHANGED <<ring, cseq, done, plocked, pvars, cop, cn, cppos, view, kpc>>

\* Variant: Read's wait loop tests the value loaded before the lock.
DataRelockStale ==
  /\ Consuming("relock") /\ ~clocked
  /\ clocked' = TRUE /\ cpc' = "test"
  /\ UNCHANGED <<ring, cseq, done, plocked, pvars, cop, cn, cppos, view, kpc>>

\* Under the mutex, Read (at once) and everybody (after a wake-up) reload pseq.
DataRelock ==
  /\ Consuming("relock") /\ ~clocked
  /\ clocked' = TRUE /\ cpc' = "test" /\ cppos' = pseq
  /\ UNCHANGED <<ring, cseq, done, plocked, pvars, cop, cn, view, kpc>>

Need == IF cop = "ReadWait" THEN cn ELSE 1

NoData == cseq + Need > cppos

DataTest ==
  /\ Consuming("test")
  /\ IF NoData
     THEN cpc' = "isDone" /\ UNCHANGED <<clocked, view>>
     ELSE /\ clocked' = FALSE
          /\ IF cop = "Read"
             THEN cpc' = "head" /\ view' = 0
             ELSE cpc' = "view" /\ view' = Min2(cn, cppos - cseq)
  /\ UNCHANGED <<ring, cseq, done, plocked, pvars, cop, cn, cppos, kpc>>

\* The return inside the wait loop leaves ccond.L locked.
DataIsDone ==
  /\ Consuming("isDone")
  /\ IF ~done THEN cpc' = "wait" /\ kpc' = kpc
     ELSE /\ cpc' = "eof"
          /\ IF cop = "WriteTo" THEN StartClose("consumer") ELSE kpc' = kpc
  /\ UNCHANGED <<ring, cseq, done, plocked, clocked, pvars, cop, cn, cppos, view>>

DataWait ==
  /\ Consuming("wait")
  /\ cpc' = "parked" /\ clocked' = FALSE
  /\ UNCHANGED <<ring, cseq, done, plocked, pvars, cop, cn, cppos, view, kpc>>

\* cseq.set, in Read after the copy and in ReadCommit.
Release(n) ==
  /\ cseq' = cseq + n /\ view' = 0 /\ cpc' = "signal"
  /\ UNCHANGED <<ring, done, plocked, clocked, pvars, cop, cn, cppos, kpc>>

ReadCopied == Consuming("copy") /\ Release(view)

\* Variant: ReadCommit does not look at the producer's cursor.
AvailableUnchecked(n) == TRUE

\* ReadCommit(n) refuses to pass the producer (and then changes nothing).
Available(n) == cseq + n <= pseq

CallReadCommit(n) ==
  /\ Consuming("view") /\ cop # "WriteTo"
  /\ Available(n)
  /\ Release(n)

\* WriteTo hands the slice to the connection and commits what was written.
WriteToCommit == Consuming("view") /\ cop = "WriteTo" /\ Available(view) /\ Release(view)

WriteToError ==
  /\ Consuming("view") /\ cop = "WriteTo"
  /\ cpc' = "eof" /\ view' = 0 /\ StartClose("consumer")
  /\ UNCHANGED <<ring, cseq, done, plocked, clocked, pvars, cop, cn, cppos>>

SignalProducer ==
  /\ Consuming("signal") /\ ~plocked
  /\ WakeProducer
  /\ cpc' = IF cop = "WriteTo" THEN "head" ELSE "idle"
  /\ UNCHANGED <<ring, cseq, done, plocked, clocked, pop, pstage, pn, cop, cn, cppos, view, kpc>>

ConsumerInternal ==
  \/ WriteToHead \/ ReadHead \/ DataLock \/ DataRelock \/ DataTest
  \/ DataIsDone \/ DataWait \/ ReadCopied \/ WriteToCommit \/ SignalProducer

-----------------------------------------------------------------------------
(* Every operation, by any client that keeps to one producer and one consumer. *)

Producer ==
  \/ ProducerInternal
  \/ CallReadFrom \/ ReadError \/ RingCopy
  \/ \E n \in 1..Size+1 : CallWrite(n) \/ CallWriteWait(n)
  \/ \E m \in 1..Size : Fill(m) \/ WrapToWrite(m)

Consumer ==
  \/ ConsumerInternal
  \/ CallWriteTo \/ WriteToError
  \/ \E n \in 1..Size :
       CallReadPeek(n) \/ CallReadWait(n) \/ CallRead(n) \/ CallReadCommit(n)

Next ==
  \/ Producer
  \/ Consumer
  \/ \E t \in Closers : CallClose(t)
  \/ \E t \in Threads : CloseStep(t)

Spec == Init /\ [][Next]_vars

-----------------------------------------------------------------------------
ProducerPCs == {"idle", "space", "lock", "test", "isDone", "wait", "parked",
                "fill", "set", "signal"}
ConsumerPCs == {"idle", "head", "lock", "relock", "test", "isDone", "wait",
                "parked", "view", "copy", "signal", "eof"}

\* Types of the state of one buffer and its two goroutines.
TypeOK ==
  /\ buf \in [0..Size-1 -> Nat \cup {Blank}]
  /\ src \in Nat /\ pseq \in Nat /\ gate \in Nat /\ cseq \in Nat
  /\ done \in BOOLEAN /\ plocked \in BOOLEAN /\ clocked \in BOOLEAN
  /\ ppc \in ProducerPCs
  /\ pop \in {"none", "ReadFrom", "Write", "WriteWait"}
  /\ pstage \in {"reserve", "commit"}
  /\ pn \in Nat
  /\ cpc \in ConsumerPCs
  /\ cop \in {"none", "ReadPeek", "ReadWait", "Read", "WriteTo"}
  /\ cn \in Nat /\ cppos \in Nat /\ view \in Nat
  /\ kpc \in [Threads -> {"none", "mark", "pcond", "ccond"}]

\* The positions waitForWriteSpace has handed to the producer's copy.
Reserved == IF ppc \in {"fill", "set"} THEN pseq..(pseq + pn - 1) ELSE {}

(* While the producer fills the slice waitForWriteSpace gave it, no slot of *)
(* that slice holds a byte the consumer has not released: the stale cached  *)
(* cursor (gate) may make the producer wait, never overrun the reader.      *)
NoOverwrite ==
  \A i \in Reserved, j \in cseq..(pseq - 1) : Slot(i) # Slot(j)

(* The committed bytes are the source's bytes, each once and in order, and  *)
(* the slice ReadPeek, ReadWait or Read works on lies within them: it stays *)
(* valid, without copying, until the consumer commits.                      *)
InOrder ==
  /\ \A j \in cseq..(pseq - 1) : buf[Slot(j)] = j
  /\ cseq + view <= pseq

(* A parked goroutine whose condition has come true has a wake-up coming:   *)
(* for the producer in waitForWriteSpace (room, or Close), and for the      *)
(* consumer in Read, whose loop reloads pseq under ccond.L.                 *)
NoLostWakeup ==
  /\ ppc = "parked" /\ ~NoRoom => cpc = "signal"
  /\ ppc = "parked" /\ done => \E t \in Threads : kpc[t] = "pcond"
  /\ cpc = "parked" /\ cop = "Read" /\ cseq < pseq => ppc = "signal"
=============================================================================
