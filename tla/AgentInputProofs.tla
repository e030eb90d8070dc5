-------------------------- MODULE AgentInputProofs --------------------------
(***************************************************************************)
(* The receiver and the processor use the buffer as it wants to be used,   *)
(* so all that is proved of the buffer holds in the agent; requests are    *)
(* executed in their frames, each once; and when they leave a block of     *)
(* room the two goroutines never wait for each other.                      *)
(***************************************************************************)
EXTENDS AgentInput, BufferProofs, SequenceTheorems

-----------------------------------------------------------------------------
(* The agent's steps are steps of the buffer.                               *)

\* What the processor peeks for and commits fits into the ring.
WantFits ==
  /\ requests \in Seq([at : Nat, len : FrameLens]) /\ sent \in Nat
  /\ want \in 0..Size
  /\ apc \in {"size", "body", "commit"} => want >= 1

LEMMA Requests ==
  ASSUME WantFits
  PROVE  /\ Len(requests) \in Nat /\ DOMAIN requests = 1..Len(requests)
         /\ \A k \in 1..Len(requests) :
              requests[k].at \in Nat /\ requests[k].len \in FrameLens
<1>1. requests \in Seq([at : Nat, len : FrameLens])
  BY DEF WantFits
<1>2. \A k \in 1..Len(requests) : requests[k] \in [at : Nat, len : FrameLens]
  BY <1>1, ElementOfSeq
<1> QED
  BY <1>1, <1>2

LEMMA AnnouncedLengths ==
  ASSUME WantFits, NEW total \in Announced
  PROVE  total \in FrameLens /\ total \in Nat /\ total >= 2 /\ total >= Hdr
<1>1. PICK k \in DOMAIN requests : total = requests[k].len
  BY DEF Announced
<1>2. total \in FrameLens
  BY <1>1, Requests
<1> QED
  BY <1>2, FrameAssumption, SizeAssumption

LEMMA WantInit == AgentInit => WantFits
  BY SizeAssumption DEF AgentInit, WantFits

LEMMA SendTypes ==
  ASSUME WantFits, SendRequest
  PROVE  /\ requests' \in Seq([at : Nat, len : FrameLens])
         /\ Len(requests') = Len(requests) + 1 /\ sent' \in Nat
<1>1. PICK f \in FrameLens : /\ requests' = Append(requests, [at |-> sent, len |-> f])
                             /\ sent' = sent + f
  BY DEF SendRequest
<1> QED
  BY <1>1, FrameAssumption DEF WantFits

LEMMA WantStep == WantFits /\ [AgentNext]_allvars => WantFits'
<1> SUFFICES ASSUME WantFits, [AgentNext]_allvars PROVE WantFits'
  OBVIOUS
<1>1. CASE PeekHeader
  BY <1>1, SizeAssumption, FrameAssumption DEF PeekHeader, Peek, WantFits
<1>2. CASE PeekMoreHeader
  BY <1>2, SizeAssumption, FrameAssumption DEF PeekMoreHeader, Peek, WantFits
<1>3. CASE PeekBody
  <2>1. PICK total \in Announced : total <= Size /\ want' = total
    BY <1>3 DEF PeekBody, Peek
  <2> QED
    BY <1>3, <2>1, AnnouncedLengths, SizeAssumption DEF PeekBody, WantFits
<1>4. CASE TooLarge \/ PeekEOF \/ Execute \/ Commit
  BY <1>4 DEF TooLarge, PeekEOF, Stop, Execute, Commit, WantFits
<1>5. CASE SendRequest
  BY <1>5, SendTypes DEF SendRequest, WantFits
<1>8. CASE ConnBreaks
  BY <1>8 DEF ConnBreaks, WantFits
<1>6. CASE Receiver
  BY <1>6 DEF Receiver, ReceiverStart, ReceiverReturn, ReceiveError, Receive, avars,
              WantFits
<1>7. CASE UNCHANGED avars
  BY <1>7 DEF avars, WantFits
<1> QED
  BY <1>1, <1>2, <1>3, <1>4, <1>5, <1>6, <1>7, <1>8
     DEF AgentNext, Processor, allvars

LEMMA WantInvariant == AgentSpec => []WantFits
  BY WantInit, WantStep, PTL DEF AgentSpec

LEMMA ReceiverIsProducer == Receiver => [Next]_vars
<1> SUFFICES ASSUME Receiver PROVE Next \/ UNCHANGED vars
  BY DEF vars
<1>1. CASE ReceiverStart
  BY <1>1 DEF ReceiverStart, Next, Producer
<1>2. CASE ReceiverReturn
  BY <1>2 DEF ReceiverReturn
<1>3. CASE ReceiveError
  BY <1>3 DEF ReceiveError, Next, Producer
<1>4. ASSUME NEW m \in 1..Size, Receive(m) PROVE Next
  BY <1>4 DEF Receive, Next, Producer
<1>5. CASE ProducerInternal \/ CloseStep("producer")
  BY <1>5 DEF Next, Producer, Threads
<1> QED
  BY <1>1, <1>2, <1>3, <1>4, <1>5 DEF Receiver

LEMMA PeekIsRead == ASSUME NEW n \in 1..Size, Peek(n) PROVE Next
  BY DEF Peek, Next, Consumer

LEMMA ProcessorIsConsumer == WantFits /\ Processor => [Next]_vars
<1> SUFFICES ASSUME WantFits, Processor PROVE Next \/ UNCHANGED vars
  BY DEF vars
<1>1. CASE PeekHeader
  <2>1. 2 \in 1..Size
    BY SizeAssumption, FrameAssumption
  <2> QED
    BY <1>1, <2>1, PeekIsRead DEF PeekHeader
<1>2. CASE PeekMoreHeader
  <2>1. want + 1 \in 1..Size
    BY <1>2, SizeAssumption, FrameAssumption DEF PeekMoreHeader, WantFits
  <2> QED
    BY <1>2, <2>1, PeekIsRead DEF PeekMoreHeader
<1>3. CASE PeekBody
  <2>1. PICK total \in Announced : total <= Size /\ Peek(total)
    BY <1>3 DEF PeekBody
  <2>2. total \in 1..Size
    BY <2>1, AnnouncedLengths, SizeAssumption
  <2> QED
    BY <2>1, <2>2, PeekIsRead
<1>4. CASE TooLarge \/ PeekEOF \/ Execute
  BY <1>4 DEF TooLarge, PeekEOF, Stop, Execute
<1>5. CASE Commit
  <2>1. want \in 1..Size /\ CallReadCommit(want)
    BY <1>5, SizeAssumption DEF Commit, WantFits
  <2> QED
    BY <2>1 DEF Next, Consumer
<1>6. CASE ConsumerInternal
  BY <1>6 DEF Next, Consumer
<1> QED
  BY <1>1, <1>2, <1>3, <1>4, <1>5, <1>6 DEF Processor

(* The agent's inbound path is a buffer in use: one producer, one consumer, *)
(* calls whose arguments the buffer accepts.                                *)
THEOREM AgentImplementsBuffer == AgentSpec => Spec
<1>1. AgentInit => Init
  BY DEF AgentInit
<1>2. WantFits /\ [AgentNext]_allvars => [Next]_vars
  <2> SUFFICES ASSUME WantFits, [AgentNext]_allvars PROVE [Next]_vars
    OBVIOUS
  <2>1. CASE SendRequest \/ ConnBreaks
    BY <2>1 DEF SendRequest, ConnBreaks
  <2>2. CASE UNCHANGED allvars
    BY <2>2 DEF allvars
  <2> QED
    BY <2>1, <2>2, ReceiverIsProducer, ProcessorIsConsumer DEF AgentNext
<1> QED
  BY <1>1, <1>2, WantInvariant, PTL DEF AgentSpec, Spec

-----------------------------------------------------------------------------
(* Receiver and processor do not wait for each other.                       *)

\* The receiver asks for a block; the processor waits for what it wants.
WaitsFor ==
  /\ ppc # "idle" => pop = "ReadFrom"
  /\ ppc # "idle" /\ pstage = "reserve" => pn = Block
  /\ cop \in {"none", "ReadWait"} /\ cpc \notin {"head", "copy"}
  /\ cpc \in {"lock", "relock", "test", "isDone", "wait", "parked"} =>
       cop = "ReadWait" /\ cn = want

\* No request asks the processor to wait for more than the receiver leaves.
WantLeavesRoom == want <= Size - Block + 1

LEMMA WaitsForInit == AgentInit => WaitsFor
  BY DEF AgentInit, Init, WaitsFor

LEMMA WaitsForStep == WaitsFor /\ [AgentNext]_allvars => WaitsFor'
<1> SUFFICES ASSUME WaitsFor, [AgentNext]_allvars PROVE WaitsFor'
  OBVIOUS
<1> USE DEF WaitsFor, ring, pvars, cvars, avars, vars
<1>1. CASE SendRequest \/ ConnBreaks \/ UNCHANGED allvars
  BY <1>1 DEF SendRequest, ConnBreaks, allvars
<1>2. CASE ReceiverStart \/ ReceiverReturn
  BY <1>2 DEF ReceiverStart, CallReadFrom, ProducerCall, ReceiverReturn
<1>3. CASE ReceiveError
  BY <1>3 DEF ReceiveError, ReadError
<1>4. ASSUME NEW m \in 1..Size, Receive(m) PROVE WaitsFor'
  BY <1>4 DEF Receive, Fill, Producing
<1>5. CASE (ProducerInternal \/ CloseStep("producer")) /\ UNCHANGED avars
  <2>1. CASE WaitForWriteSpace
    BY <1>5, <2>1 DEF WaitForWriteSpace, Producing, ProducerEOF, Granted
  <2>2. CASE SpaceLock \/ SpaceIsDone \/ SpaceWait
    BY <1>5, <2>2 DEF SpaceLock, SpaceIsDone, SpaceWait, Producing, ProducerEOF
  <2>3. CASE SpaceTest
    BY <1>5, <2>3 DEF SpaceTest, Producing, Granted
  <2>4. CASE Publish
    BY <1>5, <2>4 DEF Publish, Producing
  <2>5. CASE SignalConsumer
    BY <1>5, <2>5 DEF SignalConsumer, Producing, WakeConsumer
  <2>6. CASE CloseStep("producer")
    BY <1>5, <2>6 DEF CloseStep, CloseMark, ClosePcond, CloseCcond, WakeProducer,
                      WakeConsumer
  <2> QED
    BY <1>5, <2>1, <2>2, <2>3, <2>4, <2>5, <2>6 DEF ProducerInternal
<1>6. CASE PeekHeader \/ PeekMoreHeader \/ PeekBody
  BY <1>6 DEF PeekHeader, PeekMoreHeader, PeekBody, Peek, CallReadWait, PeekCall
<1>7. CASE TooLarge \/ PeekEOF \/ Execute
  BY <1>7 DEF TooLarge, PeekEOF, Stop, Execute
<1>8. CASE Commit
  BY <1>8 DEF Commit, CallReadCommit, Release
<1>9. CASE ConsumerInternal /\ UNCHANGED avars
  <2>1. CASE WriteToHead \/ ReadHead
    BY <1>9, <2>1 DEF WriteToHead, ReadHead, Consuming
  <2>2. CASE DataLock \/ DataRelock \/ DataWait
    BY <1>9, <2>2 DEF DataLock, DataRelock, DataWait, Consuming
  <2>3. CASE DataTest \/ DataIsDone
    BY <1>9, <2>3 DEF DataTest, DataIsDone, Consuming
  <2>4. CASE ReadCopied \/ WriteToCommit
    BY <1>9, <2>4 DEF ReadCopied, WriteToCommit, Release, Consuming
  <2>5. CASE SignalProducer
    BY <1>9, <2>5 DEF SignalProducer, WakeProducer, Consuming
  <2> QED
    BY <1>9, <2>1, <2>2, <2>3, <2>4, <2>5 DEF ConsumerInternal
<1> QED
  BY <1>1, <1>2, <1>3, <1>4, <1>5, <1>6, <1>7, <1>8, <1>9
     DEF AgentNext, Receiver, Processor

(* Only the receiver closes the buffer, when it has left ReadFrom for good, *)
(* so that it never finds the buffer closed; and the processor leaves       *)
(* ReadWait empty-handed only when the buffer is closed.                    *)
ClosedByReceiver ==
  /\ done \/ kpc["producer"] # "none" => ppc = "idle" /\ rpc # "start"
  /\ ppc # "idle" => rpc # "start"
  /\ plocked => ppc \in {"test", "isDone", "wait"}
  /\ cpc = "eof" => done

LEMMA ClosedInit == AgentInit => ClosedByReceiver
  BY DEF AgentInit, Init, ClosedByReceiver, Threads

LEMMA ClosedStep ==
  IInv /\ WaitsFor /\ ClosedByReceiver /\ [AgentNext]_allvars => ClosedByReceiver'
<1> SUFFICES ASSUME IInv, WaitsFor, ClosedByReceiver, [AgentNext]_allvars
             PROVE  ClosedByReceiver'
  OBVIOUS
<1> USE DEF ClosedByReceiver, ring, pvars, cvars, avars, vars
<1>k. kpc \in [Threads -> {"none", "mark", "pcond", "ccond"}] /\ "producer" \in Threads
  BY DEF IInv, TypeOK, Threads
<1>1. CASE SendRequest \/ ConnBreaks \/ UNCHANGED allvars
  BY <1>1 DEF SendRequest, ConnBreaks, allvars
<1>2. CASE ReceiverStart \/ ReceiverReturn
  BY <1>2 DEF ReceiverStart, CallReadFrom, ProducerCall, ReceiverReturn, Producing
<1>3. CASE ReceiveError
  BY <1>3, <1>k DEF ReceiveError, ReadError, StartClose, Producing
<1>4. ASSUME NEW m \in 1..Size, Receive(m) PROVE ClosedByReceiver'
  BY <1>4 DEF Receive, Fill, Producing
<1>5. CASE (ProducerInternal \/ CloseStep("producer")) /\ UNCHANGED avars
  <2>1. CASE WaitForWriteSpace
    BY <1>5, <2>1 DEF WaitForWriteSpace, Producing, Granted
  <2>2. CASE SpaceLock \/ SpaceIsDone \/ SpaceWait
    BY <1>5, <2>2 DEF SpaceLock, SpaceIsDone, SpaceWait, Producing
  <2>3. CASE SpaceTest
    BY <1>5, <2>3 DEF SpaceTest, Producing, Granted
  <2>4. CASE Publish
    BY <1>5, <2>4 DEF Publish, Producing
  <2>5. CASE SignalConsumer
    BY <1>5, <2>5 DEF SignalConsumer, Producing, WakeConsumer
  <2>6. CASE CloseStep("producer")
    BY <1>5, <1>k, <2>6 DEF CloseStep, CloseMark, ClosePcond, CloseCcond, WakeProducer,
                            WakeConsumer
  <2> QED
    BY <1>5, <2>1, <2>2, <2>3, <2>4, <2>5, <2>6 DEF ProducerInternal
<1>6. CASE PeekHeader \/ PeekMoreHeader \/ PeekBody
  BY <1>6 DEF PeekHeader, PeekMoreHeader, PeekBody, Peek, CallReadWait, PeekCall
<1>7. CASE TooLarge \/ PeekEOF \/ Execute
  BY <1>7 DEF TooLarge, PeekEOF, Stop, Execute
<1>8. CASE Commit
  BY <1>8 DEF Commit, CallReadCommit, Release
<1>9. CASE ConsumerInternal /\ UNCHANGED avars
  <2>1. CASE WriteToHead \/ ReadHead \/ ReadCopied \/ WriteToCommit
    BY <2>1 DEF WriteToHead, ReadHead, ReadCopied, WriteToCommit, Consuming, WaitsFor
  <2>2. CASE DataLock \/ DataRelock \/ DataWait
    BY <1>9, <2>2 DEF DataLock, DataRelock, DataWait, Consuming
  <2>3. CASE DataTest \/ DataIsDone
    BY <1>9, <2>3 DEF DataTest, DataIsDone, Consuming, WaitsFor
  <2>5. CASE SignalProducer
    BY <1>9, <2>5 DEF SignalProducer, WakeProducer, Consuming
  <2> QED
    BY <1>9, <2>1, <2>2, <2>3, <2>5 DEF ConsumerInternal
<1> QED
  BY <1>1, <1>2, <1>3, <1>4, <1>5, <1>6, <1>7, <1>8, <1>9
     DEF AgentNext, Receiver, Processor

LEMMA ClosedInvariant == AgentSpec => []ClosedByReceiver
<1>1. AgentSpec => []WaitsFor
  BY WaitsForInit, WaitsForStep, PTL DEF AgentSpec
<1>2. AgentSpec => []IInv
  BY AgentImplementsBuffer, Invariance, PTL
<1> QED
  BY <1>1, <1>2, ClosedInit, ClosedStep, PTL DEF AgentSpec

LEMMA RoomInit == AgentInit => WantLeavesRoom
  BY SizeAssumption DEF AgentInit, WantLeavesRoom

LEMMA RoomStep ==
  ASSUME FramesFit
  PROVE  WantFits /\ WantLeavesRoom /\ [AgentNext]_allvars => WantLeavesRoom'
<1> SUFFICES ASSUME WantFits, WantLeavesRoom, [AgentNext]_allvars PROVE WantLeavesRoom'
  OBVIOUS
<1>0. Hdr <= Size - Block + 1 /\ 2 <= Size - Block + 1
  <2>1. PICK f \in FrameLens : TRUE
    BY FrameAssumption
  <2> QED
    BY <2>1, FrameAssumption, SizeAssumption DEF FramesFit
<1>1. CASE PeekHeader
  BY <1>0, <1>1 DEF PeekHeader, Peek, WantLeavesRoom
<1>2. CASE PeekMoreHeader
  BY <1>0, <1>2, FrameAssumption, SizeAssumption
     DEF PeekMoreHeader, Peek, WantLeavesRoom, WantFits
<1>3. CASE PeekBody
  <2>1. PICK total \in Announced : want' = total
    BY <1>3 DEF PeekBody, Peek
  <2> QED
    BY <2>1, AnnouncedLengths DEF FramesFit, WantLeavesRoom
<1>4. CASE UNCHANGED want
  BY <1>4 DEF WantLeavesRoom
<1> QED
  BY <1>1, <1>2, <1>3, <1>4
     DEF AgentNext, Processor, TooLarge, PeekEOF, Stop, Execute, Commit, SendRequest,
         ConnBreaks, Receiver, ReceiverStart, ReceiverReturn, ReceiveError, Receive,
         avars, allvars

(* agent/buffer.go ReadFrom waits for a whole free block and sendrecv.go    *)
(* waits for a whole request in the same ring: they can never wait for each *)
(* other if no request is longer than the ring less a block, plus one byte. *)
(* Nor does one wait for a mutex with which the other returned.             *)
THEOREM ReceiverAndProcessorDoNotStall ==
  ASSUME FramesFit
  PROVE  AgentSpec => []NoStall
<1>1. AgentSpec => []WaitsFor
  BY WaitsForInit, WaitsForStep, PTL DEF AgentSpec
<1>2. WantFits /\ WantLeavesRoom /\ [AgentNext]_allvars => WantLeavesRoom'
  BY RoomStep
<1>3. AgentSpec => []WantLeavesRoom
  BY RoomInit, <1>2, WantInvariant, PTL DEF AgentSpec
<1>4. AgentSpec => []IInv
  BY AgentImplementsBuffer, Invariance, PTL
<1>5. IInv /\ WantFits /\ WaitsFor /\ WantLeavesRoom => NoSpaceStall
  <2> SUFFICES ASSUME IInv, WantFits, WaitsFor, WantLeavesRoom,
                      ppc = "parked", NoRoom, cpc = "parked", cseq + Need > pseq
               PROVE  FALSE
    BY DEF NoSpaceStall
  <2> USE DEF IInv, TypeOK
  <2>1. pseq + Uncommitted <= cseq + Size
    BY DEF CopyThenCommit, Cursors
  <2>2. pstage # "commit"
    BY <2>1, SizeAssumption DEF NoRoom, Uncommitted
  <2>3. Need = want
    BY DEF Need, WaitsFor
  <2>4. pn = Block
    BY <2>2 DEF WaitsFor
  <2>5. pseq + Block > cseq + Size /\ cseq + want > pseq
    BY <2>3, <2>4 DEF NoRoom
  <2> QED
    BY <2>5, SizeAssumption DEF WantLeavesRoom, WantFits
<1>6. ClosedByReceiver => NoLeftLock
  BY DEF ClosedByReceiver, NoLeftLock
<1> QED
  BY <1>1, <1>3, <1>4, <1>5, <1>6, WantInvariant, ClosedInvariant, PTL DEF NoStall

-----------------------------------------------------------------------------
(* Requests are executed in their frames.                                   *)

(* Where the requests are in the stream, and how far it has been received.  *)
Placed ==
  /\ \A k \in 1..Len(requests) : requests[k].at < sent
  /\ \A i, j \in 1..Len(requests) : i < j => requests[i].at < requests[j].at
  /\ Len(requests) > 0 =>
       requests[Len(requests)].at + requests[Len(requests)].len = sent
  /\ src <= sent

\* One request at most is not yet executed.
InTurn ==
  executed \in Nat /\ executed <= Len(requests) /\ Len(requests) <= executed + 1

\* Where the first request not yet executed begins, or will begin.
Begin == IF executed < Len(requests) THEN requests[executed + 1].at ELSE sent

(* The processor is at the beginning of a request, or commits the one it    *)
(* has just executed, of the length it has peeked for.                      *)
AtBegin ==
  /\ apc \in {"loop", "size", "body"} => cseq = Begin
  /\ apc = "body" => executed < Len(requests) /\ want = requests[executed + 1].len
  /\ apc = "commit" => cseq + want = Begin

\* The slice ReadWait hands out is the one asked for.
SliceIsWant == cpc = "view" => view = want

FrameInv == Placed /\ InTurn /\ AtBegin /\ SliceIsWant

LEMMA FrameInit == AgentInit => FrameInv
  BY DEF AgentInit, Init, FrameInv, Placed, InTurn, Begin, AtBegin, SliceIsWant

(* A slice of the consumer begins with the first request not yet executed,  *)
(* which has been sent.                                                     *)
LEMMA SliceBegins ==
  ASSUME IInv, WantFits, FrameInv, cpc = "view", apc \in {"size", "body"}
  PROVE  /\ executed < Len(requests) /\ cseq = requests[executed + 1].at
         /\ buf[Slot(cseq)] = cseq
<1>1. cseq < pseq /\ pseq <= src /\ cseq \in Nat /\ src \in Nat /\ pseq \in Nat
  BY DEF IInv, TypeOK, Cursors, SeenIsCommitted, FrameInv, SliceIsWant, WantFits
<1>2. buf[Slot(cseq)] = cseq
  BY <1>1 DEF IInv, Intact
<1>3. cseq = Begin /\ cseq < sent
  BY <1>1 DEF FrameInv, AtBegin, Placed, WantFits
<1> QED
  BY <1>2, <1>3 DEF Begin, WantFits

\* So the header announces the length of that request, and no other.
LEMMA AnnouncedIsNext ==
  ASSUME IInv, WantFits, FrameInv, cpc = "view", apc = "size",
         NEW total \in Announced
  PROVE  total = requests[executed + 1].len
<1>1. PICK k \in DOMAIN requests : total = requests[k].len /\ requests[k].at = cseq
  BY SliceBegins DEF Announced
<1>2. executed + 1 \in 1..Len(requests) /\ requests[executed + 1].at = cseq
  BY SliceBegins DEF FrameInv, InTurn, WantFits
<1>3. k \in 1..Len(requests)
  BY <1>1 DEF WantFits
<1>4. ~(k < executed + 1) /\ ~(executed + 1 < k)
  BY <1>1, <1>2, <1>3, Requests DEF FrameInv, Placed
<1>5. k = executed + 1
  BY <1>2, <1>3, <1>4, Requests
<1> QED
  BY <1>1, <1>5

LEMMA SendFrame ==
  ASSUME WantFits, FrameInv, SendRequest, IInv
  PROVE  FrameInv'
<1> USE DEF FrameInv, WantFits
<1>1. PICK f \in FrameLens : /\ requests' = Append(requests, [at |-> sent, len |-> f])
                             /\ sent' = sent + f
  BY DEF SendRequest
<1>2. f \in Nat /\ f >= 2
  BY <1>1, FrameAssumption, SizeAssumption
<1>3. /\ Len(requests) \in Nat /\ Len(requests') = Len(requests) + 1
      /\ \A k \in 1..Len(requests) : requests'[k] = requests[k]
      /\ requests'[Len(requests) + 1] = [at |-> sent, len |-> f]
  BY <1>1
<1>4. \A k \in 1..Len(requests) : requests[k].at \in Nat
  BY Requests
<1>5. executed = Len(requests) /\ executed' = executed /\ apc' = apc /\ want' = want
      /\ UNCHANGED <<src, cseq, cpc, view>>
  BY DEF SendRequest, OneOutstanding, vars, ring, pvars, cvars
<1>6. Placed'
  BY <1>1, <1>2, <1>3, <1>4, <1>5 DEF Placed, IInv, TypeOK
<1>7. InTurn'
  BY <1>3, <1>5 DEF InTurn
<1>8. Begin' = Begin
  BY <1>3, <1>5 DEF Begin
<1>9. AtBegin'
  BY <1>5, <1>8 DEF AtBegin
<1> QED
  BY <1>5, <1>6, <1>7, <1>9 DEF SliceIsWant

\* Steps that leave requests and processor alone.
LEMMA ElsewhereFrame ==
  ASSUME FrameInv, UNCHANGED <<requests, sent, executed, apc, want, src, cseq>>,
         cpc' = "view" => cpc = "view" /\ view' = view
  PROVE  FrameInv'
  BY DEF FrameInv, Placed, InTurn, Begin, AtBegin, SliceIsWant

LEMMA ReceiverFrame ==
  ASSUME FrameInv, Receiver
  PROVE  FrameInv'
<1> USE DEF ring, pvars, cvars, avars, vars
<1>1. CASE ReceiverStart \/ ReceiverReturn \/ ReceiveError
  BY <1>1, ElsewhereFrame DEF ReceiverStart, CallReadFrom, ProducerCall, ReceiverReturn,
                              ReceiveError, ReadError
<1>2. ASSUME NEW m \in 1..Size, Receive(m) PROVE FrameInv'
  <2>1. src' <= sent' /\ UNCHANGED <<requests, sent, executed, apc, want, cseq, cpc, view>>
    BY <1>2 DEF Receive, Fill, CopyIn
  <2> QED
    BY <2>1 DEF FrameInv, Placed, InTurn, Begin, AtBegin, SliceIsWant
<1>3. CASE (ProducerInternal \/ CloseStep("producer")) /\ UNCHANGED avars
  <2>1. CASE WaitForWriteSpace \/ SpaceLock \/ SpaceTest \/ SpaceIsDone \/ SpaceWait
    BY <1>3, <2>1, ElsewhereFrame
       DEF WaitForWriteSpace, SpaceLock, SpaceTest, SpaceIsDone, SpaceWait
  <2>2. CASE Publish
    BY <1>3, <2>2, ElsewhereFrame DEF Publish
  <2>3. CASE SignalConsumer
    BY <1>3, <2>3, ElsewhereFrame DEF SignalConsumer, WakeConsumer
  <2>4. CASE CloseStep("producer")
    BY <1>3, <2>4, ElsewhereFrame
       DEF CloseStep, CloseMark, ClosePcond, CloseCcond, WakeConsumer
  <2> QED
    BY <1>3, <2>1, <2>2, <2>3, <2>4 DEF ProducerInternal
<1> QED
  BY <1>1, <1>2, <1>3 DEF Receiver

LEMMA ProcessorFrame ==
  ASSUME IInv, WantFits, WaitsFor, FrameInv, Processor
  PROVE  FrameInv'
<1> USE DEF ring, pvars, cvars, avars, vars, Consuming
<1>1. CASE PeekHeader \/ PeekMoreHeader
  BY <1>1 DEF PeekHeader, PeekMoreHeader, Peek, CallReadWait, PeekCall, FrameInv,
              Placed, InTurn, Begin, AtBegin, SliceIsWant
<1>2. CASE PeekBody
  <2>1. PICK total \in Announced : Peek(total)
    BY <1>2 DEF PeekBody
  <2>2. cpc = "view" /\ apc = "size" /\ apc' = "body"
    BY <1>2 DEF PeekBody
  <2>3. executed < Len(requests) /\ total = requests[executed + 1].len
    BY <2>1, <2>2, SliceBegins, AnnouncedIsNext
  <2>4. /\ want' = total /\ cpc' = "lock"
        /\ UNCHANGED <<requests, sent, executed, src, cseq>>
    BY <1>2, <2>1 DEF PeekBody, Peek, CallReadWait, PeekCall
  <2> QED
    BY <2>2, <2>3, <2>4 DEF FrameInv, Placed, InTurn, Begin, AtBegin, SliceIsWant
<1>3. CASE TooLarge \/ PeekEOF
  BY <1>3 DEF TooLarge, PeekEOF, Stop, FrameInv, Placed, InTurn, Begin, AtBegin, SliceIsWant
<1>4. CASE Execute
  <2>1. cpc = "view" /\ apc = "body" /\ apc' = "commit" /\ executed' = executed + 1
        /\ UNCHANGED <<requests, sent, want, src, cseq, cpc, view>>
    BY <1>4 DEF Execute
  <2>2. executed < Len(requests) /\ cseq = requests[executed + 1].at
    BY <2>1, SliceBegins
  <2>3. executed + 1 = Len(requests) /\ want = requests[executed + 1].len
    BY <2>1, <2>2 DEF FrameInv, InTurn, AtBegin, WantFits
  <2>4. cseq + want = sent /\ Begin' = sent
    BY <2>1, <2>2, <2>3 DEF FrameInv, Placed, Begin, InTurn
  <2> QED
    BY <2>1, <2>3, <2>4 DEF FrameInv, Placed, InTurn, AtBegin, SliceIsWant, WantFits
<1>5. CASE Commit
  <2>1. /\ apc = "commit" /\ apc' = "loop" /\ cseq' = cseq + want /\ cpc' = "signal"
        /\ UNCHANGED <<requests, sent, executed, want, src>>
    BY <1>5 DEF Commit, CallReadCommit, Release
  <2> QED
    BY <2>1 DEF FrameInv, Placed, InTurn, Begin, AtBegin, SliceIsWant
<1>6. CASE ConsumerInternal /\ UNCHANGED avars
  <2>1. CASE WriteToHead \/ ReadHead \/ ReadCopied \/ WriteToCommit
    BY <2>1 DEF WriteToHead, ReadHead, ReadCopied, WriteToCommit, WaitsFor
  <2>2. CASE DataTest
    <3>1. CASE NoData
      BY <1>6, <2>2, <3>1, ElsewhereFrame DEF DataTest
    <3>2. CASE ~NoData
      <4>1. cop = "ReadWait" /\ cn = want /\ cseq + cn <= cppos
        BY <2>2, <3>2 DEF DataTest, WaitsFor, NoData, Need, IInv, TypeOK
      <4>2. view' = want
        BY <2>2, <3>2, <4>1 DEF DataTest, Min2, IInv, TypeOK
      <4> QED
        BY <1>6, <2>2, <3>2, <4>2
           DEF DataTest, FrameInv, Placed, InTurn, Begin, AtBegin, SliceIsWant
    <3> QED
      BY <3>1, <3>2
  <2>3. CASE DataLock \/ DataRelock \/ DataIsDone \/ DataWait
    BY <1>6, <2>3, ElsewhereFrame DEF DataLock, DataRelock, DataIsDone, DataWait
  <2>4. CASE SignalProducer
    BY <1>6, <2>4, ElsewhereFrame DEF SignalProducer
  <2> QED
    BY <1>6, <2>1, <2>2, <2>3, <2>4 DEF ConsumerInternal
<1> QED
  BY <1>1, <1>2, <1>3, <1>4, <1>5, <1>6 DEF Processor

LEMMA FrameStep ==
  IInv /\ WantFits /\ WaitsFor /\ FrameInv /\ [AgentNext]_allvars => FrameInv'
<1> SUFFICES ASSUME IInv, WantFits, WaitsFor, FrameInv, [AgentNext]_allvars PROVE FrameInv'
  OBVIOUS
<1>1. CASE ConnBreaks \/ UNCHANGED allvars
  BY <1>1, ElsewhereFrame DEF ConnBreaks, allvars, vars, ring, cvars, avars
<1> QED
  BY <1>1, SendFrame, ReceiverFrame, ProcessorFrame DEF AgentNext

LEMMA FrameInvariant == AgentSpec => []FrameInv
<1>1. AgentSpec => []WaitsFor
  BY WaitsForInit, WaitsForStep, PTL DEF AgentSpec
<1>2. AgentSpec => []IInv
  BY AgentImplementsBuffer, Invariance, PTL
<1> QED
  BY <1>1, <1>2, FrameInit, FrameStep, WantInvariant, PTL DEF AgentSpec

(* The processor returns at the end of the input, or at a request that does *)
(* not fit the ring; the connection is closed then, and nothing more sent.  *)
StopsForCause ==
  apc = "stopped" =>
    /\ ~connUp
    /\ done \/ (executed < Len(requests) /\ requests[executed + 1].len > Size)

LEMMA StopInit == AgentInit => StopsForCause
  BY DEF AgentInit, StopsForCause

LEMMA StopStep ==
  IInv /\ WantFits /\ FrameInv /\ ClosedByReceiver /\ StopsForCause
    /\ [AgentNext]_allvars => StopsForCause'
<1> SUFFICES ASSUME IInv, WantFits, FrameInv, ClosedByReceiver, StopsForCause,
                    [AgentNext]_allvars
             PROVE  StopsForCause'
  OBVIOUS
<1> USE DEF StopsForCause, ring, pvars, cvars, avars, vars
<1>1. CASE SendRequest \/ ConnBreaks \/ UNCHANGED allvars
  BY <1>1 DEF SendRequest, ConnBreaks, allvars
<1>2. CASE Receiver
  <2>1. UNCHANGED <<connUp, apc, executed, requests>>
    BY <1>2 DEF Receiver, ReceiverStart, ReceiverReturn, ReceiveError, Receive
  <2>2. done => done'
    BY <1>2 DEF Receiver, ReceiverStart, ReceiverReturn, ReceiveError, Receive,
                CallReadFrom, ProducerCall, ReadError, Fill, ProducerInternal,
                WaitForWriteSpace, SpaceLock, SpaceTest, SpaceIsDone, SpaceWait,
                Publish, SignalConsumer, CloseStep, CloseMark, ClosePcond, CloseCcond
  <2> QED
    BY <2>1, <2>2
<1>3. CASE TooLarge
  <2>1. PICK total \in Announced : total > Size
    BY <1>3 DEF TooLarge
  <2>2. cpc = "view" /\ apc = "size"
    BY <1>3 DEF TooLarge, Consuming
  <2>3. executed < Len(requests) /\ total = requests[executed + 1].len
    BY <2>2, SliceBegins, AnnouncedIsNext
  <2> QED
    BY <1>3, <2>1, <2>3 DEF TooLarge, Stop
<1>4. CASE PeekEOF
  BY <1>4 DEF PeekEOF, Stop, Consuming, ClosedByReceiver
<1>5. CASE PeekHeader \/ PeekMoreHeader \/ PeekBody \/ Execute \/ Commit
  BY <1>5 DEF PeekHeader, PeekMoreHeader, PeekBody, Execute, Commit
<1>6. CASE ConsumerInternal /\ UNCHANGED avars
  <2>1. done' = done
    BY <1>6 DEF ConsumerInternal, WriteToHead, ReadHead, DataLock, DataRelock, DataTest,
                DataIsDone, DataWait, ReadCopied, WriteToCommit, Release, SignalProducer
  <2> QED
    BY <1>6, <2>1
<1> QED
  BY <1>1, <1>2, <1>3, <1>4, <1>5, <1>6 DEF AgentNext, Processor

LEMMA StopInvariant == AgentSpec => []StopsForCause
<1>1. AgentSpec => []IInv
  BY AgentImplementsBuffer, Invariance, PTL
<1> QED
  BY <1>1, StopInit, StopStep, WantInvariant, FrameInvariant, ClosedInvariant, PTL
     DEF AgentSpec

(* agent/sendrecv.go peekMessageSize finds the header of the next request   *)
(* at the head of the buffer, however the bytes arrive; peekMessage takes   *)
(* that request and nothing else, and process.go commits what was executed; *)
(* it returns at the end of the input or at a request longer than the ring. *)
THEOREM RequestsKeepTheirFrames == AgentSpec => []Framed
<1>1. AgentSpec => []IInv
  BY AgentImplementsBuffer, Invariance, PTL
<1>2. IInv /\ WantFits /\ FrameInv /\ StopsForCause => Framed
  <2> SUFFICES ASSUME IInv, WantFits, FrameInv, StopsForCause PROVE Framed
    OBVIOUS
  <2>1. ASSUME apc = "body", cpc = "view", NEW k \in 0..view-1
        PROVE  buf[Slot(cseq + k)] = cseq + k
    <3>1. cseq + k \in cseq..(src - 1)
      BY <2>1 DEF IInv, TypeOK, Cursors, SeenIsCommitted
    <3> QED
      BY <3>1 DEF IInv, Intact
  <2> QED
    BY <2>1, SliceBegins DEF Framed, FrameInv, InTurn, AtBegin, SliceIsWant, StopsForCause
<1> QED
  BY <1>1, <1>2, FrameInvariant, StopInvariant, WantInvariant, PTL

(* The types of what receiver and processor keep beside the buffer.         *)
THEOREM AgentTypeCorrect == AgentSpec => []AgentTypeOK
<1>1. AgentInit => AgentTypeOK
  BY FrameAssumption, SizeAssumption DEF AgentInit, AgentTypeOK
<1>2. AgentTypeOK /\ WantFits' /\ FrameInv /\ FrameInv' /\ [AgentNext]_allvars => AgentTypeOK'
  <2> SUFFICES ASSUME AgentTypeOK, WantFits', FrameInv, FrameInv', [AgentNext]_allvars
               PROVE  AgentTypeOK'
    OBVIOUS
  <2> USE DEF AgentTypeOK
  <2>1. requests' \in Seq([at : Nat, len : FrameLens]) /\ sent' \in Nat /\ want' \in Nat
    BY SizeAssumption DEF WantFits
  <2>2. Len(requests') <= MaxReqs
    <3>1. CASE SendRequest
      <4>1. PICK r : requests' = Append(requests, r)
        BY <3>1 DEF SendRequest
      <4> QED
        BY <3>1, <4>1, FrameAssumption DEF SendRequest
    <3>2. CASE UNCHANGED requests
      BY <3>2
    <3> QED
      BY <3>1, <3>2
         DEF AgentNext, allvars, avars, ConnBreaks, Receiver, ReceiverStart, ReceiverReturn,
             ReceiveError, Receive, Processor, PeekHeader, PeekMoreHeader, PeekBody,
             TooLarge, PeekEOF, Stop, Execute, Commit
  <2>3. executed' \in 0..MaxReqs
    BY <2>1, <2>2, FrameAssumption DEF FrameInv, InTurn
  <2>4. /\ connUp' \in BOOLEAN /\ rpc' \in {"start", "reading", "stopped"}
        /\ apc' \in {"loop", "size", "body", "commit", "stopped"}
    BY DEF AgentNext, allvars, avars, SendRequest, ConnBreaks, Receiver, ReceiverStart,
           ReceiverReturn, ReceiveError, Receive, Processor, PeekHeader, PeekMoreHeader,
           PeekBody, TooLarge, PeekEOF, Stop, Execute, Commit
  <2> QED
    BY <2>1, <2>2, <2>3, <2>4
<1> QED
  BY <1>1, <1>2, FrameInvariant, WantInvariant, PTL DEF AgentSpec

=============================================================================
