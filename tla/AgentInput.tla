----------------------------- MODULE AgentInput -----------------------------
(***************************************************************************)
(* The agent's inbound path: the receiver goroutine copies the master's    *)
(* connection into the buffer "in" (ReadFrom) while the processor peeks    *)
(* one framed request at a time (ReadWait), executes it, replies, and only *)
(* then commits its bytes (ReadCommit).  The master keeps one request      *)
(* outstanding per connection: client.mu is held until the reply is read.  *)
(***************************************************************************)
EXTENDS Buffer, Sequences

CONSTANTS
  Hdr,        \* header.msglen(): bytes of a header
  MaxReqs,    \* bound of the model: requests the master ever sends
  FrameLens   \* lengths, header included, a request may have

ASSUME FrameAssumption ==
  /\ Hdr \in 2..Size
  /\ MaxReqs \in Nat
  /\ FrameLens # {} /\ FrameLens \subseteq Nat
  /\ \A f \in FrameLens : f >= Hdr

VARIABLES
  requests,  \* those sent: the byte each begins at, and its length
  sent,      \* bytes of requests on the connection so far
  executed,  \* requests executed and answered
  connUp,    \* neither end has closed the connection
  rpc,       \* where the receiver is
  apc,       \* where the processor is
  want       \* bytes the processor is peeking for

avars == <<requests, sent, executed, connUp, rpc, apc, want>>
allvars == <<vars, avars>>

AgentInit ==
  /\ Init
  /\ requests = <<>> /\ sent = 0 /\ executed = 0 /\ connUp = TRUE
  /\ rpc = "start" /\ apc = "loop" /\ want = 0

-----------------------------------------------------------------------------
(* The master's side of the connection (external to the agent).            *)

OneOutstanding == Len(requests) = executed

SendRequest ==
  /\ connUp /\ OneOutstanding /\ Len(requests) < MaxReqs
  /\ \E f \in FrameLens :
       /\ requests' = Append(requests, [at |-> sent, len |-> f])
       /\ sent' = sent + f
  /\ UNCHANGED <<vars, executed, connUp, rpc, apc, want>>

ConnBreaks ==
  /\ connUp /\ connUp' = FALSE
  /\ UNCHANGED <<vars, requests, sent, executed, rpc, apc, want>>

-----------------------------------------------------------------------------
(* receiver: ReadFrom until it returns, which it does with an error.       *)

ReceiverStart ==
  /\ rpc = "start" /\ rpc' = "reading"
  /\ CallReadFrom
  /\ UNCHANGED <<requests, sent, executed, connUp, apc, want>>

\* conn.Read returns some of the bytes that have been sent ...
Receive(m) ==
  /\ src + m <= sent
  /\ Fill(m)
  /\ UNCHANGED avars

\* ... or fails once the connection is gone.
ReceiveError == ~connUp /\ ReadError /\ UNCHANGED avars

ReceiverReturn ==
  /\ rpc = "reading" /\ Producing("idle") /\ rpc' = "stopped"
  /\ UNCHANGED <<vars, requests, sent, executed, connUp, apc, want>>

-----------------------------------------------------------------------------
(* processor: peekMessageSize, peekMessage, processIncoming, ReadCommit.   *)

Peek(n) == CallReadWait(n) /\ want' = n

PeekHeader ==
  /\ apc = "loop" /\ apc' = "size"
  /\ Peek(2)
  /\ UNCHANGED <<requests, sent, executed, connUp, rpc>>

PeekMoreHeader ==
  /\ apc = "size" /\ Consuming("view") /\ want < Hdr
  /\ Peek(want + 1)
  /\ UNCHANGED <<requests, sent, executed, connUp, rpc, apc>>

\* The lengths the peeked header may announce: that of the request it begins.
Announced ==
  {requests[k].len : k \in {i \in DOMAIN requests : requests[i].at = buf[Slot(cseq)]}}

\* Variant: the header is counted twice.
PeekBodyHeaderTwice ==
  /\ apc = "size" /\ Consuming("view") /\ want = Hdr
  /\ \E total \in Announced : total <= Size /\ Peek(total + Hdr)
  /\ apc' = "body"
  /\ UNCHANGED <<requests, sent, executed, connUp, rpc>>

PeekBody ==
  /\ apc = "size" /\ Consuming("view") /\ want = Hdr
  /\ \E total \in Announced : total <= Size /\ Peek(total)
  /\ apc' = "body"
  /\ UNCHANGED <<requests, sent, executed, connUp, rpc>>

\* The processor returns; its deferred Server.Close closes the connection.
Stop ==
  /\ apc' = "stopped" /\ connUp' = FALSE
  /\ UNCHANGED <<vars, requests, sent, executed, rpc, want>>

TooLarge ==
  /\ apc = "size" /\ Consuming("view") /\ want = Hdr
  /\ \E total \in Announced : total > Size
  /\ Stop

PeekEOF == apc \in {"size", "body"} /\ Consuming("eof") /\ Stop

\* processIncoming, up to and including the reply on the connection.
Execute ==
  /\ apc = "body" /\ Consuming("view")
  /\ apc' = "commit" /\ executed' = executed + 1
  /\ UNCHANGED <<vars, requests, sent, connUp, rpc, want>>

\* Variant: the request is not committed.
CommitForgotten ==
  /\ apc = "commit" /\ apc' = "loop"
  /\ UNCHANGED <<vars, requests, sent, executed, connUp, rpc, want>>

\* Variant: only the body is committed.
CommitBodyOnly ==
  /\ apc = "commit" /\ apc' = "loop"
  /\ CallReadCommit(want - 1)
  /\ UNCHANGED <<requests, sent, executed, connUp, rpc, want>>

Commit ==
  /\ apc = "commit" /\ apc' = "loop"
  /\ CallReadCommit(want)
  /\ UNCHANGED <<requests, sent, executed, connUp, rpc, want>>

Processor ==
  \/ PeekHeader \/ PeekMoreHeader \/ PeekBody \/ TooLarge \/ PeekEOF
  \/ Execute \/ Commit
  \/ ConsumerInternal /\ UNCHANGED avars

Receiver ==
  \/ ReceiverStart \/ ReceiverReturn \/ ReceiveError
  \/ \E m \in 1..Size : Receive(m)
  \/ (ProducerInternal \/ CloseStep("producer")) /\ UNCHANGED avars

AgentNext == SendRequest \/ ConnBreaks \/ Receiver \/ Processor

AgentSpec == AgentInit /\ [][AgentNext]_allvars

(* The two goroutines run when they can and sync.Mutex starves nobody; the  *)
(* master need not send and the connection need not break.                  *)
AgentFairness ==
  /\ WF_allvars(Receiver) /\ WF_allvars(Processor)
  /\ SF_allvars(SignalConsumer /\ UNCHANGED avars)
  /\ SF_allvars(SignalProducer /\ UNCHANGED avars)

FairAgentSpec == AgentSpec /\ AgentFairness

-----------------------------------------------------------------------------
\* Types of the agent's part of the state.
AgentTypeOK ==
  /\ requests \in Seq([at : Nat, len : FrameLens]) /\ Len(requests) <= MaxReqs
  /\ sent \in Nat /\ executed \in 0..MaxReqs
  /\ connUp \in BOOLEAN
  /\ rpc \in {"start", "reading", "stopped"}
  /\ apc \in {"loop", "size", "body", "commit", "stopped"}
  /\ want \in Nat

(* Framing: whenever the processor looks at the buffer, the slice it holds  *)
(* begins at the first byte of the first request not yet executed, and the  *)
(* request it executes is entirely in the slice, and nothing else.  A       *)
(* request is executed only if it was sent, and never twice.  The processor *)
(* returns, and its Close kills the children, only when the input is closed *)
(* or that request is longer than the ring.                                 *)
Framed ==
  /\ executed <= Len(requests)
  /\ apc \in {"size", "body"} /\ cpc = "view" =>
       executed < Len(requests) /\ buf[Slot(cseq)] = requests[executed + 1].at
  /\ apc = "body" /\ cpc = "view" =>
       /\ cseq = requests[executed + 1].at
       /\ view = requests[executed + 1].len
       /\ \A k \in 0..view-1 : buf[Slot(cseq + k)] = cseq + k
  /\ apc = "stopped" =>
       done \/ (executed < Len(requests) /\ requests[executed + 1].len > Size)

(* The receiver waits for a whole block of room and the processor for a     *)
(* whole request: they must never wait for each other.                      *)
NoSpaceStall ==
  ~(/\ ppc = "parked" /\ NoRoom
    /\ cpc = "parked" /\ cseq + Need > pseq)

(* The returns inside the wait loops leave a mutex locked.  Nobody waits for *)
(* it in the agent: when the processor has left ccond.L locked the receiver *)
(* signals no more, and it never leaves pcond.L locked, for its own Close.  *)
NoLeftLock ==
  /\ plocked => ppc # "idle" /\ kpc["producer"] = "none"
  /\ clocked /\ cpc = "eof" => ppc # "signal"

\* Receiver and processor never wait for each other.
NoStall == NoSpaceStall /\ NoLeftLock

\* The requests are short enough for that.
FramesFit == \A f \in FrameLens : f <= Size - Block + 1

\* Asleep although the bytes are there, and no signal on its way.
AsleepOnData == cpc = "parked" /\ cseq + Need <= pseq /\ ppc # "signal"

(* A request that arrives is executed while the connection lasts, unless    *)
(* ReadWait went to sleep on the value of pseq it loaded before it locked.  *)
ExecutedOrAsleep ==
  (executed < Len(requests)) ~> (executed = Len(requests) \/ ~connUp \/ AsleepOnData)

(* README: the agent executes the master's instructions.                    *)
RequestExecuted == (executed < Len(requests)) ~> (executed = Len(requests) \/ ~connUp)

\* The receiver waits for space that nobody will make.
WaitsForNobody == ppc = "parked" /\ NoRoom /\ (AsleepOnData \/ apc = "stopped")

(* A lost connection ends the receiver and closes the buffer, unless the    *)
(* receiver waits for space and the processor sleeps on a request, or has   *)
(* returned from one that is too large: Close does not close the buffer.    *)
ReceiverEnds == ~connUp ~> ((rpc = "stopped" /\ done) \/ WaitsForNobody)

(* ... and ends the processor, whose deferred call is the agent's Close.    *)
ProcessorEnds == ~connUp ~> apc = "stopped"
=============================================================================
