----------------------------- MODULE ClientCall -----------------------------
(***************************************************************************)
(* The master's calls to one agent.  StartProcess, StopProcess and         *)
(* QueryProcess of master/client.go are one shape: take client.mu, write   *)
(* the request to the connection, read the reply from it, give mu back.    *)
(* HTTP handlers make them, at the same time if they like.  The agent's    *)
(* processor executes what arrives, one request after the other, and       *)
(* answers on the same connection; client.close may take the connection    *)
(* away under a caller.  Nothing on either side sets a deadline.           *)
(***************************************************************************)
EXTENDS Naturals, Sequences, FiniteSets

CONSTANTS
  Callers,   \* HTTP handlers; a request is known by its caller and number
  MaxCalls,  \* bound of the model: calls each of them makes
  Nobody     \* the mutex is free

ASSUME CallAssumption == MaxCalls \in Nat /\ Nobody \notin Callers

VARIABLES
  pc,        \* each caller: "idle", "lock", "write", "read"
  calls,     \* calls each has begun
  result,    \* what its last call returned: a request, Error or Nothing
  mu,        \* who holds client.mu
  conn,      \* the connection: "open", "broken", "closed", "nil"
  toAgent,   \* requests under way
  toMaster,  \* replies under way
  agent,     \* the processor: "peek", "reply", "asleep", "gone"
  log        \* the requests the agent has executed, in order

callers == <<pc, calls, result, mu>>
wire    == <<conn, toAgent, toMaster>>
vars    == <<callers, wire, agent, log>>

Nothing == <<Nobody, 0>>
Error == <<Nobody, 1>>

\* Variant: Encode's error is not looked at, and an empty message goes out.
EmptyRequest(c) == Error

Request(c) == <<c, calls[c]>>

Init ==
  /\ pc = [c \in Callers |-> "idle"]
  /\ calls = [c \in Callers |-> 0]
  /\ result = [c \in Callers |-> Nothing]
  /\ mu = Nobody
  /\ conn = "open" /\ toAgent = <<>> /\ toMaster = <<>>
  /\ agent = "peek" /\ log = <<>>

-----------------------------------------------------------------------------
(* One call.                                                                *)

Goto(c, place) == pc' = [pc EXCEPT ![c] = place]

Call(c) ==
  /\ pc[c] = "idle" /\ calls[c] < MaxCalls
  /\ Goto(c, "lock")
  /\ calls' = [calls EXCEPT ![c] = @ + 1]
  /\ result' = [result EXCEPT ![c] = Nothing]
  /\ UNCHANGED <<mu, wire, agent, log>>

\* Variant: the call does not wait for the one before it.
MuFreeUnchecked == TRUE

MuFree == mu = Nobody

Lock(c) ==
  /\ pc[c] = "lock" /\ MuFree
  /\ mu' = c
  /\ Goto(c, "write")
  /\ UNCHANGED <<calls, result, wire, agent, log>>

\* Variant: mu stays locked on a return.
UnlockForgotten == mu' = mu

Unlock == mu' = Nobody

\* The deferred Unlock runs on every return.
Return(c, r) ==
  /\ result' = [result EXCEPT ![c] = r]
  /\ Goto(c, "idle")
  /\ Unlock
  /\ UNCHANGED calls

WriteRequest(c) ==
  /\ pc[c] = "write" /\ conn = "open"
  /\ toAgent' = Append(toAgent, Request(c))
  /\ Goto(c, "read")
  /\ UNCHANGED <<calls, result, mu, conn, toMaster, agent, log>>

\* The write to a connection the peer has left may succeed, and be lost.
WriteIntoVoid(c) ==
  /\ pc[c] = "write" /\ conn = "broken"
  /\ Goto(c, "read")
  /\ UNCHANGED <<calls, result, mu, wire, agent, log>>

WriteFails(c) ==
  /\ pc[c] = "write" /\ conn # "open"
  /\ Return(c, Error)
  /\ UNCHANGED <<wire, agent, log>>

ReadReply(c) ==
  /\ pc[c] = "read" /\ conn \in {"open", "broken"} /\ toMaster # <<>>
  /\ toMaster' = Tail(toMaster)
  /\ Return(c, Head(toMaster))
  /\ UNCHANGED <<conn, toAgent, agent, log>>

\* A connection that has failed a read delivers nothing any more.
ReadFails(c) ==
  /\ pc[c] = "read" /\ conn # "open"
  /\ toMaster' = <<>>
  /\ Return(c, Error)
  /\ UNCHANGED <<conn, toAgent, agent, log>>

CallStep(c) ==
  Lock(c) \/ WriteRequest(c) \/ WriteIntoVoid(c) \/ WriteFails(c) \/ ReadReply(c) \/ ReadFails(c)

-----------------------------------------------------------------------------
(* The agent's processor, as AgentInput has it: a request is executed when  *)
(* its bytes are there, or the processor goes to sleep on the cursor it     *)
(* read before it locked.  Only more bytes would wake it, and the master    *)
(* sends none before the reply.                                             *)

Execute ==
  /\ agent = "peek" /\ toAgent # <<>>
  /\ log' = Append(log, Head(toAgent))
  /\ agent' = "reply"
  /\ UNCHANGED <<callers, wire>>

\* Variant: the processor answers before it commits, and forgets to.
ReplyUncommitted ==
  /\ agent = "reply" /\ conn = "open"
  /\ toMaster' = Append(toMaster, Head(toAgent))
  /\ agent' = "peek"
  /\ UNCHANGED <<callers, conn, toAgent, log>>

Reply ==
  /\ agent = "reply" /\ conn = "open"
  /\ toMaster' = Append(toMaster, Head(toAgent))
  /\ toAgent' = Tail(toAgent)
  /\ agent' = "peek"
  /\ UNCHANGED <<callers, conn, log>>

\* The reply is lost with the connection; the request is committed all the same.
ReplyFails ==
  /\ agent = "reply" /\ conn # "open"
  /\ toAgent' = Tail(toAgent)
  /\ agent' = "peek"
  /\ UNCHANGED <<callers, conn, toMaster, log>>

\* The peek ends with EOF, and the processor with it.
PeekEOF ==
  /\ agent = "peek" /\ conn # "open"
  /\ agent' = "gone"
  /\ UNCHANGED <<callers, wire, log>>

FallAsleep ==
  /\ agent = "peek" /\ Len(toAgent) = 1
  /\ agent' = "asleep"
  /\ UNCHANGED <<callers, wire, log>>

ConnBreaks ==
  /\ conn = "open" /\ conn' = "broken"
  /\ UNCHANGED <<callers, toAgent, toMaster, agent, log>>

-----------------------------------------------------------------------------
(* client.close, which does not take mu.                                    *)

CloseConn ==
  /\ conn \in {"open", "broken"} /\ conn' = "closed"
  /\ UNCHANGED <<callers, toAgent, toMaster, agent, log>>

ForgetConn ==
  /\ conn = "closed" /\ conn' = "nil"
  /\ UNCHANGED <<callers, toAgent, toMaster, agent, log>>

-----------------------------------------------------------------------------
Agent == Execute \/ Reply \/ ReplyFails \/ PeekEOF

Next ==
  \/ \E c \in Callers : Call(c) \/ CallStep(c)
  \/ Agent \/ FallAsleep
  \/ ConnBreaks \/ CloseConn \/ ForgetConn

Spec == Init /\ [][Next]_vars

(* Callers and the processor run when they can, and a sync.Mutex starves    *)
(* nobody.  The connection need not break, and the processor may sleep.     *)
FairSpec ==
  /\ Spec
  /\ WF_vars(Agent)
  /\ \A c \in Callers : WF_vars(CallStep(c)) /\ SF_vars(Lock(c))

-----------------------------------------------------------------------------
Requests == Callers \X (1..MaxCalls)

\* Types of the callers, the connection and the agent.
TypeOK ==
  /\ pc \in [Callers -> {"idle", "lock", "write", "read"}]
  /\ calls \in [Callers -> 0..MaxCalls]
  /\ result \in [Callers -> Requests \cup {Nothing, Error}]
  /\ mu \in Callers \cup {Nobody}
  /\ conn \in {"open", "broken", "closed", "nil"}
  /\ toAgent \in Seq(Requests) /\ toMaster \in Seq(Requests)
  /\ agent \in {"peek", "reply", "asleep", "gone"}
  /\ log \in Seq(Requests)

Executed(r) == \E i \in DOMAIN log : log[i] = r

(* A call that returns a reply returns the reply to its own request, which  *)
(* the agent has executed: replies carry no number that would tell.         *)
OwnReply ==
  \A c \in Callers :
    result[c] \notin {Nothing, Error} => result[c] = Request(c) /\ Executed(Request(c))

(* However calls, failures and the closing of the client interleave, the    *)
(* agent executes no request twice, and executes the requests of a caller   *)
(* in the order of the calls.                                               *)
ExecutedOnceInOrder ==
  \A i, j \in DOMAIN log :
    i < j /\ log[i][1] = log[j][1] => log[i][2] < log[j][2]

(* There is one request or reply on the wire at most, the mutex holder's:   *)
(* what AgentInput assumes of the master.                                   *)
OneOutstanding ==
  /\ conn = "open" => Len(toAgent) + Len(toMaster) <= 1
  /\ conn = "open" /\ Len(toAgent) + Len(toMaster) = 1 => mu # Nobody /\ pc[mu] = "read"

(* A call returns, unless the agent sleeps on a request: then that call     *)
(* keeps mu and every later call to the agent waits for it.                 *)
CallReturns ==
  \A c \in Callers : pc[c] # "idle" ~> (pc[c] = "idle" \/ agent = "asleep")

Atomic == INSTANCE AtomicCalls WITH busy <- {c \in Callers : pc[c] # "idle"}

(* The calls look atomic: concurrent callers, the shared connection and its *)
(* loss show in nothing but calls that return an error (master/client.go,   *)
(* StartProcess, StopProcess, QueryProcess and close).                      *)
CallsAtomic == Atomic!Spec
=============================================================================
