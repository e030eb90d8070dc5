-------------------------- MODULE ClientCallProofs --------------------------
(***************************************************************************)
(* For any number of callers and calls: mu, which every call holds from    *)
(* its write to its reply, is enough to give each caller its own reply,    *)
(* whatever becomes of the connection under it.                            *)
(***************************************************************************)
EXTENDS ClientCall, TLAPS

\* Whoever is in a call has counted it.
Begun == \A c \in Callers : pc[c] # "idle" => calls[c] >= 1

\* mu is held exactly between Lock and Unlock.
Mutex == \A c \in Callers : pc[c] \in {"write", "read"} <=> mu = c

\* The mutex holder waits for what is under way.
HolderReads == mu \in Callers /\ pc[mu] = "read"

OneOnWire == Len(toAgent) + Len(toMaster) <= 1

\* A request under way is the holder's, as long as the connection is open...
OwnRequest == toAgent # <<>> /\ conn = "open" => HolderReads /\ toAgent[1] = Request(mu)

\* ... and a reply is, even if the connection has failed since.
OwnAnswer ==
  toMaster # <<>> => HolderReads /\ toMaster[1] = Request(mu) /\ Executed(toMaster[1])

\* A request has a number its caller has used; one not yet sent is newer.
Sent(r) ==
  /\ r[2] <= calls[r[1]]
  /\ pc[r[1]] \in {"lock", "write"} => r[2] < calls[r[1]]

AllSent ==
  /\ \A i \in DOMAIN log : Sent(log[i])
  /\ toAgent # <<>> => Sent(toAgent[1])

\* The request under way is newer than what its caller had executed...
PendingIsNew ==
  toAgent # <<>> /\ agent # "reply" =>
    \A i \in DOMAIN log : log[i][1] = toAgent[1][1] => log[i][2] < toAgent[1][2]

\* ... or it is executed, and the agent is about to commit it.
PendingIsDone == agent = "reply" => toAgent # <<>> /\ Executed(toAgent[1])

IInv ==
  /\ TypeOK
  /\ Begun
  /\ Mutex
  /\ OneOnWire
  /\ OwnRequest
  /\ OwnAnswer
  /\ AllSent
  /\ PendingIsNew
  /\ PendingIsDone
  /\ ExecutedOnceInOrder
  /\ OwnReply

LEMMA InitInv == Init => IInv
<1> SUFFICES ASSUME Init PROVE IInv
  OBVIOUS
<1> USE CallAssumption DEF Init
<1>1. TypeOK /\ Begun /\ Mutex /\ OneOnWire
  BY DEF TypeOK, Begun, Mutex, OneOnWire, Nothing, Error
<1>2. OwnRequest /\ OwnAnswer /\ AllSent /\ PendingIsNew /\ PendingIsDone
  BY DEF OwnRequest, OwnAnswer, AllSent, PendingIsNew, PendingIsDone
<1>3. ExecutedOnceInOrder /\ OwnReply
  BY DEF ExecutedOnceInOrder, OwnReply, Nothing
<1> QED
  BY <1>1, <1>2, <1>3 DEF IInv

\* What is under way or in the log is a request.
LEMMA RequestsSeen ==
  ASSUME TypeOK
  PROVE  /\ \A i \in DOMAIN log : log[i] \in Requests
         /\ toAgent # <<>> => toAgent[1] \in Requests
  BY DEF TypeOK

\* A handler makes a call.
LEMMA CallerInv ==
  ASSUME IInv, NEW c \in Callers, Call(c) \/ CallStep(c)
  PROVE  IInv'
<1> USE CallAssumption DEF Goto, callers, wire, HolderReads, Request
<1>i. /\ TypeOK /\ Begun /\ Mutex /\ OneOnWire /\ OwnRequest /\ OwnAnswer
      /\ AllSent /\ PendingIsNew /\ PendingIsDone /\ ExecutedOnceInOrder /\ OwnReply
  BY DEF IInv
<1>1. CASE Call(c)
  <2>1. TypeOK'
    BY <1>i, <1>1 DEF Call, TypeOK, Begun, Requests, Nothing, Error
  <2>2. Begun' /\ Mutex'
    BY <1>i, <1>1 DEF Call, TypeOK, Begun, Mutex
  <2>3. OneOnWire' /\ OwnRequest'
    BY <1>i, <1>1 DEF Call, TypeOK, Mutex, OneOnWire, OwnRequest, OwnAnswer
  <2>4. OwnAnswer'
    BY <1>i, <1>1 DEF Call, TypeOK, Mutex, OneOnWire, OwnRequest, OwnAnswer,
         Executed
  <2>5. AllSent'
    <3>1. \A d \in Callers : /\ calls'[d] \in Nat /\ calls[d] \in Nat
                              /\ calls[d] <= calls'[d]
                              /\ d = c => calls[d] < calls'[d]
      BY <1>i, <1>1 DEF Call, TypeOK
    <3>2. \A r \in Requests : Sent(r) => Sent(r)'
      BY <1>i, <1>1, <3>1 DEF Call, TypeOK, Sent, Requests
    <3> QED
      BY <1>i, <1>1, <3>2, RequestsSeen DEF Call, AllSent
  <2>6. PendingIsNew' /\ PendingIsDone'
    BY <1>i, <1>1 DEF Call, TypeOK, Mutex, OneOnWire, OwnRequest, AllSent,
         Sent, PendingIsNew, PendingIsDone, Executed, Requests
  <2>7. ExecutedOnceInOrder' /\ OwnReply'
    BY <1>i, <1>1 DEF Call, TypeOK, Mutex, OwnAnswer, ExecutedOnceInOrder,
         OwnReply, Executed, Nothing, Error
  <2> QED
    BY <2>1, <2>2, <2>3, <2>4, <2>5, <2>6, <2>7 DEF IInv
<1>2. CASE Lock(c)
  <2>1. TypeOK'
    BY <1>i, <1>2 DEF Lock, MuFree, TypeOK, Begun, Requests, Nothing, Error
  <2>2. Begun' /\ Mutex'
    BY <1>i, <1>2 DEF Lock, MuFree, TypeOK, Begun, Mutex
  <2>3. OneOnWire' /\ OwnRequest'
    BY <1>i, <1>2 DEF Lock, MuFree, TypeOK, Mutex, OneOnWire, OwnRequest,
         OwnAnswer
  <2>4. OwnAnswer'
    BY <1>i, <1>2 DEF Lock, MuFree, TypeOK, Mutex, OneOnWire, OwnRequest,
         OwnAnswer, Executed
  <2>5. AllSent'
    BY <1>i, <1>2, RequestsSeen DEF Lock, MuFree, TypeOK, Mutex, OneOnWire,
         OwnRequest, AllSent, Sent, Requests
  <2>6. PendingIsNew' /\ PendingIsDone'
    BY <1>i, <1>2 DEF Lock, MuFree, TypeOK, Mutex, OneOnWire, OwnRequest,
         AllSent, Sent, PendingIsNew, PendingIsDone, Executed, Requests
  <2>7. ExecutedOnceInOrder' /\ OwnReply'
    BY <1>i, <1>2 DEF Lock, MuFree, TypeOK, Mutex, OwnAnswer,
         ExecutedOnceInOrder, OwnReply, Executed, Nothing, Error
  <2> QED
    BY <2>1, <2>2, <2>3, <2>4, <2>5, <2>6, <2>7 DEF IInv
<1>3. CASE WriteRequest(c)
  <2>0. toAgent = <<>> /\ toAgent' = <<Request(c)>>
    <3>1. conn = "open" /\ ~HolderReads
      BY <1>i, <1>3 DEF WriteRequest, Mutex
    <3>2. toAgent = <<>>
      BY <1>i, <3>1 DEF OwnRequest
    <3> QED
      BY <1>3, <3>2 DEF WriteRequest
  <2>1. TypeOK'
    BY <1>i, <1>3 DEF WriteRequest, TypeOK, Begun, Requests, Nothing, Error
  <2>2. Begun' /\ Mutex'
    BY <1>i, <1>3 DEF WriteRequest, TypeOK, Begun, Mutex
  <2>3. OneOnWire' /\ OwnRequest'
    BY <1>i, <1>3 DEF WriteRequest, TypeOK, Mutex, OneOnWire, OwnRequest,
         OwnAnswer
  <2>4. OwnAnswer'
    BY <1>i, <1>3 DEF WriteRequest, TypeOK, Mutex, OneOnWire, OwnRequest,
         OwnAnswer, Executed
  <2>5. AllSent'
    <3>1. \A r \in Requests : Sent(r) => Sent(r)'
      BY <1>i, <1>3 DEF WriteRequest, TypeOK, Sent, Requests
    <3>2. Sent(Request(c))'
      BY <1>i, <1>3 DEF WriteRequest, TypeOK, Sent
    <3> QED
      BY <1>i, <1>3, <2>0, <3>1, <3>2, RequestsSeen DEF WriteRequest, AllSent
  <2>6. PendingIsNew' /\ PendingIsDone'
    BY <1>i, <1>3 DEF WriteRequest, TypeOK, Mutex, OneOnWire, OwnRequest,
         AllSent, Sent, PendingIsNew, PendingIsDone, Executed, Requests
  <2>7. ExecutedOnceInOrder' /\ OwnReply'
    BY <1>i, <1>3 DEF WriteRequest, TypeOK, Mutex, OwnAnswer,
         ExecutedOnceInOrder, OwnReply, Executed, Nothing, Error
  <2> QED
    BY <2>1, <2>2, <2>3, <2>4, <2>5, <2>6, <2>7 DEF IInv
<1>4. CASE WriteIntoVoid(c)
  <2>1. TypeOK'
    BY <1>i, <1>4 DEF WriteIntoVoid, TypeOK, Begun, Requests, Nothing, Error
  <2>2. Begun' /\ Mutex'
    BY <1>i, <1>4 DEF WriteIntoVoid, TypeOK, Begun, Mutex
  <2>3. OneOnWire' /\ OwnRequest'
    BY <1>i, <1>4 DEF WriteIntoVoid, TypeOK, Mutex, OneOnWire, OwnRequest,
         OwnAnswer
  <2>4. OwnAnswer'
    BY <1>i, <1>4 DEF WriteIntoVoid, TypeOK, Mutex, OneOnWire, OwnRequest,
         OwnAnswer, Executed
  <2>5. AllSent'
    BY <1>i, <1>4, RequestsSeen DEF WriteIntoVoid, TypeOK, Mutex, OneOnWire,
         OwnRequest, AllSent, Sent, Requests
  <2>6. PendingIsNew' /\ PendingIsDone'
    BY <1>i, <1>4 DEF WriteIntoVoid, TypeOK, Mutex, OneOnWire, OwnRequest,
         AllSent, Sent, PendingIsNew, PendingIsDone, Executed, Requests
  <2>7. ExecutedOnceInOrder' /\ OwnReply'
    BY <1>i, <1>4 DEF WriteIntoVoid, TypeOK, Mutex, OwnAnswer,
         ExecutedOnceInOrder, OwnReply, Executed, Nothing, Error
  <2> QED
    BY <2>1, <2>2, <2>3, <2>4, <2>5, <2>6, <2>7 DEF IInv
<1>5. CASE WriteFails(c)
  <2>1. TypeOK'
    BY <1>i, <1>5 DEF WriteFails, Return, Unlock, TypeOK, Begun, Requests,
         Nothing, Error
  <2>2. Begun' /\ Mutex'
    BY <1>i, <1>5 DEF WriteFails, Return, Unlock, TypeOK, Begun, Mutex
  <2>3. OneOnWire' /\ OwnRequest'
    BY <1>i, <1>5 DEF WriteFails, Return, Unlock, TypeOK, Mutex, OneOnWire,
         OwnRequest, OwnAnswer
  <2>4. OwnAnswer'
    BY <1>i, <1>5 DEF WriteFails, Return, Unlock, TypeOK, Mutex, OneOnWire,
         OwnRequest, OwnAnswer, Executed
  <2>5. AllSent'
    BY <1>i, <1>5, RequestsSeen DEF WriteFails, Return, Unlock, TypeOK, Mutex,
         OneOnWire, OwnRequest, AllSent, Sent, Requests
  <2>6. PendingIsNew' /\ PendingIsDone'
    BY <1>i, <1>5 DEF WriteFails, Return, Unlock, TypeOK, Mutex, OneOnWire,
         OwnRequest, AllSent, Sent, PendingIsNew, PendingIsDone, Executed,
         Requests
  <2>7. ExecutedOnceInOrder' /\ OwnReply'
    BY <1>i, <1>5 DEF WriteFails, Return, Unlock, TypeOK, Mutex, OwnAnswer,
         ExecutedOnceInOrder, OwnReply, Executed, Nothing, Error
  <2> QED
    BY <2>1, <2>2, <2>3, <2>4, <2>5, <2>6, <2>7 DEF IInv
<1>6. CASE ReadReply(c)
  <2>0. Head(toMaster) = Request(c) /\ Executed(Request(c))
    <3>1. mu = c /\ toMaster # <<>>
      BY <1>i, <1>6 DEF ReadReply, Mutex
    <3>2. toMaster[1] = Request(c) /\ Executed(Request(c))
      BY <1>i, <3>1 DEF OwnAnswer
    <3>3. toMaster \in Seq(Requests)
      BY <1>i DEF TypeOK
    <3> QED
      BY <3>1, <3>2, <3>3
  <2>1. TypeOK'
    BY <1>i, <1>6 DEF ReadReply, Return, Unlock, TypeOK, Begun, Requests,
         Nothing, Error
  <2>2. Begun' /\ Mutex'
    BY <1>i, <1>6 DEF ReadReply, Return, Unlock, TypeOK, Begun, Mutex
  <2>3. OneOnWire' /\ OwnRequest'
    BY <1>i, <1>6 DEF ReadReply, Return, Unlock, TypeOK, Mutex, OneOnWire,
         OwnRequest, OwnAnswer
  <2>4. OwnAnswer'
    BY <1>i, <1>6 DEF ReadReply, Return, Unlock, TypeOK, Mutex, OneOnWire,
         OwnRequest, OwnAnswer, Executed
  <2>5. AllSent'
    BY <1>i, <1>6, RequestsSeen DEF ReadReply, Return, Unlock, TypeOK, Mutex,
         OneOnWire, OwnRequest, AllSent, Sent, Requests
  <2>6. PendingIsNew' /\ PendingIsDone'
    BY <1>i, <1>6 DEF ReadReply, Return, Unlock, TypeOK, Mutex, OneOnWire,
         OwnRequest, AllSent, Sent, PendingIsNew, PendingIsDone, Executed,
         Requests
  <2>7. ExecutedOnceInOrder' /\ OwnReply'
    <3>1. ExecutedOnceInOrder'
      BY <1>i, <1>6 DEF ReadReply, ExecutedOnceInOrder
    <3>2. result' = [result EXCEPT ![c] = Request(c)] /\ UNCHANGED <<calls, log>>
      BY <1>6, <2>0 DEF ReadReply, Return
    <3>3. OwnReply'
      BY <1>i, <2>0, <3>2 DEF TypeOK, OwnReply, Executed
    <3> QED
      BY <3>1, <3>3
  <2> QED
    BY <2>1, <2>2, <2>3, <2>4, <2>5, <2>6, <2>7 DEF IInv
<1>7. CASE ReadFails(c)
  <2>1. TypeOK'
    BY <1>i, <1>7 DEF ReadFails, Return, Unlock, TypeOK, Begun, Requests,
         Nothing, Error
  <2>2. Begun' /\ Mutex'
    BY <1>i, <1>7 DEF ReadFails, Return, Unlock, TypeOK, Begun, Mutex
  <2>3. OneOnWire' /\ OwnRequest'
    BY <1>i, <1>7 DEF ReadFails, Return, Unlock, TypeOK, Mutex, OneOnWire,
         OwnRequest, OwnAnswer
  <2>4. OwnAnswer'
    BY <1>i, <1>7 DEF ReadFails, Return, Unlock, TypeOK, Mutex, OneOnWire,
         OwnRequest, OwnAnswer, Executed
  <2>5. AllSent'
    BY <1>i, <1>7, RequestsSeen DEF ReadFails, Return, Unlock, TypeOK, Mutex,
         OneOnWire, OwnRequest, AllSent, Sent, Requests
  <2>6. PendingIsNew' /\ PendingIsDone'
    BY <1>i, <1>7 DEF ReadFails, Return, Unlock, TypeOK, Mutex, OneOnWire,
         OwnRequest, AllSent, Sent, PendingIsNew, PendingIsDone, Executed,
         Requests
  <2>7. ExecutedOnceInOrder' /\ OwnReply'
    BY <1>i, <1>7 DEF ReadFails, Return, Unlock, TypeOK, Mutex, OwnAnswer,
         ExecutedOnceInOrder, OwnReply, Executed, Nothing, Error
  <2> QED
    BY <2>1, <2>2, <2>3, <2>4, <2>5, <2>6, <2>7 DEF IInv
<1> QED
  BY <1>1, <1>2, <1>3, <1>4, <1>5, <1>6, <1>7 DEF CallStep

\* The agent executes and answers, or the connection goes.
LEMMA AgentInv ==
  ASSUME IInv, Agent \/ FallAsleep \/ ConnBreaks \/ CloseConn \/ ForgetConn
  PROVE  IInv'
<1> USE CallAssumption DEF Goto, callers, wire, HolderReads, Request
<1>i. /\ TypeOK /\ Begun /\ Mutex /\ OneOnWire /\ OwnRequest /\ OwnAnswer
      /\ AllSent /\ PendingIsNew /\ PendingIsDone /\ ExecutedOnceInOrder /\ OwnReply
  BY DEF IInv
<1>1. CASE Execute
  <2> DEFINE r == toAgent[1]
             n == Len(log)
  <2>0. /\ r \in Requests /\ log' \in Seq(Requests) /\ toAgent # <<>>
        /\ DOMAIN log = 1..n /\ DOMAIN log' = 1..(n + 1) /\ n \in Nat
        /\ \A i \in 1..n : log'[i] = log[i]
        /\ log'[n + 1] = r
    BY <1>i, <1>1 DEF Execute, TypeOK
  <2>1. TypeOK'
    BY <1>i, <1>1 DEF Execute, TypeOK, Begun, Requests, Nothing, Error
  <2>2. Begun' /\ Mutex'
    BY <1>i, <1>1 DEF Execute, TypeOK, Begun, Mutex
  <2>3. OneOnWire' /\ OwnRequest'
    BY <1>i, <1>1 DEF Execute, TypeOK, Mutex, OneOnWire, OwnRequest, OwnAnswer
  <2>4. OwnAnswer'
    BY <1>i, <1>1 DEF Execute, TypeOK, Mutex, OneOnWire, OwnRequest, OwnAnswer,
         Executed
  <2>5. AllSent'
    <3>1. Sent(r) /\ \A i \in 1..n : Sent(log[i])
      BY <1>i, <1>1, <2>0 DEF Execute, AllSent
    <3>2. \A i \in 1..(n + 1) : i \in 1..n \/ i = n + 1
      BY <2>0
    <3>3. \A i \in 1..(n + 1) : Sent(log'[i])
      BY <2>0, <3>1, <3>2
    <3>4. UNCHANGED <<pc, calls, toAgent>>
      BY <1>1 DEF Execute
    <3> QED
      BY <2>0, <3>1, <3>3, <3>4 DEF AllSent, Sent
  <2>6. PendingIsNew' /\ PendingIsDone'
    <3>1. n + 1 \in DOMAIN log' /\ log'[n + 1] = toAgent'[1]
      BY <1>1, <2>0 DEF Execute
    <3>2. Executed(toAgent[1])'
      BY <3>1 DEF Executed
    <3> QED
      BY <1>1, <2>0, <3>2 DEF Execute, PendingIsNew, PendingIsDone
  <2>7. ExecutedOnceInOrder' /\ OwnReply'
    <3>1. ASSUME NEW i \in 1..(n + 1), NEW j \in 1..(n + 1),
                 i < j, log'[i][1] = log'[j][1]
          PROVE  log'[i][2] < log'[j][2]
      <4>1. i \in 1..n /\ (j \in 1..n \/ j = n + 1)
        BY <2>0, <3>1
      <4>2. CASE j \in 1..n
        BY <1>i, <2>0, <3>1, <4>1, <4>2 DEF ExecutedOnceInOrder
      <4>3. CASE j = n + 1
        BY <1>i, <1>1, <2>0, <3>1, <4>1, <4>3 DEF Execute, PendingIsNew
      <4> QED
        BY <4>1, <4>2, <4>3
    <3>2. ExecutedOnceInOrder'
      BY <2>0, <3>1 DEF ExecutedOnceInOrder
    <3>3. \A q : Executed(q) => Executed(q)'
      BY <2>0 DEF Executed
    <3>4. OwnReply'
      BY <1>i, <1>1, <3>3 DEF Execute, OwnReply
    <3> QED
      BY <3>2, <3>4
  <2> QED
    BY <2>1, <2>2, <2>3, <2>4, <2>5, <2>6, <2>7 DEF IInv
<1>2. CASE Reply
  <2>0. /\ toAgent # <<>> /\ toMaster = <<>>
        /\ toAgent' = <<>> /\ toMaster' = <<toAgent[1]>>
        /\ toAgent[1] \in Requests
    <3>1. toAgent \in Seq(Requests) /\ toMaster \in Seq(Requests) /\ toAgent # <<>>
      BY <1>i, <1>2 DEF Reply, TypeOK, PendingIsDone
    <3>2. Len(toAgent) = 1 /\ toMaster = <<>>
      <4>1. Len(toAgent) \in Nat \ {0} /\ Len(toMaster) \in Nat
        BY <3>1
      <4>2. Len(toAgent) = 1 /\ Len(toMaster) = 0
        BY <1>i, <4>1 DEF OneOnWire
      <4> QED
        BY <3>1, <4>2
    <3> QED
      BY <1>2, <3>1, <3>2 DEF Reply
  <2>1. TypeOK'
    BY <1>i, <1>2, <2>0 DEF Reply, TypeOK
  <2>2. Begun' /\ Mutex'
    BY <1>i, <1>2 DEF Reply, TypeOK, Begun, Mutex
  <2>3. OneOnWire' /\ OwnRequest'
    BY <2>0 DEF OneOnWire, OwnRequest
  <2>4. OwnAnswer'
    BY <1>i, <1>2, <2>0 DEF Reply, OwnRequest, OwnAnswer, PendingIsDone,
         Executed
  <2>5. AllSent'
    BY <1>i, <1>2, <2>0 DEF Reply, AllSent, Sent
  <2>6. PendingIsNew' /\ PendingIsDone'
    BY <1>2, <2>0 DEF Reply, PendingIsNew, PendingIsDone
  <2>7. ExecutedOnceInOrder' /\ OwnReply'
    BY <1>i, <1>2 DEF Reply, TypeOK, Mutex, OwnAnswer, ExecutedOnceInOrder,
         OwnReply, Executed, Nothing, Error
  <2> QED
    BY <2>1, <2>2, <2>3, <2>4, <2>5, <2>6, <2>7 DEF IInv
<1>3. CASE ReplyFails
  <2>0. toAgent # <<>> /\ toAgent' = <<>>
    BY <1>i, <1>3 DEF ReplyFails, TypeOK, OneOnWire, PendingIsDone
  <2>1. TypeOK'
    BY <1>i, <1>3, <2>0 DEF ReplyFails, TypeOK
  <2>2. Begun' /\ Mutex'
    BY <1>i, <1>3 DEF ReplyFails, TypeOK, Begun, Mutex
  <2>3. OneOnWire' /\ OwnRequest'
    BY <1>i, <1>3, <2>0 DEF ReplyFails, TypeOK, OneOnWire, OwnRequest
  <2>4. OwnAnswer'
    BY <1>i, <1>3 DEF ReplyFails, TypeOK, Mutex, OneOnWire, OwnRequest,
         OwnAnswer, Executed
  <2>5. AllSent'
    BY <1>i, <1>3, RequestsSeen DEF ReplyFails, TypeOK, Mutex, OneOnWire,
         OwnRequest, AllSent, Sent, Requests
  <2>6. PendingIsNew' /\ PendingIsDone'
    BY <1>3, <2>0 DEF ReplyFails, PendingIsNew, PendingIsDone
  <2>7. ExecutedOnceInOrder' /\ OwnReply'
    BY <1>i, <1>3 DEF ReplyFails, TypeOK, Mutex, OwnAnswer,
         ExecutedOnceInOrder, OwnReply, Executed, Nothing, Error
  <2> QED
    BY <2>1, <2>2, <2>3, <2>4, <2>5, <2>6, <2>7 DEF IInv
<1>4. CASE PeekEOF
  BY <1>i, <1>4 DEF IInv, PeekEOF, TypeOK, Begun, Mutex, OneOnWire, OwnRequest,
       OwnAnswer, AllSent, Sent, PendingIsNew, PendingIsDone,
       ExecutedOnceInOrder, OwnReply, Executed
<1>5. CASE FallAsleep
  BY <1>i, <1>5 DEF IInv, FallAsleep, TypeOK, Begun, Mutex, OneOnWire,
       OwnRequest, OwnAnswer, AllSent, Sent, PendingIsNew, PendingIsDone,
       ExecutedOnceInOrder, OwnReply, Executed
<1>6. CASE ConnBreaks
  BY <1>i, <1>6 DEF IInv, ConnBreaks, TypeOK, Begun, Mutex, OneOnWire,
       OwnRequest, OwnAnswer, AllSent, Sent, PendingIsNew, PendingIsDone,
       ExecutedOnceInOrder, OwnReply, Executed
<1>7. CASE CloseConn
  BY <1>i, <1>7 DEF IInv, CloseConn, TypeOK, Begun, Mutex, OneOnWire,
       OwnRequest, OwnAnswer, AllSent, Sent, PendingIsNew, PendingIsDone,
       ExecutedOnceInOrder, OwnReply, Executed
<1>8. CASE ForgetConn
  BY <1>i, <1>8 DEF IInv, ForgetConn, TypeOK, Begun, Mutex, OneOnWire,
       OwnRequest, OwnAnswer, AllSent, Sent, PendingIsNew, PendingIsDone,
       ExecutedOnceInOrder, OwnReply, Executed
<1> QED
  BY <1>1, <1>2, <1>3, <1>4, <1>5, <1>6, <1>7, <1>8 DEF Agent

\* The invariant, for any constants.
THEOREM Invariance == Spec => []IInv
<1>1. ASSUME IInv, UNCHANGED vars PROVE IInv'
  <2> USE <1>1 DEF vars, callers, wire, IInv
  <2>1. TypeOK' /\ Begun' /\ Mutex' /\ OneOnWire'
    BY DEF TypeOK, Begun, Mutex, OneOnWire
  <2>2. OwnRequest' /\ OwnAnswer'
    BY DEF OwnRequest, OwnAnswer, HolderReads, Request, Executed
  <2>3. AllSent' /\ PendingIsNew' /\ PendingIsDone'
    BY DEF AllSent, Sent, PendingIsNew, PendingIsDone, Executed
  <2>4. ExecutedOnceInOrder' /\ OwnReply'
    BY DEF ExecutedOnceInOrder, OwnReply, Request, Executed
  <2> QED
    BY <2>1, <2>2, <2>3, <2>4
<1>2. IInv /\ [Next]_vars => IInv'
  BY <1>1, CallerInv, AgentInv DEF Next
<1> QED
  BY InitInv, <1>2, PTL DEF Spec

\* Callers, connection and agent keep their types.
THEOREM TypeCorrect == Spec => []TypeOK
  BY Invariance, PTL DEF IInv

(* The replies carry no number, and each call returns its own all the same, *)
(* of a request that the agent has executed.                                *)
THEOREM EachItsOwnReply == Spec => []OwnReply
  BY Invariance, PTL DEF IInv

(* The agent executes no request twice, and a caller's in order.            *)
THEOREM ExecutesOnceInOrder == Spec => []ExecutedOnceInOrder
  BY Invariance, PTL DEF IInv

(* One request or reply at most is under way, and mu's holder waits for it. *)
THEOREM OneAtATime == Spec => []OneOutstanding
<1>1. IInv => OneOutstanding
  BY CallAssumption DEF IInv, TypeOK, OneOnWire, OwnRequest, OwnAnswer, HolderReads, OneOutstanding
<1> QED
  BY Invariance, <1>1, PTL

-----------------------------------------------------------------------------
(* The calls implement atomic ones.                                         *)

Busy == {c \in Callers : pc[c] # "idle"}

\* What a caller does is a step of its atomic call, or hidden by it.
LEMMA CallerMaps ==
  ASSUME IInv, NEW c \in Callers, Call(c) \/ CallStep(c)
  PROVE  [Atomic!Next]_(Atomic!vars)
<1> USE DEF Atomic!vars, Goto, callers, wire
<1>t. TypeOK
  BY DEF IInv
<1>r. \A r : Return(c, r) /\ pc[c] # "idle" /\ log' = log =>
             /\ c \in Busy /\ Busy' = Busy \ {c}
             /\ result' = [result EXCEPT ![c] = r] /\ UNCHANGED <<calls, log>>
  BY <1>t DEF Return, Busy, TypeOK
<1>f. \A r : Return(c, Error) /\ pc[c] # "idle" /\ log' = log => Atomic!Next
  BY <1>r DEF Atomic!Next, Atomic!Fail, Atomic!Return, Busy
<1>1. CASE Call(c)
  <2>1. c \notin Busy /\ Busy' = Busy \cup {c}
    BY <1>t, <1>1 DEF Call, Busy, TypeOK
  <2>2. Atomic!Begin(c)
    BY <1>1, <2>1 DEF Call, Atomic!Begin, Busy
  <2> QED
    BY <2>2 DEF Atomic!Next
<1>2. CASE Lock(c) \/ WriteRequest(c) \/ WriteIntoVoid(c)
  <2>1. Busy' = Busy /\ UNCHANGED <<calls, result, log>>
    BY <1>t, <1>2 DEF Lock, WriteRequest, WriteIntoVoid, Busy, TypeOK
  <2> QED
    BY <2>1 DEF Busy
<1>3. CASE WriteFails(c) \/ ReadFails(c)
  BY <1>3, <1>f DEF WriteFails, ReadFails
<1>4. CASE ReadReply(c)
  <2>1. mu = c /\ toMaster # <<>> /\ toMaster \in Seq(Requests)
    BY <1>4 DEF ReadReply, IInv, Mutex, TypeOK
  <2>2. Head(toMaster) = <<c, calls[c]>> /\ Executed(<<c, calls[c]>>)
    BY <2>1 DEF IInv, OwnAnswer, Request
  <2>3. Return(c, <<c, calls[c]>>) /\ pc[c] # "idle" /\ log' = log
    BY <1>4, <2>2 DEF ReadReply
  <2>4. Atomic!Return(c, <<c, calls[c]>>)
    BY <1>r, <2>3 DEF Atomic!Return, Busy
  <2> QED
    BY <2>2, <2>4 DEF Atomic!Next, Atomic!Answer, Executed
<1> QED
  BY <1>1, <1>2, <1>3, <1>4 DEF CallStep

\* The agent's execution is the effect of a request; nothing else is seen.
LEMMA AgentMaps ==
  ASSUME IInv, Agent \/ FallAsleep \/ ConnBreaks \/ CloseConn \/ ForgetConn
  PROVE  [Atomic!Next]_(Atomic!vars)
<1> USE DEF Atomic!vars, callers, wire
<1>1. CASE Execute
  <2> DEFINE r == toAgent[1]
  <2>1. toAgent # <<>> /\ r \in Requests /\ agent # "reply" /\ Head(toAgent) = r
    BY <1>1 DEF Execute, IInv, TypeOK
  <2>2. r = <<r[1], r[2]>> /\ r[1] \in Callers /\ r[2] \in 1..MaxCalls
    BY <2>1 DEF Requests
  <2>3. r[2] \in 1..calls[r[1]]
    BY <2>1, <2>2 DEF IInv, AllSent, Sent, TypeOK
  <2>4. Atomic!Effect(r[1], r[2])
    BY <1>1, <2>1, <2>2 DEF Execute, IInv, PendingIsNew, Atomic!Effect
  <2> QED
    BY <2>2, <2>3, <2>4 DEF Atomic!Next
<1>2. CASE ~Execute
  <2> UNCHANGED <<pc, calls, result, log>>
    BY <1>2 DEF Agent, Reply, ReplyFails, PeekEOF, FallAsleep, ConnBreaks,
         CloseConn, ForgetConn
  <2> QED
    OBVIOUS
<1> QED
  BY <1>1, <1>2

(* Concurrent calls, the shared connection, its loss and client.close show  *)
(* in nothing but calls that return an error: each call that returns a      *)
(* reply took effect once, at one moment between its beginning and its end. *)
THEOREM CallsImplementAtomicOnes == Spec => CallsAtomic
<1>1. Init => Atomic!Init
  BY DEF Init, Atomic!Init
<1>2. ASSUME IInv, [Next]_vars PROVE [Atomic!Next]_(Atomic!vars)
  <2>1. CASE UNCHANGED vars
    BY <2>1 DEF vars, callers, Atomic!vars
  <2> QED
    BY <1>2, <2>1, CallerMaps, AgentMaps DEF Next
<1> QED
  BY Invariance, <1>1, <1>2, PTL DEF Spec, CallsAtomic, Atomic!Spec
=============================================================================
