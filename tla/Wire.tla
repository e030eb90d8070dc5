-------------------------------- MODULE Wire --------------------------------
(***************************************************************************)
(* One direction of a connection: messages are encoded and written, their  *)
(* bytes arrive in pieces, and a reader cuts the stream into messages.     *)
(* The master reads with getMessageBuffer: HdrLen reads of one byte, then  *)
(* reads of what is still missing, and it expects a certain type.  The     *)
(* agent peeks at its buffer, which AgentInput and Buffer show to be a     *)
(* byte stream: the header first, then the whole frame.                    *)
(***************************************************************************)
EXTENDS Codec

CONSTANTS
  Bytes,     \* the octets that occur in texts
  TextLens,  \* the lengths of texts: commands, names, lists of processes
  MaxPid,    \* the master is asked to stop pids up to this, and their negatives
  Codes,     \* return codes
  KeepAlives,
  MaxMsgs    \* bound of the model: messages ever written

Pids == (-MaxPid)..MaxPid
Texts == UNION {[1..n -> Bytes] : n \in TextLens}

ASSUME WireAssumption ==
  /\ Bytes \subseteq Octet /\ Codes \subseteq Octet
  /\ TextLens \subseteq Nat /\ MaxPid \in Nat /\ MaxMsgs \in Nat
  /\ KeepAlives \subseteq 0..(4 * Base * Base - 1)

\* The varint of a body's length fits into the header.  The code does not check
\* it: its readers look at four bytes of the varint, and nothing the program
\* sends has a body of 2^28 bytes.  The longest bodies are a stop's, and a
\* registration's with its keep-alive time.
ASSUME BodiesFitHeader ==
  /\ PidBytes < Place[HdrLen - 1]
  /\ \A n \in TextLens : n + 2 < Place[HdrLen - 1]

\* What each end is sent.
Messages(end) ==
  IF end = "agent"
  THEN [type : {"START"}, arg : Texts] \cup [type : {"STOP"}, arg : Pids]
         \cup {[type |-> "QUERY", arg |-> <<>>]}
  ELSE [type : {"REGISTER"}, arg : [keepAlive : KeepAlives, name : Texts]]
         \cup [type : {"ACK"}, arg : Codes] \cup [type : {"QUERYDETAIL"}, arg : Texts]

VARIABLES
  end,       \* who reads: "agent" or "master"
  sent,      \* the messages written
  wire,      \* the bytes that are written and not read
  up,        \* the connection stands
  rpc,       \* the reader: "idle", "head", "rest", "closed"
  expect,    \* the type it has been called for
  got,       \* the bytes of the message it has
  received   \* what its calls returned

vars == <<end, sent, wire, up, rpc, expect, got, received>>

ErrType == [type |-> "ErrType"]

Init ==
  /\ end \in {"agent", "master"}
  /\ sent = <<>> /\ wire = <<>> /\ up = TRUE
  /\ rpc = "idle" /\ expect = "none" /\ got = <<>> /\ received = <<>>

-----------------------------------------------------------------------------
\* A pid that does not fit panics before anything is written.
Encodable(m) == m.type = "STOP" => PidFits(m.arg)

WriteMessage(m) ==
  /\ up /\ Len(sent) < MaxMsgs /\ Encodable(m)
  /\ sent' = Append(sent, m)
  /\ wire' = wire \o Encode(m)
  /\ UNCHANGED <<end, up, rpc, expect, got, received>>

\* Bytes on their way may be lost with the connection.
ConnBreaks ==
  /\ up /\ up' = FALSE
  /\ \E k \in 0..Len(wire) : wire' = SubSeq(wire, 1, k)
  /\ UNCHANGED <<end, sent, rpc, expect, got, received>>

-----------------------------------------------------------------------------
(* The master's reader.                                                     *)

ReadMessage(t) ==
  /\ end = "master" /\ rpc = "idle"
  /\ rpc' = "head" /\ expect' = t /\ got' = <<>>
  /\ UNCHANGED <<end, sent, wire, up, received>>

\* conn.Read returns n bytes, n at most what is asked for and what is there.
ConnRead(n) ==
  /\ n <= Len(wire)
  /\ got' = got \o SubSeq(wire, 1, n)
  /\ wire' = SubSeq(wire, n + 1, Len(wire))

ReadHeadByte ==
  /\ rpc = "head"
  /\ ConnRead(1)
  /\ rpc' = IF Len(got') >= HdrLen THEN "rest" ELSE "head"
  /\ UNCHANGED <<end, sent, up, expect, received>>

Missing == FrameLen(SubSeq(got, 1, HdrLen)) - Len(got)

ReadRest ==
  /\ rpc = "rest"
  /\ \E n \in 1..Missing : ConnRead(n)
  /\ UNCHANGED <<end, sent, up, rpc, expect, received>>

\* createClient closes a connection that does not begin with a registration.
DecodeMessage ==
  /\ rpc = "rest" /\ Missing = 0
  /\ LET m == IF TypeOf(got[1]) = expect THEN Decode(got) ELSE ErrType
     IN  /\ received' = Append(received, m)
         /\ rpc' = IF expect = "REGISTER" /\ m = ErrType THEN "closed" ELSE "idle"
  /\ got' = <<>>
  /\ UNCHANGED <<end, sent, wire, up, expect>>

ReadFails ==
  /\ rpc \in {"head", "rest"} /\ ~up /\ wire = <<>>
  /\ rpc = "rest" => Missing > 0
  /\ rpc' = "closed" /\ got' = <<>>
  /\ UNCHANGED <<end, sent, wire, up, expect, received>>

-----------------------------------------------------------------------------
(* The agent's reader.                                                      *)

FrameHere ==
  Len(wire) >= HdrLen /\ Len(wire) >= FrameLen(SubSeq(wire, 1, HdrLen))

PeekMessage ==
  /\ end = "agent" /\ rpc = "idle" /\ FrameHere
  /\ LET total == FrameLen(SubSeq(wire, 1, HdrLen))
     IN  /\ received' = Append(received, Decode(SubSeq(wire, 1, total)))
         /\ wire' = SubSeq(wire, total + 1, Len(wire))
  /\ UNCHANGED <<end, sent, up, rpc, expect, got>>

PeekFails ==
  /\ end = "agent" /\ rpc = "idle" /\ ~up /\ ~FrameHere
  /\ rpc' = "closed"
  /\ UNCHANGED <<end, sent, wire, up, expect, got, received>>

-----------------------------------------------------------------------------
Reader ==
  \/ ReadHeadByte \/ ReadRest \/ DecodeMessage \/ ReadFails
  \/ PeekMessage \/ PeekFails

Next ==
  \/ \E m \in Messages(end) : WriteMessage(m)
  \/ \E t \in {"REGISTER", "ACK", "QUERYDETAIL"} : ReadMessage(t)
  \/ ConnBreaks
  \/ Reader

Spec == Init /\ [][Next]_vars

-----------------------------------------------------------------------------
\* Types of the connection and the reader.
TypeOK ==
  /\ end \in {"agent", "master"}
  /\ \A i \in DOMAIN sent : sent[i] \in Messages(end)
  /\ \A i \in DOMAIN wire : wire[i] \in Octet
  /\ \A i \in DOMAIN got : got[i] \in Octet
  /\ up \in BOOLEAN
  /\ rpc \in {"idle", "head", "rest", "closed"}
  /\ expect \in {"none", "REGISTER", "ACK", "QUERYDETAIL"}
  /\ Len(received) <= Len(sent)

(* However the bytes arrive, the reader's n-th call returns the n-th        *)
(* message as it was written, or ErrType when it expected another type;     *)
(* a message of which bytes were lost is not returned at all.               *)
ReceivedAsSent ==
  \A i \in DOMAIN received :
    received[i] = sent[i] \/ (received[i] = ErrType /\ end = "master")

(* The reader's bytes and those on the wire are the frames of the messages  *)
(* it has not returned, also when it refused one for its type and when      *)
(* messages arrive back to back: it leaves nothing of the last message and  *)
(* takes nothing of the next.                                               *)
Aligned ==
  up /\ rpc # "closed" =>
    got \o wire = FlattenSeq([i \in 1..(Len(sent) - Len(received)) |->
                                Encode(sent[Len(received) + i])])

(* A reader in the middle of a message never waits for bytes nobody wrote:  *)
(* what its header makes it ask for is on the wire.                         *)
NeverAsksForMore ==
  up => /\ rpc = "rest" => Missing \in 0..Len(wire)
        /\ end = "agent" /\ wire # <<>> => FrameHere
=============================================================================
