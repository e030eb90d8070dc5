------------------------------- MODULE Codec -------------------------------
(***************************************************************************)
(* The messages of package message as bytes.  A frame is the type, the     *)
(* length of the body as a varint, the body, and zeros up to HdrLen plus   *)
(* the length of the body: msglen calls every header HdrLen bytes long,    *)
(* however short its varint.  Only the payloads that the program's         *)
(* messages carry are modelled; a message is its type and its argument.    *)
(*                                                                         *)
(* A byte is a number below 2 * Base, and Base is its continuation bit:    *)
(* 128 in the code, less in the model.                                     *)
(***************************************************************************)
EXTENDS Integers, SequencesExt

CONSTANTS
  Base,      \* a varint byte carries one digit to this base
  HdrLen,    \* header.msglen(): 5 in the code
  PidBytes   \* bytes of StopProcess's payload: 4 in the code

ASSUME CodecAssumption ==
  /\ Base \in Nat /\ Base >= 4
  /\ HdrLen \in Nat /\ HdrLen >= 2
  /\ PidBytes \in Nat \ {0}

Octet == 0..(2 * Base - 1)
Types == <<"REGISTER", "ACK", "START", "STOP", "QUERY", "HEARTBEAT", "QUERYDETAIL">>

\* The type's byte, and the type of a byte.
TypeByte(t) == (CHOOSE i \in DOMAIN Types : Types[i] = t) - 1
TypeOf(b) == Types[b + 1]

Zeros(n) == [i \in 1..n |-> 0]

-----------------------------------------------------------------------------
(* encoding/binary.                                                         *)

\* The digits from the lowest on, all but the last with the continuation bit.
PutUvarint[x \in Nat] ==
  IF x < Base THEN <<x>> ELSE <<Base + (x % Base)>> \o PutUvarint[x \div Base]

\* What a digit is worth after i digits: 1 << (7 * i) in the code.
Place[i \in Nat] == IF i = 0 THEN 1 ELSE Base * Place[i-1]

\* The first byte without the continuation bit ends the number; without one
\* nothing is read and the number is 0.
Uvarint(s) ==
  LET ends == {i \in DOMAIN s : s[i] < Base}
      n == IF ends = {} THEN 0 ELSE Min(ends)
      value[i \in 0..n] ==
        IF i = 0 THEN 0 ELSE value[i-1] + (s[i] % Base) * Place[i-1]
  IN  [value |-> value[n], size |-> n]

ZigZag(x) == IF x >= 0 THEN 2 * x ELSE -(2 * x) - 1
UnZigZag(u) == IF u % 2 = 0 THEN u \div 2 ELSE -((u + 1) \div 2)

-----------------------------------------------------------------------------
(* The payloads.                                                            *)

\* PutVarint into PidBytes bytes panics when the number needs more.
PidFits(pid) == ZigZag(pid) < Place[PidBytes]

PidPayload(pid) ==
  LET digits == PutUvarint[ZigZag(pid)] IN digits \o Zeros(PidBytes - Len(digits))

\* Variant: the keep-alive time is not split.
RegisterPayloadUnsplit(r) == <<0, r.keepAlive>> \o r.name

\* Two bytes of keep-alive time, high byte first, and the name.
RegisterPayload(r) ==
  <<r.keepAlive \div (2 * Base), r.keepAlive % (2 * Base)>> \o r.name

Payload(m) ==
  CASE m.type = "REGISTER" -> RegisterPayload(m.arg)
    [] m.type = "ACK"      -> <<m.arg>>
    [] m.type = "STOP"     -> PidPayload(m.arg)
    [] m.type = "QUERY"    -> <<>>
    [] OTHER               -> m.arg

Argument(t, body) ==
  CASE t = "REGISTER" -> [keepAlive |-> body[1] * 2 * Base + body[2],
                          name |-> SubSeq(body, 3, Len(body))]
    [] t = "ACK"      -> body[1]
    [] t = "STOP"     -> UnZigZag(Uvarint(body).value)
    [] t = "QUERY"    -> <<>>
    [] OTHER          -> body

-----------------------------------------------------------------------------
(* The frame.                                                               *)

\* Variant: Len counts the bytes the header really takes.
ExactPadding(body) == <<>>

\* make([]byte, Len()) has zeros after what Encode writes.
Padding(body) == Zeros(HdrLen - 1 - Len(PutUvarint[Len(body)]))

Encode(m) ==
  LET body == Payload(m)
  IN  <<TypeByte(m.type)>> \o PutUvarint[Len(body)] \o body \o Padding(body)

\* Variant: the type's byte is counted twice.
FrameLenTypeTwice(head) == Uvarint(Tail(head)).value + HdrLen + 1

\* The length of the frame that begins with these HdrLen bytes.
FrameLen(head) == Uvarint(Tail(head)).value + HdrLen

\* Variant: the body is taken to begin after HdrLen bytes.
BodyAfterHeader(frame) ==
  SubSeq(frame, HdrLen + 1, HdrLen + Uvarint(Tail(frame)).value)

\* The body begins after the varint.
Body(frame) ==
  LET remlen == Uvarint(Tail(frame))
  IN  SubSeq(frame, 2 + remlen.size, 1 + remlen.size + remlen.value)

Decode(frame) ==
  LET t == TypeOf(frame[1]) IN [type |-> t, arg |-> Argument(t, Body(frame))]
=============================================================================
