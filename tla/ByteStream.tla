----------------------------- MODULE ByteStream -----------------------------
(***************************************************************************)
(* What the connection buffer promises: a bounded pipe of bytes.  Bytes    *)
(* enter at one end as the source supplies them (byte number i is i), they *)
(* leave at the other end in the same order, each exactly once, never more *)
(* than Size are in the pipe.  The pipe can be closed, once; bytes already *)
(* in it can still be taken, and a writer that had already been granted    *)
(* its space may still put its bytes.                                      *)
(***************************************************************************)
EXTENDS Naturals, Sequences

CONSTANT Size

VARIABLES pipe,    \* the bytes put and not yet taken
          next,    \* the number of the next byte of the source
          closed

vars == <<pipe, next, closed>>

Init == pipe = <<>> /\ next = 0 /\ closed = FALSE

Put ==
  \E n \in 1..(Size - Len(pipe)) :
    /\ pipe' = pipe \o [k \in 1..n |-> next + k - 1]
    /\ next' = next + n
    /\ UNCHANGED closed

Take ==
  \E n \in 1..Len(pipe) :
    /\ pipe' = SubSeq(pipe, n + 1, Len(pipe))
    /\ UNCHANGED <<next, closed>>

Close == closed' = TRUE /\ UNCHANGED <<pipe, next>>

Next == Put \/ Take \/ Close

Spec == Init /\ [][Next]_vars
=============================================================================
