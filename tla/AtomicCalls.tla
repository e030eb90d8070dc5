---------------------------- MODULE AtomicCalls -----------------------------
(***************************************************************************)
(* What the master's calls to an agent promise, whatever becomes of the    *)
(* connection.  A request takes effect in one step, at most once, after    *)
(* its call has begun and in the order of its caller's requests.  A call   *)
(* that returns a reply has had its effect.  A call that returns an error  *)
(* may have had it, may have it later while its caller goes on, or never.  *)
(***************************************************************************)
EXTENDS Naturals, Sequences

CONSTANTS Callers, MaxCalls,
          Nothing, Error    \* what a call returns before it returns, and on failure

VARIABLES busy,     \* the callers in a call
          calls,    \* calls each has begun
          result,   \* what the last call of each returned
          log       \* the requests that have taken effect, in order

vars == <<busy, calls, result, log>>

Init ==
  /\ busy = {} /\ log = <<>>
  /\ calls = [c \in Callers |-> 0]
  /\ result = [c \in Callers |-> Nothing]

Begin(c) ==
  /\ c \notin busy /\ calls[c] < MaxCalls
  /\ busy' = busy \cup {c}
  /\ calls' = [calls EXCEPT ![c] = @ + 1]
  /\ result' = [result EXCEPT ![c] = Nothing]
  /\ UNCHANGED log

Effect(c, k) ==
  /\ \A i \in DOMAIN log : log[i][1] = c => log[i][2] < k
  /\ log' = Append(log, <<c, k>>)
  /\ UNCHANGED <<busy, calls, result>>

Return(c, r) ==
  /\ c \in busy /\ busy' = busy \ {c}
  /\ result' = [result EXCEPT ![c] = r]
  /\ UNCHANGED <<calls, log>>

Answer(c) ==
  /\ \E i \in DOMAIN log : log[i] = <<c, calls[c]>>
  /\ Return(c, <<c, calls[c]>>)

Fail(c) == Return(c, Error)

Next ==
  \E c \in Callers :
    \/ Begin(c) \/ Answer(c) \/ Fail(c)
    \/ \E k \in 1..calls[c] : Effect(c, k)

Spec == Init /\ [][Next]_vars
=============================================================================
