---------------------------- MODULE BufferStream ----------------------------
(***************************************************************************)
(* The ring buffer implements the byte stream: the pipe is what the slots  *)
(* from cseq to pseq hold.  The fair specification is for the liveness of  *)
(* the two wait loops that keep their condition under the mutex.           *)
(***************************************************************************)
EXTENDS Buffer, Sequences

Contents == [i \in 1..(pseq - cseq) |-> buf[Slot(cseq + i - 1)]]

Pipe == INSTANCE ByteStream
          WITH pipe <- Contents, next <- pseq, closed <- done

(* The goroutines of agent and master that use a buffer see a bounded FIFO  *)
(* byte stream: nothing lost, repeated, reordered or made up, however the   *)
(* calls of producer, consumer and Close interleave.                        *)
ImplementsByteStream == Pipe!Spec

(* Goroutines that can run do run, and sync.Mutex does not starve a waiter; *)
(* nothing is assumed of the calls the clients make or of the connection.   *)
Fairness ==
  /\ WF_vars(ProducerInternal) /\ SF_vars(SpaceLock) /\ SF_vars(SignalConsumer)
  /\ WF_vars(ConsumerInternal) /\ SF_vars(DataRelock) /\ SF_vars(SignalProducer)
  /\ \A t \in Threads : WF_vars(CloseStep(t))

FairSpec == Spec /\ Fairness

(* waitForWriteSpace: a producer parked for space runs again once there is  *)
(* room or the buffer is closed.                                            *)
ParkedProducerWakes == (ppc = "parked" /\ (~NoRoom \/ done)) ~> ppc # "parked"

(* Read: a consumer parked for data runs again once a byte is committed.    *)
ParkedReadWakes == (cpc = "parked" /\ cop = "Read" /\ cseq < pseq) ~> cpc # "parked"
=============================================================================
