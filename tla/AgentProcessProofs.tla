------------------------- MODULE AgentProcessProofs -------------------------
(***************************************************************************)
(* For any number of children: what the process table of the agent keeps   *)
(* track of, and what it costs that handleChild and the processor share it *)
(* without a common critical section.                                      *)
(***************************************************************************)
EXTENDS AgentProcess, TLAPS

\* A child gets into the table only through processStartProcess, not before it
\* is entered, and never if its exec failed.
EntriesWereForked ==
  /\ \A p \in process \cup started : child[p] # "free"
  /\ process \subseteq started
  /\ req \in {"exec", "collect", "insert"} =>
       pid \in Pids /\ child[pid] # "free" /\ pid \notin started
  /\ req = "collect" => child[pid] # "running"
  /\ req \in {"lookup", "kill", "delete"} => pid \in Pids

\* A child that runs was answered for, or is about to be.
RunningIsKnown ==
  \A p \in Pids : child[p] = "running" =>
    p \in started \/ (req \in {"exec", "insert"} /\ pid = p)

\* What stop and handleChild delete from the table does not run.
DeletesAreDead ==
  /\ req = "delete" => child[pid] # "running"
  /\ hpc = "reset" => wpid = NoPid
  /\ hpc = "delete" => wpid = NoPid \/ (wpid \in Pids /\ child[wpid] = "reaped")

(* handleChild calls Wait4 when the table is not empty; it then has a child *)
(* to wait for that nobody else waits for, which the child of a failed exec *)
(* is not, or the entry it saw was made after its process was reaped.       *)
WaitHasChild ==
  /\ hpc = "wait4" => overtaken # {} \/ \E p \in started : Exists(p)
  /\ hpc = "reset" => overtaken # {}

\* While Close works, what still runs is on its list.
CloseHasList ==
  req = "close" => \A p \in Pids : child[p] = "running" => p \in victims \cup dropped

IInv ==
  /\ TypeOK
  /\ EntriesWereForked
  /\ RunningIsKnown
  /\ DeletesAreDead
  /\ TrackedUnlessDropped
  /\ StaleEntriesExplained
  /\ WaitHasChild
  /\ DropNeedsOvertaking
  /\ CloseHasList
  /\ CloseLeavesOnlyDropped

LEMMA InitInv == Init => IInv
  BY PidAssumption
     DEF Init, IInv, TypeOK, EntriesWereForked, RunningIsKnown, DeletesAreDead,
         TrackedUnlessDropped, StaleEntriesExplained, WaitHasChild, Exists,
         DropNeedsOvertaking, CloseHasList, CloseLeavesOnlyDropped

\* The processor begins, answers and ends requests, and closes the agent.
LEMMA ProcessorInv ==
  ASSUME IInv,
         \/ StartRequest \/ QueryRequest \/ Close \/ Processor
         \/ \E p \in Pids : StopRequest(p)
  PROVE  IInv'
<1> USE PidAssumption
    DEF IInv, TypeOK, EntriesWereForked, RunningIsKnown, DeletesAreDead,
        TrackedUnlessDropped, StaleEntriesExplained, WaitHasChild, Exists,
        DropNeedsOvertaking, CloseHasList, CloseLeavesOnlyDropped,
        proc, reaper, hist, Up
<1>1. CASE StartRequest
  BY <1>1 DEF StartRequest, Begin
<1>2. CASE QueryRequest
  BY <1>2 DEF QueryRequest, Begin
<1>3. ASSUME NEW p \in Pids, StopRequest(p) PROVE IInv'
  BY <1>3 DEF StopRequest, Begin
<1>4. CASE Close
  BY <1>4 DEF Close
<1>5. ASSUME NEW p \in Pids, Fork(p) PROVE IInv'
  BY <1>5 DEF Fork
<1>6. CASE ForkFails
  BY <1>6 DEF ForkFails
<1>14. CASE ExecSucceeds
  BY <1>14 DEF ExecSucceeds
<1>15. CASE ExecFails
  BY <1>15 DEF ExecFails
<1>16. CASE CollectFailed
  BY <1>16 DEF CollectFailed
<1>7. CASE Insert
  BY <1>7 DEF Insert
<1>8. CASE Lookup
  BY <1>8 DEF Lookup
<1>9. CASE Kill
  BY <1>9 DEF Kill, Sigkill
<1>10. CASE Delete
  BY <1>10 DEF Delete
<1>11. CASE Marshal
  BY <1>11 DEF Marshal
<1>12. ASSUME NEW p \in Pids, CloseKill(p) PROVE IInv'
  BY <1>12 DEF CloseKill, Sigkill
<1>13. CASE CloseReturns
  BY <1>13 DEF CloseReturns
<1> QED
  BY <1>1, <1>2, <1>3, <1>4, <1>5, <1>6, <1>7, <1>8, <1>9, <1>10, <1>11, <1>12, <1>13,
     <1>14, <1>15, <1>16
     DEF Processor

\* handleChild, the kernel, and the two ways the agent ends without Close.
LEMMA EnvironmentInv ==
  ASSUME IInv,
         \/ HandleChild \/ ConcurrentMapAccess \/ Interrupt
         \/ \E p \in Pids : ChildExits(p)
  PROVE  IInv'
<1> USE PidAssumption
    DEF IInv, TypeOK, EntriesWereForked, RunningIsKnown, DeletesAreDead,
        TrackedUnlessDropped, StaleEntriesExplained, WaitHasChild, Exists,
        DropNeedsOvertaking, CloseHasList, CloseLeavesOnlyDropped,
        proc, reaper, hist, Up
<1>1. CASE CheckTable
  BY <1>1 DEF CheckTable
<1>2. CASE SleepEnds
  BY <1>2 DEF SleepEnds
<1>3. ASSUME NEW p \in Pids, Reap(p) PROVE IInv'
  BY <1>3 DEF Reap
<1>4. CASE WaitFails
  BY <1>4 DEF WaitFails, NoChildren
<1>5. CASE ResetTable
  BY <1>5 DEF ResetTable
<1>6. CASE DeleteChild
  BY <1>6 DEF DeleteChild
<1>7. ASSUME NEW p \in Pids, ChildExits(p) PROVE IInv'
  BY <1>7 DEF ChildExits
<1>8. CASE ConcurrentMapAccess
  BY <1>8 DEF ConcurrentMapAccess
<1>9. CASE Interrupt
  BY <1>9 DEF Interrupt
<1> QED
  BY <1>1, <1>2, <1>3, <1>4, <1>5, <1>6, <1>7, <1>8, <1>9 DEF HandleChild

\* The invariant, for any set of pids.
THEOREM Invariance == Spec => []IInv
<1>1. IInv /\ [Next]_vars => IInv'
  <2> SUFFICES ASSUME IInv, [Next]_vars PROVE IInv'
    OBVIOUS
  <2>1. CASE Next
    BY <2>1, ProcessorInv, EnvironmentInv DEF Next
  <2>2. CASE UNCHANGED vars
    BY <2>2 DEF vars, proc, reaper, hist, IInv, TypeOK, EntriesWereForked,
                RunningIsKnown, DeletesAreDead, TrackedUnlessDropped,
                StaleEntriesExplained, WaitHasChild, Exists, DropNeedsOvertaking,
                CloseHasList, CloseLeavesOnlyDropped
  <2> QED
    BY <2>1, <2>2
<1> QED
  BY InitInv, <1>1, PTL DEF Spec

(* processStartProcess, processStopProcess, Close and handleChild together  *)
(* keep every running child in the table, the reset of handleChild apart.   *)
THEOREM RunningChildrenTracked == Spec => []TrackedUnlessDropped
  BY Invariance, PTL DEF IInv

(* The reset of handleChild is harmless unless a child was reaped between   *)
(* its ForkExec and its entry into the table.                               *)
THEOREM ResetHarmlessWithoutOvertaking == Spec => []DropNeedsOvertaking
  BY Invariance, PTL DEF IInv

(* Entries outlive their process only while handleChild is about to delete  *)
(* them, or when they were made too late.                                   *)
THEOREM StaleEntries == Spec => []StaleEntriesExplained
  BY Invariance, PTL DEF IInv

(* Server.Close kills every child it can still know of.                     *)
THEOREM CloseKillsTheRest == Spec => []CloseLeavesOnlyDropped
  BY Invariance, PTL DEF IInv

\* The table, the kernel's pids and the two goroutines keep their types.
THEOREM TypeCorrect == Spec => []TypeOK
  BY Invariance, PTL DEF IInv

-----------------------------------------------------------------------------
(* When the agent can be aborted.                                           *)

\* Every child was answered for, is about to be, or failed to execute.
ForkedIsKnown ==
  /\ \A p \in Pids : child[p] # "free" =>
       p \in started \cup failed \/ (req \in {"exec", "insert"} /\ pid = p)
  /\ req = "collect" => pid \in failed

(* handleChild waits only when it has seen an entry, and comes to write the *)
(* table only when it has reaped a child or there was none to wait for, so  *)
(* that the one of the entry has been reaped.                               *)
WritesAfterExit ==
  /\ hpc \in {"wait4", "reset", "delete"} => started # {}
  /\ hpc = "reset" => \E p \in started : child[p] = "reaped"
  /\ hpc = "delete" => \/ \E p \in started : child[p] = "reaped"
                       \/ wpid \in Pids /\ child[wpid] = "reaped"

ExitInv == ForkedIsKnown /\ WritesAfterExit /\ AbortNeedsExit

\* The processor's steps, given what is known of the table.
LEMMA ProcessorExit ==
  ASSUME IInv, ExitInv,
         \/ StartRequest \/ QueryRequest \/ Close \/ Processor
         \/ \E p \in Pids : StopRequest(p)
  PROVE  ExitInv'
<1> USE PidAssumption
    DEF IInv, TypeOK, ExitInv, ForkedIsKnown, WritesAfterExit, AbortNeedsExit,
        EntriesWereForked, Exists, proc, reaper, hist, Up
<1>1. CASE StartRequest \/ QueryRequest \/ Close
  BY <1>1 DEF StartRequest, QueryRequest, Begin, Close
<1>2. ASSUME NEW p \in Pids, StopRequest(p) PROVE ExitInv'
  BY <1>2 DEF StopRequest, Begin
<1>3. ASSUME NEW p \in Pids, Fork(p) PROVE ExitInv'
  BY <1>3 DEF Fork
<1>8. CASE ExecSucceeds
  BY <1>8 DEF ExecSucceeds
<1>9. CASE ExecFails
  BY <1>9 DEF ExecFails
<1>10. CASE CollectFailed
  BY <1>10 DEF CollectFailed
<1>4. CASE Insert
  BY <1>4 DEF Insert
<1>5. CASE ForkFails \/ Lookup \/ Delete \/ Marshal \/ CloseReturns
  BY <1>5 DEF ForkFails, Lookup, Delete, Marshal, CloseReturns
<1>6. CASE Kill
  BY <1>6 DEF Kill, Sigkill
<1>7. ASSUME NEW p \in Pids, CloseKill(p) PROVE ExitInv'
  BY <1>7 DEF CloseKill, Sigkill
<1> QED
  BY <1>1, <1>2, <1>3, <1>4, <1>5, <1>6, <1>7, <1>8, <1>9, <1>10 DEF Processor

\* The steps of handleChild, of the kernel, and of the end of the agent.
LEMMA EnvironmentExit ==
  ASSUME IInv, ExitInv,
         \/ HandleChild \/ ConcurrentMapAccess \/ Interrupt
         \/ \E p \in Pids : ChildExits(p)
  PROVE  ExitInv'
<1> USE PidAssumption
    DEF IInv, TypeOK, ExitInv, ForkedIsKnown, WritesAfterExit, AbortNeedsExit,
        EntriesWereForked, Exists, proc, reaper, hist, Up
<1>1. CASE CheckTable \/ SleepEnds
  BY <1>1 DEF CheckTable, SleepEnds
<1>2. ASSUME NEW p \in Pids, Reap(p) PROVE ExitInv'
  BY <1>2 DEF Reap
<1>3. CASE WaitFails
  <2>1. PICK p \in started : TRUE
    BY <1>3 DEF WaitFails
  <2>2. p \in Pids /\ child[p] = "reaped"
    BY <1>3, <2>1 DEF WaitFails, NoChildren
  <2> QED
    BY <1>3, <2>2 DEF WaitFails
<1>4. CASE ResetTable \/ DeleteChild
  BY <1>4 DEF ResetTable, DeleteChild
<1>5. ASSUME NEW p \in Pids, ChildExits(p) PROVE ExitInv'
  BY <1>5 DEF ChildExits
<1>6. CASE ConcurrentMapAccess
  BY <1>6 DEF ConcurrentMapAccess
<1>7. CASE Interrupt
  BY <1>7 DEF Interrupt
<1> QED
  BY <1>1, <1>2, <1>3, <1>4, <1>5, <1>6, <1>7 DEF HandleChild

(* An agent that reads its table while handleChild writes it, and is        *)
(* aborted for it, has answered a start, and has had a started child end or *)
(* is deleting the child of a failed exec, which it never entered.          *)
THEOREM AbortOnlyAfterExit == Spec => []AbortNeedsExit
<1>1. Init => ExitInv
  BY DEF Init, ExitInv, ForkedIsKnown, WritesAfterExit, AbortNeedsExit
<1>2. IInv /\ ExitInv /\ [Next]_vars => ExitInv'
  <2> SUFFICES ASSUME IInv, ExitInv, [Next]_vars PROVE ExitInv'
    OBVIOUS
  <2>1. CASE Next
    BY <2>1, ProcessorExit, EnvironmentExit DEF Next
  <2>2. CASE UNCHANGED vars
    BY <2>2 DEF vars, proc, reaper, hist, ExitInv, ForkedIsKnown,
                WritesAfterExit, AbortNeedsExit
  <2> QED
    BY <2>1, <2>2
<1>3. ExitInv => AbortNeedsExit
  BY DEF ExitInv
<1> QED
  BY Invariance, <1>1, <1>2, <1>3, PTL DEF Spec
=============================================================================
