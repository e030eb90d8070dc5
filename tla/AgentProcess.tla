---------------------------- MODULE AgentProcess ----------------------------
(***************************************************************************)
(* The agent's children.  The processor goroutine starts, stops and lists  *)
(* processes at the master's request and, when it returns, closes the      *)
(* agent; handleChild, on the main goroutine, waits for children and takes *)
(* them out of the process table; the kernel keeps an exited child as a    *)
(* zombie until it is waited for.  The three meet in Server.process, which *)
(* mu protects at some of its uses only.                                   *)
(*                                                                         *)
(* The map's key, the decimal pid, is the pid.  A pid is given to a child  *)
(* once: the kernel gives it out again only after it has gone round.       *)
(***************************************************************************)
EXTENDS Naturals

CONSTANTS
  Pids,    \* the pids of the children the agent ever starts (the bound)
  NoPid    \* Wait4's -1

ASSUME PidAssumption == NoPid \notin Pids

VARIABLES
  child,    \* the kernel's view of each pid
  process,  \* Server.process: the pids in the table
  agent,    \* "up", or how the agent process has ended
  req,      \* where the processor is
  pid,      \* the pid it works on
  victims,  \* the pids Close has still to kill
  hpc,      \* where handleChild is
  wpid,     \* what Wait4 returned to it
  started,  \* history: pids whose start was answered StartSuccess
  failed,   \* history: pids of children whose exec failed
  overtaken, \* history: pids entered into the table after they were reaped
  dropped   \* history: running children a reset threw out of the table

proc   == <<req, pid, victims>>
reaper == <<hpc, wpid>>
hist   == <<started, failed, overtaken, dropped>>
vars   == <<child, process, agent, proc, reaper, hist>>

Init ==
  /\ child = [p \in Pids |-> "free"]
  /\ process = {}
  /\ agent = "up"
  /\ req = "idle" /\ pid = NoPid /\ victims = {}
  /\ hpc = "check" /\ wpid = NoPid
  /\ started = {} /\ failed = {} /\ overtaken = {} /\ dropped = {}

Up == agent = "up"

-----------------------------------------------------------------------------
(* The kernel.                                                              *)

ChildExits(p) ==
  /\ child[p] = "running"
  /\ child' = [child EXCEPT ![p] = "zombie"]
  /\ UNCHANGED <<process, agent, proc, reaper, hist>>

\* kill(p, SIGKILL) finds a process, or a zombie, or fails with ESRCH.
Exists(p) == child[p] \in {"running", "zombie"}
Sigkill(p) == child' = IF Exists(p) THEN [child EXCEPT ![p] = "zombie"] ELSE child

-----------------------------------------------------------------------------
(* The processor: one request at a time.                                    *)

Begin(r, p) ==
  /\ Up /\ req = "idle"
  /\ req' = r /\ pid' = p
  /\ UNCHANGED <<child, process, agent, victims, reaper, hist>>

StartRequest   == Begin("fork", NoPid)
StopRequest(p) == Begin("lookup", p)
QueryRequest   == Begin("marshal", NoPid)

\* syscall.ForkExec: the fork, ...
Fork(p) ==
  /\ Up /\ req = "fork" /\ child[p] = "free"
  /\ child' = [child EXCEPT ![p] = "running"]
  /\ req' = "exec" /\ pid' = p
  /\ UNCHANGED <<process, agent, victims, reaper, hist>>

\* ... which may fail, without a child: ErrStart.
ForkFails ==
  /\ Up /\ req = "fork" /\ req' = "idle"
  /\ UNCHANGED <<child, process, agent, pid, victims, reaper, hist>>

\* The pipe from the child is closed without a word: it executes the command,
\* or it has been killed.
ExecSucceeds ==
  /\ Up /\ req = "exec" /\ req' = "insert"
  /\ UNCHANGED <<child, process, agent, pid, victims, reaper, hist>>

\* The child reports through the pipe that its exec failed, and exits.
ExecFails ==
  /\ Up /\ req = "exec" /\ child[pid] = "running"
  /\ child' = [child EXCEPT ![pid] = "zombie"]
  /\ failed' = failed \cup {pid}
  /\ req' = "collect"
  /\ UNCHANGED <<process, agent, pid, victims, reaper, started, overtaken, dropped>>

\* ForkExec waits for that child, unless handleChild has: ErrStart.
CollectFailed ==
  /\ Up /\ req = "collect"
  /\ child' = [child EXCEPT ![pid] = "reaped"]
  /\ req' = "idle"
  /\ UNCHANGED <<process, agent, pid, victims, reaper, hist>>

\* Variant: the entry is made under the wrong pid.
InsertWrongPid ==
  /\ Up /\ req = "insert"
  /\ process' = process \cup {wpid}
  /\ started' = started \cup {pid}
  /\ overtaken' = IF child[pid] = "reaped" THEN overtaken \cup {pid} ELSE overtaken
  /\ req' = "idle"
  /\ UNCHANGED <<child, agent, pid, victims, reaper, failed, dropped>>

\* The entry is made under mu, and StartSuccess is answered.
Insert ==
  /\ Up /\ req = "insert"
  /\ process' = process \cup {pid}
  /\ started' = started \cup {pid}
  /\ overtaken' = IF child[pid] = "reaped" THEN overtaken \cup {pid} ELSE overtaken
  /\ req' = "idle"
  /\ UNCHANGED <<child, agent, pid, victims, reaper, failed, dropped>>

\* Variant: the entry goes although nothing is killed.
LookupNoKill ==
  /\ Up /\ req = "lookup"
  /\ req' = IF pid \in process THEN "delete" ELSE "idle"
  /\ UNCHANGED <<child, process, agent, pid, victims, reaper, hist>>

\* The table is read without mu; an unknown pid is answered ErrStop.
Lookup ==
  /\ Up /\ req = "lookup"
  /\ req' = IF pid \in process THEN "kill" ELSE "idle"
  /\ UNCHANGED <<child, process, agent, pid, victims, reaper, hist>>

Kill ==
  /\ Up /\ req = "kill"
  /\ Sigkill(pid)
  /\ req' = IF Exists(pid) THEN "delete" ELSE "idle"
  /\ UNCHANGED <<process, agent, pid, victims, reaper, hist>>

\* The entry is deleted under mu, and StopSuccess is answered.
Delete ==
  /\ Up /\ req = "delete"
  /\ process' = process \ {pid}
  /\ req' = "idle"
  /\ UNCHANGED <<child, agent, pid, victims, reaper, hist>>

\* json.Marshal reads the table without mu, and the list is answered.
Marshal ==
  /\ Up /\ req = "marshal" /\ req' = "idle"
  /\ UNCHANGED <<child, process, agent, pid, victims, reaper, hist>>

\* Variant: Close collects no pids.
CloseNothing ==
  /\ Up /\ req = "idle"
  /\ req' = "close" /\ victims' = {}
  /\ UNCHANGED <<child, process, agent, pid, reaper, hist>>

\* The processor returns and its deferred Close collects the pids under mu ...
Close ==
  /\ Up /\ req = "idle"
  /\ req' = "close" /\ victims' = process
  /\ UNCHANGED <<child, process, agent, pid, reaper, hist>>

\* ... and kills them without it.
CloseKill(p) ==
  /\ Up /\ req = "close" /\ p \in victims
  /\ Sigkill(p)
  /\ victims' = victims \ {p}
  /\ UNCHANGED <<process, agent, req, pid, reaper, hist>>

CloseReturns ==
  /\ Up /\ req = "close" /\ victims = {}
  /\ req' = "closed"
  /\ UNCHANGED <<child, process, agent, pid, victims, reaper, hist>>

-----------------------------------------------------------------------------
(* handleChild.                                                             *)

\* Variant: the table is not looked at first.
CheckNothing ==
  /\ Up /\ hpc = "check" /\ hpc' = "wait4"
  /\ UNCHANGED <<child, process, agent, proc, wpid, hist>>

\* len of the table, without mu: sleep and look again, or wait for a child.
CheckTable ==
  /\ Up /\ hpc = "check"
  /\ hpc' = IF process = {} THEN "sleep" ELSE "wait4"
  /\ UNCHANGED <<child, process, agent, proc, wpid, hist>>

SleepEnds ==
  /\ Up /\ hpc = "sleep" /\ hpc' = "check"
  /\ UNCHANGED <<child, process, agent, proc, wpid, hist>>

Reap(p) ==
  /\ Up /\ hpc = "wait4" /\ child[p] = "zombie"
  /\ child' = [child EXCEPT ![p] = "reaped"]
  /\ wpid' = p /\ hpc' = "delete"
  /\ UNCHANGED <<process, agent, proc, hist>>

\* Variant: Wait4 that does not wait.
NoChildrenYet == \A p \in Pids : child[p] # "zombie"

\* ECHILD.
NoChildren == \A p \in Pids : ~Exists(p)

WaitFails ==
  /\ Up /\ hpc = "wait4" /\ NoChildren
  /\ wpid' = NoPid /\ hpc' = "reset"
  /\ UNCHANGED <<child, process, agent, proc, hist>>

\* A new table, without mu.
ResetTable ==
  /\ Up /\ hpc = "reset"
  /\ process' = {} /\ hpc' = "delete"
  /\ dropped' = dropped \cup {p \in process : child[p] = "running"}
  /\ UNCHANGED <<child, agent, proc, wpid, started, failed, overtaken>>

\* Variant: the exited child stays in the table.
DeleteNothing ==
  /\ Up /\ hpc = "delete"
  /\ hpc' = "check"
  /\ UNCHANGED <<child, process, agent, proc, wpid, hist>>

DeleteChild ==
  /\ Up /\ hpc = "delete"
  /\ process' = process \ {wpid}
  /\ hpc' = "check"
  /\ UNCHANGED <<child, agent, proc, wpid, hist>>

\* The runtime aborts a program it catches writing a map that is being read.
ConcurrentMapAccess ==
  /\ Up /\ hpc = "delete" /\ req \in {"lookup", "marshal"}
  /\ agent' = "aborted"
  /\ UNCHANGED <<child, process, proc, reaper, hist>>

\* os.Exit in the handler of an interrupt: no Close.
Interrupt ==
  /\ Up /\ agent' = "interrupted"
  /\ UNCHANGED <<child, process, proc, reaper, hist>>

-----------------------------------------------------------------------------
Processor ==
  \/ ForkFails \/ ExecSucceeds \/ ExecFails \/ CollectFailed
  \/ Insert \/ Lookup \/ Kill \/ Delete \/ Marshal \/ CloseReturns
  \/ \E p \in Pids : Fork(p) \/ CloseKill(p)

HandleChild ==
  \/ CheckTable \/ SleepEnds \/ WaitFails \/ ResetTable \/ DeleteChild
  \/ \E p \in Pids : Reap(p)

Next ==
  \/ StartRequest \/ QueryRequest \/ Close
  \/ \E p \in Pids : StopRequest(p) \/ ChildExits(p)
  \/ Processor \/ HandleChild
  \/ ConcurrentMapAccess \/ Interrupt

Spec == Init /\ [][Next]_vars

(* Both goroutines run when they can, handleChild's sleep ends, and the     *)
(* kernel returns every zombie from some Wait4 if Wait4 is called again and *)
(* again.  Requests, exits of children and interrupts need not happen.      *)
FairSpec ==
  /\ Spec
  /\ WF_vars(Processor) /\ WF_vars(HandleChild)
  /\ \A p \in Pids : SF_vars(Reap(p))

-----------------------------------------------------------------------------
\* Types of the table, the kernel's pids and the two goroutines.
TypeOK ==
  /\ child \in [Pids -> {"free", "running", "zombie", "reaped"}]
  /\ process \subseteq Pids
  /\ agent \in {"up", "aborted", "interrupted"}
  /\ req \in {"idle", "fork", "exec", "collect", "insert", "lookup", "kill", "delete",
              "marshal", "close", "closed"}
  /\ pid \in Pids \cup {NoPid}
  /\ victims \subseteq Pids
  /\ hpc \in {"check", "sleep", "wait4", "reset", "delete"}
  /\ wpid \in Pids \cup {NoPid}
  /\ started \subseteq Pids /\ failed \subseteq Pids /\ overtaken \subseteq Pids /\ dropped \subseteq Pids

(* A child that was answered StartSuccess and still runs is in the table,   *)
(* where stop, query and Close find it, unless a reset threw it out.        *)
TrackedUnlessDropped ==
  \A p \in started : child[p] = "running" => p \in process \cup dropped

(* handleChild resets the table when Wait4 finds no child.  That can cost a *)
(* running child its entry only if, before, some child exited and was       *)
(* reaped between its ForkExec and its entry into the table.                *)
DropNeedsOvertaking == dropped # {} => overtaken # {}

(* An entry whose process is gone for good is about to be deleted, or is    *)
(* one that was made too late to be deleted.                                *)
StaleEntriesExplained ==
  \A p \in process :
    child[p] = "reaped" => \/ hpc = "delete" /\ wpid = p
                           \/ p \in overtaken

(* When Close has returned no child of the agent runs, but for those that a *)
(* reset threw out of the table.                                            *)
CloseLeavesOnlyDropped ==
  req = "closed" => \A p \in Pids : child[p] = "running" => p \in dropped

(* The reads of the table without mu get the agent aborted only once some   *)
(* start has been answered, and then only after a started child has ended   *)
(* and been reaped, or while handleChild deletes the child of a failed exec *)
(* that it has reaped before ForkExec could.                                *)
AbortNeedsExit ==
  agent = "aborted" =>
    started # {} /\ ((\E p \in started : child[p] = "reaped") \/ wpid \in failed)

(* A child that exits is in time taken out of the table.                    *)
ExitNoticed ==
  \A p \in Pids :
    (p \in process /\ child[p] = "zombie") ~> (p \notin process \/ ~Up)

(* README: a started process of a node can be queried and stopped.          *)
StartedIsTracked ==
  \A p \in started : child[p] = "running" => p \in process
=============================================================================
