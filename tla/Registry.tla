------------------------------ MODULE Registry ------------------------------
(***************************************************************************)
(* The master's table of agents.  Every connection an agent opens gets a   *)
(* goroutine that runs createClient: it reads the registration, answers    *)
(* ConnectionAccepted, looks the name up and enters the client.  HTTP      *)
(* handlers read the same table, Server.Close stops what is in it.  The    *)
(* table is guarded by mu, section by section, but not in the handlers.    *)
(***************************************************************************)
EXTENDS Naturals

CONSTANTS
  Conns,     \* connections agents ever open (the bound)
  Names,     \* names agents register under
  Handlers,  \* HTTP handlers that may run at once
  None       \* no entry

ASSUME NoneAssumption == None \notin Conns

VARIABLES
  name,      \* the name each connection registers under
  link,      \* each connection: "new", "open", "closed"
  cpc,       \* where createClient is for each connection
  clients,   \* Server.clients: name -> connection, or None
  running,   \* Server.running
  closing,   \* where Close is: "no", "stopping", "closed"
  conns,     \* Close's list of clients still to stop
  hpc,       \* each HTTP handler: "idle" or "reading" the table
  master,    \* "up", or how the program has ended
  late,      \* history: clients entered after Close had made its list
  replaced   \* history: clients whose entry another client took

table == <<clients, late, replaced>>
close == <<running, closing, conns>>
vars  == <<name, link, cpc, table, close, hpc, master>>

Init ==
  /\ name \in [Conns -> Names]
  /\ link = [c \in Conns |-> "new"]
  /\ cpc = [c \in Conns |-> "new"]
  /\ clients = [n \in Names |-> None]
  /\ running = TRUE /\ closing = "no" /\ conns = {}
  /\ hpc = [h \in Handlers |-> "idle"]
  /\ master = "up"
  /\ late = {} /\ replaced = {}

Up == master = "up"
Listed(c) == clients[name[c]] = c
Goto(c, place) == cpc' = [cpc EXCEPT ![c] = place]

-----------------------------------------------------------------------------
(* ListenAndServer: a goroutine per accepted connection, while running.     *)

Accept(c) ==
  /\ Up /\ running /\ cpc[c] = "new"
  /\ link' = [link EXCEPT ![c] = "open"]
  /\ Goto(c, "read")
  /\ UNCHANGED <<name, table, close, hpc, master>>

\* The agent is gone; nothing in the master waits for that.
AgentLeaves(c) ==
  /\ link[c] = "open"
  /\ link' = [link EXCEPT ![c] = "closed"]
  /\ UNCHANGED <<name, cpc, table, close, hpc, master>>

-----------------------------------------------------------------------------
(* createClient.                                                            *)

ReadRegistration(c) ==
  /\ Up /\ cpc[c] = "read"
  /\ Goto(c, "accept")
  /\ UNCHANGED <<name, link, table, close, hpc, master>>

\* Reading or answering fails: the deferred function closes the connection.
Refuse(c) ==
  /\ Up /\ cpc[c] \in {"read", "accept"}
  /\ link' = [link EXCEPT ![c] = "closed"]
  /\ Goto(c, "refused")
  /\ UNCHANGED <<name, table, close, hpc, master>>

AnswerAccepted(c) ==
  /\ Up /\ cpc[c] = "accept"
  /\ Goto(c, "lookup")
  /\ UNCHANGED <<name, link, table, close, hpc, master>>

\* Variant: the test of the duplicate is inverted.
NameTakenInverted(c) == clients[name[c]] = None

NameTaken(c) == clients[name[c]] # None

\* Under mu.RLock; with a duplicate createClient returns, without an error.
LookupName(c) ==
  /\ Up /\ cpc[c] = "lookup"
  /\ Goto(c, IF NameTaken(c) THEN "duplicate" ELSE "insert")
  /\ UNCHANGED <<name, link, table, close, hpc, master>>

\* Variant: the name is entered in place of the client.
EnterName(c) == clients' = [clients EXCEPT ![name[c]] = name[c]]

Enter(c) == clients' = [clients EXCEPT ![name[c]] = c]

\* Under mu.Lock; start then cannot fail, its buffers have a fixed size.
InsertClient(c) ==
  /\ Up /\ cpc[c] = "insert"
  /\ Enter(c)
  /\ late' = IF closing = "no" THEN late ELSE late \cup {c}
  /\ replaced' = replaced \cup {d \in Conns : Listed(d) /\ name[d] = name[c]}
  /\ Goto(c, "served")
  /\ UNCHANGED <<name, link, close, hpc, master>>

CreateClient(c) ==
  ReadRegistration(c) \/ Refuse(c) \/ AnswerAccepted(c) \/ LookupName(c) \/ InsertClient(c)

-----------------------------------------------------------------------------
(* Server.Close and client.stop.                                            *)

BeginClose ==
  /\ Up /\ running
  /\ running' = FALSE /\ closing' = "stopping"
  /\ conns' = {c \in Conns : Listed(c)}
  /\ UNCHANGED <<name, link, cpc, table, hpc, master>>

\* A second Close unlocks mu twice, which ends the program.
CloseAgain ==
  /\ Up /\ ~running
  /\ master' = "unlocked"
  /\ UNCHANGED <<name, link, cpc, table, close, hpc>>

\* Variant: the entry stays.
DeleteNoSvc(c) == clients' = clients

\* DeleteExistingSvc goes by the name, whoever is entered under it by now.
DeleteExistingSvc(c) == clients' = [clients EXCEPT ![name[c]] = None]

StopClient(c) ==
  /\ Up /\ closing = "stopping" /\ c \in conns
  /\ conns' = conns \ {c}
  /\ link' = [link EXCEPT ![c] = "closed"]
  /\ DeleteExistingSvc(c)
  /\ UNCHANGED <<name, cpc, late, replaced, running, closing, hpc, master>>

CloseReturns ==
  /\ Up /\ closing = "stopping" /\ conns = {}
  /\ closing' = "closed"
  /\ UNCHANGED <<name, link, cpc, table, running, conns, hpc, master>>

-----------------------------------------------------------------------------
(* The HTTP handlers read the table without mu.                             *)

ReadTable(h) ==
  /\ Up /\ hpc[h] = "idle" /\ running
  /\ hpc' = [hpc EXCEPT ![h] = "reading"]
  /\ UNCHANGED <<name, link, cpc, table, close, master>>

TableRead(h) ==
  /\ Up /\ hpc[h] = "reading"
  /\ hpc' = [hpc EXCEPT ![h] = "idle"]
  /\ UNCHANGED <<name, link, cpc, table, close, master>>

\* The runtime aborts a program it catches writing a map that is being read.
ConcurrentMapAccess ==
  /\ Up
  /\ \E h \in Handlers : hpc[h] = "reading"
  /\ \/ \E c \in Conns : cpc[c] = "insert"
     \/ conns # {}
  /\ master' = "aborted"
  /\ UNCHANGED <<name, link, cpc, table, close, hpc>>

-----------------------------------------------------------------------------
Next ==
  \/ \E c \in Conns : Accept(c) \/ AgentLeaves(c) \/ CreateClient(c) \/ StopClient(c)
  \/ BeginClose \/ CloseAgain \/ CloseReturns
  \/ \E h \in Handlers : ReadTable(h) \/ TableRead(h)
  \/ ConcurrentMapAccess

Spec == Init /\ [][Next]_vars

-----------------------------------------------------------------------------
\* Types of the table, the connections and the goroutines.
TypeOK ==
  /\ name \in [Conns -> Names]
  /\ link \in [Conns -> {"new", "open", "closed"}]
  /\ cpc \in [Conns -> {"new", "read", "refused", "accept", "lookup", "insert",
                        "duplicate", "served"}]
  /\ clients \in [Names -> Conns \cup {None}]
  /\ running \in BOOLEAN /\ closing \in {"no", "stopping", "closed"}
  /\ conns \subseteq Conns /\ late \subseteq Conns /\ replaced \subseteq Conns
  /\ hpc \in [Handlers -> {"idle", "reading"}]
  /\ master \in {"up", "aborted", "unlocked"}

(* While the server is not closed, a client createClient has done with is   *)
(* in the table, or another client of the same name is: no registration of  *)
(* a name empties its entry.                                                *)
UnlistedIsShadowed ==
  \A c \in Conns :
    closing = "no" /\ cpc[c] \in {"served", "duplicate"} /\ ~Listed(c) =>
      \E d \in Conns \ {c} : name[d] = name[c] /\ Listed(d) /\ cpc[d] = "served"

(* When Close has returned, what is still in the table or still connected   *)
(* was not in the table when Close made its list: it came late, or a client *)
(* of the same name that looked the name up in time took its entry.         *)
CloseStopsTheListed ==
  closing = "closed" =>
    /\ \A n \in Names : clients[n] # None => clients[n] \in late
    /\ \A c \in Conns : cpc[c] = "served" /\ link[c] = "open" => c \in late \cup replaced

\* The one agent that is connected under its name.
OnlyOne(c) ==
  link[c] = "open" /\ \A d \in Conns \ {c} : name[d] = name[c] => link[d] # "open"

(* ackcode.go, README: an agent that was answered ConnectionAccepted is     *)
(* registered, so that it can be listed, queried and told to start and stop *)
(* processes; also an agent that comes back after its connection was lost.  *)
AcceptedIsListed ==
  \A c \in Conns :
    closing = "no" /\ cpc[c] \in {"served", "duplicate"} /\ OnlyOne(c) => Listed(c)
=============================================================================
