--------------------------- MODULE RegistryProofs ---------------------------
(***************************************************************************)
(* For any number of connections and names: what the master's table of     *)
(* agents keeps, although createClient looks a name up and enters it in    *)
(* two critical sections, and Close works on a list it made before.        *)
(***************************************************************************)
EXTENDS Registry, TLAPS

\* An entry is a client that createClient has done with, under its name.
EntriesAreServed ==
  \A n \in Names : clients[n] # None => name[clients[n]] = n /\ cpc[clients[n]] = "served"

\* Close has not begun as long as the server runs.
ClosePhases ==
  /\ running <=> closing = "no"
  /\ closing # "stopping" => conns = {}

\* Until Close begins, a client loses its entry only to one of its name.
ServedIsListed ==
  closing = "no" => \A c \in Conns : cpc[c] = "served" => Listed(c) \/ c \in replaced

\* While Close works, what it has still to stop is on its list.
ListIsComplete ==
  closing # "no" =>
    /\ \A n \in Names : clients[n] # None => clients[n] \in conns \cup late
    /\ \A c \in Conns : cpc[c] = "served" /\ link[c] = "open" =>
                          c \in conns \cup late \cup replaced

IInv ==
  /\ TypeOK
  /\ EntriesAreServed
  /\ UnlistedIsShadowed
  /\ ClosePhases
  /\ ServedIsListed
  /\ ListIsComplete

LEMMA InitInv == Init => IInv
  BY NoneAssumption
     DEF Init, IInv, TypeOK, EntriesAreServed, UnlistedIsShadowed, ClosePhases,
         ServedIsListed, ListIsComplete, Listed

\* Connections come and go, and their goroutines run createClient.
LEMMA CreateInv ==
  ASSUME IInv, NEW c \in Conns, Accept(c) \/ AgentLeaves(c) \/ CreateClient(c)
  PROVE  IInv'
<1> USE NoneAssumption
    DEF IInv, TypeOK, EntriesAreServed, UnlistedIsShadowed, ClosePhases,
        ServedIsListed, ListIsComplete, Listed, Goto, table, close
<1>1. CASE Accept(c)
  BY <1>1 DEF Accept
<1>2. CASE AgentLeaves(c)
  BY <1>2 DEF AgentLeaves
<1>3. CASE ReadRegistration(c)
  BY <1>3 DEF ReadRegistration
<1>4. CASE Refuse(c)
  BY <1>4 DEF Refuse
<1>5. CASE AnswerAccepted(c)
  BY <1>5 DEF AnswerAccepted
<1>6. CASE LookupName(c)
  BY <1>6 DEF LookupName, NameTaken
<1>7. CASE InsertClient(c)
  <2> USE <1>7 DEF InsertClient, Enter
  <2>1. TypeOK'
    OBVIOUS
  <2>2. EntriesAreServed'
    OBVIOUS
  <2>3. UnlistedIsShadowed'
    OBVIOUS
  <2>4. ClosePhases' /\ ServedIsListed'
    OBVIOUS
  <2>5. ListIsComplete'
    OBVIOUS
  <2> QED
    BY <2>1, <2>2, <2>3, <2>4, <2>5
<1> QED
  BY <1>1, <1>2, <1>3, <1>4, <1>5, <1>6, <1>7 DEF CreateClient

\* Close makes its list and stops what is on it.
LEMMA CloseInv ==
  ASSUME IInv,
         \/ BeginClose \/ CloseAgain \/ CloseReturns
         \/ \E c \in Conns : StopClient(c)
  PROVE  IInv'
<1> USE NoneAssumption
    DEF IInv, TypeOK, EntriesAreServed, UnlistedIsShadowed, ClosePhases,
        ServedIsListed, ListIsComplete, Listed, table, close
<1>1. CASE BeginClose
  <2> USE <1>1 DEF BeginClose
  <2>1. TypeOK' /\ EntriesAreServed'
    OBVIOUS
  <2>2. UnlistedIsShadowed' /\ ClosePhases' /\ ServedIsListed'
    OBVIOUS
  <2>3. \A n \in Names : clients'[n] # None => clients'[n] \in conns'
    OBVIOUS
  <2>4. \A c \in Conns : cpc'[c] = "served" => c \in conns' \cup replaced'
    OBVIOUS
  <2> QED
    BY <2>1, <2>2, <2>3, <2>4
<1>2. CASE CloseAgain
  BY <1>2 DEF CloseAgain
<1>3. CASE CloseReturns
  BY <1>3 DEF CloseReturns
<1>4. ASSUME NEW c \in Conns, StopClient(c)
      PROVE  IInv'
  <2> USE <1>4 DEF StopClient, DeleteExistingSvc
  <2>1. TypeOK' /\ EntriesAreServed'
    OBVIOUS
  <2>2. UnlistedIsShadowed' /\ ClosePhases' /\ ServedIsListed'
    OBVIOUS
  <2>3. ListIsComplete'
    OBVIOUS
  <2> QED
    BY <2>1, <2>2, <2>3
<1> QED
  BY <1>1, <1>2, <1>3, <1>4

\* The invariant, for any constants.
THEOREM Invariance == Spec => []IInv
<1>1. IInv /\ [Next]_vars => IInv'
  <2> SUFFICES ASSUME IInv, [Next]_vars PROVE IInv'
    OBVIOUS
  <2>1. CASE \E h \in Handlers : ReadTable(h) \/ TableRead(h)
    BY <2>1 DEF ReadTable, TableRead, table, close, IInv, TypeOK, EntriesAreServed,
                UnlistedIsShadowed, ClosePhases, ServedIsListed, ListIsComplete, Listed
  <2>2. CASE ConcurrentMapAccess
    BY <2>2 DEF ConcurrentMapAccess, table, close, IInv, TypeOK, EntriesAreServed,
                UnlistedIsShadowed, ClosePhases, ServedIsListed, ListIsComplete, Listed
  <2>3. CASE UNCHANGED vars
    BY <2>3 DEF vars, table, close, IInv, TypeOK, EntriesAreServed,
                UnlistedIsShadowed, ClosePhases, ServedIsListed, ListIsComplete, Listed
  <2> QED
    BY <2>1, <2>2, <2>3, CreateInv, CloseInv DEF Next
<1> QED
  BY InitInv, <1>1, PTL DEF Spec

\* The table, the connections and Close keep their types.
THEOREM TypeCorrect == Spec => []TypeOK
  BY Invariance, PTL DEF IInv

(* createClient: whoever of two agents of one name wins the race, the name  *)
(* keeps an entry, until the server is closed.                              *)
THEOREM NamesKeepAnEntry == Spec => []UnlistedIsShadowed
  BY Invariance, PTL DEF IInv

(* Server.Close stops every client that its list could have held.           *)
THEOREM CloseStopsItsList == Spec => []CloseStopsTheListed
<1>1. IInv => CloseStopsTheListed
  BY DEF IInv, ClosePhases, ListIsComplete, CloseStopsTheListed
<1> QED
  BY Invariance, <1>1, PTL
=============================================================================
