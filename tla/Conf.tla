-------------------------------- MODULE Conf --------------------------------
(***************************************************************************)
(* The reader of configuration files: the parser of conf/parse.go, fed by  *)
(* the lexer of conf/lex.go.                                               *)
(*                                                                         *)
(* The parser calls state functions of the lexer until there is an item,   *)
(* and keeps two stacks: the maps and arrays that are open, and the keys   *)
(* whose value is still to come.  Which key a value gets is decided by the *)
(* place of the key on that stack alone, so the model keeps for each key   *)
(* the number of maps and arrays that were open when it was read.          *)
(***************************************************************************)
EXTENDS ConfLexer

VARIABLES
  ctxs,      \* p.ctxs, of each its kind; p.ctx is the last
  keys,      \* p.keys, of each the height of p.ctxs when it was read
  outcome    \* of Parse

parser == <<ctxs, keys, outcome>>
vars == <<scan, state, stack, items, valueless, ctxs, keys, outcome>>

Init == LexInit /\ ctxs = <<"map">> /\ keys = <<>> /\ outcome = "running"

-----------------------------------------------------------------------------
\* Variant: parse leaves its loop at an error too, and returns what it has.
StopQuietly(how) ==
  outcome' = (IF how = "error" THEN "done" ELSE how) /\ UNCHANGED <<ctxs, keys>>

\* parse stops: at the end, at an error, or in a panic.
Stop(how) == outcome' = how /\ UNCHANGED <<ctxs, keys>>

\* Variant: a value leaves its key.
setValueKeepsKey(cs) == ctxs' = cs /\ UNCHANGED <<keys, outcome>>

\* Variant: an element of an array takes a key too.
setValueNoArray(cs) ==
  /\ ctxs' = cs
  /\ IF keys = <<>> THEN outcome' = "noKey" /\ UNCHANGED keys
     ELSE keys' = Front(keys) /\ UNCHANGED outcome

\* setValue, once the open maps and arrays are cs.  popKey panics without a key.
setValue(cs) ==
  /\ ctxs' = cs
  /\ IF Last(cs) = "array" THEN UNCHANGED <<keys, outcome>>
     ELSE IF keys = <<>> THEN outcome' = "noKey" /\ UNCHANGED keys
     ELSE keys' = Front(keys) /\ UNCHANGED outcome

pushContext(kind) == ctxs' = Append(ctxs, kind) /\ UNCHANGED <<keys, outcome>>

\* Variant: a key is put down for the map above its own.
pushKeyAbove == keys' = Append(keys, Len(ctxs) - 1) /\ UNCHANGED <<ctxs, outcome>>

pushKey == keys' = Append(keys, Len(ctxs)) /\ UNCHANGED <<ctxs, outcome>>

\* Variant: popContext takes the context off and leaves p.ctx what it was.
popAndSetStale ==
  IF Len(ctxs) < 2 THEN Stop("noContext")
  ELSE /\ ctxs' = Front(ctxs)
       /\ IF Last(ctxs) = "array" THEN UNCHANGED <<keys, outcome>>
          ELSE IF keys = <<>> THEN outcome' = "noKey" /\ UNCHANGED keys
          ELSE keys' = Front(keys) /\ UNCHANGED outcome

\* popContext reads the context below the one it takes off.
popAndSet == IF Len(ctxs) < 2 THEN Stop("noContext") ELSE setValue(Front(ctxs))

\* strconv and time.Parse may refuse what the lexer let pass.
convert == setValue(ctxs) \/ Stop("error")

processItem(it) ==
  \/ it = "EOF" /\ Stop("done")
  \/ it \in {"Error", "BUG", "TRUE"} /\ Stop("error")
  \/ it = "Key" /\ pushKey
  \/ it = "MapStart" /\ pushContext("map")
  \/ it = "ArrayStart" /\ pushContext("array")
  \/ it \in {"MapEnd", "ArrayEnd"} /\ popAndSet
  \/ it \in {"String", "true"} /\ setValue(ctxs)
  \/ it \in {"Integer", "Float", "Datetime"} /\ convert
  \/ it \in {"CommentStart", "Text"} /\ UNCHANGED parser

\* nextItem: an item there is, or else one call of the state function.
Process ==
  /\ outcome = "running" /\ items # <<>>
  /\ items' = Tail(items) /\ UNCHANGED <<scan, state, stack, valueless>>
  /\ processItem(Head(items))

Advance == outcome = "running" /\ Lex /\ UNCHANGED parser

Returned == outcome # "running" /\ UNCHANGED vars

Next == Process \/ Advance \/ Returned

Spec == Init /\ [][Next]_vars

\* Parse runs on its own goroutine and waits for nobody.
FairSpec == Spec /\ WF_vars(Next)

-----------------------------------------------------------------------------
(* What the two stacks have to do with each other.                          *)

ArrayStates == {"lexArrayValue", "lexArrayValueEnd", "lexArrayEnd"}
MapStates ==
  {"lexMapKeyStart", "lexMapQuotedKey", "lexMapDubQuotedKey", "lexMapKey",
   "lexMapKeyEnd", "lexMapValue", "lexMapValueEnd", "lexMapEnd"}
TopStates == {"lexTop", "lexTopValueEnd"}

\* The states of the lexer that belong to the innermost map or array itself,
\* and not to a key, a value or a comment in it.
Containers == TopStates \cup MapStates \cup ArrayStates

KindOf(st) == IF st \in ArrayStates THEN "array" ELSE "map"

\* The states the lexer is in or comes back to, from the top level inwards.
Resumed == IF state \in Containers THEN Append(stack, state) ELSE stack

\* The states from the end of a key to the end of its value.
ValueStates ==
  {"lexKeyEnd", "lexMapKeyEnd", "lexMapValue", "lexValue", "lexString",
   "lexQuotedString", "lexDubQuotedString", "lexStringEscape", "lexStringBinary",
   "lexBlock", "lexNumberOrDateStart", "lexNumberStart", "lexFloatStart",
   "lexNumberOrDate", "lexDateAfterYear", "lexNumber", "lexFloat"}

\* The maps in which a key waits for its value: those around the innermost map
\* or array, and that one itself between the key and the end of the value.
Due == {i \in DOMAIN ctxs : ctxs[i] = "map" /\ (i < Len(ctxs) \/ state \in ValueStates)}

\* The parser has had all items, and reads on.
Settled == outcome = "running" /\ items = <<>>

\* State functions that never look for the end of the input.
Deaf ==
  {"lexKey", "lexQuotedKey", "lexDubQuotedKey", "lexMapKey", "lexMapQuotedKey",
   "lexMapDubQuotedKey", "lexQuotedString", "lexDubQuotedString", "lexBlock"}

-----------------------------------------------------------------------------
(* Properties.                                                              *)

\* The variables have the types the code gives them: contexts are maps or
\* arrays, and a key belongs to one of the contexts.
TypeOK ==
  /\ state \in Containers \cup ValueStates \cup Deaf \cup
              {"nil", "lexKeyStart", "lexCommentStart", "lexComment"}
  /\ stack \in Seq(Containers)
  /\ scan.width \in 0..1 /\ scan.len \in 0..Many
  /\ Len(scan.seen) <= 2 /\ Len(scan.ahead) <= 2
  /\ ctxs \in Seq({"map", "array"}) /\ keys \in Seq(Nat \ {0})
  /\ outcome \in {"running", "done", "error", "noContext", "noKey"}

\* Whatever the document, none of the three places the code calls a BUG is
\* reached (lex.go pop, parse.go popContext and popKey), and nextItem never
\* calls the state nil that an error or the end left behind.
NoBug ==
  /\ outcome \notin {"noContext", "noKey"}
  /\ "BUG" \notin {items[i] : i \in DOMAIN items}
  /\ Settled => state # "nil"

\* The stack of the lexer and the stack of the parser are kept apart, one by
\* push and pop, the other by items, and agree whenever the parser has had the
\* items: as many maps and arrays are open, of the same kinds (lex.go push and
\* pop, parse.go pushContext and popContext).
Mirrors ==
  Settled => ctxs = [i \in 1..Len(Resumed) |-> KindOf(Resumed[i])]

\* As long as every key has had a value, the keys on the parser's stack are
\* those whose value is still to come, each for its own map, in the order of the
\* maps: popKey takes the key of the value at hand (parse.go pushKey, setValue).
KeysDue ==
  Settled /\ valueless = 0 =>
    /\ {keys[i] : i \in DOMAIN keys} = Due
    /\ \A i, j \in DOMAIN keys : i < j => keys[i] < keys[j]

\* Parse returns a mapping only of a document whose maps and arrays all have
\* ended (lex.go lexTop, parse.go parse).
Whole == outcome = "done" => ctxs = <<"map">> /\ stack = <<>>

\* Parse returns once the end of the input is there, unless it is inside a key,
\* a text in quotes or a block: these functions read the end as a rune like any
\* other, for ever (lex.go lexKey, lexQuotedKey, lexQuotedString, lexBlock).
StopsAtEnd ==
  scan.ahead = <<EOF>> ~> (outcome # "running" \/ state \in Deaf)

\* A step that takes a key takes the one read for the map the value goes to.
TakesOwnKey == Len(keys') < Len(keys) => Last(keys) = Len(ctxs')

\* As long as no map has ended in place of a value, a value is put under the key
\* that was read for it, in the same map: what lex.go:501 says of lexMapValue, that
\* it "consumes one value in a map", is all that the stack of keys needs.
OwnKeyWhileValued == [][valueless' = 0 => TakesOwnKey]_vars

\* However many maps ended in place of a value: a value that is neither a map nor
\* an array takes its own key, and a map or array that ends takes its own or, when
\* a key was left without a value in it, that one; never a key that waits in a map
\* further out, so that the mistake stays where the document has it.
KeyFromWithin ==
  [][Len(keys') < Len(keys) =>
       /\ Last(keys) >= Len(ctxs')
       /\ ctxs' = ctxs => TakesOwnKey]_vars
=============================================================================
