----------------------------- MODULE ConfProofs -----------------------------
(***************************************************************************)
(* For a document of any length, nested to any depth: the stack of the     *)
(* lexer and the stacks of the parser agree, no place the code calls a BUG *)
(* is reached, and every value gets the key that was read for it as long   *)
(* as no key was left without one.  The lexer's place in the input is what *)
(* its backups need, whatever is read.                                     *)
(***************************************************************************)
EXTENDS Conf, SequenceTheorems, TLAPS

(* The states of the lexer, by what a step may lead to. *)
Waiting  == {"lexMapKeyEnd", "lexMapValue"}
InMap    == MapStates \ Waiting
Inner    == ValueStates \ Waiting
InKey    == {"lexKeyStart", "lexKey", "lexQuotedKey", "lexDubQuotedKey"}
InRemark == {"lexCommentStart", "lexComment"}
States   == Containers \cup ValueStates \cup InKey \cup InRemark \cup {"nil"}

\* The states the lexer puts on its stack.
Resumable ==
  {"lexTop", "lexTopValueEnd", "lexArrayValue", "lexArrayValueEnd",
   "lexMapKeyStart", "lexMapValueEnd"}

Plain  == {"String", "true", "TRUE", "Integer", "Float", "Datetime"}
Starts == {"MapStart", "ArrayStart"}
Ends   == {"MapEnd", "ArrayEnd"}
ItemTypes == Plain \cup Starts \cup Ends \cup
             {"Key", "EOF", "Error", "CommentStart", "Text"}

-----------------------------------------------------------------------------
(* What a step of the lexer does, whatever it reads.                        *)

Move ==
  /\ \/ state \in TopStates /\ state' \in TopStates
     \/ state \in InMap /\ state' \in InMap
     \/ state \in Waiting /\ state' \in Waiting
     \/ state \in ArrayStates /\ state' \in ArrayStates
     \/ state \in Inner /\ state' \in Inner
     \/ state \in InKey /\ state' \in InKey
     \/ state \in InRemark /\ state' \in InRemark
  /\ stack' = stack /\ items' = <<>> /\ valueless' = valueless

NoValue ==
  /\ state = "lexMapValue" /\ state' = "lexMapEnd"
  /\ stack' = stack /\ items' = <<>> /\ valueless' = valueless + 1

Descend(r) ==
  /\ \/ state \in TopStates /\ state' \in InKey \cup InRemark /\ r \in TopStates
     \/ state \in InMap /\ state' \in InRemark /\ r \in InMap
     \/ state \in ArrayStates /\ state' \in Inner \cup InRemark /\ r \in ArrayStates
     \/ state \in Waiting /\ state' \in Inner /\ r \in InMap
  /\ stack' = Append(stack, r) /\ items' = <<>> /\ valueless' = valueless

Tell(t) ==
  /\ \/ t = "Key" /\ state \in InKey /\ state' = "lexKeyEnd"
     \/ t = "Key" /\ state \in InMap /\ state' = "lexMapKeyEnd"
     \/ t = "MapStart" /\ state \in Inner /\ state' = "lexMapKeyStart"
     \/ t = "ArrayStart" /\ state \in Inner /\ state' = "lexArrayValue"
     \/ t = "CommentStart" /\ state \in InRemark /\ state' \in InRemark
     \/ t = "EOF" /\ state \in TopStates /\ state' = "nil"
     \/ t = "Error" /\ state' = "nil"
  /\ stack' = stack /\ items' = <<t>> /\ valueless' = valueless

Return(t) ==
  /\ \/ t \in Plain /\ state \in Inner
     \/ t = "MapEnd" /\ state \in InMap
     \/ t = "ArrayEnd" /\ state \in ArrayStates
     \/ t = "Text" /\ state \in InRemark
  /\ state' = Last(stack) /\ stack' = Front(stack)
  /\ items' = <<t>> /\ valueless' = valueless

Shape ==
  /\ items = <<>>
  /\ \/ Move
     \/ NoValue
     \/ \E r \in Resumable : Descend(r)
     \/ \E t \in ItemTypes : Tell(t)
     \/ \E t \in ItemTypes : Return(t)

\* There is something to go back to, except at the top level.
Rooted == state \notin TopStates \cup {"nil"} => stack # <<>>

\* The top level.
LEMMA TopShape ==
  ASSUME Rooted,
         \/ lexTop \/ lexTopValueEnd
  PROVE  Shape
<1> USE DEF Shape, Move, NoValue, Descend, Tell, Return, Resumable, ItemTypes,
            Plain, Starts, Ends, Call, Goto, Skip, push, emit, errorf,
            emitAndPop, Comment, TopStates, InKey, InRemark
<1>1. CASE lexTop
  BY <1>1 DEF lexTop
<1>2. CASE lexTopValueEnd
  BY <1>2 DEF lexTopValueEnd
<1> QED
  BY <1>1, <1>2

\* Keys at the top level.
LEMMA KeyShape ==
  ASSUME Rooted,
         \/ lexKeyStart \/ lexDubQuotedKey \/ lexQuotedKey \/ lexKey
         \/ lexKeyEnd
  PROVE  Shape
<1> USE DEF Shape, Move, NoValue, Descend, Tell, Return, Resumable, ItemTypes,
            Plain, Starts, Ends, Call, Goto, Skip, push, emit, errorf,
            emitAndPop, QuotedKey, BareKey, KeyEnd, InKey, Inner, ValueStates,
            Waiting
<1>1. CASE lexKeyStart
  BY <1>1 DEF lexKeyStart
<1>2. CASE lexDubQuotedKey
  BY <1>2 DEF lexDubQuotedKey
<1>3. CASE lexQuotedKey
  BY <1>3 DEF lexQuotedKey
<1>4. CASE lexKey
  BY <1>4 DEF lexKey
<1>5. CASE lexKeyEnd
  BY <1>5 DEF lexKeyEnd
<1> QED
  BY <1>1, <1>2, <1>3, <1>4, <1>5

\* Keys in maps.
LEMMA MapKeyShape ==
  ASSUME Rooted,
         \/ lexMapKeyStart \/ lexMapQuotedKey \/ lexMapDubQuotedKey
         \/ lexMapKey \/ lexMapKeyEnd
  PROVE  Shape
<1> USE DEF Shape, Move, NoValue, Descend, Tell, Return, Resumable, ItemTypes,
            Plain, Starts, Ends, Call, Goto, Skip, push, emit, errorf,
            emitAndPop, Comment, QuotedKey, BareKey, KeyEnd, InMap, MapStates,
            Waiting, InRemark
<1>1. CASE lexMapKeyStart
  BY <1>1 DEF lexMapKeyStart
<1>2. CASE lexMapQuotedKey
  BY <1>2 DEF lexMapQuotedKey
<1>3. CASE lexMapDubQuotedKey
  BY <1>3 DEF lexMapDubQuotedKey
<1>4. CASE lexMapKey
  BY <1>4 DEF lexMapKey
<1>5. CASE lexMapKeyEnd
  BY <1>5 DEF lexMapKeyEnd
<1> QED
  BY <1>1, <1>2, <1>3, <1>4, <1>5

\* Maps.
LEMMA MapShape ==
  ASSUME Rooted,
         \/ lexMapValue \/ lexMapValueEnd \/ lexMapEnd
  PROVE  Shape
<1> USE DEF Shape, Move, NoValue, Descend, Tell, Return, Resumable, ItemTypes,
            Plain, Starts, Ends, Call, Goto, Skip, push, emit, errorf,
            emitAndPop, Comment, InMap, MapStates, Waiting, InRemark, Inner,
            ValueStates, TopStates, Rooted
<1>1. CASE lexMapValue
  BY <1>1 DEF lexMapValue
<1>2. CASE lexMapValueEnd
  BY <1>2 DEF lexMapValueEnd
<1>3. CASE lexMapEnd
  BY <1>3 DEF lexMapEnd
<1> QED
  BY <1>1, <1>2, <1>3

\* Arrays.
LEMMA ArrayShape ==
  ASSUME Rooted,
         \/ lexArrayValue \/ lexArrayValueEnd \/ lexArrayEnd
  PROVE  Shape
<1> USE DEF Shape, Move, NoValue, Descend, Tell, Return, Resumable, ItemTypes,
            Plain, Starts, Ends, Call, Goto, Skip, push, emit, errorf,
            emitAndPop, Comment, ArrayStates, InRemark, Inner, ValueStates,
            Waiting, TopStates, Rooted
<1>1. CASE lexArrayValue
  BY <1>1 DEF lexArrayValue
<1>2. CASE lexArrayValueEnd
  BY <1>2 DEF lexArrayValueEnd
<1>3. CASE lexArrayEnd
  BY <1>3 DEF lexArrayEnd
<1> QED
  BY <1>1, <1>2, <1>3

\* Values, and strings.
LEMMA StringShape ==
  ASSUME Rooted,
         \/ lexValue \/ lexQuotedString \/ lexDubQuotedString
         \/ lexString \/ lexStringEscape \/ lexStringBinary \/ lexBlock
  PROVE  Shape
<1> USE DEF Shape, Move, NoValue, Descend, Tell, Return, Resumable, ItemTypes,
            Plain, Starts, Ends, Call, Goto, Skip, push, emit, errorf,
            emitAndPop, QuotedString, Word, Inner, ValueStates, Waiting,
            TopStates, Rooted
<1>1. CASE lexValue
  BY <1>1 DEF lexValue
<1>2. CASE lexQuotedString
  BY <1>2 DEF lexQuotedString
<1>3. CASE lexDubQuotedString
  BY <1>3 DEF lexDubQuotedString
<1>4. CASE lexString
  BY <1>4 DEF lexString
<1>5. CASE lexStringEscape
  BY <1>5 DEF lexStringEscape
<1>6. CASE lexStringBinary
  BY <1>6 DEF lexStringBinary
<1>7. CASE lexBlock
  BY <1>7 DEF lexBlock
<1> QED
  BY <1>1, <1>2, <1>3, <1>4, <1>5, <1>6, <1>7

\* Numbers and dates.
LEMMA NumberShape ==
  ASSUME Rooted,
         \/ lexNumberOrDateStart \/ lexNumberStart \/ lexFloatStart
         \/ lexNumberOrDate \/ lexDateAfterYear \/ lexNumber
         \/ lexFloat
  PROVE  Shape
<1> USE DEF Shape, Move, NoValue, Descend, Tell, Return, Resumable, ItemTypes,
            Plain, Starts, Ends, Call, Goto, Skip, push, emit, errorf,
            emitAndPop, FirstDigit, Inner, ValueStates, Waiting, TopStates,
            Rooted
<1>1. CASE lexNumberOrDateStart
  BY <1>1 DEF lexNumberOrDateStart
<1>2. CASE lexNumberStart
  BY <1>2 DEF lexNumberStart
<1>3. CASE lexFloatStart
  BY <1>3 DEF lexFloatStart
<1>4. CASE lexNumberOrDate
  BY <1>4 DEF lexNumberOrDate
<1>5. CASE lexDateAfterYear
  BY <1>5 DEF lexDateAfterYear
<1>6. CASE lexNumber
  BY <1>6 DEF lexNumber
<1>7. CASE lexFloat
  BY <1>7 DEF lexFloat
<1> QED
  BY <1>1, <1>2, <1>3, <1>4, <1>5, <1>6, <1>7

\* Comments.
LEMMA CommentShape ==
  ASSUME Rooted,
         \/ lexCommentStart \/ lexComment
  PROVE  Shape
<1> USE DEF Shape, Move, NoValue, Descend, Tell, Return, Resumable, ItemTypes,
            Plain, Starts, Ends, Call, Goto, Skip, push, emit, errorf,
            emitAndPop, InRemark, TopStates, Rooted
<1>1. CASE lexCommentStart
  BY <1>1 DEF lexCommentStart
<1>2. CASE lexComment
  BY <1>2 DEF lexComment
<1> QED
  BY <1>1, <1>2

\* What any call of a state function does to the stack and to the items.
LEMMA LexShape ==
  ASSUME Rooted, Lex
  PROVE  Shape
BY TopShape, KeyShape, MapKeyShape, MapShape, ArrayShape, StringShape, NumberShape,
   CommentShape DEF Lex

-----------------------------------------------------------------------------
(* The inductive invariant.                                                 *)

\* The item that waits for the parser.
Item == IF items = <<>> THEN "none" ELSE items[1]

Types ==
  /\ state \in States /\ stack \in Seq(Resumable) /\ valueless \in Nat
  /\ items \in {<<>>} \cup {<<t>> : t \in ItemTypes}
  /\ ctxs \in Seq({"map", "array"}) /\ keys \in Seq(Nat \ {0})
  /\ outcome \in {"running", "done", "error"}

\* The top level is at the bottom of the stack, and nowhere else.
Bottom ==
  /\ \A i \in 1..Len(stack) : stack[i] \in TopStates <=> i = 1
  /\ state \in TopStates => stack = <<>>
  /\ state \in InKey => Len(stack) = 1
  /\ Rooted

\* What the lexer did after it emitted the item is done.
Emitted ==
  /\ Item = "none" => state # "nil"
  /\ state = "nil" => Item \in {"EOF", "Error"}
  /\ Item = "Error" => state = "nil"
  /\ Item = "EOF" => state = "nil" /\ stack = <<>> /\ ctxs = <<"map">>
  /\ Item = "Key" => \/ state = "lexMapKeyEnd"
                     \/ state = "lexKeyEnd" /\ Len(stack) = 1
  /\ Item = "MapStart" => state = "lexMapKeyStart"
  /\ Item = "ArrayStart" => state = "lexArrayValue"
  /\ Item \in Plain \cup Ends => state \in Resumable

\* The parser is behind the lexer by the item that waits.
Behind ==
  /\ Item \in Starts => Len(ctxs) = Len(stack)
  /\ Item \in Ends => Len(ctxs) = Len(stack) + 2
  /\ Item \notin Starts \cup Ends =>
       Len(ctxs) = Len(stack) + (IF state \in Containers THEN 1 ELSE 0)

SameKinds ==
  /\ \A i \in 1..Len(stack) : ctxs[i] = KindOf(stack[i])
  /\ Item \notin Starts /\ state \in Containers => ctxs[Len(stack) + 1] = KindOf(state)

\* A key waits for its value, or the value waits for the parser, in the innermost
\* map or array the parser has.
LastDue ==
  \/ Item \in Plain \cup Starts
  \/ Item \notin Ends \cup {"Key"} /\ state \in ValueStates

Needed == {i \in 1..Len(ctxs) : ctxs[i] = "map" /\ (i < Len(ctxs) \/ LastDue)}

\* The keys ks are those of the maps N, in their order.
Exact(ks, N) ==
  /\ \A k \in 1..Len(ks) : ks[k] \in N
  /\ \A i \in N : \E k \in 1..Len(ks) : ks[k] = i
  /\ \A k, l \in 1..Len(ks) : k < l => ks[k] < ks[l]

\* In ks each map of N has its key, and only keys from inside that map are above it.
Above(ks, N) ==
  \A i \in N : \E k \in 1..Len(ks) : ks[k] = i /\ \A l \in k..Len(ks) : ks[l] >= i

\* Also when keys were left; and nothing is above the key that is at its value.
EnoughKeys ==
  /\ Above(keys, Needed)
  /\ Len(ctxs) \in Needed => Last(keys) = Len(ctxs)
OwnKeys == valueless = 0 => Exact(keys, Needed)

Lockstep == Bottom /\ Emitted /\ (state # "nil" => Behind /\ SameKinds /\ EnoughKeys /\ OwnKeys)

IInv ==
  /\ Types
  /\ outcome = "running" => Lockstep
  /\ outcome = "done" =>
       state = "nil" /\ ctxs = <<"map">> /\ stack = <<>>

\* The invariant holds at the start.
LEMMA InitInv == Init => IInv
<1> SUFFICES ASSUME Init PROVE IInv
  OBVIOUS
<1> USE DEF Init, LexInit
<1>1. Types
  BY DEF Types, States, Containers, TopStates
<1>2. Bottom /\ Emitted
  BY DEF Bottom, Emitted, Rooted, Item, TopStates, InKey, Plain, Ends
<1>3. Behind /\ SameKinds
  BY DEF Behind, SameKinds, Item, Starts, Ends, Containers, TopStates, KindOf, ArrayStates
<1>4. Needed = {}
  BY DEF Needed, LastDue, Item, Plain, Starts, ValueStates
<1>5. EnoughKeys
  BY <1>4 DEF EnoughKeys, Above
<1>6. OwnKeys
  BY <1>4 DEF OwnKeys, Exact
<1> QED
  BY <1>1, <1>2, <1>3, <1>5, <1>6 DEF IInv, Lockstep

-----------------------------------------------------------------------------
(* Sequences of keys.                                                       *)

\* Facts about what is left of a stack when its top is taken.
LEMMA FrontLast ==
  ASSUME NEW S, NEW s \in Seq(S), s # <<>>
  PROVE  /\ Len(s) \in Nat \ {0} /\ Front(s) \in Seq(S) /\ Len(Front(s)) = Len(s) - 1
         /\ \A i \in 1..(Len(s) - 1) : Front(s)[i] = s[i]
         /\ Last(s) = s[Len(s)] /\ Last(s) \in S
<1> DEFINE n == Len(s) - 1
<1>1. Len(s) \in Nat \ {0} /\ \A i \in 1..Len(s) : s[i] \in S
  OBVIOUS
<1>2. n \in Int /\ 1 \in Int /\ \A i \in 1..n : s[i] \in S
  BY <1>1
<1> HIDE DEF n
<1>3. /\ SubSeq(s, 1, n) \in Seq(S)
      /\ Len(SubSeq(s, 1, n)) = IF 1 <= n THEN n - 1 + 1 ELSE 0
      /\ \A i \in 1..(n - 1 + 1) : SubSeq(s, 1, n)[i] = s[1 + i - 1]
  BY <1>2, SubSeqProperties
<1>4. n \in Nat /\ n = Len(s) - 1
  BY <1>1 DEF n
<1>5. Len(SubSeq(s, 1, n)) = n /\ \A i \in 1..n : SubSeq(s, 1, n)[i] = s[i]
  BY <1>3, <1>4
<1> QED
  BY <1>1, <1>3, <1>4, <1>5 DEF Front, Last

\* The key of the innermost map leaves exactly the others' keys.
LEMMA PopExact ==
  ASSUME NEW ks \in Seq(Nat \ {0}), NEW n \in Nat, NEW N \in SUBSET (1..n), n \in N,
         ks # <<>>, Exact(ks, N)
  PROVE  Last(ks) = n /\ Exact(Front(ks), N \ {n})
<1> DEFINE m == Len(ks)
<1>1. /\ m \in Nat \ {0} /\ Last(ks) = ks[m] /\ Len(Front(ks)) = m - 1
      /\ \A k \in 1..(m - 1) : Front(ks)[k] = ks[k]
  BY FrontLast
<1>2. /\ \A k \in 1..m : ks[k] \in N
      /\ \A i \in N : \E k \in 1..m : ks[k] = i
      /\ \A k, l \in 1..m : k < l => ks[k] < ks[l]
  BY DEF Exact
<1> HIDE DEF m
<1>3. ks[m] = n
  <2>1. PICK k \in 1..m : ks[k] = n
    BY <1>2
  <2>a. m \in 1..m
    BY <1>1
  <2>2. m \in 1..m /\ ks[m] \in N /\ ks[m] \in 1..n
    BY <1>2, <2>a
  <2>3. k < m => n < ks[m]
    BY <1>2, <2>1, <2>2
  <2> QED
    BY <1>1, <2>1, <2>2, <2>3
<1>4. \A k \in 1..(m - 1) : Front(ks)[k] \in N \ {n}
  <2> TAKE k \in 1..(m - 1)
  <2>1. k \in 1..m /\ m \in 1..m /\ k < m
    BY <1>1
  <2>2. ks[k] \in N /\ ks[k] < n /\ Front(ks)[k] = ks[k]
    BY <1>1, <1>2, <1>3, <2>1
  <2> QED
    BY <2>2
<1>5. \A i \in N \ {n} : \E k \in 1..(m - 1) : Front(ks)[k] = i
  <2> TAKE i \in N \ {n}
  <2>1. PICK k \in 1..m : ks[k] = i
    BY <1>2
  <2>2. k \in 1..(m - 1)
    BY <1>1, <1>3, <2>1
  <2> QED
    BY <1>1, <2>1, <2>2
<1>6. \A k, l \in 1..(m - 1) : k < l => Front(ks)[k] < Front(ks)[l]
  <2> TAKE k, l \in 1..(m - 1)
  <2>1. k \in 1..m /\ l \in 1..m
    BY <1>1
  <2> QED
    BY <1>1, <1>2, <2>1
<1> QED
  BY <1>1, <1>3, <1>4, <1>5, <1>6 DEF Exact

\* A map among those around the innermost is not the innermost.
LEMMA BelowTop ==
  ASSUME NEW n \in Nat \ {0}, NEW N \in SUBSET (1..(n - 1)), NEW x \in N
  PROVE  x \in Nat /\ x < n
OBVIOUS

\* A key put down for the innermost map leaves the others' where they are.
LEMMA PushExact ==
  ASSUME NEW ks \in Seq(Nat \ {0}), NEW n \in Nat \ {0}, NEW N \in SUBSET (1..(n - 1)),
         Exact(ks, N)
  PROVE  Exact(Append(ks, n), N \cup {n})
<1> DEFINE m == Len(ks)
<1>1. /\ m \in Nat /\ Len(Append(ks, n)) = m + 1 /\ Append(ks, n)[m + 1] = n
      /\ \A k \in 1..m : Append(ks, n)[k] = ks[k]
  OBVIOUS
<1>2. /\ \A k \in 1..m : ks[k] \in N
      /\ \A i \in N : \E k \in 1..m : ks[k] = i
      /\ \A k, l \in 1..m : k < l => ks[k] < ks[l]
  BY DEF Exact
<1> HIDE DEF m
<1>3. \A k \in 1..(m + 1) : k \in 1..m \/ k = m + 1
  BY <1>1
<1>4. \A k \in 1..(m + 1) : Append(ks, n)[k] \in N \cup {n}
  BY <1>1, <1>2, <1>3
<1>5. \A i \in N \cup {n} : \E k \in 1..(m + 1) : Append(ks, n)[k] = i
  <2>1. m + 1 \in 1..(m + 1) /\ \A k \in 1..m : k \in 1..(m + 1)
    BY <1>1
  <2> QED
    BY <1>1, <1>2, <2>1
<1>6. ASSUME NEW k \in 1..(m + 1), NEW l \in 1..(m + 1), k < l
      PROVE  Append(ks, n)[k] < Append(ks, n)[l]
  <2>1. k \in 1..m
    BY <1>1, <1>6
  <2>2. Append(ks, n)[k] = ks[k] /\ ks[k] \in N
    BY <1>1, <1>2, <2>1
  <2>3. CASE l \in 1..m
    BY <1>1, <1>2, <1>6, <2>1, <2>3
  <2>4. CASE l = m + 1
    <3>1. Append(ks, n)[l] = n
      BY <1>1, <2>4
    <3>2. ks[k] < n
      BY <2>2, BelowTop
    <3> QED
      BY <2>2, <3>1, <3>2
  <2> QED
    BY <1>3, <2>3, <2>4
<1> QED
  BY <1>1, <1>4, <1>5, <1>6 DEF Exact

\* A value that takes the topmost key leaves the other maps theirs.
LEMMA PopAbove ==
  ASSUME NEW ks \in Seq(Nat \ {0}), NEW n \in Nat, NEW N \in SUBSET (1..n), n \in N,
         Above(ks, N)
  PROVE  ks # <<>> /\ Last(ks) >= n /\ Above(Front(ks), N \ {n})
<1> DEFINE m == Len(ks)
<1>1. ks # <<>>
  BY DEF Above
<1>2. /\ m \in Nat \ {0} /\ Last(ks) = ks[m] /\ Len(Front(ks)) = m - 1
      /\ \A k \in 1..(m - 1) : Front(ks)[k] = ks[k]
  BY <1>1, FrontLast
<1>3. \A i \in N : \E k \in 1..m : ks[k] = i /\ \A l \in k..m : ks[l] >= i
  BY DEF Above
<1> HIDE DEF m
<1>4. ks[m] >= n
  BY <1>2, <1>3
<1>5. ASSUME NEW i \in N \ {n}
      PROVE  \E k \in 1..(m - 1) :
               Front(ks)[k] = i /\ \A l \in k..(m - 1) : Front(ks)[l] >= i
  <2>1. PICK k \in 1..m : ks[k] = i /\ \A l \in k..m : ks[l] >= i
    BY <1>3
  <2>2. i \in Nat /\ i < n
    OBVIOUS
  <2>3. k # m
    BY <1>4, <2>1, <2>2
  <2>4. k \in 1..(m - 1)
    BY <1>2, <2>3
  <2>5. \A l \in k..(m - 1) : l \in k..m /\ l \in 1..(m - 1)
    BY <1>2, <2>4
  <2> QED
    BY <1>2, <2>1, <2>4, <2>5
<1> QED
  BY <1>1, <1>2, <1>4, <1>5 DEF Above

\* A key put down for the innermost map is above no key of a map inside it.
LEMMA PushAbove ==
  ASSUME NEW ks \in Seq(Nat \ {0}), NEW n \in Nat \ {0}, NEW N \in SUBSET (1..(n - 1)),
         Above(ks, N)
  PROVE  Above(Append(ks, n), N \cup {n}) /\ Last(Append(ks, n)) = n
<1> DEFINE m == Len(ks)
           new == Append(ks, n)
<1>1. /\ m \in Nat /\ Len(new) = m + 1 /\ new[m + 1] = n
      /\ \A k \in 1..m : new[k] = ks[k]
  OBVIOUS
<1>2. \A i \in N : \E k \in 1..m : ks[k] = i /\ \A l \in k..m : ks[l] >= i
  BY DEF Above
<1> HIDE DEF m, new
<1>3. ASSUME NEW i \in N
      PROVE  \E k \in 1..(m + 1) : new[k] = i /\ \A l \in k..(m + 1) : new[l] >= i
  <2>1. PICK k \in 1..m : ks[k] = i /\ \A l \in k..m : ks[l] >= i
    BY <1>2
  <2>2. i \in Nat /\ n >= i
    BY BelowTop
  <2>3. \A l \in k..(m + 1) : (l \in k..m /\ l \in 1..m) \/ l = m + 1
    BY <1>1
  <2>4. k \in 1..(m + 1)
    BY <1>1
  <2> QED
    BY <1>1, <2>1, <2>2, <2>3, <2>4
<1>4. m + 1 \in 1..(m + 1) /\ \A l \in (m + 1)..(m + 1) : l = m + 1
  BY <1>1
<1>5. \A l \in (m + 1)..(m + 1) : new[l] >= n
  BY <1>1, <1>4
<1>6. Above(new, N \cup {n})
  BY <1>1, <1>3, <1>4, <1>5 DEF Above
<1> QED
  BY <1>1, <1>6 DEF Last, new

-----------------------------------------------------------------------------
(* Steps.                                                                   *)

\* A step of the lexer, while the parser has nothing to do.
LEMMA LexInv ==
  ASSUME IInv, outcome = "running", Shape, UNCHANGED parser
  PROVE  IInv'
<1> USE DEF parser, States, Containers, TopStates, MapStates, ArrayStates,
            ValueStates, InKey, InRemark, InMap, Inner, Waiting, Resumable,
            ItemTypes, Plain, Starts, Ends
<1>i. Types /\ Bottom /\ Emitted /\ items = <<>> /\ Item = "none" /\ state # "nil"
  BY DEF IInv, Lockstep, Shape, Emitted, Item
<1>k. Behind /\ SameKinds /\ EnoughKeys /\ OwnKeys
  BY <1>i DEF IInv, Lockstep
<1>1. CASE Move
  <2> USE <1>i, <1>1 DEF Move
  <2>1. Types'
    BY DEF Types
  <2>2. Bottom'
    BY DEF Types, Bottom, Rooted
  <2>3. Emitted'
    BY <1>k DEF Types, Bottom, Rooted, Emitted, Behind, SameKinds, Item, KindOf
  <2>4. state' # "nil" => Behind'
    BY <1>k DEF Types, Bottom, Rooted, Behind, Item
  <2>5. state' # "nil" => SameKinds'
    BY <1>k DEF Types, Bottom, Rooted, Behind, SameKinds, Item, KindOf
  <2>6. ASSUME state' # "nil"
        PROVE  Needed' = Needed /\ valueless' = valueless
    BY <1>k, <2>6 DEF Types, Bottom, Rooted, Behind, SameKinds, Item, KindOf, Needed,
            LastDue
  <2>7. state' # "nil" => EnoughKeys'
    BY <1>k, <2>6 DEF EnoughKeys
  <2>8. state' # "nil" => OwnKeys'
    BY <1>k, <2>6 DEF OwnKeys
  <2> QED
    BY <2>1, <2>2, <2>3, <2>4, <2>5, <2>7, <2>8 DEF IInv, Lockstep
<1>2. CASE NoValue
  <2> USE <1>i, <1>2 DEF NoValue
  <2>1. Types'
    BY DEF Types
  <2>2. Bottom'
    BY DEF Types, Bottom, Rooted
  <2>3. Emitted'
    BY <1>k DEF Types, Bottom, Rooted, Emitted, Behind, SameKinds, Item, KindOf
  <2>4. state' # "nil" => Behind'
    BY <1>k DEF Types, Bottom, Rooted, Behind, Item
  <2>5. state' # "nil" => SameKinds'
    BY <1>k DEF Types, Bottom, Rooted, Behind, SameKinds, Item, KindOf
  <2>6. Len(ctxs) \in Needed /\ Needed' = Needed \ {Len(ctxs)}
    BY <1>k DEF Types, Bottom, Rooted, Behind, SameKinds, Item, KindOf, Needed,
            LastDue
  <2>7. EnoughKeys'
    BY <1>k, <2>6 DEF EnoughKeys, Above
  <2>8. OwnKeys'
    BY DEF OwnKeys, Types
  <2> QED
    BY <2>1, <2>2, <2>3, <2>4, <2>5, <2>7, <2>8 DEF IInv, Lockstep
<1>3. ASSUME NEW r \in Resumable, Descend(r)
      PROVE  IInv'
  <2> USE <1>i, <1>3 DEF Descend
  <2>1. Types'
    BY DEF Types
  <2>2. Bottom'
    <3>1. /\ Len(stack) \in Nat /\ Len(stack') = Len(stack) + 1
          /\ stack'[Len(stack) + 1] = r /\ stack' # <<>>
          /\ \A i \in 1..Len(stack) : stack'[i] = stack[i]
      BY DEF Types
    <3>2. r \in TopStates <=> Len(stack) = 0
      BY DEF Types, Bottom, Rooted
    <3>3. \A i \in 1..Len(stack') : stack'[i] \in TopStates <=> i = 1
      BY <3>1, <3>2 DEF Bottom
    <3> QED
      BY <3>1, <3>3 DEF Bottom, Rooted
  <2>3. Emitted'
    BY <1>k DEF Types, Bottom, Rooted, Emitted, Behind, SameKinds, Item, KindOf
  <2>4. state' # "nil" => Behind'
    BY <1>k DEF Types, Bottom, Rooted, Behind, Item
  <2>5. state' # "nil" => SameKinds'
    BY <1>k DEF Types, Bottom, Rooted, Behind, SameKinds, Item, KindOf
  <2>6. ASSUME state' # "nil"
        PROVE  Needed' = Needed /\ valueless' = valueless
    BY <1>k, <2>6 DEF Types, Bottom, Rooted, Behind, SameKinds, Item, KindOf, Needed,
            LastDue
  <2>7. state' # "nil" => EnoughKeys'
    BY <1>k, <2>6 DEF EnoughKeys
  <2>8. state' # "nil" => OwnKeys'
    BY <1>k, <2>6 DEF OwnKeys
  <2> QED
    BY <2>1, <2>2, <2>3, <2>4, <2>5, <2>7, <2>8 DEF IInv, Lockstep
<1>4. ASSUME NEW t \in ItemTypes, Tell(t)
      PROVE  IInv'
  <2> USE <1>i, <1>4 DEF Tell
  <2>1. Types'
    BY DEF Types
  <2>2. Bottom'
    BY DEF Types, Bottom, Rooted
  <2>3. Emitted'
    BY <1>k DEF Types, Bottom, Rooted, Emitted, Behind, SameKinds, Item, KindOf
  <2>4. state' # "nil" => Behind'
    BY <1>k DEF Types, Bottom, Rooted, Behind, Item
  <2>5. state' # "nil" => SameKinds'
    BY <1>k DEF Types, Bottom, Rooted, Behind, SameKinds, Item, KindOf
  <2>6. ASSUME state' # "nil"
        PROVE  Needed' = Needed /\ valueless' = valueless
    BY <1>k, <2>6 DEF Types, Bottom, Rooted, Behind, SameKinds, Item, KindOf, Needed,
            LastDue
  <2>7. state' # "nil" => EnoughKeys'
    BY <1>k, <2>6 DEF EnoughKeys
  <2>8. state' # "nil" => OwnKeys'
    BY <1>k, <2>6 DEF OwnKeys
  <2> QED
    BY <2>1, <2>2, <2>3, <2>4, <2>5, <2>7, <2>8 DEF IInv, Lockstep
<1>5. ASSUME NEW t \in ItemTypes, Return(t)
      PROVE  IInv'
  <2> USE <1>i, <1>5 DEF Return
  <2>a. state \notin TopStates \cup {"nil"}
    OBVIOUS
  <2>b. /\ Len(stack) \in Nat \ {0} /\ stack' \in Seq(Resumable)
        /\ Len(stack') = Len(stack) - 1 /\ state' = stack[Len(stack)]
        /\ \A i \in 1..Len(stack') : stack'[i] = stack[i]
        /\ state' \in Resumable
    BY <2>a DEF Types, Bottom, Rooted, Last, Front
  <2>1. Types'
    BY <2>b DEF Types
  <2>2. Bottom'
    BY <2>b DEF Types, Bottom, Rooted
  <2>3. Emitted'
    BY <2>b, <1>k DEF Types, Bottom, Rooted, Emitted, Behind, SameKinds, Item, KindOf
  <2>4. state' # "nil" => Behind'
    BY <2>b, <1>k DEF Types, Bottom, Rooted, Behind, Item
  <2>5. state' # "nil" => SameKinds'
    BY <2>b, <1>k DEF Types, Bottom, Rooted, Behind, SameKinds, Item, KindOf
  <2>c. LastDue' <=> LastDue
    BY <2>b DEF LastDue, Item
  <2>6. Needed' = Needed /\ valueless' = valueless
    BY <2>c DEF Needed
  <2>7. state' # "nil" => EnoughKeys'
    BY <1>k, <2>6 DEF EnoughKeys
  <2>8. state' # "nil" => OwnKeys'
    BY <1>k, <2>6 DEF OwnKeys
  <2> QED
    BY <2>1, <2>2, <2>3, <2>4, <2>5, <2>7, <2>8 DEF IInv, Lockstep
<1> QED
  BY <1>1, <1>2, <1>3, <1>4, <1>5 DEF Shape

\* A value takes the key of the map it is put into, and only that one.
LEMMA ValueInv ==
  ASSUME Types, EnoughKeys, OwnKeys, NEW cs \in Seq({"map", "array"}), cs # <<>>,
         setValue(cs), valueless' = valueless,
         Needed \in SUBSET (1..Len(cs)), Needed' = Needed \ {Len(cs)},
         cs[Len(cs)] = "map" <=> Len(cs) \in Needed
  PROVE  /\ ctxs' = cs /\ outcome' = outcome /\ keys' \in Seq(Nat \ {0})
         /\ EnoughKeys' /\ OwnKeys'
         /\ Len(keys') < Len(keys) =>
              /\ valueless = 0 => Last(keys) = Len(cs)
              /\ Last(keys) >= Len(cs)
              /\ cs = ctxs => Last(keys) = Len(cs)
<1> DEFINE n == Len(cs)
<1>1. n \in Nat \ {0} /\ cs[n] \in {"map", "array"} /\ Last(cs) = cs[n]
  BY DEF Last
<1>2. keys \in Seq(Nat \ {0}) /\ Len(keys) \in Nat
  BY DEF Types
<1>3. CASE cs[n] = "array"
  <2>1. ctxs' = cs /\ keys' = keys /\ outcome' = outcome
    BY <1>1, <1>3 DEF setValue
  <2>2. n \notin Needed
    BY <1>1, <1>3
  <2>3. Needed' = Needed
    BY <2>2
  <2>4. EnoughKeys' /\ OwnKeys'
    BY <2>1, <2>2, <2>3 DEF EnoughKeys, OwnKeys
  <2> QED
    BY <1>2, <2>1, <2>4
<1>4. CASE cs[n] = "map"
  <2>1. n \in Needed
    BY <1>4
  <2>2. keys # <<>> /\ Last(keys) >= n /\ Above(Front(keys), Needed \ {n})
    BY <1>1, <1>2, <2>1, PopAbove DEF EnoughKeys
  <2>3. valueless = 0 => Last(keys) = n /\ Exact(Front(keys), Needed \ {n})
    BY <1>1, <1>2, <2>1, <2>2, PopExact DEF OwnKeys
  <2>4. ctxs' = cs /\ outcome' = outcome /\ keys' = Front(keys)
    BY <1>1, <1>4, <2>2 DEF setValue
  <2>5. keys' \in Seq(Nat \ {0}) /\ Len(keys') = Len(keys) - 1
    BY <1>2, <2>2, <2>4, FrontLast
  <2>6. cs = ctxs => Last(keys) = n
    BY <2>1 DEF EnoughKeys
  <2> QED
    BY <2>2, <2>3, <2>4, <2>5, <2>6 DEF EnoughKeys, OwnKeys
<1> QED
  BY <1>1, <1>3, <1>4

\* The lexer goes on when the parser has had all items.
LEMMA AdvanceInv ==
  ASSUME IInv, Advance
  PROVE  IInv'
<1>1. Rooted
  BY DEF IInv, Lockstep, Bottom, Advance
<1> QED
  BY <1>1, LexShape, LexInv DEF Advance

\* The parser takes the item.
LEMMA ProcessInv ==
  ASSUME IInv, Process
  PROVE  /\ IInv'
         /\ valueless' = 0 => TakesOwnKey
         /\ Len(keys') < Len(keys) =>
              Last(keys) >= Len(ctxs') /\ (ctxs' = ctxs => TakesOwnKey)
<1>a. /\ outcome = "running" /\ items' = <<>>
      /\ UNCHANGED <<state, stack, valueless>>
      /\ Types /\ Bottom /\ Emitted /\ Rooted
      /\ state # "nil" => Behind /\ SameKinds /\ EnoughKeys /\ OwnKeys
      /\ items = <<Item>> /\ Item \in ItemTypes /\ Item' = "none"
      /\ processItem(Item)
  <2>1. outcome = "running" /\ items # <<>> /\ Types /\ Lockstep
    BY DEF IInv, Process
  <2>2. PICK t \in ItemTypes : items = <<t>>
    BY <2>1 DEF Types
  <2>3. Item = t /\ Head(items) = t /\ Tail(items) = <<>>
    BY <2>2 DEF Item
  <2>4. items' = <<>> /\ Item' = "none"
    BY <2>3 DEF Process, Item
  <2> QED
    BY <2>1, <2>2, <2>3, <2>4 DEF Process, Lockstep, Bottom
<1>b. Bottom'
  BY <1>a DEF Bottom, Rooted
<1>1. CASE Item = "EOF"
  <2>1. outcome' = "done" /\ UNCHANGED <<ctxs, keys>>
    BY <1>a, <1>1 DEF processItem, Stop
  <2>2. state = "nil" /\ ctxs = <<"map">> /\ stack = <<>>
    BY <1>a, <1>1 DEF Emitted
  <2> QED
    BY <1>a, <2>1, <2>2 DEF IInv, Types, TakesOwnKey
<1>2. CASE outcome' = "error" /\ UNCHANGED <<ctxs, keys>>
  BY <1>a, <1>2 DEF IInv, Types, TakesOwnKey
<1>3. CASE Item \in {"Error", "TRUE"}
  BY <1>a, <1>2, <1>3 DEF processItem, Stop
<1>d. Item \notin {"EOF", "Error"} => state # "nil"
  BY <1>a DEF Emitted
<1>4. CASE Item \in {"CommentStart", "Text"}
  <2>1. UNCHANGED parser
    BY <1>a, <1>4 DEF processItem
  <2>2. Types' /\ Emitted' /\ Behind' /\ SameKinds'
    BY <1>a, <1>d, <1>4, <2>1 DEF parser, Types, Emitted, Behind, SameKinds, Plain,
       Starts, Ends
  <2>3. Needed' = Needed
    BY <1>a, <1>4, <2>1 DEF parser, Needed, LastDue, Plain, Starts, Ends
  <2>4. EnoughKeys' /\ OwnKeys'
    BY <1>a, <1>d, <1>4, <2>1, <2>3 DEF parser, EnoughKeys, OwnKeys
  <2> QED
    BY <1>a, <1>b, <2>1, <2>2, <2>4 DEF parser, IInv, Lockstep, TakesOwnKey, Types
<1>5. CASE Item \in Starts
  <2>1. \E kind \in {"map", "array"} : /\ ctxs' = Append(ctxs, kind) /\ kind = KindOf(state)
                                       /\ UNCHANGED <<keys, outcome>>
    BY <1>a, <1>5 DEF processItem, pushContext, Starts, Emitted, KindOf, ArrayStates
  <2>2. state \in {"lexMapKeyStart", "lexArrayValue"} /\ Len(ctxs) = Len(stack)
    BY <1>a, <1>d, <1>5 DEF Emitted, Starts, Behind
  <2>3. Types' /\ Emitted'
    BY <1>a, <2>1, <2>2 DEF Types, Emitted, Plain, Ends
  <2>4. Behind' /\ SameKinds'
    BY <1>a, <1>d, <1>5, <2>1, <2>2
       DEF Types, Behind, SameKinds, Starts, Ends, Containers, MapStates, ArrayStates
  <2>5. Needed' = Needed
    BY <1>a, <1>5, <2>1, <2>2
       DEF Types, Needed, LastDue, Plain, Starts, Ends, ValueStates
  <2>a. Len(ctxs') \notin Needed
    BY <1>a, <2>1 DEF Types, Needed
  <2>6. EnoughKeys' /\ OwnKeys'
    BY <1>a, <1>d, <1>5, <2>1, <2>5, <2>a DEF Starts, EnoughKeys, OwnKeys
  <2> QED
    BY <1>a, <1>b, <2>1, <2>3, <2>4, <2>6 DEF IInv, Lockstep, TakesOwnKey, Types
<1>6. CASE Item = "Key"
  <2> DEFINE n == Len(ctxs)
  <2>1. keys' = Append(keys, n) /\ UNCHANGED <<ctxs, outcome>>
    BY <1>a, <1>6 DEF processItem, pushKey
  <2>2. state \in {"lexKeyEnd", "lexMapKeyEnd"}
    BY <1>a, <1>6 DEF Emitted
  <2>3. n \in Nat \ {0} /\ ctxs[n] = "map"
    <3>1. Behind /\ SameKinds /\ Len(stack) \in Nat
      BY <1>a, <1>d, <1>6 DEF Types
    <3>2. CASE state = "lexMapKeyEnd"
      BY <1>6, <3>1, <3>2
         DEF Behind, SameKinds, Starts, Ends, KindOf, Containers, MapStates, ArrayStates
    <3>3. CASE state = "lexKeyEnd"
      <4>1. Len(ctxs) = Len(stack) /\ stack # <<>>
        BY <1>a, <1>6, <3>1, <3>3
           DEF Rooted, Behind, Starts, Ends, Containers, TopStates, MapStates, ArrayStates
      <4>2. Len(stack) = 1 /\ stack[1] \in TopStates
        BY <1>a, <1>6, <3>3 DEF Emitted, Bottom
      <4> QED
        BY <4>1, <4>2, <3>1 DEF SameKinds, KindOf, TopStates, ArrayStates
    <3> QED
      BY <2>2, <3>2, <3>3
  <2>4. Types' /\ Emitted'
    BY <1>a, <2>1, <2>2, <2>3 DEF Types, Emitted, Plain, Ends
  <2>5. Behind' /\ SameKinds'
    BY <1>a, <1>d, <1>6, <2>1 DEF Behind, SameKinds, Starts, Ends
  <2>6. Needed' = Needed \cup {n} /\ Needed \in SUBSET (1..(n - 1))
    BY <1>a, <1>6, <2>1, <2>2, <2>3
       DEF Needed, LastDue, Plain, Starts, Ends, ValueStates
  <2>7. keys \in Seq(Nat \ {0}) /\ Len(keys) \in Nat /\ Len(keys') = Len(keys) + 1
    BY <1>a, <2>1, <2>3 DEF Types
  <2>8. EnoughKeys'
    <3>1. Above(keys, Needed)
      BY <1>a, <1>d, <1>6 DEF EnoughKeys
    <3>2. Above(keys', Needed') /\ Last(keys') = n
      BY <2>1, <2>3, <2>6, <2>7, <3>1, PushAbove
    <3> QED
      BY <2>1, <3>2 DEF EnoughKeys
  <2>9. OwnKeys'
    BY <1>a, <1>d, <1>6, <2>1, <2>3, <2>6, <2>7, PushExact DEF OwnKeys
  <2> QED
    BY <1>a, <1>b, <2>1, <2>4, <2>5, <2>7, <2>8, <2>9 DEF IInv, Lockstep, TakesOwnKey
<1>7. CASE Item \in Plain /\ setValue(ctxs)
  <2>1. state \in Resumable /\ state # "nil"
    BY <1>a, <1>d, <1>7 DEF Emitted, Plain
  <2>2. ctxs \in Seq({"map", "array"}) /\ ctxs # <<>>
    BY <1>a, <1>7, <2>1
       DEF Types, Behind, Plain, Starts, Ends,
           States, Containers, TopStates, MapStates, ArrayStates,
            ValueStates, InKey, InRemark, InMap, Inner, Waiting, Resumable
  <2>3. /\ Needed \in SUBSET (1..Len(ctxs))
        /\ ctxs[Len(ctxs)] = "map" <=> Len(ctxs) \in Needed
    BY <1>a, <1>7, <2>2 DEF Needed, LastDue
  <2>4. ctxs' = ctxs
    BY <1>7 DEF setValue
  <2>5. Needed' = Needed \ {Len(ctxs)}
    BY <1>a, <1>7, <2>1, <2>2, <2>4
       DEF Needed, LastDue, Plain, Starts, Ends, Resumable, ValueStates
  <2>6. /\ outcome' = outcome /\ keys' \in Seq(Nat \ {0}) /\ EnoughKeys' /\ OwnKeys'
        /\ Len(keys') < Len(keys) =>
             /\ valueless = 0 => Last(keys) = Len(ctxs)
             /\ Last(keys) >= Len(ctxs)
             /\ ctxs = ctxs => Last(keys) = Len(ctxs)
    BY <1>a, <1>7, <2>1, <2>2, <2>3, <2>5, ValueInv
  <2>7. Types' /\ Emitted'
    BY <1>a, <2>1, <2>4, <2>6 DEF Types, Emitted, Plain, Ends
  <2>8. Behind' /\ SameKinds'
    BY <1>a, <1>7, <2>1, <2>4 DEF Behind, SameKinds, Plain, Starts, Ends
  <2> QED
    BY <1>a, <1>b, <2>4, <2>6, <2>7, <2>8 DEF IInv, Lockstep, TakesOwnKey
<1>8. CASE Item \in Ends
  <2> DEFINE cs == Front(ctxs)
  <2>1. state \in Resumable /\ state # "nil"
    BY <1>a, <1>d, <1>8 DEF Emitted, Ends
  <2>2. Len(ctxs) = Len(stack) + 2 /\ Len(stack) \in Nat
    BY <1>a, <1>8, <2>1 DEF Types, Behind
  <2>3. /\ cs \in Seq({"map", "array"}) /\ Len(cs) = Len(ctxs) - 1 /\ cs # <<>>
        /\ \A i \in 1..Len(cs) : cs[i] = ctxs[i]
    BY <1>a, <2>2 DEF Types, Front
  <2>4. setValue(cs)
    BY <1>a, <1>8, <2>2 DEF processItem, popAndSet, Ends
  <2>5. /\ Needed \in SUBSET (1..Len(cs))
        /\ cs[Len(cs)] = "map" <=> Len(cs) \in Needed
    BY <1>a, <1>8, <2>2, <2>3 DEF Needed, LastDue, Plain, Starts, Ends
  <2>6. ctxs' = cs
    BY <2>4 DEF setValue
  <2>7. Needed' = Needed \ {Len(cs)}
    BY <1>a, <1>8, <2>1, <2>2, <2>3, <2>6
       DEF Needed, LastDue, Plain, Starts, Ends, Resumable, ValueStates
  <2>8. /\ outcome' = outcome /\ keys' \in Seq(Nat \ {0}) /\ EnoughKeys' /\ OwnKeys'
        /\ Len(keys') < Len(keys) =>
             /\ valueless = 0 => Last(keys) = Len(cs)
             /\ Last(keys) >= Len(cs)
             /\ cs = ctxs => Last(keys) = Len(cs)
    BY <1>a, <2>1, <2>3, <2>4, <2>5, <2>7, ValueInv
  <2>9. Types' /\ Emitted'
    BY <1>a, <2>1, <2>3, <2>6, <2>8 DEF Types, Emitted, Plain, Ends
  <2>10. Behind' /\ SameKinds'
    BY <1>a, <1>8, <2>1, <2>2, <2>3, <2>6
       DEF Behind, SameKinds, Starts, Ends,
           States, Containers, TopStates, MapStates, ArrayStates,
            ValueStates, InKey, InRemark, InMap, Inner, Waiting, Resumable
  <2> QED
    BY <1>a, <1>b, <2>6, <2>8, <2>9, <2>10 DEF IInv, Lockstep, TakesOwnKey
<1> QED
  BY <1>a, <1>1, <1>2, <1>3, <1>4, <1>5, <1>6, <1>7, <1>8
     DEF processItem, convert, Stop, ItemTypes, Plain

\* The invariant, for any document.
THEOREM Invariance == Spec => []IInv
<1>1. IInv /\ [Next]_vars => IInv'
  <2> SUFFICES ASSUME IInv, [Next]_vars PROVE IInv'
    OBVIOUS
  <2>1. CASE Process
    BY <2>1, ProcessInv
  <2>2. CASE Advance
    BY <2>2, AdvanceInv
  <2>3. CASE UNCHANGED vars
    BY <2>3 DEF vars, IInv, Types, Lockstep, Bottom, Rooted, Emitted, Behind, SameKinds,
       EnoughKeys, OwnKeys, Needed, LastDue, Item
  <2> QED
    BY <2>1, <2>2, <2>3 DEF Next, Returned
<1> QED
  BY InitInv, <1>1, PTL DEF Spec

\* No BUG of the lexer or the parser is reached, and no call of nil.
THEOREM NeverBug == Spec => []NoBug
<1>1. IInv => NoBug
  BY DEF IInv, Types, Lockstep, Emitted, Item, NoBug, Settled, ItemTypes, Plain, Starts,
     Ends
<1> QED
  BY Invariance, <1>1, PTL

\* The lexer and the parser have the same maps and arrays open.
THEOREM StacksAgree == Spec => []Mirrors
<1>1. IInv => Mirrors
  <2> SUFFICES ASSUME IInv, Settled
               PROVE  ctxs = [i \in 1..Len(Resumed) |-> KindOf(Resumed[i])]
    BY DEF Mirrors
  <2>1. Types /\ Behind /\ SameKinds /\ Item = "none"
    BY DEF IInv, Lockstep, Emitted, Settled, Item
  <2>2. Len(ctxs) = Len(stack) + (IF state \in Containers THEN 1 ELSE 0)
    BY <2>1 DEF Behind, Starts, Ends
  <2>3. /\ Len(Resumed) = Len(ctxs) /\ Len(ctxs) \in Nat
        /\ \A i \in 1..Len(ctxs) : ctxs[i] = KindOf(Resumed[i])
    BY <2>1, <2>2 DEF Types, SameKinds, Resumed, Starts
  <2> QED
    BY <2>1, <2>3 DEF Types
<1> QED
  BY Invariance, <1>1, PTL

\* The keys are those of the maps that wait for a value.
THEOREM KeysAwaited == Spec => []KeysDue
<1>1. IInv => KeysDue
  <2> SUFFICES ASSUME IInv, Settled, valueless = 0
               PROVE  /\ {keys[i] : i \in DOMAIN keys} = Due
                      /\ \A i, j \in DOMAIN keys : i < j => keys[i] < keys[j]
    BY DEF KeysDue
  <2>1. Types /\ Exact(keys, Needed) /\ Item = "none"
    BY DEF IInv, Lockstep, Emitted, Settled, Item, OwnKeys
  <2>2. DOMAIN keys = 1..Len(keys) /\ DOMAIN ctxs = 1..Len(ctxs)
    BY <2>1 DEF Types
  <2>3. Needed = Due
    BY <2>1, <2>2 DEF Needed, Due, LastDue, Plain, Starts, Ends
  <2> QED
    BY <2>1, <2>2, <2>3 DEF Exact
<1> QED
  BY Invariance, <1>1, PTL

\* Only a document whose maps and arrays have ended is accepted.
THEOREM AcceptedWhole == Spec => []Whole
<1>1. IInv => Whole
  BY DEF IInv, Whole
<1> QED
  BY Invariance, <1>1, PTL

\* Until a key is left without a value, every value gets its own.
THEOREM ValuesFindTheirKey == Spec => OwnKeyWhileValued
<1>1. IInv /\ [Next]_vars => [valueless' = 0 => TakesOwnKey]_vars
  <2> SUFFICES ASSUME IInv, Next PROVE valueless' = 0 => TakesOwnKey
    OBVIOUS
  <2>1. CASE Process
    BY <2>1, ProcessInv
  <2>2. CASE UNCHANGED keys
    BY <2>2 DEF TakesOwnKey, IInv, Types
  <2> QED
    BY <2>1, <2>2 DEF Next, Advance, Returned, parser, vars
<1> QED
  BY Invariance, <1>1, PTL DEF Spec, OwnKeyWhileValued

\* Whatever keys were left, no value takes the key of a map further out.
THEOREM KeysFromWithin == Spec => KeyFromWithin
<1> DEFINE A == Len(keys') < Len(keys) =>
                  Last(keys) >= Len(ctxs') /\ (ctxs' = ctxs => TakesOwnKey)
<1>1. IInv /\ [Next]_vars => [A]_vars
  <2> SUFFICES ASSUME IInv, Next PROVE A
    OBVIOUS
  <2>1. CASE Process
    BY <2>1, ProcessInv
  <2>2. CASE UNCHANGED keys
    BY <2>2 DEF IInv, Types
  <2> QED
    BY <2>1, <2>2 DEF Next, Advance, Returned, parser, vars
<1> QED
  BY Invariance, <1>1, PTL DEF Spec, KeyFromWithin

-----------------------------------------------------------------------------
(* The scanner.                                                             *)

Rune == Runes \cup {EOF}

(* A place in the input, as the state functions pass it on, and one where   *)
(* the next rune is there.                                                  *)
At(s) ==
  /\ s \in [seen : Seq(Runes), ahead : Seq(Rune), width : 0..1, len : 0..Many]
  /\ Len(s.ahead) <= 1
Have(s) == At(s) /\ s.ahead # <<>>

\* A place with a rune before it.
Begun(s) == s.seen # <<>>

(* Between two calls the lexer may back up over nothing; lexBlock, which    *)
(* looks at what was before its ')', is never called at the very start.     *)
Rest(s, st) ==
  /\ At(s) /\ s.width = 0 /\ Len(s.seen) <= 2
  /\ st = "lexBlock" => Begun(s)

LEMMA Placed ==
  ASSUME NEW seen \in Seq(Runes), NEW ahead \in Seq(Rune), NEW width \in 0..1,
         NEW len \in 0..Many, Len(ahead) <= 1,
         NEW t, t = [seen |-> seen, ahead |-> ahead, width |-> width, len |-> len]
  PROVE  At(t) /\ (ahead # <<>> => Have(t)) /\ (seen # <<>> => Begun(t))
BY DEF At, Have, Begun

LEMMA SuppliedIs ==
  ASSUME NEW s, At(s)
  PROVE  \A t \in Supplied(s) : Have(t) /\ (Begun(s) => Begun(t))
<1>1. CASE s.ahead # <<>>
  BY <1>1 DEF Supplied, Have
<1>2. CASE s.ahead = <<>>
  <2>1. Offered \cup {EOF} \subseteq Rune
    BY DEF Offered, Rune
  <2>2. ASSUME NEW r \in Offered \cup {EOF}, NEW t, t = [s EXCEPT !.ahead = <<r>>]
        PROVE  Have(t) /\ (Begun(s) => Begun(t))
    <3>1. /\ t = [seen |-> s.seen, ahead |-> <<r>>, width |-> s.width, len |-> s.len]
          /\ s.seen \in Seq(Runes) /\ s.width \in 0..1 /\ s.len \in 0..Many
      BY <2>2 DEF At
    <3>2. <<r>> \in Seq(Rune) /\ Len(<<r>>) <= 1 /\ <<r>> # <<>>
      BY <2>1
    <3>3. Have(t) /\ (s.seen # <<>> => Begun(t))
      BY <3>1, <3>2, Placed, Zenon
    <3> QED BY <3>3 DEF Begun
  <2> QED BY <1>2, <2>2 DEF Supplied
<1> QED BY <1>1, <1>2

\* A rune is read, and perhaps backed up over.
LEMMA NextIs ==
  ASSUME NEW s, Have(s)
  PROVE  /\ At(next(s)) /\ Have(backup(next(s)))
         /\ Begun(s) => Begun(next(s)) /\ Begun(backup(next(s)))
         /\ peek(s) # EOF => Begun(next(s))
<1>1. /\ s.seen \in Seq(Runes) /\ s.ahead \in Seq(Rune) /\ s.width \in 0..1
      /\ s.len \in 0..Many /\ Len(s.ahead) = 1
  <2>1. /\ s.seen \in Seq(Runes) /\ s.ahead \in Seq(Rune) /\ s.width \in 0..1
        /\ s.len \in 0..Many /\ Len(s.ahead) <= 1 /\ s.ahead # <<>>
    BY DEF Have, At
  <2>2. ASSUME NEW a \in Seq(Rune), a # <<>>, Len(a) <= 1 PROVE Len(a) = 1
    <3>1. Len(a) \in Nat /\ Len(a) # 0
      BY <2>2, EmptySeq, LenProperties
    <3>2. \A n \in Nat : n # 0 /\ n <= 1 => n = 1
      OBVIOUS
    <3> QED BY <2>2, <3>1, <3>2
  <2>3. Len(s.ahead) = 1
    BY <2>1, <2>2
  <2> QED BY <2>1, <2>3
<1>2. Head(s.ahead) \in Rune /\ Tail(s.ahead) = <<>>
  <2>1. ASSUME NEW a \in Seq(Rune), Len(a) = 1
        PROVE  Head(a) \in Rune /\ Tail(a) = <<>>
    <3>1. a # <<>>
      BY <2>1
    <3>2. Head(a) \in Rune /\ Tail(a) \in Seq(Rune) /\ Len(Tail(a)) = 0
      BY <2>1, <3>1, HeadTailProperties
    <3> QED BY <3>2, EmptySeq
  <2> QED BY <1>1, <2>1
<1>3. CASE peek(s) = EOF
  <2>0. Len(s.ahead) <= 1
    BY <1>1
  <2>1. ASSUME NEW t, t = next(s)
        PROVE  Have(t) /\ backup(t) = t /\ (Begun(s) => Begun(t))
    <3>1. /\ t = [seen |-> s.seen, ahead |-> s.ahead, width |-> 0, len |-> s.len]
          /\ t.width = 0
      BY <1>3, <2>1 DEF next, Have, At
    <3>2. s.ahead # <<>> /\ 0 \in 0..1
      BY DEF Have
    <3>3. Have(t) /\ (s.seen # <<>> => Begun(t))
      BY <1>1, <2>0, <3>1, <3>2, Placed, Zenon
    <3>4. backup(t) = t
      BY <3>1 DEF backup
    <3> QED BY <3>3, <3>4 DEF Begun
  <2> QED BY <1>3, <2>1 DEF Have
<1>4. CASE peek(s) # EOF
  <2>0. Head(s.ahead) \in Runes
    BY <1>2, <1>4 DEF Rune, peek
  <2>1. ASSUME NEW r, r = Head(s.ahead), NEW n, n = next(s), NEW seen, seen = Append(s.seen, r)
        PROVE  /\ At(n) /\ Begun(n) /\ Have(backup(n))
               /\ Begun(s) => Begun(backup(n))
    <3>1. n = [seen |-> seen, ahead |-> <<>>, width |-> 1,
               len |-> IF s.len = Many THEN Many ELSE s.len + 1]
      BY <1>2, <1>4, <2>1 DEF next, peek
    <3>2. /\ n.seen = seen /\ n.ahead = <<>> /\ n.width = 1
          /\ n.len = IF s.len = Many THEN Many ELSE s.len + 1
      BY <3>1
    <3>3. n.len \in 1..Many
      BY <1>1, <3>2 DEF Many
    <3>4. seen \in Seq(Runes) /\ seen # <<>> /\ Len(seen) = Len(s.seen) + 1
          /\ seen[Len(seen)] = r
      BY <1>1, <2>0, <2>1
    <3>5. At(n) /\ Begun(n)
      BY <3>1, <3>2, <3>3, <3>4 DEF At, Begun, Many
    <3>6. ASSUME NEW b, b = backup(n)
          PROVE  Have(b) /\ (Begun(s) => Begun(b))
      <4>1. b = [n EXCEPT !.ahead = <<Last(n.seen)>> \o @, !.seen = Front(@),
                          !.len = IF @ = Many THEN Many ELSE @ - 1]
        BY <3>2, <3>6 DEF backup
      <4>2. /\ b.ahead = <<Last(seen)>> \o <<>> /\ b.seen = Front(seen) /\ b.width = 1
            /\ b.len = IF n.len = Many THEN Many ELSE n.len - 1
            /\ b = [seen |-> b.seen, ahead |-> b.ahead, width |-> b.width, len |-> b.len]
        BY <3>1, <3>2, <4>1
      <4>3. /\ Front(seen) \in Seq(Runes) /\ Last(seen) \in Runes
            /\ Len(Front(seen)) = Len(s.seen)
        <5>1. Len(Front(seen)) = Len(seen) - 1
          BY <3>4, FrontLast
        <5>2. Len(s.seen) \in Nat /\ Len(seen) = Len(s.seen) + 1
          BY <1>1, <3>4, LenProperties
        <5>3. Front(seen) \in Seq(Runes) /\ Last(seen) \in Runes
          BY <3>4, FrontLast
        <5> QED BY <5>1, <5>2, <5>3
      <4>4. b.ahead = <<Last(seen)>> /\ b.ahead \in Seq(Rune) /\ Len(b.ahead) = 1
        BY <4>2, <4>3 DEF Rune
      <4>5. b.len \in 0..Many
        BY <3>3, <4>2 DEF Many
      <4>6. Begun(s) => Begun(b)
        BY <1>1, <4>2, <4>3 DEF Begun
      <4> QED BY <4>2, <4>3, <4>4, <4>5, <4>6 DEF Have, At
    <3> QED BY <3>5, <3>6
  <2> QED BY <2>1
<1> QED BY <1>3, <1>4

LEMMA IgnoreIs ==
  ASSUME NEW s, At(s)
  PROVE  /\ At(ignore(s)) /\ (Have(s) => Have(ignore(s)))
         /\ Begun(s) => Begun(ignore(s))
<1>1. ASSUME NEW t, t = ignore(s)
      PROVE  At(t) /\ (Have(s) => Have(t)) /\ (Begun(s) => Begun(t))
  <2>1. /\ t.seen = s.seen /\ t.ahead = s.ahead /\ t.width = s.width /\ t.len = 0
        /\ t = [seen |-> t.seen, ahead |-> t.ahead, width |-> t.width, len |-> t.len]
    BY <1>1 DEF ignore, At
  <2> QED BY <2>1 DEF At, Have, Begun, Many
<1> QED BY <1>1

\* What is kept of a place.
LEMMA KeepIs ==
  ASSUME NEW s, At(s), NEW st, st = "lexBlock" => Begun(s)
  PROVE  Rest(Keep(s, st), st)
<1>1. /\ s.seen \in Seq(Runes) /\ s.ahead \in Seq(Rune) /\ Len(s.ahead) <= 1
      /\ s.len \in 0..Many
  BY DEF At
<1>2. ASSUME NEW n, n = Len(s.seen),
             NEW last, last = SubSeq(s.seen, IF n > 2 THEN n - 1 ELSE 1, n),
             NEW seen, seen = IF st # "lexBlock" THEN <<>>
                       ELSE [i \in 1..Len(last) |-> IF last[i] = "\n" THEN "\n" ELSE "a"],
             NEW k, k = Keep(s, st)
      PROVE  Rest(k, st)
  <2>1. k = [seen |-> seen, ahead |-> s.ahead, width |-> 0,
             len |-> IF st \in Measuring THEN s.len ELSE 0]
    BY <1>2 DEF Keep
  <2>2. n \in Nat
    BY <1>1, <1>2
  <2>3. Len(last) \in 0..2 /\ (n # 0 => Len(last) # 0)
    <3>1. CASE n > 2
      <4>1. last = SubSeq(s.seen, n - 1, n)
        BY <1>2, <3>1
      <4>2. \A i \in (n - 1)..n : s.seen[i] \in Runes
        BY <1>1, <1>2, <2>2, <3>1
      <4>3. Len(last) = 2
        BY <2>2, <3>1, <4>1, <4>2, SubSeqProperties
      <4> QED BY <4>3
    <3>2. CASE ~ (n > 2)
      <4>1. last = SubSeq(s.seen, 1, n)
        BY <1>2, <3>2
      <4>2. \A i \in 1..n : s.seen[i] \in Runes
        BY <1>1, <1>2, <2>2
      <4>3. Len(last) = n
        BY <2>2, <3>2, <4>1, <4>2, SubSeqProperties
      <4> QED BY <2>2, <3>2, <4>3
    <3> QED BY <3>1, <3>2
  <2>4. /\ seen \in Seq(Runes) /\ Len(seen) <= 2
        /\ st = "lexBlock" => seen # <<>>
    <3>1. CASE st # "lexBlock"
      BY <1>2, <3>1
    <3>2. CASE st = "lexBlock"
      <4>1. seen = [i \in 1..Len(last) |-> IF last[i] = "\n" THEN "\n" ELSE "a"]
        BY <1>2, <3>2
      <4>2. "\n" \in Runes /\ "a" \in Runes
        BY DEF Runes, NewLine
      <4>3. seen \in [1..Len(last) -> Runes]
        BY <4>1, <4>2
      <4>4. seen \in Seq(Runes) /\ Len(seen) = Len(last)
        BY <2>3, <4>3
      <4>5. n # 0
        BY <1>1, <1>2, <3>2 DEF Begun
      <4> QED BY <2>3, <4>4, <4>5
    <3> QED BY <3>1, <3>2
  <2>5. (IF st \in Measuring THEN s.len ELSE 0) \in 0..Many
    BY <1>1 DEF Many
  <2> QED BY <1>1, <2>1, <2>4, <2>5 DEF Rest, At, Begun
<1> QED BY <1>2

\* What the steps use of all this.
LEMMA Reading ==
  /\ \A s : At(s) => \A t \in Supplied(s) : Have(t) /\ (Begun(s) => Begun(t))
  /\ \A s : Have(s) => At(s) /\ At(next(s)) /\ Have(backup(next(s)))
  /\ \A s : Have(s) /\ Begun(s) => Begun(next(s)) /\ Begun(backup(next(s)))
  /\ \A s : Have(s) /\ peek(s) # EOF => Begun(next(s))
  /\ \A s : At(s) => At(ignore(s)) /\ (Have(s) => Have(ignore(s)))
  /\ \A s : At(s) /\ Begun(s) => Begun(ignore(s))
<1>1. \A s : At(s) => \A t \in Supplied(s) : Have(t) /\ (Begun(s) => Begun(t))
  BY SuppliedIs
<1>2. ASSUME NEW s, Have(s)
      PROVE  /\ At(s) /\ At(next(s)) /\ Have(backup(next(s)))
             /\ Begun(s) => Begun(next(s)) /\ Begun(backup(next(s)))
             /\ peek(s) # EOF => Begun(next(s))
  BY <1>2, NextIs DEF Have
<1>3. \A s : At(s) => At(ignore(s)) /\ (Have(s) => Have(ignore(s)))
  BY IgnoreIs
<1>4. \A s : At(s) /\ Begun(s) => Begun(ignore(s))
  BY IgnoreIs
<1> QED BY <1>1, <1>2, <1>3, <1>4

LEMMA Kept ==
  \A s, st : At(s) /\ (st = "lexBlock" => Begun(s)) => Rest(Keep(s, st), st)
BY KeepIs

\* The states on the stack are none that looks back.
LEMMA Resuming ==
  ASSUME stack \in Seq(Resumable)
  PROVE  stack # <<>> => Last(stack) # "lexBlock"
<1>1. ASSUME stack # <<>> PROVE Last(stack) \in Resumable
  BY <1>1, FrontLast
<1> QED BY <1>1 DEF Resumable

Rested == Rest(scan, state)

\* However a state function ends.
LEMMA Ending ==
  ASSUME stack \in Seq(Resumable)
  PROVE  /\ \A s, st : At(s) /\ (st = "lexBlock" => Begun(s)) /\ Goto(s, st) => Rested'
         /\ \A s, st : At(s) /\ st # "lexBlock" /\ Skip(s, st) => Rested'
         /\ \A s, st, r : At(s) /\ st # "lexBlock" /\ push(s, st, r) => Rested'
         /\ \A s, st, t : At(s) /\ st # "lexBlock" /\ emit(s, t, st) => Rested'
         /\ \A s : At(s) /\ errorf(s) => Rested'
         /\ \A s, t : At(s) /\ emitAndPop(s, t) => Rested'
<1>1. ASSUME NEW s, NEW st, At(s), st = "lexBlock" => Begun(s), Goto(s, st)
      PROVE  Rested'
  BY <1>1, Kept DEF Goto, Rested
<1>2. ASSUME NEW s, NEW st, At(s), st # "lexBlock", Skip(s, st)
      PROVE  Rested'
  BY <1>1, <1>2, Reading DEF Skip
<1>3. ASSUME NEW s, NEW st, NEW r, At(s), st # "lexBlock", push(s, st, r)
      PROVE  Rested'
  BY <1>3, Kept DEF push, Rested
<1>4. ASSUME NEW s, NEW st, NEW t, At(s), st # "lexBlock", emit(s, t, st)
      PROVE  Rested'
  <2>1. At(ignore(s))
    BY <1>4, Reading
  <2> QED BY <1>4, <2>1, Kept DEF emit, Rested
<1>5. ASSUME NEW s, At(s), errorf(s)
      PROVE  Rested'
  BY <1>5, Kept DEF errorf, Rested
<1>6. ASSUME NEW s, NEW t, At(s), emitAndPop(s, t)
      PROVE  Rested'
  <2>1. At(ignore(s))
    BY <1>6, Reading
  <2>2. CASE stack = <<>>
    BY <1>6, <2>2, Kept DEF emitAndPop, Rested
  <2>3. CASE stack # <<>>
    BY <1>6, <2>1, <2>3, Kept, Resuming DEF emitAndPop, Rested
  <2> QED BY <2>2, <2>3
<1> QED BY <1>1, <1>2, <1>3, <1>4, <1>5, <1>6

\* The top level.
LEMMA TopRest ==
  ASSUME At(scan), stack \in Seq(Resumable),
         \/ lexTop \/ lexTopValueEnd
  PROVE  Rested'
<1> USE Reading, Ending DEF Comment
<1>1. CASE lexTop
  BY <1>1 DEF lexTop
<1>2. CASE lexTopValueEnd
  BY <1>2 DEF lexTopValueEnd
<1> QED BY <1>1, <1>2

\* Keys at the top level.
LEMMA KeyRest ==
  ASSUME At(scan), stack \in Seq(Resumable),
         \/ lexKeyStart \/ lexDubQuotedKey \/ lexQuotedKey \/ lexKey
         \/ lexKeyEnd
  PROVE  Rested'
<1> USE Reading, Ending DEF QuotedKey, BareKey, KeyEnd
<1>1. CASE lexKeyStart
  BY <1>1 DEF lexKeyStart
<1>2. CASE lexDubQuotedKey
  BY <1>2 DEF lexDubQuotedKey
<1>3. CASE lexQuotedKey
  BY <1>3 DEF lexQuotedKey
<1>4. CASE lexKey
  BY <1>4 DEF lexKey
<1>5. CASE lexKeyEnd
  BY <1>5 DEF lexKeyEnd
<1> QED BY <1>1, <1>2, <1>3, <1>4, <1>5

\* Keys in maps.
LEMMA MapKeyRest ==
  ASSUME At(scan), stack \in Seq(Resumable),
         \/ lexMapKeyStart \/ lexMapQuotedKey \/ lexMapDubQuotedKey \/ lexMapKey
         \/ lexMapKeyEnd
  PROVE  Rested'
<1> USE Reading, Ending DEF Comment, QuotedKey, BareKey, KeyEnd
<1>1. CASE lexMapKeyStart
  BY <1>1 DEF lexMapKeyStart
<1>2. CASE lexMapQuotedKey
  BY <1>2 DEF lexMapQuotedKey
<1>3. CASE lexMapDubQuotedKey
  BY <1>3 DEF lexMapDubQuotedKey
<1>4. CASE lexMapKey
  BY <1>4 DEF lexMapKey
<1>5. CASE lexMapKeyEnd
  BY <1>5 DEF lexMapKeyEnd
<1> QED BY <1>1, <1>2, <1>3, <1>4, <1>5

\* Maps.
LEMMA MapRest ==
  ASSUME At(scan), stack \in Seq(Resumable),
         \/ lexMapValue \/ lexMapValueEnd \/ lexMapEnd
  PROVE  Rested'
<1> USE Reading, Ending DEF Comment
<1>1. CASE lexMapValue
  <2>1. PICK s \in Supplied(scan) :
          \/ Skip(next(s), "lexMapValue")
          \/ errorf(next(s))
          \/ scan' = Keep(ignore(next(s)), "lexMapEnd") /\ state' = "lexMapEnd"
          \/ push(backup(next(s)), "lexValue", "lexMapValueEnd")
    BY <1>1 DEF lexMapValue
  <2>2. At(next(s)) /\ At(backup(next(s))) /\ At(ignore(next(s)))
    BY Reading
  <2>3. CASE scan' = Keep(ignore(next(s)), "lexMapEnd") /\ state' = "lexMapEnd"
    BY <2>2, <2>3, Kept DEF Rested
  <2> QED BY <2>1, <2>2, <2>3
<1>2. CASE lexMapValueEnd
  BY <1>2 DEF lexMapValueEnd
<1>3. CASE lexMapEnd
  BY <1>3 DEF lexMapEnd
<1> QED BY <1>1, <1>2, <1>3

\* Arrays.
LEMMA ArrayRest ==
  ASSUME At(scan), stack \in Seq(Resumable),
         \/ lexArrayValue \/ lexArrayValueEnd \/ lexArrayEnd
  PROVE  Rested'
<1> USE Reading, Ending DEF Comment
<1>1. CASE lexArrayValue
  BY <1>1 DEF lexArrayValue
<1>2. CASE lexArrayValueEnd
  BY <1>2 DEF lexArrayValueEnd
<1>3. CASE lexArrayEnd
  BY <1>3 DEF lexArrayEnd
<1> QED BY <1>1, <1>2, <1>3

\* Values, and strings; lexBlock, which backs up more than once, is for itself.
LEMMA StringRest ==
  ASSUME At(scan), stack \in Seq(Resumable),
         \/ lexValue \/ lexQuotedString \/ lexDubQuotedString \/ lexString
         \/ lexStringEscape \/ lexStringBinary
  PROVE  Rested'
<1> USE Reading, Ending DEF QuotedString
<1>1. CASE lexValue
  BY <1>1 DEF lexValue, EOF
<1>2. CASE lexQuotedString
  BY <1>2 DEF lexQuotedString
<1>3. CASE lexDubQuotedString
  BY <1>3 DEF lexDubQuotedString
<1>4. CASE lexString
  BY <1>4 DEF lexString
<1>5. CASE lexStringEscape
  BY <1>5 DEF lexStringEscape
<1>6. CASE lexStringBinary
  BY <1>6 DEF lexStringBinary
<1> QED BY <1>1, <1>2, <1>3, <1>4, <1>5, <1>6

\* Numbers and dates.
LEMMA NumberRest ==
  ASSUME At(scan), stack \in Seq(Resumable),
         \/ lexNumberOrDateStart \/ lexNumberStart \/ lexFloatStart \/ lexNumberOrDate
         \/ lexDateAfterYear \/ lexNumber \/ lexFloat
  PROVE  Rested'
<1> USE Reading, Ending DEF FirstDigit
<1>1. CASE lexNumberOrDateStart
  BY <1>1 DEF lexNumberOrDateStart
<1>2. CASE lexNumberStart
  BY <1>2 DEF lexNumberStart
<1>3. CASE lexFloatStart
  BY <1>3 DEF lexFloatStart
<1>4. CASE lexNumberOrDate
  BY <1>4 DEF lexNumberOrDate
<1>5. CASE lexDateAfterYear
  BY <1>5 DEF lexDateAfterYear
<1>6. CASE lexNumber
  BY <1>6 DEF lexNumber
<1>7. CASE lexFloat
  BY <1>7 DEF lexFloat
<1> QED BY <1>1, <1>2, <1>3, <1>4, <1>5, <1>6, <1>7

\* Comments.
LEMMA CommentRest ==
  ASSUME At(scan), stack \in Seq(Resumable),
         \/ lexCommentStart \/ lexComment
  PROVE  Rested'
<1> USE Reading, Ending
<1>1. CASE lexCommentStart
  BY <1>1 DEF lexCommentStart
<1>2. CASE lexComment
  BY <1>2 DEF lexComment
<1> QED BY <1>1, <1>2

\* What lexBlock does to look back.  It has read a rune that is not the first.
Two(n) ==
  At(n) /\ n.ahead = <<>> /\ n.width = 1 /\ n.len \in 1..Many /\ Len(n.seen) >= 2

LEMMA TwoRead ==
  ASSUME NEW s, Have(s), Begun(s), peek(s) # EOF
  PROVE  Two(next(s))
<1>1. ASSUME NEW n, n = next(s), NEW r, r = Head(s.ahead) PROVE Two(n)
  <2>1. At(n)
    BY <1>1, Reading
  <2>2. /\ n.seen = Append(s.seen, r) /\ n.ahead = Tail(s.ahead) /\ n.width = 1
        /\ n.len = IF s.len = Many THEN Many ELSE s.len + 1
    BY <1>1 DEF next, peek
  <2>3. s.len \in 0..Many /\ s.seen \in Seq(Runes) /\ s.ahead \in Seq(Rune)
    BY DEF Have, At
  <2>4. n.len \in 1..Many
    BY <2>2, <2>3 DEF Many
  <2>5. n.ahead = <<>>
    <3>1. Len(s.ahead) <= 1 /\ s.ahead # <<>>
      BY DEF Have, At
    <3>2. Tail(s.ahead) \in Seq(Rune) /\ Len(Tail(s.ahead)) = Len(s.ahead) - 1
      BY <2>3, <3>1, HeadTailProperties
    <3>3. Len(s.ahead) \in Nat /\ Len(Tail(s.ahead)) \in Nat
      BY <2>3, <3>2, LenProperties
    <3>4. \A x, y \in Nat : x <= 1 /\ y = x - 1 => y = 0
      OBVIOUS
    <3>5. Len(Tail(s.ahead)) = 0
      BY <3>1, <3>2, <3>3, <3>4
    <3> QED BY <2>2, <3>2, <3>5, EmptySeq
  <2>6. Len(n.seen) >= 2
    <3>1. Len(s.seen) \in Nat /\ Len(s.seen) # 0
      BY <2>3, EmptySeq, LenProperties DEF Begun
    <3>2. Len(Append(s.seen, r)) = Len(s.seen) + 1
      BY <2>3
    <3>3. \A x \in Nat : x # 0 => x + 1 >= 2
      OBVIOUS
    <3> QED BY <2>2, <3>1, <3>2, <3>3
  <2> QED BY <2>1, <2>2, <2>4, <2>5, <2>6 DEF Two
<1> QED BY <1>1

\* At the end nothing is read, and backing up does nothing.
LEMMA EndStays ==
  ASSUME NEW t, Have(t), peek(t) = EOF
  PROVE  backup(backup(next(t))) = backup(next(t))
<1>1. t \in [seen : Seq(Runes), ahead : Seq(Rune), width : 0..1, len : 0..Many]
  BY DEF Have, At
<1>2. next(t) = [t EXCEPT !.width = 0]
  BY DEF next
<1>3. next(t).width = 0
  BY <1>1, <1>2
<1> QED BY <1>3 DEF backup

LEMMA PairOf ==
  ASSUME NEW x \in Runes, NEW y \in Runes
  PROVE  <<x>> \o <<y>> = <<x, y>>
<1>1. ASSUME NEW a \in Seq(Runes), NEW b \in Seq(Runes), a = <<x>>, b = <<y>>,
             NEW c, c = a \o b, NEW d \in Seq(Runes), d = <<x, y>>
      PROVE  c = d
  <2>1. Len(a) = 1 /\ Len(b) = 1 /\ a[1] = x /\ b[1] = y
    BY <1>1
  <2>2. /\ c \in Seq(Runes) /\ Len(c) = Len(a) + Len(b)
        /\ \A i \in 1..(Len(a) + Len(b)) :
             c[i] = IF i <= Len(a) THEN a[i] ELSE b[i - Len(a)]
    BY <1>1, ConcatProperties
  <2>3. Len(c) = 2 /\ c[1] = x /\ c[2] = y
    BY <2>1, <2>2
  <2>4. Len(d) = 2 /\ d[1] = x /\ d[2] = y
    BY <1>1
  <2>5. \A i \in 1..2 : i = 1 \/ i = 2
    OBVIOUS
  <2>6. \A i \in 1..Len(c) : c[i] = d[i]
    BY <2>3, <2>4, <2>5
  <2>7. c \in Seq(Runes) /\ d \in Seq(Runes) /\ Len(c) = Len(d)
    BY <1>1, <2>2, <2>3, <2>4
  <2> QED BY <2>6, <2>7, SeqEqual
<1>2. <<x>> \in Seq(Runes) /\ <<y>> \in Seq(Runes) /\ <<x, y>> \in Seq(Runes)
  OBVIOUS
<1> QED BY <1>1, <1>2

LEMMA BackTwice ==
  ASSUME NEW n, Two(n), NEW b, b = backup(backup(n))
  PROVE  /\ b.ahead # <<>> /\ At(next(b))
         /\ At(next(next(b))) /\ Begun(next(next(b)))
<1>1. /\ n.seen \in Seq(Runes) /\ Len(n.seen) >= 2 /\ n.len \in 1..Many
      /\ n = [seen |-> n.seen, ahead |-> <<>>, width |-> 1, len |-> n.len]
  BY DEF Two, At
<1>2. ASSUME NEW p, p = Front(n.seen), NEW y, y = Last(n.seen),
             NEW q, q = Front(p), NEW x, x = Last(p)
      PROVE  /\ b.ahead # <<>> /\ At(next(b))
             /\ At(next(next(b))) /\ Begun(next(next(b)))
  <2>1. n.seen # <<>>
    BY <1>1
  <2>2. p \in Seq(Runes) /\ y \in Runes /\ Len(p) = Len(n.seen) - 1
    BY <1>1, <1>2, <2>1, FrontLast
  <2>3. p # <<>>
    <3>1. Len(p) >= 1
      BY <1>1, <2>2
    <3> QED BY <3>1
  <2>4. q \in Seq(Runes) /\ x \in Runes
    BY <1>2, <2>2, <2>3, FrontLast
  <2>5. ASSUME NEW c, c = backup(n)
        PROVE  c = [seen |-> p, ahead |-> <<y>>, width |-> 1,
                    len |-> IF n.len = Many THEN Many ELSE n.len - 1]
    <3>1. <<y>> \o <<>> = <<y>>
      BY ConcatEmptySeq
    <3>2. n.width = 1 /\ n.ahead = <<>>
      BY DEF Two
    <3>3. c = [n EXCEPT !.ahead = <<y>> \o @, !.seen = p,
                        !.len = IF @ = Many THEN Many ELSE @ - 1]
      BY <1>2, <2>5, <3>2 DEF backup
    <3> QED BY <1>1, <3>1, <3>2, <3>3
  <2>6. ASSUME NEW c, c = backup(n), NEW l, l = IF c.len = Many THEN Many ELSE c.len - 1
        PROVE  /\ b = [seen |-> q, ahead |-> <<x, y>>, width |-> 1, len |-> l]
               /\ l = Many \/ l + 1 \in 0..Many
    <3>1. /\ c.seen = p /\ c.ahead = <<y>> /\ c.width = 1
          /\ c.len = IF n.len = Many THEN Many ELSE n.len - 1
          /\ c = [seen |-> p, ahead |-> <<y>>, width |-> 1, len |-> c.len]
      BY <2>5, <2>6
    <3>2. <<x>> \o <<y>> = <<x, y>>
      BY <2>2, <2>4, PairOf
    <3>3. b = [c EXCEPT !.ahead = <<x>> \o @, !.seen = q,
                        !.len = IF @ = Many THEN Many ELSE @ - 1]
      <4>1. b = backup(c)
        BY <2>6
      <4>2. c.width # 0 /\ Last(c.seen) = x /\ Front(c.seen) = q
        BY <1>2, <3>1
      <4> QED BY <4>1, <4>2 DEF backup
    <3>4. b = [seen |-> q, ahead |-> <<x, y>>, width |-> 1, len |-> l]
      BY <2>6, <3>1, <3>2, <3>3
    <3>5. l = Many \/ l + 1 \in 0..Many
      BY <1>1, <2>6, <3>1 DEF Many
    <3> QED BY <3>4, <3>5
  <2>7. PICK l : /\ b = [seen |-> q, ahead |-> <<x, y>>, width |-> 1, len |-> l]
                 /\ l = Many \/ l + 1 \in 0..Many
    BY <2>6
  <2>8. x # EOF /\ y # EOF
    BY <2>2, <2>4 DEF Runes, EOF, Blank, NewLine, KeySep, Digit, Openings, NUL
  <2>9. ASSUME NEW f, f = next(b), NEW seen, seen = Append(q, x),
               NEW len, len = IF l = Many THEN Many ELSE l + 1
        PROVE  Have(f) /\ Begun(f) /\ peek(f) # EOF
    <3>1. peek(b) = x /\ Tail(b.ahead) = <<y>> /\ b.seen = q /\ b.len = l
      BY <2>7 DEF peek
    <3>2. f = [seen |-> seen, ahead |-> <<y>>, width |-> 1, len |-> len]
      BY <2>8, <2>9, <3>1 DEF next
    <3>3. seen \in Seq(Runes) /\ seen # <<>>
      BY <2>4, <2>9
    <3>4. <<y>> \in Seq(Rune) /\ Len(<<y>>) <= 1 /\ <<y>> # <<>>
      BY <2>2 DEF Rune
    <3>5. len \in 0..Many /\ 1 \in 0..1
      BY <2>7, <2>9 DEF Many
    <3>6. Have(f) /\ Begun(f)
      BY <3>2, <3>3, <3>4, <3>5, Placed, Zenon
    <3>7. peek(f) = y
      BY <3>2 DEF peek
    <3> QED BY <2>8, <3>6, <3>7
  <2>10. b.ahead # <<>>
    BY <2>7
  <2> QED BY <2>9, <2>10, Reading
<1> QED BY <1>2

LEMMA BlockRest ==
  ASSUME Rested, stack \in Seq(Resumable), lexBlock
  PROVE  Rested'
<1>1. At(scan) /\ Begun(scan)
  BY DEF Rested, Rest, lexBlock, Call
<1>2. PICK s \in Supplied(scan) :
        \/ peek(s) # ")" /\ Goto(next(s), "lexBlock")
        \/ peek(s) = ")" /\ Goto(next(next(backup(backup(next(s))))), "lexBlock")
        \/ /\ peek(s) = ")"
           /\ \E t \in Supplied(next(next(backup(backup(next(s)))))) :
                IF peek(t) \in {"\n"} \cup EndOf
                THEN \E u \in Supplied(backup(backup(next(t)))) :
                       emitAndPop(next(u), "String")
                ELSE Goto(backup(next(t)), "lexBlock")
  BY DEF lexBlock
<1>3. Have(s) /\ Begun(s)
  BY <1>1, Reading
<1>4. CASE peek(s) # ")"
  BY <1>2, <1>3, <1>4, Reading, Ending
<1>5. CASE peek(s) = ")"
  <2>1. ASSUME NEW after, after = next(next(backup(backup(next(s)))))
        PROVE  At(after) /\ Begun(after)
    <3>1. Two(next(s))
      BY <1>3, <1>5, TwoRead DEF EOF
    <3> QED BY <2>1, <3>1, BackTwice
  <2>2. CASE Goto(next(next(backup(backup(next(s))))), "lexBlock")
    BY <2>1, <2>2, Ending
  <2>3. ASSUME NEW t \in Supplied(next(next(backup(backup(next(s)))))),
               IF peek(t) \in {"\n"} \cup EndOf
               THEN \E u \in Supplied(backup(backup(next(t)))) :
                      emitAndPop(next(u), "String")
               ELSE Goto(backup(next(t)), "lexBlock")
        PROVE  Rested'
    <3>1. Have(t) /\ Begun(t)
      BY <2>1, Reading
    <3>2. CASE peek(t) \notin {"\n"} \cup EndOf
      BY <2>3, <3>1, <3>2, Reading, Ending
    <3>3. CASE peek(t) \in {"\n"} \cup EndOf
      <4>1. ASSUME NEW b, b = backup(backup(next(t))), NEW u \in Supplied(b)
            PROVE  At(next(u))
        <5>1. CASE peek(t) = EOF
          <6>1. b = backup(next(t))
            BY <3>1, <4>1, <5>1, EndStays
          <6> QED BY <3>1, <4>1, <6>1, Reading
        <5>2. CASE peek(t) # EOF
          <6>1. Two(next(t))
            BY <3>1, <5>2, TwoRead
          <6>2. b.ahead # <<>> /\ At(next(b))
            BY <4>1, <6>1, BackTwice
          <6>3. u = b
            BY <4>1, <6>2 DEF Supplied
          <6> QED BY <6>2, <6>3
        <5> QED BY <5>1, <5>2
      <4> QED BY <2>3, <3>3, <4>1, Ending
    <3> QED BY <3>2, <3>3
  <2> QED BY <1>2, <1>5, <2>2, <2>3
<1> QED BY <1>4, <1>5

\* Any call of a state function.
LEMMA LexRest ==
  ASSUME Rested, stack \in Seq(Resumable), Lex
  PROVE  Rested'
<1>1. At(scan)
  BY DEF Rested, Rest
<1> QED
  BY <1>1, TopRest, KeyRest, MapKeyRest, MapRest, ArrayRest, StringRest, NumberRest,
     CommentRest, BlockRest DEF Lex

\* The types, for any document: between two calls of state functions next and
\* backup need no more of the input than the two runes before pos and what was
\* read after it, and every state, context and key on a stack is of its kind.
THEOREM TypeCorrect == Spec => []TypeOK
<1>1. Init => Rested
  <2>1. ASSUME Init PROVE At(scan)
    <3>1. <<>> \in Seq(Runes) /\ <<>> \in Seq(Rune) /\ Len(<<>>) <= 1
          /\ 0 \in 0..1 /\ 0 \in 0..Many
      BY DEF Many
    <3> QED BY <2>1, <3>1, Placed, Zenon DEF Init, LexInit
  <2> QED BY <2>1 DEF Init, LexInit, Rested, Rest
<1>2. IInv /\ Rested /\ [Next]_vars => Rested'
  <2> SUFFICES ASSUME IInv, Rested, [Next]_vars PROVE Rested'
    OBVIOUS
  <2>1. CASE Lex
    BY <2>1, LexRest DEF IInv, Types
  <2>2. CASE UNCHANGED <<scan, state>>
    BY <2>2 DEF Rested
  <2> QED BY <2>1, <2>2 DEF Next, Process, Advance, Returned, vars
<1>3. IInv /\ Rested => TypeOK
  <2> SUFFICES ASSUME IInv, Rested PROVE TypeOK
    OBVIOUS
  <2>1. /\ scan.width \in 0..1 /\ scan.len \in 0..Many
        /\ Len(scan.seen) <= 2 /\ Len(scan.ahead) <= 2
    <3>1. Len(scan.ahead) \in Nat /\ Len(scan.ahead) <= 1
      BY LenProperties DEF Rested, Rest, At
    <3> QED BY <3>1 DEF Rested, Rest, At
  <2>2. /\ state \in Containers \cup ValueStates \cup Deaf \cup
                       {"nil", "lexKeyStart", "lexCommentStart", "lexComment"}
    BY DEF IInv, Types, States, InKey, InRemark, Deaf
  <2>3. stack \in Seq(Containers)
    <3>1. Resumable \subseteq Containers
      BY DEF Resumable, Containers, TopStates, MapStates, ArrayStates
    <3> QED BY <3>1 DEF IInv, Types
  <2> QED BY <2>1, <2>2, <2>3 DEF IInv, Types, TypeOK
<1> QED BY Invariance, <1>1, <1>2, <1>3, PTL DEF Spec
=============================================================================
