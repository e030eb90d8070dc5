----------------------------- MODULE ConfLexer ------------------------------
(***************************************************************************)
(* The lexer of configuration files, conf/lex.go: state functions that     *)
(* read runes, emit items, and keep on a stack the state to go on with     *)
(* after a value or a comment.                                             *)
(*                                                                         *)
(* The document is not fixed beforehand: a rune is chosen when it is read  *)
(* for the first time, and kept while the lexer may read it again.  What   *)
(* the lexer never looks at again is forgotten, the text of its items too, *)
(* so that a run covers documents of any length.  An action is one call of *)
(* a state function, and has its name; the closures of lexSkip run with    *)
(* the call that returns them.                                             *)
(***************************************************************************)
EXTENDS Integers, SequencesExt

CONSTANTS
  MaxStack,      \* bound of the model: nothing opens above a stack of that height
  MaxValueless   \* bound of the model: maps that end in place of a value

ASSUME LexerAssumption == MaxStack \in Nat /\ MaxValueless \in Nat

VARIABLES
  scan,       \* the place in the input: seen, ahead, width, len (see below)
  state,      \* lx.state: the state function to call next, or "nil"
  stack,      \* lx.stack
  items,      \* lx.items
  valueless   \* number of maps that ended where the value of a key was due

lexer == <<scan, state, stack, items, valueless>>

-----------------------------------------------------------------------------
(* Runes: one for every kind the lexer tells apart, "a" for the others.     *)

EOF == "eof"

\* A zero byte is a rune, which the lexer takes for the end as well.
NUL == "nul"

Blank    == {" "}
NewLine  == {"\n"}
KeySep   == {"="}
Digit    == {"0"}
EndOf    == {EOF, NUL}
Openings == {"{", "["}
Runes == Blank \cup NewLine \cup KeySep \cup Digit \cup Openings \cup
         {"a", "}", "]", ",", ";", "#", "/", "'", "\"", "(", ")", "-", ".", "\\", NUL}

Offered ==
  LET full == valueless = MaxValueless /\ state \in {"lexMapKeyEnd", "lexMapValue"}
  IN  Runes \ ((IF Len(stack) >= MaxStack THEN Openings ELSE {}) \cup
               (IF full THEN {"}"} ELSE {}))

(* The scanner.  seen: the last runes before pos; ahead: the runes read and *)
(* backed up over; width: what backup steps back; len: pos - start, up to   *)
(* Many.                                                                    *)
Many == 6

\* The rune that comes next is there to be read.
Supplied(s) ==
  IF s.ahead # <<>> THEN {s} ELSE {[s EXCEPT !.ahead = <<r>>] : r \in Offered \cup {EOF}}

peek(s) == Head(s.ahead)

next(s) ==
  IF peek(s) = EOF THEN [s EXCEPT !.width = 0]
  ELSE [seen  |-> Append(s.seen, peek(s)),
        ahead |-> Tail(s.ahead),
        width |-> 1,
        len   |-> IF s.len = Many THEN Many ELSE s.len + 1]

backup(s) ==
  IF s.width = 0 THEN s
  ELSE [s EXCEPT !.ahead = <<Last(s.seen)>> \o @,
                 !.seen = Front(@),
                 !.len = IF @ = Many THEN Many ELSE @ - 1]

ignore(s) == [s EXCEPT !.len = 0]

\* The functions that use the length of the text from start to pos.
Measuring == {"lexTop", "lexValue", "lexString", "lexStringEscape", "lexStringBinary",
              "lexNumberOrDateStart", "lexNumberOrDate"}

\* What matters to the state function st.  No function backs up before it has
\* read; only lexBlock then backs up more than once, to look for a new line.
Keep(s, st) ==
  LET n == Len(s.seen)
      last == SubSeq(s.seen, IF n > 2 THEN n - 1 ELSE 1, n)
  IN  [seen  |-> IF st # "lexBlock" THEN <<>>
                 ELSE [i \in 1..Len(last) |-> IF last[i] = "\n" THEN "\n" ELSE "a"],
       ahead |-> s.ahead,
       width |-> 0,
       len   |-> IF st \in Measuring THEN s.len ELSE 0]

-----------------------------------------------------------------------------
(* How a state function ends.                                               *)

\* It names the next one.
Goto(s, st) ==
  /\ scan' = Keep(s, st) /\ state' = st
  /\ UNCHANGED <<stack, items, valueless>>

\* lexSkip
Skip(s, st) == Goto(ignore(s), st)

push(s, st, resume) ==
  /\ scan' = Keep(s, st) /\ state' = st /\ stack' = Append(stack, resume)
  /\ UNCHANGED <<items, valueless>>

\* It emits an item, which ends at pos.
emit(s, typ, st) ==
  /\ scan' = Keep(ignore(s), st) /\ state' = st /\ items' = <<typ>>
  /\ UNCHANGED <<stack, valueless>>

\* errorf returns nil.
errorf(s) ==
  /\ scan' = Keep(s, "nil") /\ state' = "nil" /\ items' = <<"Error">>
  /\ UNCHANGED <<stack, valueless>>

\* It emits an item and goes on with the state on the stack; "BUG" stands for
\* the error item of pop, "BUG in lexer: no states to pop".
emitAndPop(s, typ) ==
  /\ IF stack = <<>>
     THEN /\ state' = "nil" /\ scan' = Keep(s, "nil") /\ items' = <<typ, "BUG">>
          /\ stack' = stack
     ELSE /\ state' = Last(stack) /\ scan' = Keep(ignore(s), Last(stack))
          /\ items' = <<typ>> /\ stack' = Front(stack)
  /\ UNCHANGED valueless

\* A state function is called when the parser has had all items.
Call(st) == state = st /\ items = <<>>

\* A comment from here to the end of the line, or else.
Comment(s, resume, Otherwise(_)) ==
  \E t \in Supplied(s) :
    IF peek(t) = "/" THEN push(next(t), "lexCommentStart", resume)
    ELSE Otherwise(backup(next(t)))

-----------------------------------------------------------------------------
(* The top level.                                                           *)

lexTop ==
  /\ Call("lexTop")
  /\ \E s \in Supplied(scan) :
       LET r == peek(s)
           End(t) == IF t.len > 0 THEN errorf(t) ELSE emit(t, "EOF", "nil")
       IN  \/ r \in Blank \cup NewLine /\ Skip(next(s), "lexTop")
           \/ r = "#" /\ push(next(s), "lexCommentStart", "lexTop")
           \/ r = "/" /\ Comment(next(s), "lexTop", End)
           \/ r \in EndOf /\ End(next(s))
           \/ /\ r \notin Blank \cup NewLine \cup {"#", "/"} \cup EndOf
              /\ push(backup(next(s)), "lexKeyStart", "lexTopValueEnd")

lexTopValueEnd ==
  /\ Call("lexTopValueEnd")
  /\ \E s \in Supplied(scan) :
       LET r == peek(s)
           Stay(t) == Goto(t, "lexTopValueEnd")
       IN  \/ r = "#" /\ push(next(s), "lexCommentStart", "lexTop")
           \/ r = "/" /\ Comment(next(s), "lexTop", Stay)
           \/ r \in Blank /\ Stay(next(s))
           \/ r \in NewLine \cup EndOf \cup {";"} /\ Skip(next(s), "lexTop")
           \/ /\ r \notin Blank \cup NewLine \cup EndOf \cup {"#", "/", ";"}
              /\ errorf(next(s))

-----------------------------------------------------------------------------
(* Keys, at the top level and in maps.                                      *)

lexKeyStart ==
  /\ Call("lexKeyStart")
  /\ \E s \in Supplied(scan) :
       LET r == peek(s)
       IN  \/ r \in KeySep /\ errorf(s)
           \/ r \in Blank \cup NewLine /\ Skip(next(s), "lexKeyStart")
           \/ r = "\"" /\ Skip(next(s), "lexDubQuotedKey")
           \/ r = "'" /\ Skip(next(s), "lexQuotedKey")
           \/ /\ r \notin KeySep \cup Blank \cup NewLine \cup {"\"", "'"}
              /\ Goto(next(ignore(s)), "lexKey")

lexMapKeyStart ==
  /\ Call("lexMapKeyStart")
  /\ \E s \in Supplied(scan) :
       LET r == peek(s)
           Key(t) == \E u \in Supplied(t) : Goto(next(ignore(u)), "lexMapKey")
       IN  \/ r \in KeySep /\ errorf(s)
           \/ r \in Blank \cup NewLine /\ Skip(next(s), "lexMapKeyStart")
           \/ r = "}" /\ Skip(next(s), "lexMapEnd")
           \/ r = "#" /\ push(next(s), "lexCommentStart", "lexMapKeyStart")
           \/ r = "/" /\ Comment(next(s), "lexMapKeyStart", Key)
           \/ r = "'" /\ Skip(next(s), "lexMapQuotedKey")
           \/ r = "\"" /\ Skip(next(s), "lexMapDubQuotedKey")
           \/ /\ r \notin KeySep \cup Blank \cup NewLine \cup {"}", "#", "/", "'", "\""}
              /\ Key(s)

\* The text of a key in quotes, which nothing else ends.
QuotedKey(st, quote, end) ==
  /\ Call(st)
  /\ \E s \in Supplied(scan) :
       IF peek(s) = quote THEN emit(next(s), "Key", end) ELSE Goto(next(s), st)

lexDubQuotedKey    == QuotedKey("lexDubQuotedKey", "\"", "lexKeyEnd")
lexQuotedKey       == QuotedKey("lexQuotedKey", "'", "lexKeyEnd")
lexMapQuotedKey    == QuotedKey("lexMapQuotedKey", "'", "lexMapKeyEnd")
lexMapDubQuotedKey == QuotedKey("lexMapDubQuotedKey", "\"", "lexMapKeyEnd")

\* Variant: the key ends without an item.
BareKeySilent(st, end) ==
  /\ Call(st)
  /\ \E s \in Supplied(scan) :
       IF peek(s) \in Blank \cup NewLine \cup KeySep THEN Skip(s, end)
       ELSE Goto(next(s), st)

\* The text of a bare key; the end of the input does not end it.
BareKey(st, end) ==
  /\ Call(st)
  /\ \E s \in Supplied(scan) :
       IF peek(s) \in Blank \cup NewLine \cup KeySep THEN emit(s, "Key", end)
       ELSE Goto(next(s), st)

lexKey    == BareKey("lexKey", "lexKeyEnd")
lexMapKey == BareKey("lexMapKey", "lexMapKeyEnd")

KeyEnd(st, value) ==
  /\ Call(st)
  /\ \E s \in Supplied(scan) :
       \/ peek(s) \in Blank \cup NewLine /\ Skip(next(s), st)
       \/ peek(s) \in KeySep /\ Skip(next(s), value)
       \/ peek(s) \notin Blank \cup NewLine \cup KeySep /\ Goto(backup(next(s)), value)

lexKeyEnd    == KeyEnd("lexKeyEnd", "lexValue")
lexMapKeyEnd == KeyEnd("lexMapKeyEnd", "lexMapValue")

-----------------------------------------------------------------------------
(* Values.                                                                  *)

lexValue ==
  /\ Call("lexValue")
  /\ \E s \in Supplied(scan) :
       LET r == peek(s)
           t == next(s)
       IN  \/ r \in Blank /\ Skip(t, "lexValue")
           \/ r = "[" /\ emit(t, "ArrayStart", "lexArrayValue")
           \/ r = "{" /\ emit(t, "MapStart", "lexMapKeyStart")
           \/ r = "'" /\ Goto(ignore(t), "lexQuotedString")
           \/ r = "\"" /\ Goto(ignore(t), "lexDubQuotedString")
           \/ r = "-" /\ Goto(t, "lexNumberStart")
           \/ r = "(" /\ Goto(ignore(t), "lexBlock")
           \/ r \in Digit /\ Goto(backup(t), "lexNumberOrDateStart")
           \/ r \in {"."} \cup NewLine /\ errorf(t)
           \/ /\ r \notin Blank \cup Digit \cup NewLine \cup
                         {"[", "{", "'", "\"", "-", "(", "."}
              /\ Goto(backup(t), "lexString")

lexArrayValue ==
  /\ Call("lexArrayValue")
  /\ \E s \in Supplied(scan) :
       LET r == peek(s)
       IN  \/ r \in Blank \cup NewLine /\ Skip(next(s), "lexArrayValue")
           \/ r = "#" /\ push(next(s), "lexCommentStart", "lexArrayValue")
           \/ r = "/" /\ Comment(next(s), "lexArrayValue", errorf)
           \/ r = "," /\ errorf(next(s))
           \/ r = "]" /\ Goto(next(s), "lexArrayEnd")
           \/ /\ r \notin Blank \cup NewLine \cup {"#", "/", ",", "]"}
              /\ push(backup(next(s)), "lexValue", "lexArrayValueEnd")

lexArrayValueEnd ==
  /\ Call("lexArrayValueEnd")
  /\ \E s \in Supplied(scan) :
       LET r == peek(s)
           More(t) == Skip(t, "lexArrayValue")
       IN  \/ r \in Blank /\ Skip(next(s), "lexArrayValueEnd")
           \/ r = "#" /\ push(next(s), "lexCommentStart", "lexArrayValueEnd")
           \/ r = "/" /\ Comment(next(s), "lexArrayValueEnd", More)
           \/ r \in {","} \cup NewLine /\ More(next(s))
           \/ r = "]" /\ Goto(next(s), "lexArrayEnd")
           \/ /\ r \notin Blank \cup NewLine \cup {"#", "/", ",", "]"}
              /\ errorf(next(s))

\* Variant: the array is closed, and its state stays.
lexArrayEndStays == Call("lexArrayEnd") /\ emit(scan, "ArrayEnd", "lexArrayValueEnd")

lexArrayEnd == Call("lexArrayEnd") /\ emitAndPop(scan, "ArrayEnd")

\* A '}' where a value is due ends the map.
lexMapValue ==
  /\ Call("lexMapValue")
  /\ \E s \in Supplied(scan) :
       LET r == peek(s)
       IN  \/ r \in Blank \cup NewLine /\ Skip(next(s), "lexMapValue")
           \/ r = "," /\ errorf(next(s))
           \/ /\ r = "}"
              /\ scan' = Keep(ignore(next(s)), "lexMapEnd") /\ state' = "lexMapEnd"
              /\ valueless' = valueless + 1
              /\ UNCHANGED <<stack, items>>
           \/ /\ r \notin Blank \cup NewLine \cup {",", "}"}
              /\ push(backup(next(s)), "lexValue", "lexMapValueEnd")

lexMapValueEnd ==
  /\ Call("lexMapValueEnd")
  /\ \E s \in Supplied(scan) :
       LET r == peek(s)
           More(t) == Skip(t, "lexMapKeyStart")
       IN  \/ r \in Blank /\ Skip(next(s), "lexMapValueEnd")
           \/ r = "#" /\ push(next(s), "lexCommentStart", "lexMapValueEnd")
           \/ r = "/" /\ Comment(next(s), "lexMapValueEnd", More)
           \/ r \in {",", ";"} \cup NewLine /\ More(next(s))
           \/ r = "}" /\ Skip(next(s), "lexMapEnd")
           \/ /\ r \notin Blank \cup NewLine \cup {"#", "/", ",", ";", "}"}
              /\ errorf(next(s))

lexMapEnd == Call("lexMapEnd") /\ emitAndPop(ignore(scan), "MapEnd")

-----------------------------------------------------------------------------
(* Strings.                                                                 *)

\* The text in quotes, which nothing else ends.
QuotedString(st, quote) ==
  /\ Call(st)
  /\ \E s \in Supplied(scan) :
       IF peek(s) = quote THEN emitAndPop(next(s), "String") ELSE Goto(next(s), st)

lexQuotedString    == QuotedString("lexQuotedString", "'")
lexDubQuotedString == QuotedString("lexDubQuotedString", "\"")

\* isBool: the text may be one of the four words, the lower or the upper case ones.
Word(s) == {"String"} \cup IF s.len \in {4, 5} THEN {"true", "TRUE"} ELSE {}

lexString ==
  /\ Call("lexString")
  /\ \E s \in Supplied(scan) :
       LET r == peek(s)
       IN  \/ r = "\\" /\ Goto(next(s), "lexStringEscape")
           \/ /\ r \in NewLine \cup EndOf \cup {";"} \cup Blank
              /\ \E w \in Word(s) : emitAndPop(backup(next(s)), w)
           \/ r = "'" /\ emitAndPop(next(s), "String")
           \/ /\ r \notin NewLine \cup EndOf \cup Blank \cup {"\\", ";", "'"}
              /\ Goto(next(s), "lexString")

\* An 'a' may be one of the letters x, t, n, r, or a hexadecimal digit.
lexStringEscape ==
  /\ Call("lexStringEscape")
  /\ \E s \in Supplied(scan) :
       \/ peek(s) \in {"a", "\"", "\\"} /\ Goto(next(s), "lexString")
       \/ peek(s) = "a" /\ Goto(next(s), "lexStringBinary")
       \/ peek(s) \notin {"\"", "\\"} /\ errorf(next(s))

lexStringBinary ==
  /\ Call("lexStringBinary")
  /\ \E s \in Supplied(scan) :
       \/ /\ peek(s) \in Digit \cup {"a"}
          /\ \E t \in Supplied(next(s)) :
               \/ peek(t) \in Digit \cup {"a"} /\ Goto(next(t), "lexString")
               \/ peek(t) \notin Digit /\ errorf(next(t))
       \/ peek(s) \notin Digit /\ errorf(next(s))

(* A block ends with a ')' between two new lines, or a new line and the end. *)
(* After the ')' the code backs up twice and reads twice, to see what is     *)
(* before it; after the rune that follows it backs up twice to the ')'.      *)
lexBlock ==
  /\ Call("lexBlock")
  /\ \E s \in Supplied(scan) :
       LET before == backup(backup(next(s)))
           after  == next(next(before))
       IN  \/ peek(s) # ")" /\ Goto(next(s), "lexBlock")
           \/ peek(s) = ")" /\ peek(before) # "\n" /\ Goto(after, "lexBlock")
           \/ /\ peek(s) = ")" /\ peek(before) = "\n"
              /\ \E t \in Supplied(after) :
                   LET r == peek(t)
                       end == backup(backup(next(t)))
                   IN  IF r \in {"\n"} \cup EndOf
                       THEN \E u \in Supplied(end) : emitAndPop(next(u), "String")
                       ELSE Goto(backup(next(t)), "lexBlock")

-----------------------------------------------------------------------------
(* Numbers and dates.                                                       *)

\* The first digit is there, or an error.
FirstDigit(st, then) ==
  /\ Call(st)
  /\ \E s \in Supplied(scan) :
       IF peek(s) \in Digit THEN Goto(next(s), then) ELSE errorf(next(s))

lexNumberOrDateStart == FirstDigit("lexNumberOrDateStart", "lexNumberOrDate")
lexNumberStart       == FirstDigit("lexNumberStart", "lexNumber")
lexFloatStart        == FirstDigit("lexFloatStart", "lexFloat")

lexNumberOrDate ==
  /\ Call("lexNumberOrDate")
  /\ \E s \in Supplied(scan) :
       LET r == peek(s)
           t == next(s)
       IN  \/ r = "-" /\ IF t.len # 5 THEN errorf(t) ELSE Goto(t, "lexDateAfterYear")
           \/ r \in Digit /\ Goto(t, "lexNumberOrDate")
           \/ r = "." /\ Goto(t, "lexFloatStart")
           \/ r \notin Digit \cup {"-", "."} /\ emitAndPop(backup(t), "Integer")

\* The fifteen runes after the year are right, or one of them is not.
lexDateAfterYear ==
  /\ Call("lexDateAfterYear")
  /\ \/ emitAndPop(scan, "Datetime")
     \/ \E s \in Supplied(scan) : errorf(next(s))

lexNumber ==
  /\ Call("lexNumber")
  /\ \E s \in Supplied(scan) :
       \/ peek(s) \in Digit /\ Goto(next(s), "lexNumber")
       \/ peek(s) = "." /\ Goto(next(s), "lexFloatStart")
       \/ peek(s) \notin Digit \cup {"."} /\ emitAndPop(backup(next(s)), "Integer")

lexFloat ==
  /\ Call("lexFloat")
  /\ \E s \in Supplied(scan) :
       IF peek(s) \in Digit THEN Goto(next(s), "lexFloat")
       ELSE emitAndPop(backup(next(s)), "Float")

-----------------------------------------------------------------------------
(* Comments.                                                                *)

lexCommentStart == Call("lexCommentStart") /\ emit(scan, "CommentStart", "lexComment")

\* Variant: a comment looks for a new line only.
lexCommentDeaf ==
  /\ Call("lexComment")
  /\ \E s \in Supplied(scan) :
       IF peek(s) \in NewLine THEN emitAndPop(s, "Text") ELSE Goto(next(s), "lexComment")

lexComment ==
  /\ Call("lexComment")
  /\ \E s \in Supplied(scan) :
       IF peek(s) \in NewLine \cup EndOf THEN emitAndPop(s, "Text")
       ELSE Goto(next(s), "lexComment")

-----------------------------------------------------------------------------
LexInit ==
  /\ scan = [seen |-> <<>>, ahead |-> <<>>, width |-> 0, len |-> 0]
  /\ state = "lexTop" /\ stack = <<>> /\ items = <<>> /\ valueless = 0

Lex ==
  \/ lexTop \/ lexTopValueEnd \/ lexKeyStart \/ lexMapKeyStart
  \/ lexDubQuotedKey \/ lexQuotedKey \/ lexMapQuotedKey \/ lexMapDubQuotedKey
  \/ lexKey \/ lexMapKey \/ lexKeyEnd \/ lexMapKeyEnd
  \/ lexValue \/ lexArrayValue \/ lexArrayValueEnd \/ lexArrayEnd
  \/ lexMapValue \/ lexMapValueEnd \/ lexMapEnd
  \/ lexQuotedString \/ lexDubQuotedString \/ lexString \/ lexStringEscape
  \/ lexStringBinary \/ lexBlock
  \/ lexNumberOrDateStart \/ lexNumberStart \/ lexFloatStart
  \/ lexNumberOrDate \/ lexDateAfterYear \/ lexNumber \/ lexFloat
  \/ lexCommentStart \/ lexComment
=============================================================================
