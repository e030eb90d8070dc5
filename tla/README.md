# A verification project for sugar

sugar is a small process manager: one **master** with an HTTP API, and one
**agent** per machine that starts, stops and lists processes at the master's
request. This directory holds TLA+ models of it, the TLC runs that check them,
and TLAPS proofs about them. File and line references are to `src/`.

## 1. The system

| component | code | state | operations |
|---|---|---|---|
| connection buffer | `agent/buffer.go`, `master/buffer.go` (the same code) | the ring, two cursors, a cached copy of one of them, `done`, two condition variables | ReadFrom, Write, WriteWait, WriteCommit; ReadPeek, ReadWait, Read, ReadCommit, WriteTo; Close |
| agent inbound path | `agent/sendrecv.go`, `agent/process.go:22-103` | the buffer `in`, the place of each goroutine | receiver (ReadFrom), processor (peek, execute, reply, commit) |
| agent process table | `agent/process.go:105-182`, `agent/server.go:120-145, 203-230` | `Server.process`, the kernel's children | start, stop, query, Close, handleChild |
| agent start-up | `agent/server.go:56-112, 147-201`, `agent/misc.go` | `running`, `conn` | Start, register, handleSignals |
| master registry | `master/server.go` | `Server.clients`, `running` | createClient, Close, DeleteExistingSvc |
| calls to an agent | `master/client.go`, `master/misc.go` | `client.mu`, `client.conn` | StartProcess, StopProcess, QueryProcess, close |
| HTTP API | `master/http.go` | none of its own | doStart, doStop, doQuery, doServer |
| message codec | `message/*.go`, `master/misc.go:51-131` | none | Encode, Decode, getMessageBuffer |
| configuration | `conf/lex.go`, `conf/parse.go` | the lexer's stack of state functions, the parser's stacks of contexts and of keys | the state functions, Parse |
| options, ids | `*/options.go`, `*/const.go`, `agent/misc.go` | none after start-up | defaults, conversion of configuration values |

**How they interact.** The agent dials the master, writes a registration and
waits for an acknowledgement; the master's goroutine for the connection
(createClient) enters a `client` into the table. An HTTP request looks the
client up and calls it; the call holds `client.mu` while it writes a request
to the connection and reads the reply from it. In the agent the receiver
copies the connection into the buffer, the processor peeks one request at a
time out of it, executes it, writes the reply straight to the connection, and
commits. `handleChild`, on the agent's main goroutine, waits for children and
takes them out of the table that the processor fills.

**What is hard in it.** The buffer is a lock-free ring with cursors, a cached
cursor and two condition variables whose mutexes are not always the ones that
guard the condition. The agent's receiver and processor can wait for each
other. The process table and the table of clients are guarded at some uses
only. `Wait4` reports what was true when it looked. Calls carry no number and
no deadline, so one lost wake-up in the agent blocks every later call to it.
The configuration's lexer and parser keep a stack each and have only items to
keep them in step; the lexer's `next` and `backup` are easy to miscount, and
at the end of the input `next` stays where it is.

**What makes each part correct.** Buffer: a bounded FIFO byte stream, without
lost wake-ups. Inbound path: each request once, in its frame, and not never.
Process table: what runs is in the table, what is in the table runs. Registry:
what was accepted is listed, what Close finds is stopped. Calls: each gets its
own reply, each request is executed at most once. Codec: what is decoded is
what was encoded, and the stream is cut where the frames begin. Configuration:
every value under its own key, in its own map; only whole documents are
accepted; Parse returns.

## 2. Modules

| module | models | rests on |
|---|---|---|
| `Buffer` | the ring buffer, one action per atomic step, for any client with one producer and one consumer | |
| `ByteStream` | what the buffer promises: a bounded pipe that can be closed | |
| `BufferStream` | the refinement `Buffer` => `ByteStream`, fairness and liveness | `Buffer`, `ByteStream` |
| `AgentInput` | receiver and processor over one buffer, with the connection and the master as environment | `Buffer` |
| `AgentProcess` | processor, handleChild and the kernel over the process table | |
| `Registry` | createClient, the HTTP handlers' reads and Close over the table of clients | |
| `ClientCall` | concurrent calls over one connection, with the agent's processor and client.close; the refinement `ClientCall` => `AtomicCalls` | `AtomicCalls` |
| `AtomicCalls` | what the calls promise: each request takes effect in one step, at most once | |
| `Codec` | frames, varints and payloads as operators | |
| `Wire` | one direction of a connection: writers, partial delivery, and both readers | `Codec` |
| `ConfLexer` | the lexer: one action per call of a state function, over a document that is chosen as it is read | |
| `Conf` | the parser, fed by the lexer | `ConfLexer` |
| `BufferProofs`, `AgentInputProofs`, `AgentProcessProofs`, `RegistryProofs`, `ClientCallProofs`, `ConfProofs`, `WireProofs` | theorems about the modules they are named for | TLAPS |
| `BufferStreamProofs` | that the buffer implements the byte stream | `BufferProofs` |

### Correspondence with the code

`PROJECT.json` maps every definition to its lines. In outline:

* **Buffer.** `pseq`, `cseq`, `gate`, `done` are the fields of those names;
  `plocked`/`clocked` say that `pcond.L`/`ccond.L` is held by the wait loop of
  its own side. A step of the model is an atomic load or store, a Lock, the
  parking half of `Cond.Wait`, or a critical section that only broadcasts. The
  program counters `ppc`, `cpc`, `kpc` follow the code line by line:
  `waitForWriteSpace` is space, lock, test, isDone, wait, parked; `ReadWait`
  is the load of `pseq` (`PeekCall`), lock, test, isDone, wait, parked, relock. The
  returns inside the wait loops keep the mutex locked, as the code does, and
  the second broadcast of Close is under `pcond.L`, as the code has it. A byte
  is its position in the producer's stream, so order and loss are visible.
  `Size` is a power of two (newBuffer insists), which makes `& mask` `% Size`.
  Two things need a word. The buffer's own reads of `this.cseq` by the consumer
  (and of `pseq` by the producer) are not steps: nobody else writes them. And the
  loads at the head of `Read` (`isDone`, `Len`, the cursors) are taken together.
* **AgentInput.** The header is `Hdr` bytes and tells the length of its frame,
  known to the model as the length of the request that begins there: `requests`
  keeps, for each request sent, the byte it begins at and its length. The peeks
  of 2, 3, ... `Hdr` bytes are the code's. The master has one request out at a
  time (`OneOutstanding`), which `ClientCall` shows of it.
* **AgentProcess.** The key of the map is the pid in decimal, so it is the pid.
  A pid is given out once: the kernel reuses one only after going round, and
  what a kill of a reused pid would do is not modelled. Sections under
  `Server.mu` are single steps; reads without it are places (`lookup`,
  `marshal`) at which the Go runtime may abort the program if the map is being
  written, which it is allowed to and does check (`ConcurrentMapAccess`). When
  that can happen is what `AbortNeedsExit` says.
  A start is the fork (`Fork`), and then either the exec succeeds (`ExecSucceeds`) or
  it fails: the child exits inside `syscall.ForkExec`, which waits for it
  (`ExecFails`, `CollectFailed`) unless handleChild's `Wait4(-1)` takes it first. If there is
  not even a child, it is `ForkFails`.
  `started`, `overtaken`, `dropped`, `failed` are history variables.
* **Registry.** One `cpc` per accepted connection follows createClient;
  `closing` follows Server.Close. `client.stop` is one step: closing the
  connection and deleting the name commute with everything between them.
  `late` and `replaced` are history variables. Nothing in the repository calls
  the master's Close; it is modelled as the exported operation that it is.
* **ClientCall.** The connection is "open", "broken" (the peer has left),
  "closed" (by client.close) or "nil" (forgotten by it). A write to a broken
  connection may succeed or fail, a read fails, and delivers nothing afterwards.
  The processor may fall asleep on a request, as `AgentInput` shows it does.
* **AtomicCalls.** A call begins and returns; between the two its request takes
  effect, once, or, if the call returns an error, perhaps later or never. What
  remains of a failed call must not pass the caller's next request. The log of
  effects is what the agent has executed.
* **ConfLexer, Conf.** An action of the lexer is one call of a state function and
  has its name; the closures of `lexSkip` run with the call that returns them.
  `scan` is the place in the input: the runes before `pos` that a `backup` can
  still reach, those after it that have been read, `width`, and `pos - start`,
  which some functions compare. A rune is chosen when it is read for
  the first time and forgotten when the lexer can no longer go back to it, so a
  run covers documents of any length. There is a rune for every kind the lexer
  tells apart; `NUL` is a zero byte in the file, which the lexer takes for the end,
  `EOF` is the end. `next` sets `width` to 0 at the end, so that `backup`
  does nothing there. `Process` is one item of the parser: contexts are kept by their kind,
  a key by the number of contexts that were open when it was read, which is all that decides
  which value it gets. The map with a key and no value is counted (`valueless`).
  Texts of items, numbers, dates and line numbers are left out: whether `strconv` or
  `time.Parse` accepts an item is a choice.
* **Codec, Wire.** A varint byte carries a digit to the base `Base` (128 in
  the code), so that small lengths already take two bytes; the header is
  `HdrLen` bytes (5). Messages are a type and an argument; payloads, the zigzag
  of the pid, the two bytes of the keep-alive time, the padding that `Len`
  leaves and the place where the body begins are what Encode and Decode make
  of them. The master's reader takes one byte, then any part of the rest; the
  agent's reader peeks at a byte stream, which is what `BufferStream` shows
  the buffer to be.

## 3. Runs

| run | question | instance |
|---|---|---|
| `buffer` | do the ring and its wait loops work, under every interleaving of one producer, one consumer and Close? | Size 2, Block 1, 4 bytes, one closer: 324 000 states |
| `agent_input` | are requests framed, executed once, not stalled, and in the end executed? | Size 8, Block 4, header 3, four requests of 3, 5 or 9 bytes: 172 000 states |
| `agent_input_sleeps`, `_close`, `_large` | do the promises hold that the code does not keep? (see 5) | the same ring, fewer requests |
| `agent_process` | what does the process table promise? | 3 children, each of which may fail its exec: 140 000 states |
| `agent_process_lost` | (see 5) | 3 children |
| `registry` | what does the table of clients promise? | 3 connections, 2 names, 1 handler: 279 000 states |
| `registry_accepted` | (see 5) | the same |
| `client_call` | do calls get their own reply, once, in order, return, and look atomic? | 3 callers with 2 calls each: 111 000 states |
| `conf` | do lexer and parser stay in step, does every value find its key, does Parse return? | stacks of up to 4, one map that ends in place of a value: 41 000 states |
| `wire` | is what is decoded what was encoded, and do both readers stay on the frames? | Base 4, header 3, two messages, texts of 0 and 4 bytes: 1 000 000 states |

**Why the bounds are enough.** `buffer`: four bytes are two laps of a ring of
two, so slots are reused while the consumer holds slices of the last lap; two-byte
calls (`Write`, `WriteWait`, `Read`, `ReadPeek`) cross the end of the ring. Partial
blocks and the clipped slice of ReadFrom need a block of more than one byte: these are in
`agent_input`, where 5-byte requests wrap around a ring of 8 and
5 = Size - Block + 1 is the longest that is safe; 9 does not fit the ring at
all and takes the ErrBufferFull path. The theorems then hold for every
size. `agent_process`: two children are needed to drop one (one that is
overtaken, one that is dropped), the third can be any other, such as one whose exec fails. `registry`: two
connections race for a name, the third comes later or has another name.
`client_call`: three callers contend for the mutex, and the second call of
each follows what the first one left. `wire`: two messages are needed for one
reader to run into the next; texts of 4 bytes take two varint digits, texts of
0 one; pids from -9 to 9 include those just outside of what two payload bytes
carry. `conf`: documents are of any length; a stack of four nests a map in an array in
a map in the top level and leaves room for the comment or value on top. One
valueless map is enough to shift the keys of all that follows, and the proofs
hold for any number and depth.
The bounds are the constants `MaxBytes`, `MaxReqs`, `Pids`, `Conns`,
`MaxCalls`, `MaxMsgs`, `MaxStack`, `MaxValueless`.

Deadlock is checked in `conf`, where Parse goes on until it returns. Elsewhere it is not: a program whose connection is gone, whose requests
are spent or that has been aborted stops. What must not stop is stated as a property.

**Fairness.** Weak fairness for the steps of goroutines: the scheduler runs
what can run. Strong fairness for `Lock` of a contended mutex: `sync.Mutex`
hands itself over to a waiter that has starved for a millisecond. In
`AgentProcess` strong fairness of `Reap(p)`: if Wait4 is called again and again,
every zombie is returned by one of the calls. In `Conf` weak fairness of `Next`: Parse
waits for nobody. Nothing is assumed of the clients, the connection, the
children or the interrupt: requests need not come, connections need not break.

## 4. What is proved

For every value of the constants that their assumptions allow:

* **`BufferProofs`.** `Invariance`: `Spec => []IInv`, from which `TypeCorrect`,
  `NeverOverwrites` and `StaysInOrder` follow. The two safety properties are
  not inductive: that a slot is free follows from the *cached* cursor, so the
  invariant must say that `gate <= cseq <= pseq <= gate + Size` and that what
  was granted (`pn` at "fill" and "set") ends within `gate + Size`; that bytes
  are in order needs the same for the bytes copied but not yet published. The
  arithmetic rests on lemmas about `%` (`SlotsDiffer`: two positions less than a lap
  apart have different slots), which are proved from the division theorem up, as the
  SMT solver does not do modulo by a variable.

  `WakeupsAreNotLost`: the wait loop of
  `waitForWriteSpace` and that of `Read` lose no wake-up. The invariant
  carries the promise back from the parked state to the test: whoever has tested under the
  mutex, and found nothing, will be broadcast to as soon as that changes,
  because the other side is then between its store and a broadcast that needs the
  same mutex (`RoomAnnounced`, `CloseAnnounced`, `DataAnnounced`). It does not
  hold of `ReadPeek` and `ReadWait`, which test what they loaded before they locked.
* **`BufferStreamProofs`.** `BufferImplementsByteStream`: under the invariant
  the ring's contents are the numbers from `cseq` to `pseq`, so a step is known by what
  it does to the cursors: Publish is Put, a release is Take, `CloseMark` is
  Close, and everything else, the copies included, is hidden.
* **`AgentInputProofs`.** `AgentImplementsBuffer`: the agent's goroutines use
  the buffer as `Buffer!Spec` allows, so everything proved of the buffer holds
  in the agent. `RequestsKeepTheirFrames`: requests of whatever length, arriving in
  whatever pieces, are executed whole, in order and once. Its
  invariant says where the requests lie in the stream (`Placed`), that the
  cursor is at the first one not executed (`AtBegin`), and that the slice in hand is the
  one asked for (`SliceIsWant`); as the bytes at the cursor are the stream's, by the buffer's invariant, the
  header found there is that request's and no other's (`AnnouncedIsNext`). So the
  processor, whose return kills the children, returns for no reason but the end of the input
  or a request longer than the ring (`StopsForCause`).
  `ReceiverAndProcessorDoNotStall`: if no frame is longer than
  `Size - Block + 1` (`FramesFit`; 8193 bytes in the code), receiver and
  processor never wait for each other. The run `agent_input_large` shows that
  the bound is tight. Nor does one wait for a mutex that the other left locked when it returned
  from its wait loop: only the receiver closes the buffer, and only when
  it has left it for good (`ClosedByReceiver`).
* **`AgentProcessProofs`.** `RunningChildrenTracked`, `StaleEntries`,
  `ResetHarmlessWithoutOvertaking`, `CloseKillsTheRest`, from one inductive
  invariant that says where each running child is known: in the table, in the
  hands of the processor, among Close's victims, or dropped. The third needs
  the fact that while `handleChild` is between ECHILD and the reset a child can only have been
  forked since, and that an entry it went to wait for was overtaken.
  `AbortOnlyAfterExit`: no concurrent map access before a start was answered; and
  then a started child was reaped, or handleChild is about to delete the entry of a child whose
  exec failed and which it reaped before `syscall.ForkExec` did.
* **`RegistryProofs`.** `NamesKeepAnEntry` and `CloseStopsItsList`. Beyond the two
  properties the invariant says that an entry is a client that createClient
  has done with, under its own name (`EntriesAreServed`), that a client loses its
  entry only to another of its name (`ServedIsListed`), and that what Close
  has still to stop is on the list it made, unless it came late (`ListIsComplete`).
* **`ClientCallProofs`.** `EachItsOwnReply`, `ExecutesOnceInOrder`, `OneAtATime`. A
  reply carries no number, so that it is the caller's own must come from
  `mu`: what is under way is the holder's, who waits for it (`OwnRequest`,
  `OwnAnswer`), and numbers under way or executed are numbers used (`AllSent`).
  After a failure a request may be left in the agent's buffer while its
  caller goes on; that it is executed once and in order even then needs
  `PendingIsNew` and `PendingIsDone`.

  `CallsImplementAtomicOnes`: with the same invariant every step is one of
  `AtomicCalls` or hidden; the effect is the agent's execution of the request.
* **`ConfProofs`.** Every call of a state function is shown to be one of five
  shapes (stay in the same map or array, end a map in place of a value, push and
  descend, emit, emit and pop: `LexShape`), whatever it reads. The inductive invariant
  then needs only the shapes. It says that the lexer's stack, with the state it is in,
  and the parser's contexts are the same up to the item that waits between them
  (`Behind`, `SameKinds`), that every map that waits for a value has its key, with only keys
  from inside that map above it (`EnoughKeys`) and, until a map has ended in place of
  a value, that there are no others (`OwnKeys`). From it: `NeverBug`, `StacksAgree`,
  `KeysAwaited`, `AcceptedWhole`, `ValuesFindTheirKey`, `KeysFromWithin`.

  `TypeCorrect` needs an invariant of the scanner as well, which knows what each
  backup needs: between two calls the lexer is at rest (`Rest`), that is, `width` is 0,
  at most one rune has been read ahead, at most two can still be gone back to, and
  `lexBlock`, which looks at the rune before its `)`, never starts at the very
  beginning. Lemmas say what `next`, `backup`, `ignore` do to such a place (`NextIs`, `IgnoreIs`,
  `BackTwice` for the two backups of `lexBlock`), and each group of state functions keeps it.
* **`WireProofs`.** In `Codec` first, for every number, text, base and header length:
  `UvarintOfPutUvarint`, `FrameLenOfEncode`, `DecodeOfEncode`. A varint is read back
  whatever follows it, since all bytes but its last are marked (`Reads`); a frame is
  header, body and padding wherever its varint ends (`Laid`), so that the length is
  found before the body is; and each payload carries its argument (`Carried`), the pid
  of a stop only if it fits its bytes (`Encodable`: the code panics otherwise).

  Then `ReturnedAsSent`, `StreamAligned`, `AsksForNoMore` and `TypeCorrect` of
  `Wire`, from one invariant. `Aligned` speaks only of a connection that is up and is
  not inductive: what is needed is that the reader's bytes and the wire's *begin* the
  frames that were not returned, with nothing lost while the connection is up
  (`StreamInv`), and that what the reader holds is within the first of these and is as
  long as its place says (`ReaderState`). The header it holds is then that frame's, and what it
  takes for a message is that frame and nothing else.

  `BodiesFitHeader` is assumed: the varint of a body's length fits the header. The
  code does not check this (`master/misc.go:104` looks at four bytes), but nothing
  that it sends comes near 2^28 bytes.

The type invariant of every detailed module is proved too. With that every safety
invariant, action property and refinement the passing runs check is a theorem.

What a recursive function computes for every input is induction over data, and the
library's induction theorems take a predicate, which no prover here can instantiate.
`WireProofs` gets around it with sets: `LeastElement` follows from the
well-foundedness of strict inclusion of finite sets, `NatStrongInduction` from it for
a set of naturals, and the predicate is put into the definition of the set. That
the recursive functions are what their equations say is proved with it (`RecursionExists`).

**Only model-checked:** liveness, which rests on fairness and so on `ENABLED`, and is
out of the prover's reach: `ParkedProducerWakes`, `ParkedReadWakes`, `ExecutedOrAsleep`,
`ReceiverEnds`, `ExitNoticed`, `CallReturns`, `StopsAtEnd`.

## 5. Where the code does not do what is said of it

Each is a run with `"expect": "violation"` and an entry under `findings`.

1. `agent_input_sleeps`: `ReadWait` reads the producer's cursor before it locks,
   and sleeps on a request that is there. (In the passing run, `ExecutedOrAsleep`
   shows that this is the only way.)
2. `agent_input_close`: `Close` broadcasts to the reader under the wrong mutex; the
   processor misses it and the agent never closes.
3. `agent_input_large`: a request longer than `Size - Block + 1` bytes
   deadlocks receiver and processor.
4. `agent_process_lost`: a running child vanishes from the table.
5. `registry_accepted`: an agent that reconnects is told that it is accepted and is
   never listed, since nothing removes the entry of the connection it lost.

Further, met while modelling, without a run of their own:

* The agent's processor reads the process table without `mu` while
  `handleChild` writes it, and the master's HTTP handlers read the table of clients
  like that (`master/http.go:61, 90, 121, 140`). The Go runtime aborts
  a program it catches at that. `AbortNeedsExit` bounds it for the agent: a
  child must have exited, and be it one whose exec failed.
* `foo { a = }`: a `}` where a value is due ends the map (`conf/lex.go:511`)
  and the key stays with the parser. The map is then put under `a`, and every map or
  array that was open around it under a key from inside it; `foo` is never used.
  `OwnKeyWhileValued` says that nothing else does this, and `KeyFromWithin` how far it goes:
  a value that is neither a map nor an array always has its own key, and no map or
  array gets a key that waits further out.
* Keys, quoted texts and blocks do not look for the end of the input: of a file that
  ends in one of them (`foo`), Parse does not return, and reads for ever. `StopsAtEnd` shows that
  nothing else does that.
* A lone `/` falls through where a comment could begin: it separates values as a `,` does, or
  begins a key after eating a rune (`conf/lex.go:386` and its like).
* The lexer lets `TRUE` and `FALSE` pass, the parser refuses them.
* `TestBlockStringEOF` (`conf/lex_test.go:544`) ends its input with a zero byte, which
  is a rune like any other; at a real end both backups of `lexBlock` have width 0.

## 6. What is not modelled

* The agent's `sender`, the buffer `out`, `Server.readMessage` and
  `Server.writeMessage`: nothing in the program hands `out` a message. The
  operations they would use are in `Buffer`.
* Start-up (`Start`, `register`, options, ids): sequential, ends in `os.Exit`
  or in the state that `AgentInit` and `Init` describe. The type assertions of
  `*/options.go` panic on values of another type than expected, before anything runs.
* Of `conf`: the text of items, what numbers and dates are, line numbers, messages.
* HTTP parameters and responses, logging, `String` methods, `example/`.
* Reuse of pids: between the lookup of `processStopProcess` and its kill the child may
  exit, be reaped, and its pid be given to another process, which is then killed.
* A remaining length of 2^28 or more, which nothing the program sends comes near.
* What a new agent does after an interrupt: the children of the old one go on running, and
  it starts with an empty table (`agent/server.go:100`). The model ends there.
* The sleeps' lengths in `handleChild` (1 s doubling to 300 s and never reset);
  only that they end.

## 7. What could follow

1. `Sugar`: registry, calls and the agent's table composed, for properties across the
   connection (a start that was answered is in the list a later query returns,
   unless the child exited or was dropped). Each side of it is covered by
   `TrackedUnlessDropped` and `CallsAtomic`.
2. In the proofs: the state-to-state parts of the liveness properties as lemmas (a helpful
   step lowers a measure, nobody raises it), which leave to the fairness only the last step.
