# Verification of gafq_engine

gafq_engine is a small game server in C++. A server thread receives framed JSON
messages from TCP clients and queues them in a script engine; the main thread
wakes up once a second, takes what is queued and calls a function of
`script.gafq` for each message; the script may answer through `send_data`. This
directory models the parts of the program that keep state in TLA+, checks them
with TLC on small instances and proves the safety properties with TLAPS for every
value of their constants, apart from those named under "Only model-checked" below.

The committed `game.cpp` lacks the brace that closes the `if` at line 243 (the
`else` at line 247 has no `if`, and everything after it nests one level too
deep). The models read the file with that brace in place, which is the only
reading its other lines allow.

## The system: inventory

| Part | State | Operations | Talks to |
|---|---|---|---|
| script engine (`script_engine.h/.cpp`) | `wait_execute_list` under `mtx_`, `count`, `count2`, the script state and its stack | `ExecGafq` (any thread), `LoopExecute` and `Init` (main) | called by the server thread and by main; calls scripts |
| singletons and start (`game.cpp` `main`, `init_load_config`; `game_config.*`; both `get_instance`) | `script_eng`, `cfg`, the ptree | `main`, the detached `init_server`, the two lazy `get_instance` | starts everything |
| epoll server (`game.cpp` `init_epool`) | the epoll instance, descriptors, one `read_msg_` for all connections | accept, read header, read body and post, close | reads clients, posts to the engine |
| framing (`socket_msg.h`) | `data_`, `body_length_` | `body_length(n)`, `encode_header`, `decode_header`, `delete_msg` | used by server, `send_data` and client |
| `send_data`, script (`game.cpp`, `script.gafq`) | the script's globals, `package.loaded` | `start_action`, `update_self`, `send_data` | called by the engine, writes to raw descriptors |
| chat client (`chat_client.cpp`) | `write_msgs_`, `read_msg_`, the socket | `write`, `close`, the handlers of its io_service | sends frames to the server |
| asio server (`socket_session`, `socket_server`) | per session: `read_msg_`, `write_msgs_` | accept, read, deliver, write handlers | an alternative to the epoll server, switched off in `init_server` |
| JSON library (`json.gafq`, third party) | none | `encode`, `decode` | used by the script |
| database demo (`init_db`), test programs | none kept | one query, printed | switched off |

What is hard in it:

* two threads share the engine's queue and, at the start, race for its creation;
* the queue is copied, cleared and run in batches while it keeps being filled;
* `count` is updated outside the lock;
* the server takes one `read()` for a whole header and one for a whole body, on
  blocking sockets, with one buffer for all connections, and asks for one byte
  more than the body has;
* descriptors are closed and reused while events are pending, and travel through
  the queue as plain numbers;
* the client's write queue lives on one write in flight at a time, while typing,
  completions, errors and `close()` come in any order;
* the main loop runs the script's `send()`, which may wait for a client, go to a
  descriptor that has changed hands, or raise SIGPIPE;
* the script can be reloaded while it runs, from a file that may be broken;
* sessions of the asio server close nothing: they live until the last handler
  that holds them stops;
* every message passes a hand-written parser, where an error ends the message
  and must end nothing else;
* errors (of the script, of `bind`, of the configuration) are mostly ignored.

The list with line numbers and the properties that cover each point is
`hazards` in `PROJECT.json`.

## Modules

| Module | Models | Variables and actions |
|---|---|---|
| `Mailbox` | what the engine promises (`script_engine.cpp:68`), and what `deliver` promises: a FIFO queue | `pending`, `handled`; `Post`, `Handle` |
| `ScriptEngine` | one engine object, its callers and main's loop | below |
| `MCScriptEngine` | TLC instances of it; the stack limit | |
| `ScriptEngineProofs` | theorems about it | |
| `Startup` | `main()` from its first line, the detached thread, both singletons | below |
| `StartupProofs` | theorems about it | |
| `SocketMsg` | header arithmetic of `socket_msg.h` as operators | none |
| `SocketMsgProofs` | lemmas: what `atoi` and `decode_header` make of whole, cut and foreign headers | |
| `Framing` | one message from sender to receiver through `SocketMsg` | `SetLength`, `Encode`, `SendForeign`, `Receive` |
| `FramingProofs` | theorems about it | |
| `JsonText` | `json.gafq`: `decode` and `encode` as recursive operators | none |
| `JsonReader` | the decoder beside a reference automaton that reads the same text | `str`, `ref`, `room`; `TypeSymbol` |
| `MCCodecs` | TLC instance of `Framing` and `JsonReader` side by side | |
| `EpollServer`, `MCEpollServer` | `init_epool`'s loops, clients, TCP and epoll | below |
| `EpollServerProofs` | theorems about `EpollServer` | |
| `ChatClient` | `chat_client.cpp`: the main thread and the io_service's thread | below |
| `ChatClientProofs` | theorems about it | |
| `AsioChat` | `ChatClient` connected to `socket_server` and `socket_session` | below |
| `AsioChatProofs` | theorems about it, resting on those of the client | |
| `Game` | clients, server thread, queue, main loop and script as one system | below |
| `GameProofs` | theorems about it | |

`Startup` takes `Mailbox` as its picture of an engine's queue: `ExecGafq` and
`LoopExecute` are single steps there, which `ScriptEngine` justifies
(`EngineImplementsMailbox`). `EpollServer` posts in one step for the same
reason, and reads headers through `SocketMsg`. `Game` takes both results as
given: frames are read and posted whole, and LoopExecute takes the queue in one
step; that the whole then is a mailbox again is `GameImplementsMailbox`.
`AsioChat` extends `ChatClient` and makes the session its network, where
`ChatClient` alone admits any server.

**ScriptEngine.** `ExecGafq(p)` is `BuildItem` (lines 67-81: a non-empty
`gafq_content` drops the message; both arguments have defaults, so a call may
pass neither), `LockForPush`, `PushItem`, `CountAndUnlock`, and the unguarded
`count = count + 1` as `LoadCount` and `StoreCount`. Main runs `InitScript` (the
file may fail to load, and nobody looks), `RegisterSendData`, and then `WakeUp`
and `LoopExecute`: `LockForCopy`, `CopyList`, `ClearAndUnlock`, and per item one
of `CallFunction` (ending well, with an error object, or with nil),
`ReportNoFunction`, or `ReadNullMsg`, which is the end of the process. `Careful`
are the threads that always pass a message and never a script text, as the server
thread of `game.cpp` does; the others pass anything. Data are abstracted to an
item's identity; the script stack to its height `top`, because that is what
leaks; the globals to the names that `script.gafq` and the engine bind (the
standard library's names are not used as actions). `executed` is a history
variable.

**Startup.** Each thread has a `pc`, and `ret` remembers which statement called
`get_instance()`. `CheckEngine`, `CreateEngine`, `ResetCounts` and
`ReturnEngine` are the four accesses to `script_eng`; the build (`-g`, no `-O`)
makes each a memory access of its own. `new` leaves `se_gafqState` without a
value; using it is a crash. `LoadConfig` enumerates what `--props` may lead to,
with the exceptions that are caught (`filesystem_error`) and those that are not.

**EpollServer.** A byte is `[conn, off, code]`: where it was written and what it
is; a body is `BodyCode` again and again, and `epoll_any` makes that a digit.
`net` and `rcv` are the bytes on the way and in the receive buffer, `files` is
the descriptor table, `events` what is left of a batch (in any order), `data_`,
`pad` and `body_length_` are `read_msg_` and the byte behind its buffer.
`ReadHeader` is `delete_msg`, the first `read` and `decode_header`; `ReadBody`
the second `read`, of `body_length() + 1` bytes, and the post. It is enabled
only when the read would return, so a blocked thread is a disabled action.
Sockets and epoll are external: level-triggered readiness, reads that return
what is there, resets that overtake bytes on the way (what has arrived stays
readable), the lowest free descriptor from `accept`. On a reset connection
EPOLLERR may come with or without EPOLLIN, so that both branches of the code are
taken.

**ChatClient.** The main thread takes `ReadLine`, `Write` (one per copy), `Close`
and `Join`; the other thread takes the first of `handlers` and runs it whole:
`DoWrite`, `DoClose`, `HandleWrite`, `HandleConnect`, `HandleReadHeader`,
`HandleReadBody`. A message is the number of its `do_write`. boost::asio is
external: an operation that is started completes with or without an error and
queues its handler, `close()` makes the outstanding ones fail, and `run()`
returns when there is neither a handler nor an operation (`RunReturns`). `wire`
is a history variable of the messages that were written whole.

**AsioChat.** `HandleAccept` is `handle_accept` with the `start_accept` behind it;
`SessionReadHeader`, `SessionReadBody` and `SessionWrite` are the session's
handlers, run in the order in which they became ready; `Deliver` is `deliver`,
which nothing in the tree calls and which the model lets any code of the
server's thread call while the session lives. No code closes a session's socket:
`SessionLives` says whether an operation or a handler still holds the
`shared_ptr`. The server is switched off in `init_server` (line 347). Its printed
line is abstracted to the message: the code prints `read_msg_.data()`, which is
neither cleared nor terminated, so what is left of a longer message may follow.

**Game.** The actions of the clients (`Connect`, `Send`, `Receive`, `Leave`), of
the server thread (`Accept`, `PostMessage`, `ReadAstray`, `CloseFd`) and of main
(`WakeUp` and LoopExecute: `RunIgnored`, `RunUpdateSelf`, `Require`, `BeginSend`,
`FinishSend`, `EndLoop`). A message is what `start_action` makes of it: `oper` and
`to`. Frames are read whole, but when the next frame is there already its first
byte may go with the one before (`game.cpp:290`, finding 3): the connection is
`astray` then, and what is read next begins inside a frame. It may decode to any
length, and any message is posted (`ReadAstray`), or it does not decode, and the
server closes the connection of a client that is still there (`CloseFd`, lines
287 and 299-303); what was on its way to that client may then be lost to a reset
(`LoseRest`).

`send()` is two steps, because it looks up the descriptor and may then wait: for
room when the client's buffers hold `SendRoom` messages, or fail after a reset
(`rst`), with SIGPIPE when the client's FIN had come before it, else with an
error that `send_data` ignores. A descriptor that is no socket makes it fail at
once, and the listening socket raises SIGPIPE too.

`update_self` is two steps. `RunUpdateSelf` sets `package.loaded["script"]` to
`false`; `Require` looks at it, and at the file, which may have changed in
between. It runs the file only if what it finds is not true: afterwards it is
`true`, or the sentinel that `require` leaves behind when the file raised an
error, which the next `require` would take for a loop. `Edit` replaces the file
by one that is whole, does not load, or raises an error before or behind
`start_action`; in the last case the new `start_action` is bound although the
script has failed. `bound` is the version of the global `start_action`. `addr` in
`posted`, `got` and `wanted` are history.

**JsonText and JsonReader.** A text is a sequence of symbols: characters, and
runs of characters the code never takes apart (a literal word, a digit, the four
hex digits behind `\u`, a byte of UTF-8). The operators are the functions of
`json.gafq` with their indices; values are records, and tables keep no nil, so
that `null` in an array leaves a hole. What `#` makes of a table with holes is up
to the library (any border); `Sparse` admits both answers where the number of
elements is one. A number is kept as it was read; `EncodeNumber` rounds it to
what `%.14g` keeps and refuses infinities. Two symbols stand for what makes the
difference: a fraction whose last digit is the fifteenth, and an exponent that
makes the number infinite. The reference is an automaton with a stack that goes
over the text once, symbol by symbol, and knows the value of each complete
prefix; it shares with the decoder only the character sets and the representation
of values. Its language allows a comma behind the last element, because the
decoder does. Left out: `tonumber`'s other forms (external; numbers are signs,
ones and those two symbols), unpaired halves of surrogates, `\b`, `\f` and other
control characters, circular tables (values are trees), and where an error is
reported.

## Runs

| Run | Checks | Bounds |
|---|---|---|
| `engine_threads` (pass) | several callers: types, per-thread order, exact `count2`, `count <= count2`, a thread that always passes a message never kills the process (`CarefulNeverKill`), the inductive invariant, refinement of `Mailbox` (safety) | 2 threads, one careful and one that passes anything or nothing, 3 calls, 2 actions, 3 outcomes |
| `engine_game` (pass) | as the program uses it: `count = count2` between calls, balanced stack, refinement of `Mailbox` with liveness | 1 thread, 4 calls |
| `engine_stack` (violation) | the stack limit of `gafqconf.h` | limit scaled from 8000 to 5 |
| `startup` (pass) | the inductive invariant (`StartupInv`), and in it that messages are executed in order, none twice; one configuration object; no server without configuration; one engine is always initialised before use; the engine pointer settles; with one engine everything queued is executed | 3 messages |
| `startup_race` (violation) | everything queued is executed | 2 messages |
| `codecs` (pass) | framing: every length survives the header; no header is accepted with a length beyond `max_body_length`; a short header means a shorter body. JSON: `decode` takes exactly the language and gives its values (`DecodeAgrees`); `encode` takes every finite value without holes, and what it does not refuse decodes to the value, numbers rounded and arrays cut at their first hole (`EncodeReverses`) | lengths 0..1100 with the code's own 1024; all headers over 9 characters; `size_t` scaled to 16 bits; all texts of 7 symbols behind 4 beginnings and of 4 behind 2 arrays with holes, and one symbol beyond the first error |
| `epoll_paced` (pass) | frames are posted whole, once, in order (`FramesIntact`), all of them (`FramesServed`); descriptors come back (`FdsReclaimed`) | 2 connections, 3 frames, bodies of 1 or 2 bytes, buffer of 3 |
| `epoll_any` (pass) | the inductive invariant (`EpollInv`); posted texts are gap-free, ordered pieces of the right stream (`StreamSlices`); events are never stale (`EventsFresh`) | 3 connections (symmetric), 2 descriptors, 2 frames, bodies of 0 or 2 ones, pieces of 3 and 5 bytes, resets |
| `asio_chat` (pass) | the inductive invariant of both ends (`ChatInv`, which contains the client's). Client: one write and one read under way at most, of the front of the queue (`OneOfEach`); typed messages are on the wire, in the queue or posted, in order (`Conservation`); none is stuck (`NothingStuck`); main returns (`JoinReturns`). Both ends: order and no repetition in both directions (`EndToEnd`); a session whose client has ended is destroyed (`SessionFreed`); accepting goes on (`AcceptsAgain`) | 1 line sent twice, 2 messages delivered, any errors |
| `game` (pass) | the inductive invariant (`GameInv`); messages sent on reach only whom they named (`ReachesAddressee`); a reload takes (`ReloadTakes`); while the process lives all that is queued is executed (`AliveExecutes`) and clients that stay receive what is for them, unless the server closes their connection (`Forwarded`) | 2 clients, 2 descriptors and the listening one; 2 messages, for descriptor 1 or the listening one; buffers of 1, 2 edits of the script |
| `game_send` (violation) | everything queued is executed | 1 client, 3 messages to itself |
| `epoll_pipelined` (violation) | `FramesIntact` when a client does not wait | 1 connection, 2 frames |

The inductive invariants are the ones the proofs use; each begins with the
`TypeOK` of its module.

Why the bounds are enough. Two callers are what it takes to interleave inside and
outside the lock, and a third call makes one of them come round again while the
other is anywhere. The epoll runs need a frame longer and one shorter than
another (stale bytes), a piece that ends inside a header (3) and one that ends
inside a body (5), and one client more than descriptors (failing `accept`,
reuse). In `asio_chat` two messages in each direction let one wait behind
another; the handlers only ask whether there is a next one, so a third meets no
case the second has not. In `game` two clients and two messages are enough for a
descriptor to change hands between post and send, for a full buffer, and for an
error with a message behind it; two edits for a script that is broken and mended,
or mended twice. Two frames of one client also make its connection go astray and
be closed with a message for it in the queue. The JSON texts are long enough for
two members with the same key, an array in an object, an escape or a surrogate
pair in a string, and each of them cut off anywhere; two of the beginnings are
arrays with two holes, because only there the number of elements can be a border.
The buffer is scaled from 1024 to a few bytes; nothing in the code depends on its
size except where a body comes within one byte of it, and `Framing` checks the
arithmetic at full size.

Fairness. `engine_game`: the scheduler runs main, `sleep_for` returns, script
functions return (they have no loops), and a call of `ExecGafq` that has begun
goes on; nobody has to call. `startup`: both threads run, messages need not
come. `epoll_*`: the server thread runs whenever it is not waiting in
`epoll_wait` or `read`, and bytes that were sent arrive; clients owe nothing.
`asio_chat`: all three threads run, `async_connect` ends, what is written is taken
or the write fails, and a session's read ends once the client's socket is not
open any more; nobody has to type, to deliver or to accept successfully. `game`:
the main thread runs, resets arrive, and a connected client reads what it is sent,
which is what `chat_client` does from its io thread; nobody has to connect, to
send or to leave, and the server thread, which may wait in a `read()` for ever,
owes nothing either.

Deadlock checking is off where a behaviour may end: the process dies or exits
(`engine_threads`, `startup`), a message is decoded once and
a text ends (`codecs`), the server waits for clients that need not come
(`epoll_*`, `game`), or the client has ended or waits for a line (`asio_chat`).

## What the checks show

The queue is sound: no interleaving of callers and of LoopExecute loses,
repeats or reorders an item, and with the single caller of `game.cpp` every item
is handled. `count` may fall behind `count2` with several callers, never run
ahead. Errors raised by scripts neither end a batch nor grow the stack.

The client keeps its messages in order, writes one at a time and always ends.
It does not promise that all of them are sent: `close()` runs as soon as the
posted `do_write`s have, which is before their writes are done, and cuts off the
rest of `write_msgs_`; and when connecting fails, `run()` may have returned
before a line is typed, so that nothing runs what is posted. What is lost is
always the end of the messages (`Conservation`).

With the asio server at the other end, what the session prints is the beginning
of what was typed, and what the client shows is the beginning of what was
delivered. A failed read ends the session's chain of reads; a failed write leaves
its message in front and so stops all later writes of that session, while reads
go on. That nothing closes a socket is enough: sessions do go away.

In the whole server a message can reach somebody it was not meant for only
after the server has closed the connection it named: until then the descriptor
is not reused. The server does not close only connections whose client has gone:
when frames run together it closes that of a live client as soon as a header does
not decode, and what waits for that client in the queue is lost or comes to the
next holder of the descriptor (`Forwarded` and `ReachesAddressee` say so). Errors
of the script stay with their message. A reload that fails before `start_action`
leaves it as it was, one that fails behind it has bound the new one, and the next
reload is possible in either case, whatever the attempt left in `package.loaded`.
All of this is "while the process lives": see 4 below. It also leans on clients
that read. One that never does blocks main in `send()` and with it every other
client.

`json.decode` is right on everything the run reaches, trailing commas apart. What
it decoded `json.encode` takes for certain only if it has no holes and no
infinities; numbers come back with 14 digits. A `null` inside of an array leaves a
hole, and there the comment "check keys are valid and it is not sparse"
(`json.gafq:69`) promises too much: the test compares the number of elements with
`#`, which may be any border. `[1,1,null,1,1,null,1]` has five elements, the keys
1, 2, 4, 5 and 7, and the border 5; where `#` finds that one, `encode` answers
`[1,1]` without an error. `EncodeReverses` states exactly this: when the cut may
happen, and that nothing else is lost.

Four disagreements between the code and what it says of itself (`findings`):

1. `engine_stack`: a name that is not a function leaves a stack slot behind for
   every message (`script_engine.cpp:133`), for instance all of them when
   `script.gafq` failed to load.
2. `startup_race`: the server thread starts before main first asks for the
   engine (`game.cpp:391`, `394`), and `get_instance` is not synchronised: two
   engines, and messages that are never executed or a script state that was
   never made. What is executed is in order all the same (`MessagesInOrder`).
3. `epoll_pipelined`: the read of `body_length() + 1` bytes (`game.cpp:290`)
   takes the first byte of a following frame.
4. `game_send`: `send()` in the main loop (`game.cpp:361`) has no `MSG_NOSIGNAL`
   and nothing ignores SIGPIPE, so a client that leaves while messages for it
   are executed ends the process, and the queue with it. A message that names
   the listening socket does the same.

Three limits were met while choosing bounds. A frame with an empty body (an
empty line of `chat_client`) makes the read of `body_length() + 1` bytes wait
for a byte nobody owes, and the only server thread with it: `FramesServed` fails
with 0 in `BodyLens`, and `epoll_paced` keeps to bodies that are not empty.
Bodies of `max_body_length` bytes leave no NUL in `read_msg_`, so the text that
is posted runs on into the bytes behind it (`FramesIntact` fails with `BodyLens
= {max_body_length}`), and with one byte less the same happens when the extra
byte is there. `epoll_paced` and `epoll_any` stay below. When frames run
together the server may also take such a length from the text of a body
(`StreamSlices` fails with `BodyCode = 51`, a body of threes in a buffer of
four); `epoll_any` has bodies of ones. And an item without a message
is fatal (`script_engine.cpp:109`): one that was made with a script text, or by a
call with neither argument, which the defaults of `script_engine.h:52` allow. No
caller in the tree makes one: the server thread is careful in the sense of
`CarefulNeverKill`.

## Proofs

Each theorem holds for every value of the constants that meets the named
assumptions of the module it is about: any number of threads, connections,
descriptors, messages and lines. The bounds of the models (`MaxCalls`,
`MaxMsgs` and the like) are arbitrary numbers there. An argument is always the
same three facts: the initial states satisfy an invariant, every action keeps
it (one lemma or step per action), and the property follows from it. What is
worth reading is why the invariant has the parts it has.

**ScriptEngine.** Assumed: producers are neither `"main"` nor `"none"`,
`NullMsg`, which callers may pass, is not the name of an action, the careful
threads are producers, `MaxCalls` is a number.

* `TypeCorrect`, `EngineInvariant`;
* `EngineImplementsMailbox`: `Spec => MB!SafeSpec`, where a queued item is
  pending until LoopExecute has gone through it;
* `ItemsInCallOrder`, `Count2IsExact`, `CountIsNeverAhead`, `CarefulNeverKills`;
* `CarefulCallersStayAlive`: if all threads are careful, the process lives;
* `OneCallerCountsAgree`, for a single producer: `game.cpp` has one server thread;
* `StackStaysBalanced`, for callers that name `start_action` (the only action
  that `game.cpp` passes) and scripts that raise no nil as an error. Without
  either restriction it is false, which is finding 1.

`LockInv` says who is between `lock()` and `unlock()`; with it `CopyInv` holds:
nothing is queued between LoopExecute's copy and its `clear()`, so at the moment
of `clear()` the copy replaces the queue exactly. Each step then appends the
caller's item to the pending items, moves their head to the executed ones, or
leaves both alone, which is the refinement. For the order, `NewestInv`: an item
that is built and not yet queued is newer than all that its thread has queued.
`count2` is exact because the lock spans the push and the increment. That
`count <= count2` is not inductive: a thread may hold an old value of `count`.
`CountInv` adds the number of threads that have queued their item and not yet
counted it, both to `count` and to every value that was loaded and not stored.
`MsgInv` follows a missing message from the call that did not pass it, or dropped
it for a script text, to the place where it is read.

**Startup.** `StartupInvariant`, and from it `ConfigIsSingle`,
`ServerAlwaysHasConfig`, `OneEngineNeverCrashes`, `MessagesInOrder` and the
action property `RaceSettles`. `StartupInv` is `SingletonInv`, about the threads
and the two objects, with `ExecutedInOrder` and `QueueInv` on top.
`ReturnsToCaller` ties each visit of `get_instance` to the statement that made
it. `ConfigInv` is why the unsynchronised `GameConfig::get_instance` is safe and
the engine's is not: main has its configuration before there is a second thread.
`EngineInv` says that a thread that has an engine does not make another, so that
the pointer settles when both have one; `ReadyInv` that main has initialised
some engine before it uses any, so that a crash needs two. `MessagesInOrder`
holds in spite of two engines: `QueueInv` says that no message is queued before
the server thread has an engine, that once both threads have one the pointer is
at one of the two, and that main's engine has nothing queued if it is the other;
and what was executed is earlier than what waits at the pointer. So a queue that
main takes can be appended to what it has executed, whichever engine it got.
`LoopExecute` takes a whole queue in one step here, which is why the theorem is
about order and not a refinement of `Mailbox`, whose `Handle` takes one item.

**SocketMsg, Framing.** Assumed: `max_body_length <= 9999` (the code has 1024;
a header is four characters wide), and a `size_t` in which a negative number is
larger than any length. `LengthsSurvive`, `AcceptedAlwaysFits`,
`ShortIsNeverLonger`. The lemmas under them say what `sprintf("%4d")` followed by
`atoi` gives when only the first k of the four characters arrived: the length
without its last digits (`DecodeOfCut`); and that `decode_header` accepts no
length beyond the buffer whatever the bytes are (`DecodeFits`). `Atoi` reads at most
four places, so the recursive function behind it is unfolded and needs no induction.

**EpollServer.** `EpollInvariant`, `EventsStayFresh`, `ItemsAreSlices`: `Spec /\
[]Roomy => []StreamSlices`, and `PacedFramesIntact`: `Paced => (Spec =>
[]FramesIntact)`. `ConnInv`: a connection is open as one descriptor or waits
once to be accepted; so the descriptor of a pending event still belongs to the
connection the event was for (`EventsInv`), although descriptors are reused. For
the slices, `StreamInv`: what is in the receive buffer of a connection and on
its way to it is the piece of its stream that follows what was read. `BufferInv`
says that `delete_msg` has left nothing behind the header, so that what is
posted is what the second `read` brought. `Roomy` says that the read of
`body_length() + 1` bytes does not fill `read_msg_`. The hypothesis is needed:
with a length of `max_body_length - 1` or more the posted text runs on into
bytes of no connection (the second limit above). It is about the lengths that
are decoded, not about those of the bodies that are sent: a server that has lost
its place reads a piece of a body as a header, and what length that gives is up
to the text. `epoll_any` checks `StreamSlices` without the hypothesis, for texts
that give short lengths.

`Paced` is the condition on clients under which the server does keep its place:
nobody sends a frame before the last one has been read, a piece in which TCP
delivers is never smaller than a frame, and bodies are shorter than
`max_body_length`. Connections may still come, end and be reset in any order,
and bodies may be empty. `PacedInv` follows the one frame of each connection
that has not been posted: there is none (`NothingLeft`), or (`FrameLeft`) it is
whole on the way, whole in the receive buffer, or its body is there and
`body_length_` is its length. In the last case the read of `body_length() + 1`
bytes finds no further byte to take, and `BufferInv` says that a NUL follows
what it brought. Items are counted per connection (`Handed`), and a posted
item is the body of the frame with its number (`Intact`). Each part of `Paced`
is needed: without the first it is finding 3, the last is the second limit
above, and a piece that ends inside a frame makes the server take part of a body
for the whole. TLC checks `FramesIntact` in `epoll_paced`; `PacedInv` holds on
that instance, and on one with resets, empty bodies and whole pieces.

**ChatClient.** `ClientInvariant`, `OneOfEachHolds`, `TypedIsConserved`.
`ReadInv` makes connecting, its handler, the reads and their handlers one chain
of which one link exists at a time; `WriteInv` does the same for the writes, and
keeps the message being written in front of `write_msgs_`, which `handle_write`
pops only later. `OrderInv` numbers the messages through `wire`, `write_msgs_`
and the posted `do_write`s. It takes `Base`, because between the completion of a
write and its handler a message is in two of these places.

**AsioChat.** `ChatInvariant` adds to the client's invariant the session's two
chains, its numbering, and what crosses between the two: a body that has been
read is already on the other side's wire. The client's part is inherited: the
composition only restricts what its network does (`ChatImplementsClient`, a
lemma), so that `ClientIsSafeHere`. From the invariant follow `BothWaysInOrder`
and `SessionImplementsMailbox`: to whoever calls `deliver` a session is the
`Mailbox`. A message is handled when it is on the wire whole; it is still in
`write_msgs_` then, until `handle_write` pops it, so the pending messages are
`write_msgs_` without its front in that interval (`Unwritten`). The pop is a
stutter, and a `deliver` in between joins what is left. That a second write could
start in the interval is what the chain of writes excludes.

**Game.** `GameInvariant`, `SendReachesAddressee`, `ReloadAlwaysTakes`,
`GameImplementsMailbox`. `QueueInv`: what was posted is done, in the batch or in
the queue, in this order. `AddressInv`: a descriptor that an item names keeps its
connection until that one is closed, also while `send()` waits with the
connection it looked up; `GivenInv` bounds what is on the way to a client by what
has been done. `ReachesAddressee` is itself part of the induction. `ReloadInv`
says that `package.loaded` is reset whenever main comes to `require`, whatever an
earlier attempt had left there, so that the file is run; without it `ReloadTakes`
is not inductive. For the refinement (`Spec => MB!SafeSpec`) the pending messages
are `batch \o queue` and the handled ones `1 .. done` in order: `PostMessage` and
`ReadAstray` post, an item that is done is the head of the batch by `QueueInv`,
and `WakeUp`, which moves the queue to the batch, is a stutter, as is the death
of the process.

Only model-checked:

* everything under fairness, which the prover does not do: `ImplementsMailbox`,
  `FramesServed`, `FdsReclaimed`, `OneEngineExecutes`, `NothingStuck`,
  `JoinReturns`, `SessionFreed`, `AcceptsAgain`, `AliveExecutes`, `Forwarded`;
* `DecodeAgrees` and `EncodeReverses` of the JSON library: `JsonText` is made of
  RECURSIVE operators, and what they compute is an induction over data.

## Not modelled

* The vendored headers under `3rd/`: they are most of the repository's lines
  (about 20 000 of 22 500: declarations and macros of the MySQL client and of
  the script language) and hold no code of this program. The program's own code
  is about 1 500 lines, and everything in it that keeps state is modelled.
* `init_db`, `test_db_mysql_c.cpp`, `test_game_eng.cpp`: demos without state, the
  first of them switched off in `main`.
* Logging, `dump` of the script, and the unused `gafq_func` additions.
* The client's argument check and a resolver that throws: they end `main` before
  there is any state.

## Plan

Every component that keeps state has its module, and every module with state
but `JsonReader` its theorems: each safety property that a run checks is proved,
apart from the two about the JSON library. What could be added as the code
grows:

1. an epoll server that reads until a frame is complete, and no further:
   `FramesIntact` would then hold without the first two parts of `Paced`, and
   `PacedInv` is where its proof begins;
2. a synchronised `get_instance`: `startup_race` would pass, and `StartupInv` would
   bound the number of engines by one.
