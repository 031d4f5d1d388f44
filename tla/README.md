# OnlineBuffer in TLA+

OnlineBuffer shares the text on the Windows clipboard between machines of one
network. One process is the *server*, the others are *clients*. They find each
other with UDP broadcasts, then every client holds one TCP connection to the
server; a clipboard change is sent as a *message*, cut into fragments of at
most 1024 bytes, and the server relays what it receives to its other clients.

This directory models the program in `src/`. The table below says which module
models which part; the last section says what is still planned.

## Inventory

| Part | Source | State it keeps | Operations | Modelled by |
|---|---|---|---|---|
| Message framing | `message.h` | none (headers travel with the data) | `WritePayload`, `SendSingle`, `SendSequence`, `ReadSingle` | `Message`, `Transport` |
| Reassembly | `message.h` | `Storage`: header, timestamp and body of every partial message | `ReadSequence` | `Message`, `Transport` |
| Client loop | `client.h` | the socket, its `Storage` | connect, then `ReadSequence` for ever | `Discovery` (connect), `Transport` (`ServerSide = FALSE`) |
| Server receivers | `server.h` 56-102 | one `Storage` per connection | `ReadSequence` for ever, relay | `Transport` (`ServerSide = TRUE`), `Server` |
| Connection ring | `rbuffer.h` | nodes, `first`, `last`, `m_allocated` | `emplace`, `erase`, `pFirst`, `pLast`, `size` | `RBuffer` |
| Server pool and relay | `server.h` 22-53, 105-204 | `cpull`, `lastindex`, one thread per connection | accept, reap, `SendSequenceEachClient` | `Server` |
| Discovery | `reconnaissance.h` | the UDP socket, `tcp_addr` | invite, accept, choose a role | `Discovery` |
| Start-up | `source.cpp` | role, the `Send` hook | discovery, start the threads, run the role | `Discovery`, `Clipboard` (the hook) |
| Clipboard worker | `clipboard.h`, `clipboard_structs.h` | `ClipboardState`: status, format, data, hash, length | `GetCBData`, `ClipboadWorker` | `Clipboard` |
| Images | `images.h` | none | find an encoder, bitmap headers | not modelled, but for the size of the headers in `Clipboard` |
| Hashing | `xxhash.h`, `xxhash.c` | a state object per hash that is fed in pieces | `XXH32`, `XXH64`, `XXH3` in 64 and 128 bits: at once, and reset, update, digest | `Words`, `XXH32`, `XXH64`, `XXH3Lanes`, `XXH3`, `XXHStream` |
| Helpers | `helpers.h`, `error.h`, `stdalign.h` | none | constants | not modelled |

How the parts interact. `main` runs discovery, which blocks until a role is
known; then it starts the clipboard worker as a thread and enters `server_start`
or `client_start`, which never return. Both assign the global `Send`, through
which the worker sends. On the server the main thread accepts connections into
`cpull` and starts a receiver thread for each. Receivers and the worker walk
`cpull` without a lock, and several of them may call `SendSequence` on one
socket at the same time.

What is hard, and what makes each part correct:

* **Framing and reassembly.** Fragments of several threads mix on one stream; a
  read may return part of a fragment or several; fragments are attributed by
  the payload's hash only; buffers are sent and hashed although nobody wrote
  them; `recvfrom`'s -1 is taken for a length. Correct means: what is accepted
  was sent, unaltered and once; what started well is finished; storage does not
  fill up.
* **Connection ring.** Every walk must meet each connection once and come back,
  whatever order of `emplace` and `erase` came before, also while another
  thread is inside `emplace` or `erase`.
* **Server.** A message reaches every other client once and never its sender;
  a place in the pool becomes free again; a failed `accept` leaves no trace.
* **Discovery.** After lost, duplicated and late datagrams exactly the
  processes that answered an invitation become clients of the one that sent it,
  and it becomes a server.
* **Clipboard worker.** The clipboard changes while the worker sleeps, a format
  is kept while it is available, reads and sends fail, `Send` is assigned late.
  A change is sent once, with the data and the format it has, in the order of
  the changes, and what stays on the clipboard is noticed and sent.
* **Hashing.** A hash must not depend on the pieces a buffer is fed in, on what
  the state object hashed before, or on the instruction set. The program uses two
  of the functions, each at once: `XXH32` identifies a message on all machines,
  and on x64 `XXH3_64bits` tells the worker that the clipboard has changed, on its
  own machine only. The rest of the vendored library is modelled for itself.

`PROJECT.json` lists the hazards at their lines, with the properties that cover
them or the reason why none does.

## Modules

`Message` holds the algorithms of `message.h` as operators without state.
`WritePayload(source, m, heap)` is one call: the header and body it builds, the
message it leaves, the size it returns. `heap` is what the new buffer contained;
the body is that memory whenever the code's condition for copying is false,
which it is for the first fragment of every message, because `message.length`
still is the length of the previous portion. `ReadSequence(storage, header,
bytes, fill, time)` is one call that received a header: the new cell of a
`First`, the search through the storage with its erasing predicate, the copy,
the hash check. It returns the status, the storage and the iterator.

`Transport` is one TCP connection in one direction. Its actions:

| Action | Code |
|---|---|
| `SendSequence(s, kind, payload)` | thread `s` enters `SendSequence`, the header is built |
| `SendFragment(s)` | one iteration of `SendSingle` with a buffer: `WritePayload`, `send`, `delete[]`, loop condition |
| `SendEnd(s)` | the iteration after the last portion, whose `delete[]` frees an old buffer: the process goes on or ends |
| `Receive(k)` | `recvfrom` returns `k` bytes, `ReadSequence` and what the loop does with its result |
| `ReceiveEOF`, `ReceiveError` | `recvfrom` returns 0 or -1 |
| `SenderExit`, `NetworkReset`, `Tick` | the environment |

The stream is a sequence of bytes, each of which knows the fragment it is of and
its place in it, so a read of any length can be told from a whole fragment. A
buffer whose first byte starts no fragment is `Misread`: no genuine header is
there, so the outcomes are a cell with nobody's hash, nothing, or the end of the
process (an unknown type is thrown and nothing catches it; a wild length makes
an access violation). The server's `storage.erase(iterator)` with an unassigned
iterator ends its process (`Unfinished`); the client erases only with status
true.

`buffer` is what lies in the stack buffer of `ReadSequence` between its calls,
because -1 passes for a length (`message.h:147`) and what lies there is parsed
again. A read of a whole header leaves the fragment as it was taken. A read of
fewer bytes overwrites only as many (`Overwritten`): the header is then one of two
fragments, split at any of its bytes, also within a number (`Overlaid`, `Mixed`),
and behind it lie the old bytes, as many as it now announces (`Patched`). So after
a read of one byte and a failure the client may accept the last payload again as
the kind of the next message. `id` is the call whose hash the buffer has, 0 if it
has nobody's.

`MessageChannel` is what a connection promises: messages may be lost and may
overtake each other, each is accepted at most once, unaltered and as the kind of
a call with its payload; after the socket has failed the last one may be accepted
again, or any new one once, with its bytes but as any kind. `Transport`
implements it (`ImplementsChannel`, with `broken` for `conn = "reset"`).

`RBuffer` is `rbuffer<T>` with nodes at addresses; `next`, `back`, `first` and
`last` are what the code assigns, in the order it assigns them, and the
allocator may return the address of a deleted node. `Ring` is the bounded list
it implements. The refinement mapping walks the nodes from `first`. Erasing the
only node leaves `first` and `last` dangling: `Ring` promises nothing after
that, and `RBuffer` stops when a deleted node would be written to; when the
allocator returns the same address the ring is whole again.

`Server` is the server process. The main thread's place in `server_start` is
`main`; `walk[t]` is the call of `SendSequenceEachClient` that thread `t` (a
client's receiver or the clipboard worker) is inside, with its `pfirst` and
`cnode`. The ring is that of `RBuffer`, whose operators it uses, but `emplace`
and `erase` are taken apart where a walk on another thread can see a difference:

| Action | Code |
|---|---|
| `Connect`, `Leave` | a client and the listen backlog |
| `Reap` | the loop at `server.h:128`: one closed node is taken out at a time, in any order |
| `Accept`, `AcceptFails` | `accept`, then `emplace` up to the assignment of `first` and `last` |
| `EmplaceForward`, `EmplaceInto` | `first->back`, `node->next`; then `last->next`, `node->back`, `last` |
| `EraseUnlink`, `EraseDelete` | the bridge and the new `first` or `last`; then `delete` |
| `SendWelcome`, `StartReceiver` | `SendString` and `CreateThread`, which may fail unnoticed |
| `WorkerSends`, `Relays(c)` | a walk begins at `pFirst()`; `c` may have left before its last messages were read, and after an error its last message may be completed once more |
| `WalkSend(t)`, `WalkNext(t)` | the body of the walk's loop, a send and a step |
| `WalkNull(t)`, `WalkDeleted(t)` | the walk dereferences `nullptr` or a deleted node: the model stops |
| `ReadsNothing(c)` | a read that completes no message: `receiver` erases through an unassigned iterator and the process ends |

The stores of `emplace` are in program order, as the types alias and x86 keeps
the order of stores. A message is one `SendSequence` here, put on a connection
when it begins; what happens to it there is `Transport`'s business. Branches
that `accept`'s contract excludes (a socket 0, no room although there was room a
line before) are left out. The clients in `Readers` read all the time; the others
may stop for ever, so a `send` to them need not return (`Held`).

`Relay` is what the server promises: no echo to the source, each message to each
member at most once, the messages of one source in order, the greeting once and
at any point in between. It also says what the code makes of the pool:
`maxconnlen` clients in the life of a process, because `receiver` never returns
and so `Reap` never finds a closed node.

`Discovery` is `main` up to its role and `reconnaissance`. `mode` is where a
process is: `inviting` and `polling` are the two halves of the server's loop,
`waiting` the client's; a client that has sent its acceptance is `joining`, a
server that has read one `starting`. `message` and `other` are the stack
variables `invite`, `accept` and `addr_other`, which keep their old value when
`ReadSingle` fails, a result the code ignores. `missed` and `failed` remember
which acceptances no server will read and which processes had a failing call, so
that properties can say what holds without them. Datagrams on the way form a
set: `Deliver` may leave one there, which is duplication. Time is left out:
`select` times out when nothing has arrived.

`Clipboard` is the worker with the clipboard it looks at. `GetCBData` is one call;
its ways out are `OpenFails`, `NothingFound`, `ReadFails` and `Read`, built from
`Found` (the choice of a format, which keeps the last one while it is there) and
`Taken` (hash, comparison, copy). `pc` is `send` between `GetCBData` and `Send`,
because the clipboard (`Copy`) and `main` (`Assign`) go on meanwhile. A content is
a function from formats to sequences of bytes, so that a Unicode text has twice as
many bytes as characters and `GetClipboardDataLength` can count the wrong ones; an
image is hashed 14 bytes (here `sizeofHEADER`) beyond its end, which are whatever
`Beyond` holds. The value of `hash` is the bytes that were hashed: no collisions.
`Crash` is what a null pointer, a text longer than its buffer, or a call of a
`std::function` that is being assigned may come to. `Held` is a call of `Send` that
may never return, because it ends in a `send` to a peer that need not read; the
clipboard and the others go on. `offered` remembers every call of `Send` that was
begun. What `strlen` and `wcslen` read is the handle's memory, as the code
assumes when it uses the handle in the place of the locked pointer.

`Words` has the machine words of `xxhash.h` as sequences of bytes with the
arithmetic of their width, since the integers of TLC have 32 bits. `XXH32`, `XXH64`,
`XXH3Lanes` and `XXH3` are the hashes function by function. A hashed buffer is a
sequence; a loop over its stripes is a recursive function (`Stripes`,
`XXH3_accumulate`), and so are the carry of a sum (`Carried`) and the loop over the
last bytes (`XXH32_finalize`): no module has a recursive operator, which theorems
could not be proved about. The states of the two older hashes differ in their stripes
alone, so `Absorb` is what both updates do with lanes and buffer. `XXH3Lanes` has
the inner loop of `XXH3` once as the scalar code and once for each instruction
set, over registers that are sequences of bytes: the SSE2, AVX2 and AVX512 code
are the same operators for 16, 32 and 64 bytes, NEON splits and VSX multiplies the
halves of a register in ways of its own. The program's x64 build takes SSE2.
These operators were compared with the compiled header on buffers of 0 to 1100
bytes (around every length at which the algorithm changes), with and without seed
and secret, in pieces and at once, and on all six vector implementations; the
results were equal. Two of the library's debug assertions (`XXH_ASSERT`, empty unless
`XXH_DEBUGLEVEL` is set) do not hold of the calls the library makes:
`XXH3_len_4to8_64b` asserts `len < 8` (`xxhash.h:3445`) and is called for 8 bytes, and
`XXH3_reset_internal` asserts a secret of full size (`xxhash.h:4656`) before
`XXH3_64bits_reset_withSecret` refuses one that is too short. The models are those
of a build without them. `XXHStream` is a caller that resets a state object and feeds
it, in any order.

`MCTransport`, `MCRBuffer`, `MCServer`, `MCDiscovery`, `MCClipboard` and
`MCXXHStream` instantiate them for TLC. Definitions whose
comment begins with `Mutant:` are plausible mistakes in the code; with one of
them in the place of the definition it mutates, TLC finds the property named
beside it in `PROJECT.json` violated.

## Runs

| Run | What it shows |
|---|---|
| `client` | Two threads, two kinds, payloads of one and two fragments, reads of every length. `TypeOK`; `Consistent`: all headers and cells still describe their call, and whatever short reads have made of the buffer its bytes and its hash are known; `Integrity`: what is accepted was sent and, until `recvfrom` fails, has the kind of a call of that payload; `AtMostOnce`: no call is accepted twice before `recvfrom` fails; `ImplementsChannel`. |
| `debug` | With memory that shows no old payloads (a Debug build fills it): only empty messages are accepted, since the first fragment never carries its bytes. Payloads of zero, one and three fragments. With a running clock and a timeout of zero `OnlyCompletionRemoves`: only a last fragment ever removes a cell; the age check subtracts the wrong way round and never fires. |
| `server` | The receiver never holds a partial message and lives, and relays single fragments only. |
| `complete` | Liveness: with whole reads, a cell with a right start leads to an accepted message, unless the connection ends or the same payload is sent twice (whose second start may overwrite the first's cell with junk). |
| `written` | A violation: the comment at `message.h:70` says that `WritePayload` returns the size of the bytes it wrote; for a first fragment it returns the portion and writes nothing. |
| `ring` | `Circular`: a walk of `size()` steps meets every node once and ends at `last`, `back` undoes `next`; `ImplementsRing`. |
| `pool` | Three clients, two places, failing accepts. `WholeBetweenCalls`: outside `emplace` and `erase` the ring is `Circular`; `NullBeforeFirstOnly`: while accepts succeed, only the worker, when no client was linked yet, can meet the null `next` of the first node; `DeletedAfterFailureOnly`: nobody touches a deleted node before an accept has failed (after one, walks and `emplace` do); `AllReached`: when a walk is over everybody who was linked at its start has the message or has left; `ImplementsRelay`. |
| `walks` | Two clients, of which one may stop reading, and two messages, so that two threads walk at once. Liveness: `WalksEnd`: a walk ends, or the process does, or the walk stands before a client that does not read; the walks of other threads go on until they come to that client, too. |
| `roles` | Two servers, two clients, calls that succeed. `OneAnswer`: a client's acceptances all went to the server it connects to; `NeverFetched`: once all servers serve and no invitation is left, a waiting client waits for ever. |
| `meeting` | One server, one client, losses, failing calls with stale variables. `ServersAreChosen`: a process becomes a server only if a client chose it or its own read failed. Liveness: `AnswersAreHeard` behind whatever invitations come in; `Meet`: only a missed acceptance or a failed call keeps two processes apart, lost invitations do not. |
| `clipboard` | Seven contents, three of them after each other, two calls that fail, `Send` assigned at any time. `OfferedInOrder`: what `Send` is called with are copies, in their order, each once at most, but for one more after each failed read; `SoundBuffer`: without a failed read the text fills its buffer; `KeptFormat`: a format that is less than a content offers is kept from an earlier one that offered nothing better. Liveness, unless `Send` never returns: `Settles`: the worker notices what stays and becomes quiet; `Shared`: whatever failed before, the last message handed to `Send` has the length of the text on the clipboard and agrees with it in all that is hashed, that is, of a Unicode text in the first half alone. |
| `stream` | `Streamed32`, `Streamed64`, `Streamed3`: the digest after any pieces and resets is the hash of the whole; `SecretOfSeed`: a secret that is kept over a reset belongs to the seed; `LanesAgree`: on every accumulator reached the six implementations agree; `CanonicalOrder`: `XXH128_cmp` orders as the stored forms do. |

Bounds. `MAX_SIZE = 3` and `sizeofheader = 2` leave one payload byte in a
fragment, so payloads of one, two and three bytes are a single fragment, a first
and a last, and one with a middle. `BUFFER_SIZE` is twice `MAX_SIZE` as in the
code: two fragments fit one read. Two calls in two threads give every mix of two
messages, twins included; cells and deliveries are bounded only where a failed
socket lets the client loop for ever (`MaxCells`, `MaxDelivered`, in
`ReceiveError`). With a header of two bytes a short read has one byte, the kind:
the next message's kind over the last one's fragment is what the runs meet. The other
splits of a header that `Overlaid` names need a header of three and a read of two,
with too many states for two threads; they are covered by `TransportImplementsChannel`
and the other proofs of `TransportProofs`, which are for every header. `Sizes`, the
numbers of a `uint32_t`, are 0 to 3 in the runs: of each pair `Mixed` gives the two alone. The threads are symmetric. In `complete` the buffer holds one
fragment, because a read of whole sends is assumed anyway. The ring has room for
three nodes and four addresses, so an address can come back or not. In `pool`
the third client finds the pool full, one accept fails at any point (also first,
which leaves `first` dangling), and two messages are enough for an order. `walks`
has two clients in two places, so that there are walks to the client that reads
and to the one that does not, and a node that comes or goes meanwhile. Of its two
messages one may be held for ever while the other goes its way, in the same
direction or from the client that does not read. In `Discovery`
a socket keeps one or two datagrams so that it overflows, and two more may be
lost in `meeting`; `roles` loses them by overflow and late starts. `clipboard` has
two Unicode texts of three characters that differ in the last one, a text without
and with a Unicode form, an image, an image with a text, and nothing; three
contents make a change and a change back, or a format that goes and another that
stays, and two failures are one for a read and one for a send. In `stream` the
pieces lie around the buffers of 16, 32 and 256 bytes: they fill them in part,
exactly, and several times over. `total_len_32` wraps at 32 (`Len32`) in the place
of 2^32, so it does wrap. One piece of 600 bytes is longer than a block of the
short secret (576 bytes), two are longer than one of the default secret (1024).
Four calls are a reset, a reset with something else and two pieces, or a reset and
three pieces.

`CHECK_DEADLOCK FALSE`: processes end, connections close, a broken ring stops and
bounded messages run out.

Fairness. In `complete` each thread inside `SendSingle` goes on, as it waits
for nothing but `send`, and the reader reads what has arrived. No fairness for
calls, failures or the clock. In `walks` a thread inside a walk goes on: it waits
for `send` alone, which returns unless the client has stopped reading. In `meeting` the loops run, as they wait for a `select` with a
timeout, and a datagram that is not lost arrives; losses are not fair. In
`clipboard` the worker's loop goes on except where it is inside a `Send` that
walks connections or sends on one (`Held`), which need not return; the steps in
which a call fails are not fair, nor are `Copy` and `Assign`.

Abstractions. One `send` puts a fragment on the stream in one piece. The clock
does not run backwards. No other buffer has the hash of a payload
(`CollisionFreeAssumption`, of the sizes in `Sizes`); the instances use a small
polynomial hash for which TLC checks this. Bytes in the middle of a fragment
never look like a header with a hash in use, and a hash whose bytes come from two
headers is one of the two or nobody's. Leaked bodies, printing and memory
corruption that goes unnoticed (a double free or a wild copy after which the
process lives on with damaged data) are left out.

## Proofs

All theorems hold for every value of the constants that satisfies the named
assumptions of the modules: `SizesAssumption`, `PayloadsAssumption`, `UintAssumption`
and `CollisionFreeAssumption` of `Message`, `TransportAssumption`,
`RBufferAssumption`, `ServerAssumption`, `DiscoveryAssumption`,
`ClipboardAssumption`, `StreamAssumption`, `Len32Assumption`, `NullAssumption`. Apart
from the absence of collisions they say that absent values differ from the others,
that bounds are numbers, and of the hashes that buffers are bytes, seeds have 64 bits
and secrets the length that `XXH3_64bits_reset_withSecret` asks for; TLC evaluates
them on the instances. The bounds on sends, copies, failures and the clock remain in the
specifications, and the theorems hold however large they are.

| Theorem | Property | Inductive invariant |
|---|---|---|
| `TransportProofs`: `TypeCorrect`, `Consistency`, `AcceptedWasSent` | `TypeOK`, `Consistent`, `Integrity` | `IInv` |
| `TransportProofs`: `AcceptedOnce`, `TransportImplementsChannel` | `AtMostOnce`, `ImplementsChannel` | `IInv`, `OrderInv` |
| `TransportProofs`: `DebugAcceptsEmpty`, `ServerTakesSingles`, `CompletionRemoves` | `OnlyEmptyAccepted`, `ServerTakesSinglesOnly`, `OnlyCompletionRemoves` | `IInv`, `StorageInv` |
| `RBufferProofs`: `TypeCorrect`, `WalksMeetAll`, `RingImplementsList` | `TypeOK`, `Circular`, `ImplementsRing` | `IInv` |
| `ServerProofs`: `TypeCorrect`, `RingWhole`, `NullMet`, `DeletedMet`, `EverybodyReached`, `ServerImplementsRelay` | `TypeOK`, `WholeBetweenCalls`, `NullBeforeFirstOnly`, `DeletedAfterFailureOnly`, `AllReached`, `ImplementsRelay` | `IInv` |
| `DiscoveryProofs`: `TypeCorrect`, `ChosenServers`, `SingleAnswer`, `LeftForEver` | `TypeOK`, `ServersAreChosen`, `OneAnswer`, `NeverFetched` | `IInv` |
| `ClipboardProofs`: `TypeCorrect`, `BufferSound`, `FormatKept`, `InOrder` | `TypeOK`, `SoundBuffer`, `KeptFormat`, `OfferedInOrder` | `IInv`, `KInv`, `OInv` |
| `XXHStreamProofs`: `Streams32` | `Streamed32` | `Inv32` |
| `XXHStreamProofs`: `Streams64` | `Streamed64` | `Inv64` |
| `XXHStreamProofs`: `Streams3`, `KeepsSecretOfSeed`, `LanesAgreeAlways`, `CanonicalOrderAlways` | `Streamed3`, `SecretOfSeed`, `LanesAgree`, `CanonicalOrder` | `Inv3` |

**Transport.** The first lemmas of `TransportProofs` say what the operators of
`Message` return: `Smallest` is a least element (through the well-foundedness of
`<`), `Without` and `Position`, the buffers of `Memory`, the fragments of
`WritePayload`, and that `ReadSequence` keeps any set of cells that is closed
under its copy and hands back only a cell whose body has the fragment's hash.
`Integrity` alone is not inductive: that an intact body equals a payload needs
that the cell has exactly the buffer its header announces and that the header's
hash is the hash of a payload that was sent, hence `Consistent`, which follows
every header from `SendSequence` through call, stream, buffer and cell. Of the
buffer that short reads have written over it only says what survives them
(`Held`): as many bytes as are announced, and a hash that is that of the call `id`
or nobody's (`OverlaidHeader`, `ShortRead`). A cell describes a call, kind
included, until such a header is parsed, which needs a failure of `recvfrom`;
after it the hash alone is a call's (`Owned`), which is enough for the bytes of
what is accepted and not for its kind: hence the two parts of `Integrity`. `IInv`
is the conjunction with the types, written with one set per sequence (`Frames`,
`Buffers`, `Cells`, `Deliveries`) so that each step has to show only that what
it appends or changes is in the set; `IInvImplies` is the equivalence. The core is
`IntactCell`: a cell whose body has the hash of a call's payload holds that
payload, and was made by a call with the same payload and the cell's kind.

`AtMostOnce` needs to know where the last fragment of a call is. `OrderInv` says
that it is in one place: with the thread, which then has accepted nothing yet
(`LastIsLast`); on the stream, where no fragment of the call begins behind it
(`NothingBehind`) and nothing of the call has been accepted (`NotAcceptedYet`); or
read. Once `recvfrom` has failed the old buffer is looked at again, and
`OnlyLastAgain` says that this accepts a call for the first time or repeats the
last acceptance: it is what `MessageChannel` allows a broken connection. The refinement maps `delivered` to
the messages received, and its step lemmas are one for an acceptance and
stutters for everything below it.

`StorageInv` says that a first fragment has offset 0 and none of the payload's
bytes, that only such a fragment begins a cell, and that therefore, where new
memory holds the fill byte, no cell ever gets its first byte (`Unstarted`). With
the collision-freedom of the hash an accepted body must be empty. On the server
the process that survives a fragment has completed a message with it, and none
survives a short read, so its buffer is whole (`Untorn`), its storage is empty
between reads and all it accepts is single fragments. It also keeps
cells from lying in the future, from which `OnlyCompletionRemoves` follows: the
erasing predicate asks for `timestamp - now > timeout`. The action property counts
the cells with a hash (`CellsOf`) before and after `ReadSequence`.

**The ring.** `Circular` speaks of a recursive walk, which no step preserves
visibly. `RingNumbers` has the idea once for `RBuffer` and `Server`: a function `f`
numbers the nodes on `1..n` in the order of a walk, and `next` and `back` follow
the numbers around (`Numbers`). Linking appends a number (`LinkNumbers`, and
`LoneNumbers` for the first node), unlinking closes the gap (`UnlinkNumbers`), the
recursive walk of the model is `f` (`WalkIsNumbers`), and the nodes are as many as
the numbers (`NumbersCount`). That some numbering exists, that an empty ring has
`first = last`, and that only an empty ring breaks is the invariant of `RBuffer`;
the same `f` is the list `Ring` has.

**The server.** Here walks run while `emplace` and `erase` are half done. The
invariant numbers the ring without the node that is on its way (`On`, `Count`,
and `Back`, which undoes the one store of `emplace` that a walk may see early), and
says for every walk where it is (`Placed`): whoever of its receivers stands at a
number it has passed has the message or has left, and only those have it. With
the walk's end behind the last number this is `AllReached`; with the fact that a
client has one node only it is "at most once" of `Relay`; that a thread's walk is
the latest of its messages (`MessagesOK`) is the order of a source. A new node is
linked behind the last number, so no place shifts; a node is unlinked only after a
failed accept, and then it is the last one and holds nobody (`NodeOK`,
`ObjectsOK`). A walk that stands on such a node, or that was begun with an empty
ring and met the first node before its `next` was stored, is off the numbers;
`ApartOK` says whose walk that can be, which gives `NullBeforeFirstOnly`.
`DeletedAfterFailureOnly` needs that without a failure `first` is a live node
(`IntactOK`). In the refinement `Relay`'s members are the clients with a node, and
`given` is what was put on each connection, the greeting of `SendWelcome` included,
which `Relay` allows once and at any point (`Greet`).

**Discovery.** That a client's variables hold servers' addresses needs
that a client's queue has invitations only, hence that an acceptance is addressed
to a server; that a server is chosen needs that the acceptance it reads comes
from a client that still stands by it. `Good` says both of a datagram, and `IInv`
of all datagrams in the network and in the queues. `Keeps` is the one fact about
steps that matters: a client that has answered never changes its answer, so
`Good` and `Chosen` are stable (`Stability`), and each action only has to account
for what it sends or reads. For `NeverFetched` it is shown that `Settled` (all
servers have their role, no datagram is an invitation) is never left: a settled
server can only listen, and what a client sends is an acceptance.

**The clipboard worker.** `SoundBuffer` speaks of the moment before `Send` only;
`IInv` adds the types and that data and hash are set together. The lemmas follow
`GetCBData`: what `Found` returns is there, a hash is computed from bytes that exist
(`GetClipboardDataLength` never exceeds what can be read, given that `Beyond` has
as many bytes as an image's length counts too much), and a text that is found
changed is copied with its length (`TakenType`). For `KeptFormat`, `KInv` adds that
the clipboard offers the formats of the last copy: the worker, which writes into an
image there, takes none away. `OfferedInOrder` claims a matching of
messages with copies; `OInv` keeps one and says when it can grow. It ends before
the content now on the clipboard unless the worker knows that text (`Seen`: its
format and hash are those of the state), and as long as it does nothing is sent
but after a failed read. A text that is about to be sent is from a copy behind all
matched ones (`Fresh`), also when something else has been copied meanwhile.
Contents that come back are matched with the later copy. TLC checked `OrderInv`,
`StorageInv`, the server's invariant and `OInv` on the instances of the runs before
they were proved.

**The hashes.** The induction theorems of the library cannot be instantiated here, so
`LaneProofs` begins with induction and recursion over `0..K` by way of a set and of
a function instead of an operator: a set with 0 and the successors of its members
has all of `0..K` (`SetInduction`, through the well-foundedness of `<`), and there
is a function that gives each value from the one before (`RecursionDefined`). With
these a loop is the sequence of its intermediate results, and two loops are equal if
they agree step by step. The rest of `LaneProofs` is arithmetic and lanes. Sums are
added digit by digit with carries (`CarriedDigits`), hence as numbers modulo 2^64
(`SumValue`, `DifferenceValue`), in any order (`SumReorder`); a product with 32 bits is that of
the lower half plus that of the upper half, shifted (`SplitProduct`). Each 64-bit element of
an accumulator is then given by one formula for all instruction sets (`AccumulatedBy`,
`ScrambledBy`): SSE2, AVX2 and AVX512 are proved once for registers of 2, 4 and 8
elements, by what their shuffles and multiplications do to an element; NEON and VSX,
which take the halves apart in other ways, on their own. That is `LanesAgree`, given
that accumulators, stripe and secret have their sizes.

`Inv32` and `Inv64` say of a state what the hash of the whole says after as many
bytes (`After32`, `After64`): the lanes are those after all whole stripes read so far,
and the buffer begins with what is behind them. An update preserves that in three
parts, which both hashes share: a short piece goes behind what is buffered
(`ShortPiece`), a longer one completes the stripe that was begun (`StripeCompleted`),
is read in stripes from the middle of the input (`StripesRead`, from `ReadsOn`: reading
goes on where it stopped) and leaves its rest (`LongPiece`). The digest of such a
state hashes the rest as the whole does (`Digest32`, `Digest64`); for the 32-bit hash
it must also be known that `total_len` is right modulo `Len32` and that `large_len`
is set whenever 16 bytes have been read, before or after a wrap.

XXH3 reads its input in blocks that depend on the secret's length and scrambles at
the end of each, but buffers 256 bytes that know nothing of blocks. `Walk` is what
both have in common: the accumulators after each stripe, with the place in the
secret, which starts over at the end of a block. `XXH3_hashLong_internal_loop` reaches
the mark of the last whole block and goes on from there (`BlocksRead`, `LoopReads`);
`XXH3_consumeStripes` takes a state from one mark to another, across the end of a
block if it must (`Consumes`); so after any updates a state is at the mark of the
whole buffers it has read (`After3`, `Update3`). The last stripe of an input may
begin in a buffer that was read already. That its bytes are still there, at the end
of the buffer, is part of `After3` (`Caught`), and `XXH3_update` keeps it only because
it copies the last 64 bytes it reads from the input there, and because it
never empties the buffer entirely. `LongHash` puts the two together. That a reset forgets
what was before is that `After3` with 0 bytes does not depend on the old buffer, and
`Prepared`, which is kept also by a refused reset, says that the secret in a state is
that of its seed, or the seed is 0 and the secret is not used; it gives `SecretOfSeed`.
For `CanonicalOrder` the first byte that differs in the canonical forms is the
mirror of the highest byte that differs in the hashes.

What is proved of the hashes is about the models of their functions: the theorems do
not say that hashes are rarely equal, nor anything of big-endian machines.

Only model-checked:

* liveness (`PartialsComplete`, `WalksEnd`, `AnswersAreHeard`, `Meet`, `Settles`,
  `Shared`): the prover has no rules for fairness and `ENABLED`;
* `ReturnsBytesWritten`, which is violated.

## Not modelled

* The PNG file that the worker saves of an image, and `GetEncoderClsid`: nothing
  that the program sends or decides depends on them.
* Of `xxhash.h`: allocation, `copyState` and `isEqual` (a copy and a comparison of
  memory), the variants for big-endian machines and for aligned reads, which read
  the same bytes, prefetching and tuning for compilers, and null pointers as input.
* Socket options, addresses and the command line, error codes, printing.
* Three hazards have no property. The second `delete[]` of a buffer
  (`message.h:271`) may damage the heap: that the process may end there is
  `SendEnd`, what a damaged heap does to a process that goes on has no state in the
  model. When the server closes the connection the client's loop spins (`client.h:39`): no state changes, so no state shows it. That `connect`
  may come before `listen` (`client.h:24`) is in `Discovery`, whose `Connect` has
  both outcomes; the client that loses just ends, and the code promises nothing.

## Plan

`System`: worker, relay and channels composed over `MessageChannel` and `Relay`.
Since `Transport` implements the one and `Server` the other, what it would say of
a clipboard change on its way from one machine to another can rest on the two
abstract specifications, and be proved from them.
