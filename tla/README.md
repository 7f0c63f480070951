# SydMine in TLA+

SydMine (`src/`, C++ on boost::asio) is a prototype of a Minecraft server: one
process, one thread, a frame loop that alternates `io_service::poll()`, in
which the completion handlers of the sockets run, and `Server::tick()`. This
directory models that program, checks the models with TLC and proves what
matters most with TLAPS.

The repository has no tests and one page of documentation
(`src/README.markdown`); every definition below is translated from the code.
`PROJECT.json` gives, for each definition, the lines it stands for.

## 1. Inventory

| part | source | state | operations |
|---|---|---|---|
| main loop | `src/src/main.cpp` | `keepGoing`, `nextFrame` | start, frame (poll, tick, sleep), `term` on SIGTERM |
| sessions of the server | `server.cpp`, `client.cpp` | `m_clients`, every client's `m_state`, `m_hasPlayed` | `accept`, `handleAccept`, `handleLogin`, `disconnect`, `checkClientStatus`, `notifyConnected` |
| connection | `client.cpp` | `m_state`, `m_incoming`, `m_outgoing`, `m_writing`, outstanding reads and writes | `read`, `handleRead`, `writeIfNeeded`, `handleWrite`, `disconnect` |
| packet reader | `client.cpp` | `m_incoming`, `m_data`, `m_dataItem`, `m_readNeeded` | `handleRead`, `get`, `getHelper` |
| chunk streaming and digging | `server.cpp`, `client.cpp`, `chunk.hpp` | `m_loadedChunks`, each client's `m_chunksLoaded`, blocks | `sendUpdatedPositions`, `updateChunk`, `getChunk`, `digBlock`, `updateBlock`, the dropping of unused chunks in `tick` |
| entity movement | `client.cpp`, `entity.hpp` | position, look, and both at the last tick | `addPeer`, `sendEntityMove`, `tickPosition`, the position and look packets |
| chunk contents | `chunk.hpp`, `chunk.cpp` | the block array | constructor, `setBlockType` |
| encoding, decoding | `client.cpp`, `netutil.cpp`, `types.hpp` | none | `set`, `get`, `htonll`, `ntohll` |
| entity IDs | `eid.cpp` | the next ID | `generateNewEID` |
| configuration | `server.cpp`, `conf/sydmine.cfg` | description, `maxPlayers`, `requireAuth` | `reloadConfig`, at start only |
| logging, UTF-8, build | `logging.hpp`, `third-party/utf8`, `wscript`, `waf` | none | |

How the parts meet. `main` owns everything. A handler of one client reads the
server (`getPlayingCount`) and writes into the *output buffers of other
clients* (`notifyConnected`, `notifyChat`, `digBlock`), as does the tick
(`sendUpdatedPositions`). Only handlers of the client itself start reads and
writes on its socket. A handler changes `m_state`; only the tick erases a
client. Exceptions are caught in `main` alone and end the process.

What is hard here, and what each part must get right:

* *Main loop.* A signal handler and the loop store to the same flag; a frame may
  be late. Frames keep their distance, the server keeps ticking, a signal stops it.
* *Sessions.* Logins, drops, kicks and erasures of several clients interleave over
  several polls and ticks, while each game only knows what it was sent. Any two
  players see each other, nobody sees a ghost, spawns and destroys pair up, the
  limit of players holds, who leaves disappears.
* *Connection.* Handlers are asynchronous and may fail at any time. Exactly one
  read and at most one write; a kick is delivered and is the last thing
  delivered; nobody is stuck half disconnected; nothing completes on a destroyed
  object.
* *Packet reader.* The network divides the stream as it likes. Every packet is
  handled once, in order, and the server never waits for bytes nobody owes it.
* *Chunks.* Three sets (what a game holds, what the server holds, what is near)
  change at different moments and by different distances. A player has the
  chunks around it, memory is bounded, what was destroyed stays destroyed.
* *Entity movement.* Positions are sent as differences of rounded numbers. Errors
  must not add up.
* *Streams.* What concerns one game is queued by several handlers and by the tick,
  written when the client itself sends something, and read later still. Each
  game must get it whole, in an order that makes sense, and in the end.
* *Chunk contents, encoding.* Blocks west and north of zero, numbers of either
  sign on hosts of either byte order, strings with any characters: what the bytes
  say must be what was meant.

`PROJECT.json` lists the hazards one by one, each at its line, with the
properties that would catch it.

## 2. Modules

    Session  <--implements--  Connection     PacketReader     (one client)
       ^-----implements-----  Server     Chunks     Entities  (several clients)
                                 ^
                                 +--implements--  Wire        (and their games)
    Blocks, Codec  <--uses--  Relay                           (bytes and blocks)
    MainLoop                                                  (the process)

Each module that TLC runs has an `MC` module and one or more `.cfg`, and
theorems are in `<module>Proofs` (those about `Blocks` and `Codec` in
`RelayProofs`). One handler, or one tick, is one step everywhere,
because everything runs on one thread; a poll that runs no, one or many
handlers before the tick is covered by letting the steps interleave. Only in
`Connection` and `PacketReader` is `handleRead` several steps, one for each
packet in the buffer (it calls itself), during which nothing else may run.

**Server** models who is registered in which state, and for each client
`spawned`, the entities its game was told to spawn and not to destroy. The
socket is abstract: whatever may fail does so at any time. `HandleAccept`,
`HandleLogin`, `Disconnect`, `Drop` (three places set `DISCONNECTED`),
`HandlerThrows`, `Tick` and `TickThrows` are the operations. The tick announces
and erases all disconnected clients in one step, since the order in which the
hash map yields them cannot be observed unless `remote_endpoint()` throws in
the log line; then any part of them has been erased (`TickThrows`). `stray`
collects the packets a game could not make sense of; `goneAtLogin` is a history
variable. Chat lines and the time update change no state and are left out. A
client is disconnected, or throws, only in the states in which `handleRead`
looks a command up (`Dispatching`). Seen through `PhaseOf`, each client alone is
a `Session` (`EachSession`).

**Wire** is `Server` with what lies between it and the games: for each client
`m_writing`, the packets in `m_outgoing` and those written but not yet read,
and what the game has made of those it has read. Each of its actions conjoins
one of `Server` with what that handler or tick queues for whom, in which order,
and with the `writeIfNeeded` at the end of the handler, which is the handler's
own client's only. Followed are the answer to a login, spawns, destroys and the
kick; `Command` stands for all other packets, and may start a write for what is
queued. `WriteDone` ends a write and starts the next, or ends the client. A game
expects the answer to its login before any entity, an entity it does not draw in
a spawn, and nothing after a kick. When the stream buffer moves its memory under
a write in flight (`BufferMoves`), the game is not followed any more. Every step
of `Wire` is one of `Server`, or leaves it unchanged.

**Connection** models one `Client`: its state, the number of bytes in
`m_incoming`, outstanding reads and writes, and the *kinds* of packet (kick or
other) queued, in flight and sent. A command takes an arbitrary part of the
buffer. The rest of the server is its environment: `Accept`, `Deliver`, `Erase`.
After a write error `m_writing` stays set, and after `disconnect` the read loop
stops, as in the code. `DanglingCompletion` is the completion of an operation on
a destroyed client, undefined behaviour that the process survives or not. Two
history variables: `raced` (a write was in flight at `disconnect`), `split` (a
packet was cut short).

**Session** is what a connection promises to the rest of the server: the states
in their order, and that a client which is being disconnected gets there and is
erased. `Connection` implements it with `phase` as `m_state`, or `ERASED`.

**PacketReader** refines the reading side. A packet is its layout, the ends of
its fields; a byte is either the first of a packet, which says its layout, or
`Data`, which taken for a command may be any packet. Any command may be unknown
too (`HandleUnknown`): which are known depends on whether the client is
`CONNECTED` or `PLAYING`, and the module knows both as `OPEN`. `get()` first
serves the items it remembers (`m_data`) and then the buffer. When it runs out
of bytes (`HandleCut`), the handler issues a read for what is missing, and `handleRead`
clears `m_data` and goes on with the bytes left; this is what the code does, and
it loses the packet. From then on two reads share one stream buffer
(`ReadOverlapping`): boost gives both the same memory, so that what they leave
there is arbitrary. A handler may disconnect the client after any of its items
(`HandleRefused`: a ping, another version, no place, another's entity ID), and
then nothing more is read of it. One that quits (`HandleQuit`), or is lost
(`ReadFails`, `WriteEnds`), is `DISCONNECTED` and still read: `handleRead` takes a
byte at a time from the buffer, does nothing with it (`HandleIgnored`), and reads
on. That it is erased by the next tick is left to `Connection`.

**Chunks** models positions as chunks and one block per chunk. `Loops` is the calls
of `updateChunk` in one tick as they are written, in their order (`LoopOrder`),
and `Updated` their closed form, which `Tick` uses; `LoopsGiveUpdated` says that
they agree. `Told` are the players `digBlock` sends an update to;
their games must hold the chunk (`UpdatesFindChunk`). `m_loadedChunks` keys are a world and a chunk, since
`digBlock` and `sendUpdatedPositions` use different worlds. `shown` is the
chunks whose block a game draws as destroyed. A dig from afar is accepted, as
in the code. Chunk contents are lost when a chunk is dropped: the code saves
nothing.

**Entities** models one player and one watcher; watchers do not influence each
other. Coordinates are integers in 64ths of a block, half the unit of the
protocol, so that cutting (`mcInt(x*32)`) and rounding (`int(x*32.0+0.5)`)
differ as they do in the code, on both sides of zero. A look is one number for
yaw and pitch. Two history variables speak of a player spawned between a change and
the tick: `missed` is the movement the spawn was ahead, which the tick sends once
more, and `stale` says that its look was.

**MainLoop** has a step for each statement of the loop, time as the distance to
`nextFrame`, and SIGTERM between any two steps. `Poll` runs one ready handler at
a time and ends when none is ready; operations complete, and make handlers
ready, meanwhile (`Complete`).

**Blocks** is the array of each chunk of each world as the set of elements that were
set to zero over the terrain the constructor fills in. Digging is done in world 1
(`DigWorld`) and changes no other: from the coordinates of a block
to the chunk (a division that rounds down) and to the element (the remainder of
C++ and its correction, then `x`, `z`, `y` in that order).

**Codec** models integers as values and, in memory, as sequences of bytes in the
order of the host, a variable. `htons` and `htonl` are defined by what they do
to memory; `diffEndian`, `htonll` and `ntohll` are translated from `netutil.cpp`, which
decides at run time. `OfWidth` is the integers that have so many bytes, with
`Power`, the powers of the number of values of a byte. A string is the number of its UTF-16 units and of its UTF-8
bytes.

**Relay** takes packets through `get`, the handler and `set`: the keep-alive, a
chat line, the description that answers a ping, the position a player is placed
at, a dig and the update that tells of it, the clock as a long, and the header
of a chunk, which is one of world 0 (`SentWorld`). It extends `Blocks` and `Codec`
and keeps the last packet
written, as bytes, beside the numbers that were meant. `DrawnAsDug` is about a game
that holds its chunks and is told of every dig, as the games of module `Chunks` do
that are near and stay: what it draws, from the data of world 0 and the updates, is
what is stored in world 1. What becomes of those that come later is the subject of
`DestroyedIsShown`.

## 3. Runs

| run | bounds | shows |
|---|---|---|
| Sessions | 3 clients, 2 players at most | `MutualVisibility`, `NoGhosts`, `NoStrayUpdate`, `StrayDestroyExplained`, `Capacity`, `Departure` under a fair tick, and that each client implements `Session` |
| Wire | 2 clients | `StreamTellsSpawned`, `NeverConfused`, `GamesConverge` |
| Connection | 5 bytes, 4 reads | one writer, one reader (until a packet is cut), never deaf, `KickFlushed`, `KickedLeavesNothing`, `KickIsLast`, `QueuedIsWritten`, and the refinement of `Session` with its liveness |
| ChunksAround | 1 player, range 2, 25 chunks to go to | `ChunksAround`, `Compact`, `PlacedOnce`, `LoopsGiveUpdated` |
| ChunksShared | 2 players, range 1, a line of 3 chunks | `ServerHolds`, `StaysDestroyed`, `UpdatesFindChunk` |
| ChunksShown | 2 players, range 1 | **violated**: `DestroyedIsShown` |
| MainLoop | tick of 4, up to 5 late, handlers ready up to a bound | `FrameSpacing`, `KeepsTicking`, `StopsFromSleep` |
| MainLoopStop | tick of 2, up to 1 late | **violated**: `StopsWhenFalse` |
| Entities | 2 axes, 4 positions each, 3 looks, limit 2 | `NoDrift`, `LookShown` |
| Relay | chunks of 4 by 4 and 8 high, coordinates -4, -1, 0, 3, 2 digs; bytes of 16 values, ints of 2 bytes | `NumbersArrive`, `TextParses`, `DrawnAsDug`, `DugIsStored`, `InsideArray` |
| PacketReader | 3 packets of 3 layouts, 4 reads, refused, unknown, quit or lost at any of them | `InStepUntilCut`, `NothingSkipped`, `AsksWithinPacket`, `Answered` |
| PacketReaderCut | 1 packet | **violated**: `InStep` |

Why the bounds are enough. Three clients let one have left without being
erased, one play and one log in or wait for a place; every session property
speaks of two clients, the capacity of three, and the theorems of any number.
Two clients are the receiver and the subject of every packet that `Wire`
follows; what a third one causes is queued independently. Five bytes let a
handler find one, two or three commands in the buffer or a cut one after a whole
one; four reads let the two that a cut leaves be followed by another cut. Range 2 is the
smallest with which the chunk a player stands in is not all it needs, and a
field of 5 by 5 lets it jump beyond, to and within both distances; digging and
sharing do not depend on the range, so range 1 serves there. Two axes, one of
which starts with a far last coordinate as `m_lastZ` does, let one axis force
the teleport while the other moves by a half; angles of -90 and 540 degrees
leave the byte on both sides. Packets of one, three and four bytes have fields
of one and of two bytes, the smallest that can be cut. The coordinates of
`Relay` are the first and the last of a chunk on either side of zero, its
heights those below, at and above the ground and one that is negative, its clock
values one beyond the greatest int. A short has one byte, an int two and a long
four, so that each has its halves and its overflow, and a chat line can be too
long for its length. Both byte orders are initial states. The theorems below lift
most of these bounds.

Deadlock checking is off where the system may stop: the process has ended, or a
bounded client has sent all its packets.

### What the violated runs show

* `DestroyedIsShown`: `src/README.markdown` says players can destroy blocks.
  `digBlock` changes the chunk of world 1, `sendUpdatedPositions` sends world 0:
  a player that loads the chunk afterwards sees the block whole. (The run has a
  single place, so it shows this way only. Another one is not shown by any run: a
  game keeps chunks up to 9 away, block updates go to players less than 9 away.)
* `StopsWhenFalse`: `main.cpp` says of `keepGoing`, "When false, stop the main
  loop". The loop stores the result of `tick()`, always true, over it.
* `InStep`: `client.cpp` has a branch for an item that "We've read it before".
  It is never taken, as `handleRead` clears the items after every handler,
  finished or not; the rest of a packet is taken for commands.

### What holds, but less than one might expect

Several properties are stated with a condition, because the code does not give
more: a kick is lost when a write was in flight (`KickFlushed`); two reads are
outstanding once a packet was cut (`SingleReader`); a game is told to destroy an
entity it does not know (`StrayDestroyExplained`); a player spawned in the
middle of a move stays drawn beside its place until it teleports (`NoDrift`, which
says by how much); a kicked client leaves no operation behind, but one that quits
does (`KickedLeavesNothing`: at 0xFF `handleRead` cancels the socket's operations and
then reads again, and the tick destroys the client under that read); a packet is
handled unless the client is disconnected before (`NothingSkipped`, `Answered`);
packets for a silent client are not written (`QueuedIsWritten` speaks of a
client that goes on sending, `GamesConverge` of games that do); a player that has just
moved may be told of a block before the tick that sends its chunk
(`UpdatesFindChunk` speaks of the others); a dig below the
world changes another block (`DugIsStored`), and a chat line of more units than
a short can count is not parsed (`TextParses`); a SIGTERM is only certain to work while the loop sleeps
(`StopsFromSleep`).

### Fairness

* `Server`: weak fairness of `Tick`, which `main` calls in every frame, and of the
  end of the write a `DISCONNECTING` client waits for (module `Connection`
  shows that there is one).
* `Wire`: weak fairness of the tick. Strong fairness of the end of a write, of the
  game's reading and of its sending: a game sends its position many times a
  second, and reads; one that stops for ever has lost its connection. Nothing is
  assumed of logins, kicks and losses.
* `Connection`: weak fairness of the handler, which runs until its buffer is
  empty; strong fairness of the completion of a write (TCP either carries it or
  reports an error) and of the erasure (a tick comes every frame): strong
  because the handlers of this client run in between and disable both. Nothing
  is assumed of the client: that it goes on sending is a premise of
  `QueuedIsWritten`.
* `PacketReader`: weak fairness of the read, when the bytes are there, and of the
  handler, whatever it decides. None for the client, nor for losses and the end of
  writes.
* `MainLoop`: weak fairness of the loop and of time. None for signals. That
  `poll()` runs out of ready handlers is not assumed: `KeepsTicking` names the
  one way in which the ticks may end, clients that for ever send faster than
  they are served.

## 4. Proofs

All theorems are for every value of the constants, under the assumptions the
modules name: a finite set of clients and an integer limit (`Server`), natural
bounds (`Connection`, `PacketReader`), packets of at least a command byte whose
fields have at least one (`PacketReader`), positive sizes of a chunk
(`Blocks`), a positive range and any places (`Chunks`), a positive
duration (`MainLoop`), integer positions and looks (`Entities`). `Codec` asks
for an even number of values of a byte that does not divide the 26 which
`diffEndian` looks at, and for ints of two bytes at least; `Relay`, that numbers
fit the types they have in the code, that the coordinates within a chunk fit a
byte, and that the sides of a chunk divide half the range of an int, so that the
first block of a chunk is an int when any block of it is. 256 values, shorts of
2 bytes, ints of 4 and chunks of 16 by 16 and 128 high satisfy them all.

* **ServerProofs.** None of the session properties is inductive. `IInv` adds what
  each client's past allows: who was never a player has not played, has nothing
  spawned and was sent nothing stray (`PlayedOnce`, `BlankBeforeLogin`); a
  player's game draws only registered clients that have played (`DrawsPlayers`);
  and a registered client that has played is either drawn by a player or had
  left at that player's login (`MetOrGone`), which is why the destroy packet of a
  departure finds its entity. From it: `PlayersSeeEachOther`, `NoGhost`,
  `NoStray`, `StrayDestroys`. `ImplementsSessions`: each client's initial state
  is one of `Session`, and a step of the server is, for each client, a step of
  `Session` or a stutter; it needs that a client which is not registered is
  either new or erased. `NeverOverfull` is a second, smaller induction:
  only a login adds a player, and one at most.
* **WireProofs.** `ImplementsServer`: without the streams every action of `Wire` is
  an action of `Server` or a stutter. Hence `PlayersAreTold`: what is proved of
  `spawned` holds there. The inductive invariant of the streams, `WireIInv`,
  has that of `Server` in it. Its heart is `Tracks`: a game that had read all
  that is on its way to it (written, in flight or queued) would be in the state that
  the server's books say it is in: logged in just when its client has played,
  drawing just `spawned`, kicked only when its client is being disconnected, and
  never confused. To state it for the game *after* the stream rather than packet by
  packet makes reading and writing trivial steps, and leaves the work to the steps
  that queue: a login queues its answer before the spawns it causes, and a tick
  queues destroys in an order the hash map chooses, so that a stream of spawns or of
  destroys has to be shown to have the same effect in any order (`ReadsSpawns`,
  `ReadsDestroys`). `Untouched` says that nothing is on its way to a client
  that was not accepted. From it `WireTypeCorrect`,
  `StreamsAreWhole` and `StreamsMakeSense`.
* **ConnectionProofs.** `IInv` says that `m_writing` is set without a write only
  after a write error (`WriterKnown`), that a `DISCONNECTING` client has its
  write (`Draining`), that there is one reader, either the handler or an
  outstanding read (`OneReader`), and in which states and with which history a
  kick is queued, in flight or sent (`KickState`, `KickRaced`). From it the
  safety properties (also that a client which is being disconnected always has
  the write in flight that will end it, `KickIsCarried`), and `ImplementsSession`: initial states map to initial
  states and every step to a step of `Session` or a stutter. The liveness part
  of the refinement stays with TLC.
* **ChunksProofs.** `IInv` is the conjunction of the types and four properties;
  they need each other: what a player keeps after a jump lies around it because
  everything it held before was compact, or nothing was missing. From it
  `BoundedMemory`, `Surrounded`, `NeededAreHeld`, `OnePlacement`; and
  `NoResurrection` and `UpdatesArriveInChunk`, action properties: a player
  that has not moved since its last tick has every chunk it can be told of.
  `LoopsComeToUpdated`: `LoopOrder` visits just the needed chunks
  (`OrderVisitsNeeded`, by quotient and remainder); after `i` calls of `updateChunk`
  nothing has changed if the first `i` chunks were there, and otherwise the player
  has those of its own and of these that are near. Which call finds the first
  chunk missing does not matter, because each call that does drops what is far.
* **MainLoopProofs.** `Pace`: during a frame what has passed and what is left make a
  duration (`Clock`), and a frame that is over has lasted one (`Waited`), unless
  a signal cut the sleep short, after which there is no next frame.
  `StoppedBySignal`: `keepGoing` is only false after a signal.
* **EntitiesProofs.** `RoundingDoesNotAddUp`: the drawn position is the cut or the
  rounded one of the last tick, and what the spawn was ahead beside it, which a
  relative movement preserves because it adds the difference of two rounded ones;
  `LookIsExact`.
* **RelayProofs.** *Blocks*, for chunks of any size and blocks anywhere: the
  corrected remainder is `x % 16` of TLA+, chunk and offset together give back `x`,
  and two blocks of one chunk with the same index are one, by the uniqueness of
  quotient and remainder, twice. From it `DugBlocksOnly` and `WritesInsideArray`.
  *Numbers*, for bytes of any even number of values and any widths: the bytes of
  a number give it back, by induction on their number (`UnsignedDetermines`,
  `UnsignedOfBytes`, `SignedOfBytes`); the bytes of a long are those of its halves
  (`BytesOfHalves`); `diffEndian` finds the byte order (`EndianIsFound`); and on
  hosts of either order every function of `Codec` writes, or reads, the highest
  byte first (`HtonWrites`, `NtohReads`, `HtonllWrites`, `NtohllReads`).
  *Packets*: a step of `Relay` is a step of `Blocks` or leaves the blocks alone
  (`RelayDigsBlocks`), so what is proved of digging holds there; `RelayIInv`
  adds that the last packet says what was meant (`NumbersAlwaysArrive`,
  `TextAlwaysParses`). `HoldersDrawWhatWasDug` needs both: the header names the chunk
  (`HeaderSays`), the updates name the blocks that were dug (`UpdatesTell`), the data
  sent has the terrain, and the array of the other world has it too but for zeros
  where blocks were dug.
* **PacketReaderProofs.** As long as nothing was cut and the client is not
  disconnected, buffer and wire together are
  a sequence of whole packets (`Whole`): from where a packet starts, `Last` bytes
  on, the next one starts or the stream ends. Sending appends a packet
  (`Appended`), handling removes the first (`Removed`), and a read moves the border
  between buffer and wire. Each packet has one byte that starts it, so counting
  those (`Starts`) counts the packets not yet handled. A client is disconnected by a
  command that started a packet, or by no command at all, and takes none after it.
  From it `StaysInStep`, `NothingLost` and `ReadsNoFurther`; a second, smaller invariant gives
  `TypeCorrect` after a cut too.

Type correctness is proved too, for every module with proofs; that of `Blocks` and
`Relay` is part of `DugInv` and `RelayIInv`.

*Induction over data.* `StreamTellsSpawned`, `LoopsGiveUpdated` and `NumbersArrive`
speak of folds over sequences of any length and of recursive functions of any
number. The library states induction for predicates, as an operator
parameter, which the provers cannot instantiate. The proofs use it for *sets*
instead: a set of natural numbers that contains 0, and with each number the next,
contains them all (`SetInduction`, from the least element of its
complement and the well-foundedness of `<`). That a function defined by recursion
exists is proved the same way: one that is right up to `n` exists for every `n` and
any two agree (`FollowsExists`, `FollowsUnique`, hence `Recursion`; for the folds,
`IteratesExists` and `RunEnds`). The modules share nothing that could hold
these lemmas, so they are stated in each that needs them.

Every safety invariant and every action property that a passing run checks is
also the statement of a theorem. Only model-checked is liveness: `Departure`,
`GamesConverge`, `QueuedIsWritten`, `KeepsTicking`, `StopsFromSleep`,
`Answered`, and the liveness part of `SessionSpec`. They rest on fairness and so on
`ENABLED`, which is out of the prover's reach.

## 5. Not modelled

Compression by zlib and the text of strings: only lengths are kept, since what a
chat line says is not a question of control. What
the bits of a floating point number mean: they go through the integers of their
size. The wrap of entity IDs
and of the tick counter after 2^32 of them. The end of the process with clients
connected: destructors run and the kernel closes the sockets. The configuration
file: it is read once, before the loop, by boost. Logging and the build.
Memory: when the stream buffer moves under a write in flight; `Wire` has the
step but not its condition. The wire format as such: whether Minecraft's own
client would accept it is not a question about this code.

## 6. Plan

1. *A composition* of `Server` and `Chunks`, in which a client logs in, walks,
   digs and leaves; the two share `Playing`, and only a login and a departure
   change both.
2. *Movement on the wire*: `Wire` with the entity packets of the tick, so that the
   position drawn is what `Entities` says once everything has been read.
3. *Three clients* in `Wire`, with smaller streams.
4. *What liveness rests on*, as theorems: that a step which fairness promises is
   possible, stated without `ENABLED` (as `KickIsCarried` does for the write that
   ends a client), for the handler, the tick and the reads of `PacketReader`.
