-------------------------------- MODULE Relay -------------------------------
(***************************************************************************)
(* Packets from the bytes that a client sends to the bytes that clients    *)
(* get: the keep-alive echo, chat, the answer to a ping, the position of a *)
(* player, digging, the time, and the header of a chunk.  Which clients    *)
(* get them, and when, is the subject of the modules Server, Wire and      *)
(* Chunks; here it is what the bytes say.                                  *)
(***************************************************************************)
EXTENDS Blocks, Codec, FiniteSets

CONSTANTS Ids,       \* bound: the numbers of keep-alives
          Times,     \* bound: the values of the clock, an unsigned int
          Doubles,   \* bound: the bits of coordinates of players
          Texts,     \* bound: chat messages and descriptions, as [units, bytes]
          Name,      \* the name of the client that talks, the same
          Digits,    \* bound: the digits of two numbers of players together
          MaxDigs    \* bound: how many blocks are dug

\* What fits into the types of the code: mcInt, mcUInt, the bits of an mcDouble and
\* mcByte; and a chunk ends where the mcInts do.
ASSUME RelayAssumption ==
  /\ Ids \subseteq OfWidth(IntWidth)
  /\ Times \subseteq 0..(Power[IntWidth] - 1)
  /\ Doubles \subseteq OfWidth(LongWidth)
  /\ Coord \subseteq OfWidth(IntWidth) /\ Height \subseteq OfWidth(1)
  /\ {SizeX - 1, SizeY - 1, SizeZ - 1} \subseteq OfWidth(1)
  /\ (Power[IntWidth] \div 2) % SizeX = 0 /\ (Power[IntWidth] \div 2) % SizeZ = 0
  /\ Texts \subseteq [units : Nat, bytes : Nat] /\ Name \in [units : Nat, bytes : Nat]
  /\ Digits \subseteq Nat /\ MaxDigs \in Nat

VARIABLES
  kind,      \* what the last packet written is
  written,   \* its fields, as the bytes on the wire
  meant      \* the numbers they stand for; that of a string is its units

relayVars == <<zeroed, dug, littleEndian, kind, written, meant>>
worldVars == <<zeroed, dug, littleEndian>>

RelayInit ==
  /\ BlockInit
  /\ littleEndian \in BOOLEAN
  /\ kind = "none" /\ written = <<>> /\ meant = <<>>

-----------------------------------------------------------------------------
Write(k, fields, numbers) == kind' = k /\ written' = fields /\ meant' = numbers

\* What a client sends: a number, highest byte first.
Sent(v, width) == Bytes(v, width)

KeepAlive(id) ==
  /\ Write("keepAlive", <<SetInt(GetInt(Sent(id, IntWidth)))>>, <<id>>)
  /\ UNCHANGED worldVars

\* A line of chat, or the reason of a kick.
SendText(k, text) ==
  LET line == SetString(text) IN Write(k, <<line.length>>, <<line.units>>)

\* Every player is told "<name> message".
Chat(text) ==
  LET msg == GetString(Sent(text.units, ShortWidth), text)
  IN  /\ SendText("chat", [f \in {"units", "bytes"} |-> Name[f] + msg[f] + 3])
      /\ UNCHANGED worldVars

\* Who pings is kicked for the description and the numbers of players there are
\* and may be; between them stands a sign of one unit and two bytes.
Ping(description, digits) ==
  /\ SendText("kick", [units |-> description.units + digits + 2,
                       bytes |-> description.bytes + digits + 4])
  /\ UNCHANGED worldVars

\* Where the player said it is at x and z, once its first chunks are there, with
\* a look of zero.
PlayerPosition(x, z) ==
  LET at == <<GetDouble(Sent(x, LongWidth)), GetDouble(Sent(z, LongWidth))>>
  IN  /\ Write("position", <<SetDouble(at[1]), SetDouble(at[2]), SetFloat(0), SetByte(1)>>,
               <<x, z, 0, 1>>)
      /\ UNCHANGED worldVars

\* The packet that tells of a block: its coordinates, type and metadata, with the
\* coordinates as they came and not those within the chunk.
UpdateBlockInChunk(b, type) ==
  <<SetInt(Offset(b[1], SizeX)), SetByte(b[2]), SetInt(Offset(b[3], SizeZ)), SetByte(type), SetByte(-1)>>
UpdateBlock(b, type) == <<SetInt(b[1]), SetByte(b[2]), SetInt(b[3]), SetByte(type), SetByte(-1)>>

\* Only the end of digging counts.
Dig(status, b) ==
  LET block == <<GetInt(Sent(b[1], IntWidth)), GetByte(Sent(b[2], 1)), GetInt(Sent(b[3], IntWidth))>>
  IN  IF GetByte(Sent(status, 1)) = 2
      THEN /\ DigBlock(block)
           /\ Write("block", UpdateBlock(block, 0), <<b[1], b[2], b[3], 0, -1>>)
           /\ UNCHANGED littleEndian
      ELSE UNCHANGED relayVars

\* The clock, an unsigned int, goes as a long.
TimeUpdate(time) ==
  /\ Write("time", <<SetLong(time)>>, <<time>>)
  /\ UNCHANGED worldVars

\* What sendChunk says of the place of a chunk: its corner and its sizes.  The
\* chunks that are sent are those of world 0, where nothing is dug.
SentWorld == 0
Header(chunk) ==
  <<SetInt(chunk[1] * SizeX), SetShort(0), SetInt(chunk[2] * SizeZ),
    SetByte(SizeX - 1), SetByte(SizeY - 1), SetByte(SizeZ - 1)>>

RelayNext ==
  \/ \E id \in Ids : KeepAlive(id)
  \/ \E text \in Texts : Chat(text)
  \/ \E text \in Texts, digits \in Digits : Ping(text, digits)
  \/ \E x, z \in Doubles : PlayerPosition(x, z)
  \/ \E status \in {0, 2}, b \in Coord \X Height \X Coord :
       Cardinality(dug) < MaxDigs /\ Dig(status, b)
  \/ \E time \in Times : TimeUpdate(time)

RelaySpec == RelayInit /\ [][RelayNext]_relayVars

-----------------------------------------------------------------------------
Read == [i \in DOMAIN written |-> Signed(written[i])]

\* On hosts of either byte order the bytes on the wire stand for the numbers that
\* were meant: those that are read, kept and written again, negative ones, and a
\* clock beyond the greatest int (netutil.cpp, Client::get and Client::set).
\* The block that is dug is the one that was meant, too.
NumbersArrive ==
  /\ kind \in {"keepAlive", "block", "time", "position"} => Read = meant
  /\ kind = "block" => <<meant[1], meant[2], meant[3]>> \in dug

\* A line of chat or a reason says how many units follow, whatever characters it has, so that
\* its reader finds the next packet (Client::set of a string, notifyChat, handlePing).  That
\* needs a line of at most MaxShort units, name and brackets included.
MaxShort == Power[ShortWidth] \div 2 - 1
TextParses == kind \in {"chat", "kick"} /\ meant[1] <= MaxShort => Read = meant

\* Where a game finds a block in the data of the chunk it was sent: the data has the
\* columns, x first and then z, of the sizes in the header.
HeaderOf(chunk) == LET fields == Header(chunk) IN [i \in 1..6 |-> Signed(fields[i])]
Within(b, header) == [i \in 1..3 |-> b[i] - header[i]]
IndexSent(at, header) == (at[1] * (header[6] + 1) + at[3]) * (header[5] + 1) + at[2]

\* The blocks a game is told of by updates, as it reads them.
Told == LET block(fields) == <<Signed(fields[1]), Signed(fields[2]), Signed(fields[3])>>
        IN  {block(UpdateBlock(d, 0)) : d \in dug}

\* What is sent comes from one world and what is dug is stored in another.  A game that
\* holds its chunks and is told of every dig (module Chunks says which does) draws the
\* terrain that was sent without the blocks of the updates: block for block that is the
\* world that is dug in, left of zero too, although its place there is computed from the
\* block, and that in the data sent from the header (digBlock, sendChunk, updateBlock).
DrawnAsDug ==
  (\A b \in dug : b[2] >= 0) =>
    LET told == Told
    IN  \A b \in Block :
          LET chunk == ChunkOf(b)
              header == HeaderOf(chunk)
              at == Within(b, header)
              sent == TypeAt(SentWorld, <<chunk, IndexSent(at, header)>>)
          IN  /\ \A i \in 1..3 : at[i] \in 0..header[i + 3]
              /\ TypeAt(DigWorld, Place(b)) = IF b \in told THEN 0 ELSE sent
=============================================================================
