---------------------------- MODULE PacketReader -----------------------------
(***************************************************************************)
(* How handleRead cuts the byte stream of a client into packets: get() and *)
(* its helper, the remembered items m_data, m_readNeeded, and the reads.   *)
(*                                                                         *)
(* A packet is known by its layout: the number of bytes up to the end of   *)
(* each of its fields, the first of which is the command byte.  (A string  *)
(* is a length and one field per character.)  Of a byte only this matters: *)
(* the first byte of a packet says which layout it has, any other byte is  *)
(* Data, which read as a command may mean any packet, or none.             *)
(*                                                                         *)
(* A client is "OPEN" while it is CONNECTED or PLAYING.  Which of the two   *)
(* decides only what commands are known, and any may be unknown here.  The *)
(* erasure of a DISCONNECTED client, after which nothing is read, belongs  *)
(* to module Connection.                                                   *)
(***************************************************************************)
EXTENDS Integers, Sequences, FiniteSets

CONSTANTS Layout,     \* the packets the client sends
          Data,       \* a byte that does not start a packet
          None,       \* no byte
          MaxPackets, \* bound: how many of them it sends
          MaxReads,   \* bound on the outstanding reads
          MaxBytes    \* bound on what reads that overlap leave in the buffer

ASSUME PacketReaderAssumption ==
  /\ Data \notin Layout /\ None \notin Layout \cup {Data}
  /\ \A l \in Layout :
       /\ l \in Seq(Nat \ {0}) /\ l # <<>> /\ l[1] = 1
       /\ \A i, j \in DOMAIN l : i < j => l[i] < l[j]
  /\ MaxPackets \in Nat /\ MaxReads \in Nat \ {0} /\ MaxBytes \in Nat

VARIABLES
  wire,        \* the bytes the client has sent and no read has taken
  packets,     \* how many packets it has sent
  m_incoming,  \* the bytes in m_incoming
  m_data,      \* the items get() remembers, each by its first byte
  reads,       \* m_readNeeded of each outstanding async_read
  inHandler,   \* handleRead is about to look at m_incoming
  m_state,     \* Client::m_state
  handled,     \* how many packets have been handled to their end
  command,     \* the byte that the switch last took for a command
  cut          \* history: a packet was cut short by the end of m_incoming

vars == <<wire, packets, m_incoming, m_data, reads, inHandler, m_state, handled, command, cut>>

State == {"OPEN", "DISCONNECTING", "DISCONNECTED"}
Byte == Layout \cup {Data}

TypeOK ==
  /\ wire \in Seq(Byte) /\ m_incoming \in Seq(Byte) /\ m_data \in Seq(Byte)
  /\ packets \in 0..MaxPackets
  /\ reads \in Seq(Nat \ {0}) /\ Len(reads) <= MaxReads
  /\ inHandler \in BOOLEAN /\ m_state \in State /\ cut \in BOOLEAN
  /\ handled \in Nat
  /\ command \in Byte \cup {None}

\* The client has been accepted: one read for a command byte is outstanding.
Init ==
  /\ wire = <<>> /\ packets = 0
  /\ m_incoming = <<>> /\ m_data = <<>>
  /\ reads = <<1>>
  /\ inHandler = FALSE /\ m_state = "OPEN"
  /\ handled = 0
  /\ command = None
  /\ cut = FALSE

-----------------------------------------------------------------------------
Last(s) == s[Len(s)]
Bytes(layout) == [i \in 1..Last(layout) |-> IF i = 1 THEN layout ELSE Data]

\* The packets that the switch may take a byte for, when it knows the command.
Meaning(byte) == IF byte = Data THEN Layout ELSE {byte}

\* The command byte as get() delivers it: the first item remembered, or the
\* first byte of the buffer.
CommandByte == (m_data \o m_incoming)[1]

\* Where a packet of which n items have been read continues.
End(layout, n) == IF n = 0 THEN 0 ELSE layout[n]

\* The items that get() delivers: those remembered, and those that are whole
\* in m_incoming.
ItemsRead(layout) ==
  Cardinality({i \in DOMAIN layout :
                 layout[i] - End(layout, Len(m_data)) <= Len(m_incoming)})

\* What m_incoming holds behind the first n items, and behind all that get() delivers.
Behind(layout, n) ==
  SubSeq(m_incoming, End(layout, n) - End(layout, Len(m_data)) + 1, Len(m_incoming))
Rest(layout) == Behind(layout, ItemsRead(layout))

\* Of a packet that is not looked at further: the command byte alone is gone.
BehindCommand == Behind(<<1>>, 1)

\* m_readNeeded for the item at which get() gives up.
NeededWhole(layout) ==
  layout[ItemsRead(layout) + 1] - End(layout, ItemsRead(layout))
Needed(layout) ==
  layout[ItemsRead(layout) + 1] - End(layout, ItemsRead(layout)) - Len(Rest(layout))

\* m_readNeeded after a handler: sizeof(mcCommandType).
NextNeededShort == 2
NextNeeded == 1

\* The end of handleRead, state being what the handler left and asked the reads it
\* has issued: m_data is cleared; a client that is being disconnected is read no
\* further; otherwise what is left is looked at, or another read is issued.
TakeOneTooMany(rest) == IF rest = <<>> THEN rest ELSE Tail(rest)
Take(rest) == rest
GoesOn(state) == state # "DISCONNECTING"
Finish(state, rest, asked) ==
  /\ m_state' = state
  /\ m_data' = <<>>
  /\ m_incoming' = Take(rest)
  /\ inHandler' = (GoesOn(state) /\ Take(rest) # <<>>)
  /\ reads' = reads \o asked
                \o (IF GoesOn(state) /\ Take(rest) = <<>> THEN <<NextNeeded>> ELSE <<>>)

-----------------------------------------------------------------------------
\* The client sends a packet; how the network divides the bytes is left to the reads.
Send ==
  /\ packets < MaxPackets
  /\ \E layout \in Layout : wire' = wire \o Bytes(layout)
  /\ packets' = packets + 1
  /\ UNCHANGED <<m_incoming, m_data, reads, inHandler, m_state, handled, command, cut>>

\* The outstanding reads without the i-th.
Without(i) == [j \in 1..(Len(reads) - 1) |-> IF j < i THEN reads[j] ELSE reads[j + 1]]

\* The one outstanding read completes with any number of bytes it can get.
ReadDone ==
  /\ ~inHandler /\ Len(reads) = 1
  /\ \E n \in reads[1]..Len(wire) :
       /\ m_incoming' = m_incoming \o SubSeq(wire, 1, n)
       /\ wire' = SubSeq(wire, n + 1, Len(wire))
  /\ reads' = <<>>
  /\ inHandler' = TRUE
  /\ UNCHANGED <<packets, m_data, m_state, handled, command, cut>>

\* One of several reads completes.  They were given overlapping regions of the
\* same stream buffer: what is in it afterwards, and which of the bytes went to
\* the other reads, is not defined.
ReadOverlapping ==
  /\ ~inHandler /\ Len(reads) > 1
  /\ wire # <<>>
  /\ \E i \in DOMAIN reads : reads' = Without(i)
  /\ \E n \in 1..(MaxBytes - Len(m_incoming)) :
       m_incoming' = m_incoming \o [i \in 1..n |-> Data]
  /\ \E n \in 1..Len(wire) : wire' = SubSeq(wire, n + 1, Len(wire))
  /\ inHandler' = TRUE
  /\ UNCHANGED <<packets, m_data, m_state, handled, command, cut>>

\* handleRead(error): the connection is lost, or the read was cancelled.
ReadFails ==
  /\ ~inHandler
  /\ \E i \in DOMAIN reads : reads' = Without(i)
  /\ m_state' = "DISCONNECTED"
  /\ UNCHANGED <<wire, packets, m_incoming, m_data, inHandler, handled, command, cut>>

\* handleWrite: a write has failed, or that of the kick is done.
WriteEnds ==
  /\ ~inHandler /\ m_state # "DISCONNECTED"
  /\ m_state' = "DISCONNECTED"
  /\ UNCHANGED <<wire, packets, m_incoming, m_data, reads, inHandler, handled, command, cut>>

\* The switch looks at a command byte.
Dispatch ==
  /\ m_state = "OPEN" /\ inHandler
  /\ command' = CommandByte
  /\ UNCHANGED <<wire, packets>>

\* handleRead finds a whole packet, and its handler goes to its end.
Handle ==
  /\ Dispatch
  /\ \E layout \in Meaning(CommandByte) :
       /\ ItemsRead(layout) = Len(layout)
       /\ Finish("OPEN", Rest(layout), <<>>)
  /\ handled' = handled + 1
  /\ UNCHANGED cut

\* get() runs out of bytes: the handler issues a read for what is missing.
HandleCut ==
  /\ Dispatch
  /\ \E layout \in Meaning(CommandByte) :
       /\ ItemsRead(layout) < Len(layout)
       /\ Len(reads) + 2 <= MaxReads
       /\ Finish("OPEN", Rest(layout), <<Needed(layout)>>)
  /\ cut' = TRUE
  /\ UNCHANGED handled

\* The handler calls disconnect() when it has read some items: a ping, another
\* protocol version, no place left, or another's entity ID.
HandleRefused ==
  /\ Dispatch
  /\ \E layout \in Meaning(CommandByte) : \E n \in 1..ItemsRead(layout) :
       Finish("DISCONNECTING", Behind(layout, n), <<>>)
  /\ UNCHANGED <<handled, cut>>

\* An unknown command: "Packet stream corrupt".  Any byte may be one: a client that
\* is CONNECTED knows no command of the game, and one that plays no login.
HandleUnknown ==
  /\ Dispatch
  /\ Finish("DISCONNECTING", BehindCommand, <<>>)
  /\ UNCHANGED <<handled, cut>>

\* 0xFF, the player quits: the reason that follows is not read with it.
HandleQuit ==
  /\ Dispatch
  /\ Finish("DISCONNECTED", BehindCommand, <<>>)
  /\ UNCHANGED <<handled, cut>>

\* Whatever still arrives from a client that is not OPEN is taken from the
\* buffer byte by byte, and ignored.
HandleIgnored ==
  /\ m_state # "OPEN" /\ inHandler
  /\ Finish(m_state, BehindCommand, <<>>)
  /\ UNCHANGED <<wire, packets, handled, command, cut>>

HandleRead ==
  Handle \/ HandleCut \/ HandleRefused \/ HandleUnknown \/ HandleQuit \/ HandleIgnored

Next == Send \/ ReadDone \/ ReadOverlapping \/ ReadFails \/ WriteEnds \/ HandleRead

Spec == Init /\ [][Next]_vars

\* Bytes that have arrived are delivered to the read that waits for them, and
\* the handler runs.
FairSpec == Spec /\ WF_vars(ReadDone) /\ WF_vars(HandleRead)

-----------------------------------------------------------------------------
\* As long as no packet has been cut short, whatever packets came in one read,
\* handleRead takes nothing but the first byte of a packet for a command.
InStepUntilCut == ~cut => command # Data

\* Until then, and while the client is not disconnected, no packet is skipped or
\* handled twice either: what has been handled is what was sent and is not in the
\* buffer or on its way.
NothingSkipped ==
  (~cut /\ m_state = "OPEN") =>
    handled = packets - Cardinality({i \in DOMAIN (m_incoming \o wire) :
                                       (m_incoming \o wire)[i] # Data})

\* The read that the first cut issues asks for no byte beyond the packet it
\* waits for: a client that pauses there would otherwise never be heard.
AsksWithinPacket ==
  [][(~cut /\ cut') =>
       reads'[Len(reads) + 1] <=
         Cardinality({i \in DOMAIN wire : \A j \in 1..i : wire[j] = Data})]_vars

\* Every packet sent is handled, unless one is cut short or the client is
\* disconnected: the reads issued never wait for more than the client owes.
Answered ==
  \A n \in 1..MaxPackets : (packets = n) ~> (handled >= n \/ cut \/ m_state # "OPEN")

\* client.cpp, of an item in m_data: "We've read it before".  The rest of a
\* packet that was cut short is read as its rest, and no byte of it as a command.
InStep == command # Data
=============================================================================
