---------------------------- MODULE Connection ------------------------------
(***************************************************************************)
(* One Client object of client.cpp and the asynchronous operations on its  *)
(* socket: the read loop of handleRead, the write chain of writeIfNeeded   *)
(* and handleWrite, and the ways the connection ends.                      *)
(*                                                                         *)
(* The rest of the server appears as the environment: it accepts the       *)
(* socket, queues packets to a PLAYING client without starting a write     *)
(* (Deliver) and erases a DISCONNECTED one (Erase).  A handler runs to its *)
(* end before another one starts: while inHandler holds only its own next  *)
(* command is taken.                                                       *)
(*                                                                         *)
(* m_incoming counts bytes.  A command takes at least one of them; when it *)
(* is cut short by the end of the buffer, what is left is smaller than the *)
(* field it stopped at.  Of what is written only two kinds of packet are   *)
(* told apart: the kick of disconnect() and everything else.               *)
(*                                                                         *)
(* m_outgoing is the part of the stream buffer that no write has taken:    *)
(* async_write takes what is in the buffer when it starts and removes it   *)
(* when it ends, and what is queued in between stays behind.               *)
(***************************************************************************)
EXTENDS Integers

CONSTANTS MaxBytes,   \* bound on the bytes buffered in m_incoming
          MaxReads    \* bound on the outstanding reads

ASSUME ConnectionAssumption == MaxBytes \in Nat /\ MaxReads \in Nat

VARIABLES
  m_state,      \* Client::m_state
  erased,       \* the server has erased, and so destroyed, the object
  m_incoming,   \* bytes in m_incoming
  inHandler,    \* handleRead is running and has bytes left to look at
  reads,        \* async_reads started and not completed
  m_writing,    \* Client::m_writing
  writes,       \* async_writes started and not completed
  m_outgoing,   \* kinds of packet queued behind the write in flight
  inflight,     \* kinds of packet of the write in flight
  sent,         \* kinds of packet a completed write has sent
  raced,        \* history: disconnect() was called with a write in flight
  split,        \* history: a packet was cut short by the end of m_incoming
  up            \* the process runs: no exception has reached main()

readVars  == <<m_incoming, inHandler, reads>>
writeVars == <<m_writing, writes, m_outgoing, inflight, sent>>
vars == <<m_state, erased, readVars, writeVars, raced, split, up>>

State == {"LISTENING", "CONNECTED", "PLAYING", "DISCONNECTING", "DISCONNECTED"}
Kind  == {"data", "kick"}

TypeOK ==
  /\ m_state \in State
  /\ erased \in BOOLEAN
  /\ m_incoming \in 0..MaxBytes
  /\ inHandler \in BOOLEAN
  /\ reads \in Nat
  /\ m_writing \in BOOLEAN
  /\ writes \in Nat
  /\ m_outgoing \subseteq Kind
  /\ inflight \subseteq Kind
  /\ sent \subseteq Kind
  /\ raced \in BOOLEAN
  /\ split \in BOOLEAN
  /\ up \in BOOLEAN

Init ==
  /\ m_state = "LISTENING"
  /\ erased = FALSE
  /\ m_incoming = 0
  /\ inHandler = FALSE
  /\ reads = 0
  /\ m_writing = FALSE
  /\ writes = 0
  /\ m_outgoing = {}
  /\ inflight = {}
  /\ sent = {}
  /\ raced = FALSE
  /\ split = FALSE
  /\ up = TRUE

-----------------------------------------------------------------------------
\* io_service::poll() or tick() can run: no handler of this client is on the stack.
Idle == up /\ ~erased /\ ~inHandler

StartWrite(out) ==
  /\ m_writing' = TRUE
  /\ writes' = writes + 1
  /\ inflight' = out
  /\ m_outgoing' = {}

LeaveQueued(out) ==
  /\ m_outgoing' = out
  /\ UNCHANGED <<m_writing, writes, inflight>>

\* writeIfNeeded, with out in the buffer behind a write in flight, if any.
WriteUnconditionally(out) ==
  IF out = {} THEN LeaveQueued(out) ELSE StartWrite(out)
WriteNothing(out) == LeaveQueued(out)
WriteIfNeeded(out) ==
  IF m_writing \/ out = {} THEN LeaveQueued(out) ELSE StartWrite(out)

\* handleRead after its switch, s and out being the state and the queue that
\* the command left and issued the reads it started: flush, then stop if the
\* client is being disconnected, go on with the bytes left, or read() again.
GoesOnAlways(s) == TRUE
GoesOn(s) == s # "DISCONNECTING"

\* The bytes a command may leave: it has taken its own, no more than there were.
Left == 0..(m_incoming - 1)

\* The reads the end of handleRead starts.
ReadWhenMore(s, left) == IF GoesOn(s) /\ left > 0 THEN 1 ELSE 0
ReadAlways(s, left) == IF GoesOn(s) THEN 1 ELSE 0
ReadAgain(s, left) == IF GoesOn(s) /\ left = 0 THEN 1 ELSE 0

Finish(s, out, issued) ==
  /\ m_state' = s
  /\ WriteIfNeeded(out)
  /\ \E left \in Left :
       /\ m_incoming' = left
       /\ inHandler' = (GoesOn(s) /\ left > 0)
       /\ reads' = reads + issued + ReadAgain(s, left)
  /\ UNCHANGED <<erased, sent, up>>

\* A command that was read whole and leaves the client in state s.
Handled(s, queued) ==
  /\ Finish(s, m_outgoing \cup queued, 0)
  /\ UNCHANGED <<raced, split>>

\* The guard under which handleRead looks at its next command.
Dispatching(states) == up /\ inHandler /\ m_state \in states

-----------------------------------------------------------------------------
\* Server::handleAccept: the client is registered and read() makes it CONNECTED.
Accept ==
  /\ Idle /\ m_state = "LISTENING"
  /\ m_state' = "CONNECTED"
  /\ reads' = reads + 1
  /\ UNCHANGED <<erased, m_incoming, inHandler, writeVars, raced, split, up>>

\* An async_read completes and handleRead starts on what it put in the buffer.
ReadDone ==
  /\ Idle /\ reads > 0
  /\ \E n \in 1..(MaxBytes - m_incoming) : m_incoming' = m_incoming + n
  /\ reads' = reads - 1
  /\ inHandler' = TRUE
  /\ UNCHANGED <<m_state, erased, writeVars, raced, split, up>>

\* handleRead(error): end of stream, a network error or a cancelled read.
ReadFails ==
  /\ Idle /\ reads > 0
  /\ reads' = reads - 1
  /\ m_state' = "DISCONNECTED"
  /\ UNCHANGED <<erased, m_incoming, inHandler, writeVars, raced, split, up>>

\* handleLogin to its end: the answer is queued and the client plays.
HandleLogin ==
  /\ Dispatching({"CONNECTED"})
  /\ Handled("PLAYING", {"data"})

\* A command that queues an answer: a handshake, or while PLAYING a keep-alive,
\* a chat line or the end of a dig, which are sent back to their author too.
HandleAnswered ==
  /\ Dispatching({"CONNECTED", "PLAYING"})
  /\ Handled(m_state, {"data"})

\* A command of the game without an answer: a movement, a look, a held item...
HandleSilent ==
  /\ Dispatching({"PLAYING"})
  /\ Handled(m_state, {})

\* The 0xFF packet of a player that quits; the socket's operations are
\* cancelled, but handleRead goes on and starts another read.
HandleQuit ==
  /\ Dispatching({"PLAYING"})
  /\ Handled("DISCONNECTED", {})

\* A command byte of a client that is no longer CONNECTED or PLAYING.
HandleIgnored ==
  /\ Dispatching({"DISCONNECTING", "DISCONNECTED"})
  /\ Handled(m_state, {})

\* disconnect(reason): the kick is queued behind everything else.
HandleDisconnect ==
  /\ Dispatching({"CONNECTED", "PLAYING"})
  /\ Finish("DISCONNECTING", m_outgoing \cup {"kick"}, 0)
  /\ raced' = m_writing
  /\ UNCHANGED split

\* get() runs out of bytes: the handler returns read(), and handleRead, back
\* from its switch, drops what was read of the packet and goes on.
HandleSplit ==
  /\ Dispatching({"CONNECTED", "PLAYING"})
  /\ reads + 2 <= MaxReads
  /\ Finish(m_state, m_outgoing, 1)
  /\ split' = TRUE
  /\ UNCHANGED raced

\* get(std::string) throws on a string that is not UTF-16: poll() and main() end.
HandleThrows ==
  /\ Dispatching({"CONNECTED", "PLAYING"})
  /\ up' = FALSE
  /\ UNCHANGED <<m_state, erased, readVars, writeVars, raced, split>>

\* The state handleWrite moves to when the write succeeds, and what it does next.
WriteDoneStaysDisconnecting == m_state
AfterWrite == IF m_state = "DISCONNECTING" THEN "DISCONNECTED" ELSE m_state

\* handleWrite without error: the write's bytes leave the buffer; a client that
\* is being disconnected is done with, any other writes what was queued since.
WriteDone ==
  /\ Idle /\ writes > 0
  /\ sent' = sent \cup inflight
  /\ m_state' = AfterWrite
  /\ IF m_state # "DISCONNECTING" /\ m_outgoing # {}
     THEN /\ inflight' = m_outgoing
          /\ m_outgoing' = {}
          /\ UNCHANGED <<m_writing, writes>>
     ELSE /\ m_writing' = FALSE
          /\ writes' = writes - 1
          /\ inflight' = {}
          /\ UNCHANGED m_outgoing
  /\ UNCHANGED <<erased, readVars, raced, split, up>>

\* handleWrite(error): m_writing stays set, no further write is started.
WriteFails ==
  /\ Idle /\ writes > 0
  /\ m_state' = "DISCONNECTED"
  /\ writes' = writes - 1
  /\ UNCHANGED <<erased, readVars, m_writing, m_outgoing, inflight, sent, raced, split,
                 up>>

\* The server's tick or another client's handler queues packets; nobody starts
\* a write for them.
DeliverToAll == {"CONNECTED", "PLAYING", "DISCONNECTING"}
DeliverTo == {"PLAYING"}
Deliver ==
  /\ Idle /\ m_state \in DeliverTo
  /\ m_outgoing' = m_outgoing \cup {"data"}
  /\ UNCHANGED <<m_state, erased, readVars, m_writing, writes, inflight, sent, raced, split,
                 up>>

\* checkClientStatus erases the client, and with it the object and its socket.
Erase ==
  /\ Idle /\ m_state = "DISCONNECTED"
  /\ erased' = TRUE
  /\ UNCHANGED <<m_state, readVars, writeVars, raced, split, up>>

\* The destroyed socket completes its operations with an error: handleRead and
\* handleWrite are bound to the plain pointer and run on the destroyed object.
\* The process survives that, or not.
DanglingCompletion ==
  /\ up /\ erased
  /\ \/ reads > 0 /\ reads' = reads - 1 /\ UNCHANGED writes
     \/ writes > 0 /\ writes' = writes - 1 /\ UNCHANGED reads
  /\ up' \in BOOLEAN
  /\ UNCHANGED <<m_state, erased, m_incoming, inHandler, m_writing, m_outgoing, inflight,
                 sent, raced, split>>

HandleCommand ==
  HandleLogin \/ HandleAnswered \/ HandleSilent \/ HandleQuit \/ HandleIgnored
    \/ HandleDisconnect \/ HandleSplit \/ HandleThrows

HandleWrite == WriteDone \/ WriteFails

Next ==
  \/ Accept
  \/ ReadDone
  \/ ReadFails
  \/ HandleCommand
  \/ HandleWrite
  \/ Deliver
  \/ Erase
  \/ DanglingCompletion

Spec == Init /\ [][Next]_vars

\* A handler that was started returns (its bytes run out).  TCP either carries
\* a write or breaks the connection, and main() calls tick() every frame: both
\* are strong because polls in which this client keeps the thread busy come in
\* between.
Fairness ==
  /\ WF_vars(HandleCommand)
  /\ SF_vars(HandleWrite)
  /\ SF_vars(Erase)

FairSpec == Spec /\ Fairness

-----------------------------------------------------------------------------
\* writeIfNeeded and handleWrite never have two async_writes on the socket,
\* whose bytes would mix, and know of the one there is.
SingleWriter == writes <= 1 /\ (writes = 1 => m_writing)

\* Two reads share m_incoming only after a packet was cut short, when the
\* handler and handleRead both call read().
SingleReader == ~split => reads <= 1

\* The server never goes deaf: however handleRead returned, a client that is
\* CONNECTED or PLAYING has a read outstanding.
NeverDeaf == (Idle /\ m_state \in {"CONNECTED", "PLAYING"}) => reads >= 1

\* No client is stuck in DISCONNECTING: the only way out is handleWrite, and a
\* write is always in flight to call it.
KickHasWriter == (Idle /\ m_state = "DISCONNECTING") => writes = 1

\* A client that handleWrite gives up with its kick still queued had a write in
\* flight when disconnect() was called; any other kick was handed to the socket.
KickFlushed == (m_state = "DISCONNECTED" /\ "kick" \in m_outgoing) => raced

\* A kicked client whose packets were never cut short leaves no operation
\* behind to complete on its destroyed object.
KickedLeavesNothing ==
  (erased /\ ~split /\ "kick" \in m_outgoing \cup inflight \cup sent)
    => reads = 0 /\ writes = 0

\* The kick ends the stream: once disconnect() has queued it nothing else is
\* queued, by whichever client or tick.
KickIsLast ==
  [][("kick" \in m_outgoing \cup inflight \cup sent) => m_outgoing' \subseteq m_outgoing]_vars

\* What others queue for a player is written, though none of those who queue it
\* starts a write, provided that the player's reads keep completing: the game
\* sends its position many times a second.
QueuedIsWritten ==
  SF_vars(ReadDone)
    => ((m_state = "PLAYING" /\ m_outgoing # {})
          ~> (m_outgoing = {} \/ m_state # "PLAYING" \/ ~up))

\* The session this connection implements; its Spec is a property of FairSpec.
AbstractSession ==
  INSTANCE Session WITH phase <- IF erased THEN "ERASED" ELSE m_state
SessionSpec == AbstractSession!Spec
=============================================================================
