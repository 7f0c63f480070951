-------------------------- MODULE ConnectionProofs --------------------------
(***************************************************************************)
(* Module Connection for any bounds on its buffer and its reads: the       *)
(* read loop, the write chain and the kick stay consistent, and what the   *)
(* connection does is a session as module Session describes it.            *)
(***************************************************************************)
EXTENDS Connection, TLAPS

\* A kick has been queued, and is queued, in flight or sent.
Kicked == "kick" \in m_outgoing \cup inflight \cup sent

\* A client that has not been accepted has no socket to operate on.
Untouched ==
  m_state = "LISTENING" =>
    reads = 0 /\ writes = 0 /\ ~m_writing /\ ~inHandler /\ ~Kicked /\ ~erased

\* m_writing outlives its write only in a client that the failed write dropped.
WriterKnown == m_writing /\ writes = 0 => m_state = "DISCONNECTED"

\* A client being disconnected has a write in flight, whatever else goes on.
Draining == m_state = "DISCONNECTING" => writes = 1

\* A read is outstanding or being handled, and not both, unless a packet was cut.
OneReader ==
  /\ ~split => reads + (IF inHandler THEN 1 ELSE 0) <= 1
  /\ m_state \in {"CONNECTED", "PLAYING"} => reads >= 1 \/ inHandler

\* A kick makes the client leave the game, and its reading.
KickState ==
  Kicked => /\ m_state \in {"DISCONNECTING", "DISCONNECTED"}
            /\ ~split => /\ reads = 0 /\ ~inHandler
                         /\ m_state = "DISCONNECTED" => writes = 0

\* A kick still queued behind a write found that write in flight.
KickRaced == "kick" \in m_outgoing => raced

\* Only a disconnected client is erased.
ErasedLate == erased => m_state = "DISCONNECTED"

\* The inductive invariant.
IInv ==
  /\ TypeOK
  /\ SingleWriter
  /\ Untouched
  /\ WriterKnown
  /\ Draining
  /\ OneReader
  /\ KickState
  /\ KickRaced
  /\ ErasedLate

-----------------------------------------------------------------------------
\* Nothing has happened yet.
LEMMA InvInit == Init => IInv
<1> SUFFICES ASSUME Init PROVE IInv
  OBVIOUS
<1>1. TypeOK
  <2>1. m_incoming \in 0..MaxBytes /\ reads \in Nat /\ writes \in Nat
    BY ConnectionAssumption DEF Init
  <2>2. QED
    BY <2>1, Zenon DEF Init, TypeOK, State
<1>2. ~Kicked
  BY DEF Init, Kicked
<1>3. SingleWriter /\ Untouched /\ WriterKnown /\ Draining
  BY <1>2 DEF Init, SingleWriter, Untouched, WriterKnown, Draining
<1>4. OneReader /\ KickState /\ KickRaced /\ ErasedLate
  BY <1>2 DEF Init, OneReader, KickState, KickRaced, ErasedLate
<1>5. QED
  BY <1>1, <1>3, <1>4 DEF IInv

\* writeIfNeeded with out queued either leaves it queued, or makes it the write
\* in flight when there was none.
LEMMA WriteFacts ==
  ASSUME IInv, NEW out \in SUBSET Kind, WriteIfNeeded(out)
  PROVE  \/ /\ m_writing \/ out = {}
            /\ m_outgoing' = out /\ m_writing' = m_writing /\ writes' = writes
            /\ inflight' = inflight
         \/ /\ ~m_writing /\ writes = 0
            /\ m_writing' = TRUE /\ writes' = 1
            /\ inflight' = out /\ m_outgoing' = {}
<1>1. CASE m_writing \/ out = {}
  BY <1>1 DEF WriteIfNeeded, LeaveQueued
<1>2. CASE ~(m_writing \/ out = {})
  <2>1. writes = 0
    BY <1>2 DEF IInv, TypeOK, SingleWriter
  <2>2. /\ m_writing' = TRUE /\ writes' = 1 /\ inflight' = out /\ m_outgoing' = {}
    BY <1>2, <2>1 DEF WriteIfNeeded, StartWrite
  <2>3. QED
    BY <1>2, <2>1, <2>2
<1>3. QED
  BY <1>1, <1>2

\* The three ways a command ends: with nothing but data queued and the client
\* where it was, playing or gone; kicked; or cut short.
Ordinary(s, out) ==
  /\ "kick" \in out => "kick" \in m_outgoing
  /\ \/ s = m_state
     \/ m_state = "CONNECTED" /\ s = "PLAYING"
     \/ m_state = "PLAYING" /\ s = "DISCONNECTED"
  /\ UNCHANGED <<raced, split>>
KickedNow(s, out) ==
  /\ m_state \in {"CONNECTED", "PLAYING"} /\ s = "DISCONNECTING"
  /\ raced' = m_writing
  /\ UNCHANGED split
CutShort(s, out) ==
  /\ m_state \in {"CONNECTED", "PLAYING"} /\ s = m_state /\ out = m_outgoing
  /\ split' = TRUE
  /\ UNCHANGED raced

\* The end of handleRead keeps the invariant, whichever way its command ended.
LEMMA FinishKeeps ==
  ASSUME IInv, up, inHandler,
         NEW s \in State, NEW out \in SUBSET Kind, NEW issued \in {0, 1},
         m_outgoing \subseteq out,
         Finish(s, out, issued),
         \/ issued = 0 /\ Ordinary(s, out)
         \/ issued = 0 /\ KickedNow(s, out) /\ "kick" \in out
         \/ CutShort(s, out)
  PROVE  IInv'
<1> USE DEF IInv, TypeOK
<1>1. /\ m_state' = s /\ UNCHANGED <<erased, sent, up>>
      /\ m_state # "LISTENING" /\ s # "LISTENING"
  BY DEF Finish, Ordinary, KickedNow, CutShort, Untouched
<1>2. /\ m_incoming' \in 0..(m_incoming - 1)
      /\ \/ s # "DISCONNECTING" /\ inHandler' /\ reads' = reads + issued
         \/ s # "DISCONNECTING" /\ ~inHandler' /\ reads' = reads + issued + 1
         \/ s = "DISCONNECTING" /\ ~inHandler' /\ reads' = reads + issued
      /\ inHandler' \in BOOLEAN
  <2>1. PICK left \in Left :
          /\ m_incoming' = left
          /\ inHandler' = (GoesOn(s) /\ left > 0)
          /\ reads' = reads + issued + ReadAgain(s, left)
    BY DEF Finish
  <2>2. left \in 0..(m_incoming - 1)
    BY DEF Left
  <2>3. CASE GoesOn(s) /\ left > 0
    <3>1. inHandler' = TRUE
      BY <2>1, <2>3, Zenon
    <3>2. reads' = reads + issued
      BY <2>1, <2>2, <2>3 DEF ReadAgain
    <3>3. QED
      BY <2>1, <2>2, <2>3, <3>1, <3>2 DEF GoesOn
  <2>4. CASE GoesOn(s) /\ ~(left > 0)
    <3>1. inHandler' = FALSE
      BY <2>1, <2>4, Zenon
    <3>2. reads' = reads + issued + 1
      BY <2>1, <2>2, <2>4 DEF ReadAgain
    <3>3. QED
      BY <2>1, <2>2, <2>4, <3>1, <3>2 DEF GoesOn
  <2>5. CASE ~GoesOn(s)
    <3>1. inHandler' = FALSE
      BY <2>1, <2>5, Zenon
    <3>2. reads' = reads + issued
      BY <2>1, <2>2, <2>5 DEF ReadAgain
    <3>3. QED
      BY <2>1, <2>2, <2>5, <3>1, <3>2 DEF GoesOn
  <2>6. QED
    BY <2>3, <2>4, <2>5
<1>3. \/ /\ m_writing \/ out = {}
         /\ m_outgoing' = out /\ m_writing' = m_writing /\ writes' = writes
         /\ inflight' = inflight
      \/ /\ ~m_writing /\ writes = 0
         /\ m_writing' = TRUE /\ writes' = 1
         /\ inflight' = out /\ m_outgoing' = {}
  BY WriteFacts DEF Finish
<1>4. raced' \in BOOLEAN /\ split' \in BOOLEAN
  BY DEF Ordinary, KickedNow, CutShort
<1>5. m_incoming' \in 0..MaxBytes
  BY <1>2, ConnectionAssumption
<1>6. reads' \in Nat
  BY <1>2
<1>7. m_writing' \in BOOLEAN
  BY <1>3, Zenon
<1>8. writes' \in Nat /\ m_outgoing' \subseteq Kind /\ inflight' \subseteq Kind
  BY <1>3
<1>9. TypeOK'
  BY <1>1, <1>2, <1>4, <1>5, <1>6, <1>7, <1>8
<1>10. SingleWriter' /\ WriterKnown'
  <2>1. m_state = "DISCONNECTED" => s = "DISCONNECTED"
    BY DEF Ordinary, KickedNow, CutShort
  <2>2. QED
    BY <1>1, <1>3, <2>1 DEF SingleWriter, WriterKnown
<1>11. Untouched' /\ ErasedLate'
  <2>1. erased => s = "DISCONNECTED"
    BY DEF ErasedLate, Ordinary, KickedNow, CutShort
  <2>2. QED
    BY <1>1, <2>1 DEF Untouched, ErasedLate
<1>12. Draining'
  <2>1. CASE KickedNow(s, out) /\ "kick" \in out
    <3>1. m_writing => writes = 1
      BY <2>1 DEF KickedNow, SingleWriter, WriterKnown
    <3>2. QED
      BY <1>3, <2>1, <3>1 DEF Draining
  <2>2. CASE Ordinary(s, out) \/ CutShort(s, out)
    <3>1. s = "DISCONNECTING" => writes = 1 /\ m_writing
      BY <2>2 DEF Ordinary, CutShort, Draining, SingleWriter
    <3>2. QED
      BY <1>1, <1>3, <3>1 DEF Draining
  <2>3. QED
    BY <2>1, <2>2
<1>13. OneReader'
  <2>1. ASSUME ~split' PROVE reads = 0 /\ issued = 0
    BY <2>1 DEF OneReader, Ordinary, KickedNow, CutShort
  <2>2. ASSUME ~split' PROVE reads' + (IF inHandler' THEN 1 ELSE 0) <= 1
    BY <1>2, <2>1, <2>2
  <2>3. ASSUME s \in {"CONNECTED", "PLAYING"} PROVE reads' >= 1 \/ inHandler'
    BY <1>2, <2>3
  <2>4. QED
    BY <1>1, <2>2, <2>3 DEF OneReader
<1>14. KickState' /\ KickRaced'
  <2>1. CASE KickedNow(s, out) /\ "kick" \in out
    <3>1. m_state' = "DISCONNECTING"
      BY <1>1, <2>1 DEF KickedNow
    <3>2. ~split' => reads' = 0 /\ ~inHandler'
      BY <1>1, <1>2, <2>1 DEF KickedNow, Ordinary, CutShort, OneReader
    <3>3. "kick" \in m_outgoing' => raced'
      BY <1>3, <2>1 DEF KickedNow
    <3>4. QED
      BY <3>1, <3>2, <3>3 DEF KickState, KickRaced
  <2>2. CASE Ordinary(s, out) \/ CutShort(s, out)
    <3>1. Kicked' => Kicked
      BY <1>1, <1>3, <2>2 DEF Ordinary, CutShort, Kicked
    <3>2. Kicked => split /\ s = m_state
      BY <2>2 DEF KickState, Ordinary, CutShort
    <3>3. Kicked => split'
      BY <2>2, <3>2 DEF Ordinary, CutShort
    <3>4. "kick" \in m_outgoing' => "kick" \in m_outgoing
      BY <1>3, <2>2 DEF Ordinary, CutShort
    <3>5. KickState'
      BY <1>1, <3>1, <3>2, <3>3 DEF KickState
    <3>6. KickRaced'
      BY <2>2, <3>4 DEF KickRaced, Ordinary, CutShort
    <3>7. QED
      BY <3>5, <3>6
  <2>3. QED
    BY <2>1, <2>2
<1>15. QED
  BY <1>9, <1>10, <1>11, <1>12, <1>13, <1>14

\* A command, handled to its end, cut short or ending the process.
LEMMA CommandKeeps == ASSUME IInv, HandleCommand PROVE IInv'
<1> USE DEF IInv, TypeOK
<1>1. up /\ inHandler /\ m_state \in State
  BY DEF HandleCommand, HandleLogin, HandleAnswered, HandleSilent, HandleQuit, HandleIgnored,
         HandleDisconnect, HandleSplit, HandleThrows, Dispatching
<1>2. ASSUME NEW s \in State, NEW queued \in SUBSET {"data"}, Handled(s, queued),
             \/ s = m_state
             \/ m_state = "CONNECTED" /\ s = "PLAYING"
             \/ m_state = "PLAYING" /\ s = "DISCONNECTED"
      PROVE  IInv'
  <2>1. m_outgoing \cup queued \in SUBSET Kind
    BY DEF Kind
  <2>2. Ordinary(s, m_outgoing \cup queued)
    BY <1>2 DEF Ordinary, Handled
  <2>3. Finish(s, m_outgoing \cup queued, 0)
    BY <1>2 DEF Handled
  <2>4. QED
    BY <1>1, <2>1, <2>2, <2>3, FinishKeeps
<1>3. CASE HandleLogin
  BY <1>2, <1>3 DEF HandleLogin, Dispatching, State
<1>4. CASE HandleAnswered
  BY <1>1, <1>2, <1>4 DEF HandleAnswered
<1>5. CASE HandleSilent \/ HandleIgnored
  BY <1>1, <1>2, <1>5 DEF HandleSilent, HandleIgnored
<1>6. CASE HandleQuit
  BY <1>2, <1>6 DEF HandleQuit, Dispatching, State
<1>7. CASE HandleDisconnect
  <2>1. m_outgoing \cup {"kick"} \in SUBSET Kind
    BY DEF Kind
  <2>2. KickedNow("DISCONNECTING", m_outgoing \cup {"kick"})
    BY <1>7 DEF HandleDisconnect, KickedNow, Dispatching
  <2>3. Finish("DISCONNECTING", m_outgoing \cup {"kick"}, 0) /\ "DISCONNECTING" \in State
    BY <1>7 DEF HandleDisconnect, State
  <2>4. QED
    BY <1>1, <2>1, <2>2, <2>3, FinishKeeps
<1>8. CASE HandleSplit
  <2>1. CutShort(m_state, m_outgoing) /\ Finish(m_state, m_outgoing, 1)
    BY <1>8 DEF HandleSplit, CutShort, Dispatching
  <2>2. QED
    BY <1>1, <2>1, FinishKeeps
<1>9. CASE HandleThrows
  <2>1. up' = FALSE
    BY <1>9 DEF HandleThrows
  <2>2. UNCHANGED <<m_state, erased, readVars, writeVars, raced, split>>
    BY <1>9 DEF HandleThrows
  <2>3. TypeOK'
    BY <2>1, <2>2, Zenon DEF readVars, writeVars
  <2>4. QED
    BY <2>2, <2>3 DEF readVars, writeVars, SingleWriter, Untouched, WriterKnown, Draining,
         OneReader, KickState, KickRaced, ErasedLate, Kicked
<1>10. QED
  BY <1>3, <1>4, <1>5, <1>6, <1>7, <1>8, <1>9 DEF HandleCommand

\* A read completes, with data or with an error, or the client is accepted.
LEMMA ReadKeeps == ASSUME IInv, Accept \/ ReadDone \/ ReadFails PROVE IInv'
<1> USE DEF IInv, TypeOK, Idle
<1>1. CASE Accept
  <2>1. /\ m_state' = "CONNECTED" /\ m_state = "LISTENING" /\ reads' = 1
        /\ UNCHANGED <<erased, m_incoming, inHandler, m_writing, writes, m_outgoing, inflight,
                       sent, raced, split, up>>
    BY <1>1 DEF Accept, Untouched, writeVars
  <2>2. TypeOK'
    BY <2>1 DEF State
  <2>3. QED
    BY <2>1, <2>2 DEF SingleWriter, Untouched, WriterKnown, Draining, OneReader, KickState,
         KickRaced, ErasedLate, Kicked
<1>2. CASE ReadDone
  <2>1. /\ ~inHandler /\ reads > 0 /\ reads' = reads - 1 /\ inHandler' = TRUE
        /\ UNCHANGED <<m_state, erased, m_writing, writes, m_outgoing, inflight, sent, raced,
                       split, up>>
    BY <1>2 DEF ReadDone, writeVars
  <2>2. m_incoming' \in 0..MaxBytes
    BY <1>2, ConnectionAssumption DEF ReadDone
  <2>3. TypeOK'
    BY <2>1, <2>2
  <2>4. QED
    BY <2>1, <2>3 DEF SingleWriter, Untouched, WriterKnown, Draining, OneReader, KickState,
         KickRaced, ErasedLate, Kicked
<1>3. CASE ReadFails
  <2>1. /\ m_state' = "DISCONNECTED" /\ reads > 0 /\ reads' = reads - 1
        /\ UNCHANGED <<erased, m_incoming, inHandler, m_writing, writes, m_outgoing, inflight,
                       sent, raced, split, up>>
    BY <1>3 DEF ReadFails, writeVars
  <2>2. TypeOK'
    BY <2>1 DEF State
  <2>3. QED
    BY <2>1, <2>2 DEF SingleWriter, Untouched, WriterKnown, Draining, OneReader, KickState,
         KickRaced, ErasedLate, Kicked
<1>4. QED
  BY <1>1, <1>2, <1>3

\* A write completes, with an error or without one.
LEMMA WriteKeeps == ASSUME IInv, HandleWrite PROVE IInv'
<1> USE DEF IInv, TypeOK, Idle
<1>1. CASE WriteDone
  <2>1. /\ ~inHandler /\ writes = 1 /\ m_writing
        /\ UNCHANGED <<erased, m_incoming, inHandler, reads, raced, split, up>>
        /\ sent' = sent \cup inflight
        /\ m_state' = AfterWrite
    BY <1>1 DEF WriteDone, readVars, SingleWriter
  <2>2. CASE m_state # "DISCONNECTING" /\ m_outgoing # {}
    <3>1. /\ inflight' = m_outgoing /\ m_outgoing' = {} /\ UNCHANGED <<m_writing, writes>>
          /\ m_state' = m_state
      BY <1>1, <2>1, <2>2 DEF WriteDone, AfterWrite
    <3>2. TypeOK'
      BY <2>1, <3>1
    <3>3. Kicked' => Kicked
      BY <2>1, <3>1 DEF Kicked
    <3>4. QED
      BY <2>1, <3>1, <3>2, <3>3 DEF SingleWriter, Untouched, WriterKnown, Draining, OneReader,
           KickState, KickRaced, ErasedLate, Kicked
  <2>3. CASE ~(m_state # "DISCONNECTING" /\ m_outgoing # {})
    <3>0. /\ m_writing' = FALSE /\ writes' = writes - 1 /\ inflight' = {}
          /\ m_outgoing' = m_outgoing
      BY <1>1, <2>3, Zenon DEF WriteDone
    <3>1. /\ m_writing' = FALSE /\ writes' = 0 /\ inflight' = {} /\ m_outgoing' = m_outgoing
      BY <2>1, <3>0
    <3>2. m_state' = "DISCONNECTED" \/ (m_state' = m_state /\ m_state # "DISCONNECTING")
      BY <2>1 DEF AfterWrite
    <3>3. m_state = "DISCONNECTING" => m_state' = "DISCONNECTED"
      BY <2>1 DEF AfterWrite
    <3>4. TypeOK'
      BY <2>1, <3>1, <3>2 DEF State
    <3>5. Kicked' => Kicked
      BY <2>1, <3>1 DEF Kicked
    <3>6. QED
      BY <2>1, <3>1, <3>2, <3>3, <3>4, <3>5 DEF SingleWriter, Untouched, WriterKnown, Draining,
           OneReader, KickState, KickRaced, ErasedLate
  <2>4. QED
    BY <2>2, <2>3
<1>2. CASE WriteFails
  <2>1. /\ m_state' = "DISCONNECTED" /\ writes = 1 /\ writes' = 0
        /\ UNCHANGED <<erased, m_incoming, inHandler, reads, m_writing, m_outgoing, inflight,
                       sent, raced, split, up>>
    BY <1>2 DEF WriteFails, readVars, SingleWriter
  <2>2. TypeOK'
    BY <2>1 DEF State
  <2>3. QED
    BY <2>1, <2>2 DEF SingleWriter, Untouched, WriterKnown, Draining, OneReader, KickState,
         KickRaced, ErasedLate, Kicked
<1>3. QED
  BY <1>1, <1>2 DEF HandleWrite

\* Others queue packets, the server erases the client, or an operation
\* completes on the destroyed object.
LEMMA OthersKeep == ASSUME IInv, Deliver \/ Erase \/ DanglingCompletion PROVE IInv'
<1> USE DEF IInv, TypeOK, Idle
<1>1. CASE Deliver
  <2>1. /\ m_state = "PLAYING" /\ m_outgoing' = m_outgoing \cup {"data"}
        /\ UNCHANGED <<m_state, erased, m_incoming, inHandler, reads, m_writing, writes,
                       inflight, sent, raced, split, up>>
    BY <1>1 DEF Deliver, DeliverTo, readVars
  <2>2. TypeOK'
    BY <2>1 DEF Kind
  <2>3. ~Kicked /\ ~Kicked'
    BY <2>1 DEF Kicked, KickState
  <2>4. "kick" \notin m_outgoing'
    BY <2>3 DEF Kicked
  <2>5. SingleWriter' /\ Untouched' /\ WriterKnown' /\ Draining'
    BY <2>1 DEF SingleWriter, Untouched, WriterKnown, Draining
  <2>6. OneReader' /\ KickState' /\ KickRaced' /\ ErasedLate'
    BY <2>1, <2>3, <2>4 DEF OneReader, KickState, KickRaced, ErasedLate
  <2>7. QED
    BY <2>2, <2>5, <2>6
<1>2. CASE Erase
  <2>1. /\ m_state = "DISCONNECTED" /\ erased' = TRUE
        /\ UNCHANGED <<m_state, m_incoming, inHandler, reads, m_writing, writes, m_outgoing,
                       inflight, sent, raced, split, up>>
    BY <1>2 DEF Erase, readVars, writeVars
  <2>2. TypeOK'
    BY <2>1
  <2>3. QED
    BY <2>1, <2>2 DEF SingleWriter, Untouched, WriterKnown, Draining, OneReader, KickState,
         KickRaced, ErasedLate, Kicked
<1>3. CASE DanglingCompletion
  <2>1. /\ erased /\ up' \in BOOLEAN
        /\ UNCHANGED <<m_state, erased, m_incoming, inHandler, m_writing, m_outgoing, inflight,
                       sent, raced, split>>
        /\ \/ reads > 0 /\ reads' = reads - 1 /\ writes' = writes
           \/ writes > 0 /\ writes' = writes - 1 /\ reads' = reads
    BY <1>3 DEF DanglingCompletion
  <2>2. m_state = "DISCONNECTED"
    BY <2>1 DEF ErasedLate
  <2>3. TypeOK'
    BY <2>1
  <2>4. SingleWriter' /\ Untouched' /\ WriterKnown' /\ Draining'
    BY <2>1, <2>2 DEF SingleWriter, Untouched, WriterKnown, Draining
  <2>5. OneReader' /\ ErasedLate'
    BY <2>1, <2>2 DEF OneReader, ErasedLate
  <2>6. Kicked' = Kicked
    BY <2>1 DEF Kicked
  <2>7. KickState' /\ KickRaced'
    BY <2>1, <2>2, <2>6 DEF KickState, KickRaced
  <2>8. QED
    BY <2>3, <2>4, <2>5, <2>7
<1>4. QED
  BY <1>1, <1>2, <1>3

\* Every step keeps the inductive invariant.
LEMMA InvStep == IInv /\ [Next]_vars => IInv'
<1> SUFFICES ASSUME IInv, [Next]_vars PROVE IInv'
  OBVIOUS
<1>1. CASE Next
  BY <1>1, CommandKeeps, ReadKeeps, WriteKeeps, OthersKeep DEF Next
<1>2. CASE UNCHANGED vars
  BY <1>2 DEF vars, readVars, writeVars, IInv, TypeOK, SingleWriter, Untouched, WriterKnown,
       Draining, OneReader, KickState, KickRaced, ErasedLate, Kicked
<1>3. QED
  BY <1>1, <1>2

\* The inductive invariant holds in every reachable state.
THEOREM Invariant == Spec => []IInv
BY InvInit, InvStep, PTL DEF Spec

-----------------------------------------------------------------------------
\* The variables of Connection always have their types.
THEOREM TypeCorrect == Spec => []TypeOK
<1>1. IInv => TypeOK
  BY DEF IInv
<1>2. QED
  BY <1>1, Invariant, PTL

\* There is never a second async_write on a socket (writeIfNeeded, handleWrite).
THEOREM OneWriteAtATime == Spec => []SingleWriter
<1>1. IInv => SingleWriter
  BY DEF IInv
<1>2. QED
  BY <1>1, Invariant, PTL

\* There is one async_read at a time as long as no packet is cut short (read,
\* handleRead).
THEOREM OneReadAtATime == Spec => []SingleReader
<1>1. IInv => SingleReader
  BY DEF IInv, TypeOK, OneReader, SingleReader
<1>2. QED
  BY <1>1, Invariant, PTL

\* The server always listens to a client that is CONNECTED or PLAYING.
THEOREM AlwaysListening == Spec => []NeverDeaf
<1>1. IInv => NeverDeaf
  BY DEF IInv, OneReader, NeverDeaf, Idle
<1>2. QED
  BY <1>1, Invariant, PTL

\* A client in DISCONNECTING has the write in flight that will end it.
THEOREM KickIsCarried == Spec => []KickHasWriter
<1>1. IInv => KickHasWriter
  BY DEF IInv, Draining, KickHasWriter
<1>2. QED
  BY <1>1, Invariant, PTL

\* A kick that is given up unsent was queued while another write was in flight.
THEOREM LostKickRaced == Spec => []KickFlushed
<1>1. IInv => KickFlushed
  BY DEF IInv, KickRaced, KickFlushed
<1>2. QED
  BY <1>1, Invariant, PTL

\* A kicked client that sent whole packets leaves no operation on its socket.
THEOREM CleanKick == Spec => []KickedLeavesNothing
<1>1. IInv => KickedLeavesNothing
  BY DEF IInv, KickState, ErasedLate, Kicked, KickedLeavesNothing
<1>2. QED
  BY <1>1, Invariant, PTL

\* Nothing is queued behind a kick.
THEOREM KickEndsTheStream == Spec => KickIsLast
<1>1. IInv /\ [Next]_vars => [Kicked => m_outgoing' \subseteq m_outgoing]_vars
  <2> SUFFICES ASSUME IInv, Next, Kicked PROVE m_outgoing' \subseteq m_outgoing
    BY DEF vars
  <2>1. m_state \in {"DISCONNECTING", "DISCONNECTED"}
    BY DEF IInv, KickState
  <2>2. ASSUME NEW s, NEW issued, Finish(s, m_outgoing, issued)
        PROVE  m_outgoing' \subseteq m_outgoing
    BY <2>2 DEF Finish, WriteIfNeeded, LeaveQueued, StartWrite
  <2>3. CASE HandleCommand
    <3>1. ~Dispatching({"CONNECTED"}) /\ ~Dispatching({"PLAYING"})
            /\ ~Dispatching({"CONNECTED", "PLAYING"})
      BY <2>1 DEF Dispatching
    <3>2. HandleIgnored
      BY <2>3, <3>1 DEF HandleCommand, HandleLogin, HandleAnswered, HandleSilent, HandleQuit,
           HandleDisconnect, HandleSplit, HandleThrows
    <3>3. Finish(m_state, m_outgoing \cup {}, 0)
      BY <3>2 DEF HandleIgnored, Handled
    <3>4. m_outgoing \cup {} = m_outgoing
      OBVIOUS
    <3>5. QED
      BY <2>2, <3>3, <3>4
  <2>4. CASE HandleWrite
    <3>1. CASE WriteDone
      BY <3>1 DEF WriteDone
    <3>2. CASE WriteFails
      BY <3>2 DEF WriteFails
    <3>3. QED
      BY <2>4, <3>1, <3>2 DEF HandleWrite
  <2>5. CASE Accept \/ ReadDone \/ ReadFails \/ Erase
    BY <2>5 DEF Accept, ReadDone, ReadFails, Erase, writeVars
  <2>6. CASE Deliver \/ DanglingCompletion
    BY <2>1, <2>6 DEF Deliver, DeliverTo, DanglingCompletion
  <2>7. QED
    BY <2>3, <2>4, <2>5, <2>6 DEF Next
<1>2. QED
  BY <1>1, Invariant, PTL DEF Spec, KickIsLast, Kicked

-----------------------------------------------------------------------------
\* The phase of the session that Connection implements.
Phase == IF erased THEN "ERASED" ELSE m_state

\* A step of the session that takes it from one of the phases in from to phase
\* to, in a process that goes on.
LEMMA AdvanceStep ==
  ASSUME NEW from, NEW to, up, up' = up, Phase \in from, Phase' = to
  PROVE  AbstractSession!Advance(from, to)
BY DEF AbstractSession!Advance, Phase

\* A command advances the session of a client that had not been erased.
LEMMA CommandSession ==
  ASSUME IInv, IInv', HandleCommand
  PROVE  [AbstractSession!Next]_(AbstractSession!vars)
<1> USE DEF AbstractSession!Next, AbstractSession!vars
<1>1. ASSUME NEW s, NEW out, NEW issued, Finish(s, out, issued)
      PROVE  m_state' = s /\ erased' = erased /\ up' = up
  BY <1>1 DEF Finish
<1>2. CASE HandleAnswered \/ HandleSilent \/ HandleIgnored \/ HandleSplit
  BY <1>1, <1>2 DEF HandleAnswered, HandleSilent, HandleIgnored, HandleSplit, Handled
<1>3. ASSUME m_state \in {"CONNECTED", "PLAYING"} PROVE Phase = m_state /\ ~erased
  BY <1>3 DEF IInv, ErasedLate, Phase
<1>4. CASE HandleLogin
  <2>1. m_state' = "PLAYING" /\ erased' = erased /\ up' = up
    BY <1>1, <1>4 DEF HandleLogin, Handled
  <2>2. up /\ m_state \in {"CONNECTED"}
    BY <1>4 DEF HandleLogin, Dispatching
  <2>3. ~erased
    BY <1>3, <2>2
  <2>4. Phase \in {"CONNECTED"} /\ Phase' = "PLAYING"
    BY <2>1, <2>2, <2>3 DEF Phase
  <2>5. QED
    BY <2>1, <2>2, <2>4, AdvanceStep DEF AbstractSession!Login
<1>5. CASE HandleQuit
  <2>1. m_state' = "DISCONNECTED" /\ erased' = erased /\ up' = up
    BY <1>1, <1>5 DEF HandleQuit, Handled
  <2>2. up /\ m_state \in {"PLAYING"}
    BY <1>5 DEF HandleQuit, Dispatching
  <2>3. ~erased
    BY <1>3, <2>2
  <2>4. Phase \in {"PLAYING"} /\ Phase' = "DISCONNECTED"
    BY <2>1, <2>2, <2>3 DEF Phase
  <2>5. QED
    BY <2>1, <2>2, <2>4, AdvanceStep DEF AbstractSession!Drop
<1>6. CASE HandleDisconnect
  <2>1. m_state' = "DISCONNECTING" /\ erased' = erased /\ up' = up
    BY <1>1, <1>6 DEF HandleDisconnect
  <2>2. up /\ m_state \in {"CONNECTED", "PLAYING"}
    BY <1>6 DEF HandleDisconnect, Dispatching
  <2>3. ~erased
    BY <1>3, <2>2
  <2>4. Phase \in {"CONNECTED", "PLAYING"} /\ Phase' = "DISCONNECTING"
    BY <2>1, <2>2, <2>3 DEF Phase
  <2>5. QED
    BY <2>1, <2>2, <2>4, AdvanceStep DEF AbstractSession!Disconnect
<1>7. CASE HandleThrows
  <2>1. up /\ up' = FALSE /\ m_state' = m_state /\ erased' = erased
    BY <1>7 DEF HandleThrows, Dispatching
  <2>2. QED
    BY <2>1 DEF AbstractSession!Halt
<1>8. QED
  BY <1>2, <1>4, <1>5, <1>6, <1>7 DEF HandleCommand

\* Every step of the connection is a step of the session or leaves it alone.
LEMMA SessionStep ==
  IInv /\ IInv' /\ [Next]_vars => [AbstractSession!Next]_(AbstractSession!vars)
<1> SUFFICES ASSUME IInv, IInv', [Next]_vars
             PROVE  [AbstractSession!Next]_(AbstractSession!vars)
  OBVIOUS
<1> USE DEF AbstractSession!Next, AbstractSession!vars
<1>1. CASE HandleCommand
  BY <1>1, CommandSession
<1>2. CASE Accept
  <2>1. up /\ up' = up /\ Phase \in {"LISTENING"} /\ Phase' = "CONNECTED"
    BY <1>2 DEF Accept, Idle, Phase
  <2>2. QED
    BY <2>1, AdvanceStep DEF AbstractSession!Accept
<1>3. CASE ReadDone \/ Deliver
  BY <1>3 DEF ReadDone, Deliver
<1>4. ASSUME up, up' = up, ~erased, erased' = erased, m_state # "LISTENING",
             m_state' = "DISCONNECTED"
      PROVE  [AbstractSession!Next]_(AbstractSession!vars)
  <2>1. CASE m_state = "DISCONNECTED"
    BY <1>4, <2>1
  <2>2. CASE m_state # "DISCONNECTED"
    <3>1. Phase \in {"CONNECTED", "PLAYING", "DISCONNECTING"} /\ Phase' = "DISCONNECTED"
      BY <1>4, <2>2 DEF IInv, TypeOK, State, Phase
    <3>2. QED
      BY <1>4, <3>1, AdvanceStep DEF AbstractSession!Drop
  <2>3. QED
    BY <2>1, <2>2
<1>5. CASE ReadFails
  <2>1. /\ up /\ up' = up /\ ~erased /\ erased' = erased /\ m_state # "LISTENING"
        /\ m_state' = "DISCONNECTED"
    BY <1>5 DEF ReadFails, Idle, IInv, Untouched
  <2>2. QED
    BY <1>4, <2>1
<1>6. CASE WriteFails
  <2>1. /\ up /\ up' = up /\ ~erased /\ erased' = erased /\ m_state # "LISTENING"
        /\ m_state' = "DISCONNECTED"
    BY <1>6 DEF WriteFails, Idle, IInv, Untouched
  <2>2. QED
    BY <1>4, <2>1
<1>7. CASE WriteDone
  <2>1. up /\ up' = up /\ ~erased /\ erased' = erased /\ m_state # "LISTENING"
    BY <1>7 DEF WriteDone, Idle, IInv, Untouched
  <2>2. CASE m_state = "DISCONNECTING"
    <3>1. m_state' = "DISCONNECTED"
      BY <1>7, <2>2 DEF WriteDone, AfterWrite
    <3>2. QED
      BY <1>4, <2>1, <3>1
  <2>3. CASE m_state # "DISCONNECTING"
    BY <1>7, <2>1, <2>3 DEF WriteDone, AfterWrite
  <2>4. QED
    BY <2>2, <2>3
<1>8. CASE Erase
  <2>1. up /\ up' = up /\ Phase \in {"DISCONNECTED"} /\ Phase' = "ERASED"
    BY <1>8 DEF Erase, Idle, Phase
  <2>2. up' \in BOOLEAN
    BY <2>1 DEF IInv, TypeOK
  <2>3. QED
    BY <2>1, <2>2 DEF AbstractSession!Erase, Phase
<1>9. CASE DanglingCompletion
  <2>1. up /\ up' \in BOOLEAN /\ m_state' = m_state /\ erased' = erased
    BY <1>9 DEF DanglingCompletion
  <2>2. CASE up' = FALSE
    BY <2>1, <2>2 DEF AbstractSession!Halt
  <2>3. CASE up' = TRUE
    BY <1>9, <2>1, <2>3 DEF IInv, TypeOK
  <2>4. QED
    BY <2>1, <2>2, <2>3
<1>10. CASE UNCHANGED vars
  BY <1>10 DEF vars
<1>11. QED
  BY <1>1, <1>2, <1>3, <1>5, <1>6, <1>7, <1>8, <1>9, <1>10 DEF Next, HandleWrite

\* What a connection does is a session: the safety part of SessionSpec, the
\* order in which Client::State and the erasing of the client advance.
THEOREM ImplementsSession == Spec => AbstractSession!SafeSpec
<1>1. Init => AbstractSession!Init
  BY DEF Init, AbstractSession!Init
<1>2. QED
  BY <1>1, SessionStep, Invariant, PTL DEF Spec, AbstractSession!SafeSpec
=============================================================================
