--------------------------- MODULE MainLoopProofs ---------------------------
(***************************************************************************)
(* Module MainLoop for every frame duration: the pace of the frames, and   *)
(* why the loop is left.                                                   *)
(***************************************************************************)
EXTENDS MainLoop, TLAPS

\* The clock of a frame: what has passed and what is left make a duration.
Clock == pc \in {"poll", "tick", "sleep"} => since = Duration \/ since + due = Duration

\* A frame that is over has lasted a duration, unless a signal cut it short.
Waited == pc \in {"start", "test"} => since = Duration \/ ~keepGoing

\* keepGoing is cleared by the signal handler only.
Cleared == (~keepGoing => signalled) /\ (pc = "stopped" => ~keepGoing)

\* The inductive invariant.
IInv == TypeOK /\ Clock /\ Waited /\ Cleared

\* The loop has not been entered.
LEMMA InvInit == Init => IInv
<1> SUFFICES ASSUME Init PROVE IInv
  OBVIOUS
<1>1. due \in (-MaxLate)..Duration /\ since \in 0..Duration
  BY MainLoopAssumption DEF Init
<1>0. ready \in 0..MaxReady
  BY MainLoopAssumption DEF Init
<1>2. TypeOK
  BY <1>0, <1>1, Zenon DEF Init, TypeOK
<1>3. Clock /\ Waited /\ Cleared
  BY DEF Init, Clock, Waited, Cleared
<1>4. QED
  BY <1>2, <1>3 DEF IInv

\* Every step of the loop, the handler and the clock keeps the invariant.
LEMMA InvStep == IInv /\ [Next]_vars => IInv'
<1> SUFFICES ASSUME IInv, [Next]_vars PROVE IInv'
  OBVIOUS
<1> USE MainLoopAssumption DEF IInv, TypeOK, Ended
<1>1. CASE Start
  <2>1. /\ pc' \in {"test", "failed"} /\ daemonized' \in BOOLEAN
        /\ UNCHANGED <<keepGoing, ready, due, since, signalled>>
    BY <1>1 DEF Start
  <2>2. since = Duration \/ ~keepGoing
    BY <1>1 DEF Start, Waited
  <2>3. QED
    BY <2>1, <2>2 DEF Clock, Waited, Cleared
<1>2. CASE Test
  BY <1>2 DEF Test, NextDue, Clock, Waited, Cleared
<1>3. CASE Poll
  BY <1>3 DEF Poll, Clock, Waited, Cleared
<1>4. CASE Tick
  BY <1>4 DEF Tick, TickReturns, Clock, Waited, Cleared
<1>5. CASE Sleep
  BY <1>5 DEF Sleep, SleepOver, AfterSleep, Clock, Waited, Cleared
<1>6. CASE Term
  <2>1. UNCHANGED <<ready, daemonized, due, since>> /\ pc \notin Ended
    BY <1>6 DEF Term
  <2>2. CASE pc' = "killed" /\ UNCHANGED <<keepGoing, signalled>>
    BY <2>1, <2>2 DEF Clock, Waited, Cleared
  <2>3. CASE /\ keepGoing' = FALSE /\ signalled' = TRUE
             /\ pc' = pc \/ (pc = "sleep" /\ pc' = "test")
    BY <2>1, <2>3 DEF Clock, Waited, Cleared
  <2>4. QED
    BY <1>6, <2>2, <2>3 DEF Term
<1>7. CASE Pass
  BY <1>7 DEF Pass, Clock, Waited, Cleared
<1>10. CASE Complete
  BY <1>10 DEF Complete, Clock, Waited, Cleared
<1>8. CASE UNCHANGED vars
  BY <1>8 DEF vars, Clock, Waited, Cleared
<1>9. QED
  BY <1>1, <1>2, <1>3, <1>4, <1>5, <1>6, <1>7, <1>8, <1>10 DEF Next, Main

\* The inductive invariant holds in every reachable state.
THEOREM Invariant == Spec => []IInv
BY InvInit, InvStep, PTL DEF Spec

\* The variables of MainLoop always have their types: nextFrame is never more
\* than one duration ahead.
THEOREM TypeCorrect == Spec => []TypeOK
<1>1. IInv => TypeOK
  BY DEF IInv
<1>2. QED
  BY <1>1, Invariant, PTL

\* Whatever TICK_DURATION is, two frames are never closer than that.
THEOREM Pace == Spec => FrameSpacing
<1>1. IInv /\ [Next]_vars => [(pc = "test" /\ pc' = "poll") => since = Duration]_vars
  <2> SUFFICES ASSUME IInv, Next, pc = "test", pc' = "poll" PROVE since = Duration
    BY DEF vars
  <2>1. keepGoing
    BY DEF Next, Main, Start, Test, Poll, Tick, Sleep, Complete, Term, Pass, Ended
  <2>2. QED
    BY <2>1 DEF IInv, Waited
<1>2. QED
  BY <1>1, Invariant, PTL DEF Spec, FrameSpacing

\* The loop is left by its test only after a signal.
THEOREM StoppedBySignal == Spec => []NoSpuriousStop
<1>1. IInv => NoSpuriousStop
  BY DEF IInv, Cleared, NoSpuriousStop
<1>2. QED
  BY <1>1, Invariant, PTL
=============================================================================
