------------------------------ MODULE MainLoop ------------------------------
(***************************************************************************)
(* main() of main.cpp: the frame loop around io_service::poll() and        *)
(* Server::tick(), its pace, and the SIGTERM handler that is to stop it.   *)
(*                                                                         *)
(* Time is counted from the current frame: due is what is left until       *)
(* nextFrame and since what has passed since the frame began.  The signal  *)
(* arrives between any two steps; the handler's store and the loop's own   *)
(* stores to keepGoing are the steps, each of them indivisible.            *)
(***************************************************************************)
EXTENDS Integers

CONSTANTS Duration,   \* TICK_DURATION, in whatever unit time passes
          MaxLate,    \* bound: how far behind nextFrame the clock is followed
          MaxReady    \* bound: completions waiting for a handler

ASSUME MainLoopAssumption ==
  Duration \in Nat \ {0} /\ MaxLate \in Nat /\ MaxReady \in Nat

VARIABLES
  pc,          \* where main() is; the last three are ways to end
  keepGoing,   \* the global of that name
  ready,       \* operations of the sockets completed, whose handlers have not run
  daemonized,  \* the SIGTERM handler is installed
  due,         \* nextFrame minus now
  since,       \* now minus the start of the frame, up to Duration
  signalled    \* history: the handler has run

vars == <<pc, keepGoing, ready, daemonized, due, since, signalled>>

Ended == {"stopped", "failed", "killed"}

TypeOK ==
  /\ pc \in {"start", "test", "poll", "tick", "sleep"} \cup Ended
  /\ keepGoing \in BOOLEAN
  /\ ready \in 0..MaxReady
  /\ daemonized \in BOOLEAN
  /\ due \in (-MaxLate)..Duration
  /\ since \in 0..Duration
  /\ signalled \in BOOLEAN

Init ==
  /\ pc = "start"
  /\ keepGoing = TRUE
  /\ ready = 0
  /\ daemonized = FALSE
  /\ due = 0
  /\ since = Duration
  /\ signalled = FALSE

-----------------------------------------------------------------------------
\* What tick() returns: the end of its body is "return true".
TickReturns == TRUE

\* nextFrame is one duration after the time at which the frame starts.
NextDueCatchUp == due + Duration
NextDue == Duration

\* sleep_until(nextFrame) returns, at once if nextFrame has passed.
SleepOverExact == due = 0
SleepOver == due <= 0

\* keepGoing as the loop's condition finds it after sleep_until.
AfterSleepTicked == TickReturns
AfterSleep == keepGoing

\* The command line is parsed and the server constructed; without --daemonize
\* SIGTERM keeps its default action, with it daemon() may fail.
Start ==
  /\ pc = "start"
  /\ \/ /\ pc' = "test"
        /\ daemonized' \in BOOLEAN
     \/ /\ pc' = "failed"
        /\ UNCHANGED daemonized
  /\ UNCHANGED <<keepGoing, ready, due, since, signalled>>

\* while (keepGoing): a new frame, or the end.
Test ==
  /\ pc = "test"
  /\ \/ /\ keepGoing
        /\ pc' = "poll"
        /\ due' = NextDue
        /\ since' = 0
     \/ /\ ~keepGoing
        /\ pc' = "stopped"
        /\ UNCHANGED <<due, since>>
  /\ UNCHANGED <<keepGoing, ready, daemonized, signalled>>

\* poll() runs one handler after the other, those that become ready meanwhile
\* too, until none is ready; a handler may throw.
Poll ==
  /\ pc = "poll"
  /\ \/ /\ ready > 0
        /\ ready' = ready - 1
        /\ pc' \in {"poll", "failed"}
     \/ /\ ready = 0
        /\ pc' = "tick"
        /\ UNCHANGED ready
  /\ UNCHANGED <<keepGoing, daemonized, due, since, signalled>>

\* keepGoing = server.tick(), unless it throws.
Tick ==
  /\ pc = "tick"
  /\ \/ /\ pc' = "sleep"
        /\ keepGoing' = TickReturns
     \/ /\ pc' = "failed"
        /\ UNCHANGED keepGoing
  /\ UNCHANGED <<ready, daemonized, due, since, signalled>>

Sleep ==
  /\ pc = "sleep"
  /\ SleepOver
  /\ pc' = "test"
  /\ keepGoing' = AfterSleep
  /\ UNCHANGED <<ready, daemonized, due, since, signalled>>

\* SIGTERM: term() clears keepGoing, and may cut sleep_until short; without the
\* handler the process is killed.
Term ==
  /\ pc \notin Ended
  /\ \/ /\ daemonized
        /\ keepGoing' = FALSE
        /\ signalled' = TRUE
        /\ pc' = pc \/ (pc = "sleep" /\ pc' = "test")
     \/ /\ ~daemonized
        /\ pc' = "killed"
        /\ UNCHANGED <<keepGoing, signalled>>
  /\ UNCHANGED <<ready, daemonized, due, since>>

\* Time passes, whatever the process is doing.
Pass ==
  /\ pc \notin Ended
  /\ due > -MaxLate
  /\ due' = due - 1
  /\ since' = IF since < Duration THEN since + 1 ELSE since
  /\ UNCHANGED <<pc, keepGoing, ready, daemonized, signalled>>

\* An accept, a read or a write completes.
Complete ==
  /\ pc \notin Ended \cup {"start"}
  /\ ready < MaxReady
  /\ ready' = ready + 1
  /\ UNCHANGED <<pc, keepGoing, daemonized, due, since, signalled>>

Main == Start \/ Test \/ Poll \/ Tick \/ Sleep

Next == Main \/ Complete \/ Term \/ Pass

\* The process is scheduled, handlers and tick() come to an end, and time goes on.
Spec == Init /\ [][Next]_vars /\ WF_vars(Main) /\ WF_vars(Pass)

-----------------------------------------------------------------------------
\* Frames are never closer than TICK_DURATION: after a frame that took too long
\* the loop does not hurry to catch up.
FrameSpacing == [][(pc = "test" /\ pc' = "poll") => since = Duration]_vars

\* The loop is only left because of a signal.
NoSpuriousStop == pc = "stopped" => signalled

\* However long a frame takes, the server goes on ticking until it ends; only
\* clients that for ever send faster than poll() serves them can keep it in there.
KeepsTicking ==
  \/ []<>(pc = "tick")
  \/ <>[](pc \in Ended)
  \/ <>[](pc = "poll") /\ []<><<Complete>>_vars

\* A SIGTERM that arrives while the loop sleeps ends it at the next test.
StopsFromSleep ==
  (pc \in {"sleep", "test"} /\ ~keepGoing) ~> pc \in Ended

\* main.cpp, of keepGoing: "When false, stop the main loop".
StopsWhenFalse == ~keepGoing ~> pc \in Ended
=============================================================================
