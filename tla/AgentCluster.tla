---------------------------- MODULE AgentCluster ----------------------------
(***************************************************************************)
(* The agents of a cluster: their event loops (WorkerThreads) and the      *)
(* waiters they share (AtomicsWaiters).  An agent inside Atomics.wait or   *)
(* notify runs nothing else, and the expired waits of waitAsync are one of *)
(* the external events a loop polls.                                       *)
(***************************************************************************)
EXTENDS WorkerThreads, AtomicsWaiters

ASSUME ClusterAssumption == Agents = Threads

vars == <<threadVars, waiterVars>>

Init == ThreadsInit /\ WaitersInit

Expired == timeouts # <<>>

RunJavaScript(a) ==
  \/ op[a] = Idle /\ JavaScript(a) /\ UNCHANGED waiterVars
  \/ Running(a) /\ Call(a) /\ UNCHANGED threadVars

RunHost(a) ==
  \/ Continue(a) /\ UNCHANGED threadVars
  \/ op[a] = Idle /\ Return(a) /\ UNCHANGED waiterVars

Start(a) == StartUp(a) /\ UNCHANGED waiterVars

\* Mutant: the expired waits are left to some other poll.
Loop_Skips(a) ==
  /\ LoopEnds(a, Expired) \/ Sleep(a, Expired) \/ Poll(a, Expired) \/ (op[a] = Idle /\ PollEnds(a, Expired))
  /\ UNCHANGED waiterVars

\* A round of polling settles the expired waits if no worker is pending.
Loop(a) ==
  \/ (LoopEnds(a, Expired) \/ Sleep(a, Expired) \/ Poll(a, Expired)) /\ UNCHANGED waiterVars
  \/ op[a] = Idle /\ PollEnds(a, Expired)
       /\ IF HasPending(a) THEN UNCHANGED waiterVars ELSE PollTimeouts(a)

Fire(a) == TimerCallback(a) /\ UNCHANGED waiterVars

\* The process is over with the main agent's loop, and its threads with it.
Alive == mode[Main] \notin {"ended", "aborted"}

Next ==
  /\ Alive
  /\ \/ \E a \in Agents : RunJavaScript(a) \/ RunHost(a) \/ Start(a) \/ Loop(a) \/ Fire(a)
     \/ \E s \in Sessions : TimerThread(s) /\ UNCHANGED threadVars

\* Threads keep running and a script returns, unless it waits; a timer fires
\* (SF: it comes due while the loop polls for other things).
Fairness ==
  /\ \A a \in Agents : SF_vars(RunHost(a)) /\ WF_vars(Start(a) \/ Loop(a)) /\ SF_vars(Fire(a))
  /\ \A s \in Sessions : SF_vars(TimerThread(s) /\ UNCHANGED threadVars)

Spec == Init /\ [][Next]_vars /\ Fairness

-----------------------------------------------------------------------------
(* Properties. *)

TypeOK == ThreadsTypeOK /\ WaitersTypeOK

InWait(a) == op[a].pc \in {"asleep", "unlist"} \/ CircularWait

\* A terminated worker exits, unless it stays in Atomics.wait or goes on
\* setting timers: nothing interrupts either.
TerminatedEnds ==
  \A w \in Workers : <>[](~armed[w]) /\ []<>~InWait(w) =>
    (terminated[w] /\ mode[w] # "failed" ~> mode[w] = "ended" \/ ~Alive)

\* The program ends when its workers have: a loop without work does not hang,
\* expired waits that nobody may settle included.
MainEnds ==
  <>[](~armed[Main] /\ \A w \in Workers : mode[w] \in {"none", "ended"}) /\ []<>~InWait(Main) =>
    <>~Alive

\* An expired wait does not stay in the queue: the main agent comes by, unless
\* it is over or blocked, or a worker stays pending, which keeps it away.
ExpiryIsPolled ==
  timeouts # <<>> ~> timeouts = <<>> \/ ~Alive \/ InWait(Main) \/ HasPending(Main)
=============================================================================
