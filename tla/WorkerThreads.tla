---------------------------- MODULE WorkerThreads ----------------------------
(***************************************************************************)
(* worker_threads: the main agent and the workers it starts, each a thread *)
(* with an event loop of its own (dispatch/node_worker_threads.rs, and     *)
(* drain_event_loop and poll_external_events as far as workers go).  A     *)
(* worker reads commands from its channel; every worker writes events to   *)
(* the main agent's.                                                       *)
(*                                                                         *)
(* JavaScript is what an agent may do while its script or a callback runs; *)
(* a missing handler is one that does nothing.  Message contents, output,  *)
(* workers of workers and the ports of a MessageChannel are left out.      *)
(***************************************************************************)
EXTENDS Integers, FiniteSets, Sequences, SequencesExt

CONSTANTS
  Main,               (* the main agent                                      *)
  Workers,            (* the workers it may create                           *)
  TimerAgents,        (* bound: the agents that set timers                   *)
  MaxMessages         (* bound: messages under way in a channel              *)

ASSUME ThreadAssumption == Main \notin Workers /\ TimerAgents \subseteq {Main} \cup Workers /\ MaxMessages \in Nat

Threads == {Main} \cup Workers

VARIABLES
  mode,               (* where each thread is                                *)
  armed,              (* does the agent have a timer?                        *)
  commands,           (* WorkerControl.command_tx of each worker             *)
  control,            (* the workers in cluster.workers                      *)
  terminated,         (* WorkerControl.terminated                            *)
  active, referenced, (* WorkerCallbacks of each worker                      *)
  listening,          (* the worker's parent_message_callback is set         *)
  events,             (* the main agent's event_rx                           *)
  heard,              (* history: the exit code it was told of each worker   *)
  threw               (* workers whose script has thrown                     *)

workerVars == <<control, terminated, active, referenced>>
channelVars == <<commands, events, heard>>
threadVars == <<mode, armed, workerVars, channelVars, listening, threw>>

Nothing == -1
Running(a) == mode[a] \in {"script", "callback", "message"}

ThreadsInit ==
  /\ mode = [a \in Threads |-> IF a = Main THEN "script" ELSE "none"]
  /\ armed = [a \in Threads |-> FALSE]
  /\ commands = [w \in Workers |-> <<>>]
  /\ control = {}
  /\ terminated = [w \in Workers |-> FALSE]
  /\ active = [w \in Workers |-> FALSE]
  /\ referenced = [w \in Workers |-> FALSE]
  /\ listening = [w \in Workers |-> FALSE]
  /\ events = <<>>
  /\ heard = [w \in Workers |-> Nothing]
  /\ threw = {}

Go(a, where) == mode' = [mode EXCEPT ![a] = where]
Event(w, kind) == [worker |-> w, kind |-> kind]
ExitEvent(w, code) == [worker |-> w, kind |-> "exit", code |-> code]

-----------------------------------------------------------------------------
(* The main agent's JavaScript. *)

\* create_worker; the thread may fail to start after everything is set up.
CreateWorker(w) ==
  /\ Running(Main) /\ mode[w] = "none"
  /\ control' = control \cup {w}
  /\ active' = [active EXCEPT ![w] = TRUE]
  /\ referenced' = [referenced EXCEPT ![w] = TRUE]
  /\ \E spawned \in BOOLEAN : Go(w, IF spawned THEN "start" ELSE "failed")
  /\ UNCHANGED <<armed, terminated, channelVars, listening, threw>>

PostToWorker(w) ==
  /\ Running(Main) /\ w \in control /\ Len(commands[w]) < MaxMessages
  /\ commands' = [commands EXCEPT ![w] = Append(@, "message")]
  /\ UNCHANGED <<mode, armed, workerVars, events, heard, listening, threw>>

\* Calls after the first only repeat the command.
Terminate(w) ==
  /\ Running(Main) /\ w \in control /\ ~terminated[w]
  /\ terminated' = [terminated EXCEPT ![w] = TRUE]
  /\ commands' = [commands EXCEPT ![w] = Append(@, "terminate")]
  /\ UNCHANGED <<mode, armed, control, active, referenced, events, heard, listening, threw>>

WorkerRef(w, value) ==
  /\ Running(Main) /\ mode[w] # "none"
  /\ referenced' = [referenced EXCEPT ![w] = value]
  /\ UNCHANGED <<mode, armed, control, terminated, active, channelVars, listening, threw>>

-----------------------------------------------------------------------------
(* A worker's JavaScript. *)

PostToParent(w) ==
  /\ Running(w) /\ Len(SelectSeq(events, LAMBDA e : e = Event(w, "message"))) < MaxMessages
  /\ events' = Append(events, Event(w, "message"))
  /\ UNCHANGED <<mode, armed, workerVars, commands, heard, listening, threw>>

\* portStart and portClose on the parent port.
Listen(w, value) ==
  /\ Running(w) /\ listening[w] # value
  /\ listening' = [listening EXCEPT ![w] = value]
  /\ UNCHANGED <<mode, armed, workerVars, channelVars, threw>>

-----------------------------------------------------------------------------
(* run_worker. *)

Online(w) ==
  /\ mode[w] = "start"
  /\ events' = Append(events, Event(w, "online"))
  /\ Go(w, "compile")
  /\ UNCHANGED <<armed, workerVars, commands, heard, listening, threw>>

\* Mutant: a worker that ends well says nothing.
WorkerEnds_Silent(w, ok) ==
  /\ events' = events \o (IF ok THEN <<>> ELSE <<Event(w, "error"), ExitEvent(w, 1)>>)
  /\ Go(w, "ended")
  /\ UNCHANGED <<armed, workerVars, commands, heard, listening>>

\* The thread is over; its last events tell how.
WorkerEnds(w, ok) ==
  /\ events' = events \o (IF ok THEN <<ExitEvent(w, IF terminated[w] THEN 1 ELSE 0)>>
                          ELSE <<Event(w, "error"), ExitEvent(w, 1)>>)
  /\ Go(w, "ended")
  /\ UNCHANGED <<armed, workerVars, commands, heard, listening>>

Compile(w) ==
  /\ mode[w] = "compile"
  /\ \/ Go(w, "script") /\ UNCHANGED <<armed, workerVars, channelVars, listening>>
     \/ WorkerEnds(w, FALSE)
  /\ UNCHANGED threw

-----------------------------------------------------------------------------
(* Every agent's event loop, drain_event_loop.  One round of               *)
(* poll_external_events looks at has_pending and at the channel in one     *)
(* step: a flag that is set in between changes nothing the agent can see.  *)
(* "loop" is before the timers are looked at, "check" after one has run,   *)
(* "callback" inside a timer's callback and "message" inside one of a poll. *)
(* `others` is whether external events of other components are pending.    *)

\* Mutant: a parent port that listens keeps a terminated worker.
HasPending_Listening(a) ==
  IF a = Main THEN \E w \in Workers : active[w] /\ referenced[w] ELSE listening[a]

HasPending(a) ==
  IF a = Main THEN \E w \in Workers : active[w] /\ referenced[w]
  ELSE listening[a] /\ ~terminated[a]

SetTimer(a) ==
  /\ Running(a) /\ a \in TimerAgents /\ ~armed[a]
  /\ armed' = [armed EXCEPT ![a] = TRUE]
  /\ UNCHANGED <<mode, workerVars, channelVars, listening, threw>>

Return(a) ==
  /\ mode[a] \in {"script", "callback"}
  /\ Go(a, IF mode[a] = "script" THEN "loop" ELSE "check")
  /\ UNCHANGED <<armed, workerVars, channelVars, listening, threw>>

AgentEnds(a, ok) ==
  IF a = Main THEN Go(a, IF ok THEN "ended" ELSE "aborted") /\ UNCHANGED <<armed, workerVars, channelVars, listening>>
  ELSE WorkerEnds(a, ok)

\* An exception that nothing catches: the loop still runs after the script's,
\* and ends with a poll's callback.  A timer's is printed: that is Return.
Throw(a) ==
  \/ /\ mode[a] = "script"
     /\ Go(a, "loop")
     /\ threw' = threw \cup ({a} \cap Workers)
     /\ UNCHANGED <<armed, workerVars, channelVars, listening>>
  \/ /\ mode[a] = "message"
     /\ AgentEnds(a, FALSE)
     /\ UNCHANGED threw

TimerCallback(a) ==
  /\ mode[a] = "loop" /\ armed[a]
  /\ armed' = [armed EXCEPT ![a] = FALSE]
  /\ Go(a, "callback")
  /\ UNCHANGED <<workerVars, channelVars, listening, threw>>

AtPoll(a) == mode[a] \in {"loop", "check"}

\* Mutant: only what has already arrived keeps the loop going.
LoopEnds_NoHandles(a, others) ==
  /\ AtPoll(a) /\ ~others /\ ~armed[a] /\ (a = Main => events = <<>>)
  /\ AgentEnds(a, a \notin threw)
  /\ UNCHANGED threw

LoopEnds(a, others) ==
  /\ AtPoll(a) /\ ~HasPending(a) /\ ~others /\ ~armed[a]
  /\ AgentEnds(a, a \notin threw)
  /\ UNCHANGED threw

\* sleep_until_next_timer.
Sleep(a, others) ==
  /\ mode[a] = "check" /\ ~HasPending(a) /\ ~others /\ armed[a]
  /\ Go(a, "loop")
  /\ UNCHANGED <<armed, workerVars, channelVars, listening, threw>>

Polls(a, others) == AtPoll(a) /\ (HasPending(a) \/ others)

\* poll_parent_command.
PollMessage(w, others) ==
  /\ Polls(w, others) /\ listening[w] /\ commands[w] # <<>> /\ Head(commands[w]) = "message"
  /\ commands' = [commands EXCEPT ![w] = Tail(@)]
  /\ Go(w, "message")
  /\ UNCHANGED <<armed, workerVars, events, heard, listening, threw>>

PollTerminate(w, others) ==
  /\ Polls(w, others) /\ listening[w] /\ commands[w] # <<>> /\ Head(commands[w]) = "terminate"
  /\ commands' = [commands EXCEPT ![w] = Tail(@)]
  /\ terminated' = [terminated EXCEPT ![w] = TRUE]
  /\ Go(w, "loop")
  /\ UNCHANGED <<armed, control, active, referenced, events, heard, listening, threw>>

\* dispatch_worker_event; an exit ends the worker for the main agent, and a
\* worker that was terminated meanwhile exits with 1.
ExitCode(event) ==
  IF event.worker \in control /\ terminated[event.worker] THEN 1 ELSE event.code

Forget(w) == active' = [active EXCEPT ![w] = FALSE] /\ control' = control \ {w}

PollEvent(others) ==
  /\ Polls(Main, others) /\ events # <<>>
  /\ LET event == Head(events)
         w == event.worker IN
     IF event.kind = "exit"
     THEN heard' = [heard EXCEPT ![w] = ExitCode(event)] /\ Forget(w)
     ELSE UNCHANGED <<heard, active, control>>
  /\ events' = Tail(events)
  /\ Go(Main, "message")
  /\ UNCHANGED <<armed, terminated, referenced, commands, listening, threw>>

\* Nothing of the workers has arrived.
PollNothing(a, others) ==
  /\ Polls(a, others)
  /\ IF a = Main THEN events = <<>> ELSE ~listening[a] \/ commands[a] = <<>>
  /\ Go(a, "loop")
  /\ UNCHANGED <<armed, workerVars, channelVars, listening, threw>>

CallbackReturns(a) ==
  /\ mode[a] = "message"
  /\ Go(a, "loop")
  /\ UNCHANGED <<armed, workerVars, channelVars, listening, threw>>

-----------------------------------------------------------------------------

JavaScript(a) ==
  \/ SetTimer(a) \/ Throw(a)
  \/ a = Main /\ \E w \in Workers : \/ CreateWorker(w) \/ PostToWorker(w) \/ Terminate(w)
                                    \/ \E value \in BOOLEAN : WorkerRef(w, value)
  \/ a \in Workers /\ (PostToParent(a) \/ \E value \in BOOLEAN : Listen(a, value))

StartUp(a) == a \in Workers /\ (Online(a) \/ Compile(a))
Poll(a, others) == (a = Main /\ PollEvent(others)) \/ (a \in Workers /\ PollMessage(a, others))

\* How a round ends that has looked at the workers.
PollEnds(a, others) ==
  \/ a \in Workers /\ PollTerminate(a, others)
  \/ PollNothing(a, others)
  \/ CallbackReturns(a)

-----------------------------------------------------------------------------
(* Properties. *)

Events ==
  [worker : Workers, kind : {"message", "online", "error"}]
  \cup [worker : Workers, kind : {"exit"}, code : {0, 1}]

ThreadsTypeOK ==
  /\ mode \in [Threads -> {"none", "failed", "start", "compile", "script", "callback",
                           "message", "loop", "check", "ended", "aborted"}]
  /\ armed \in [Threads -> BOOLEAN] /\ listening \in [Workers -> BOOLEAN]
  /\ control \subseteq Workers /\ threw \subseteq Workers
  /\ terminated \in [Workers -> BOOLEAN]
  /\ active \in [Workers -> BOOLEAN] /\ referenced \in [Workers -> BOOLEAN]
  /\ heard \in [Workers -> {Nothing, 0, 1}]
  /\ commands \in [Workers -> Seq({"message", "terminate"})] /\ events \in Seq(Events)

\* The main agent's loop does not end before it has heard of the exit of every
\* worker it has not unreferenced, which is the last a worker says; and a code
\* of 0 is one nobody had asked for: a terminate before that moment shows.
HearsThemOut ==
  /\ mode[Main] = "ended" =>
       \A w \in Workers : mode[w] # "none" /\ referenced[w] => heard[w] # Nothing
  /\ \A w \in Workers : heard[w] # Nothing =>
       /\ mode[w] = "ended" /\ \A i \in DOMAIN events : events[i].worker # w
       /\ heard[w] = 0 => ~terminated[w]
=============================================================================
