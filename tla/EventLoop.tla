------------------------------ MODULE EventLoop ------------------------------
(* The event loop of one agent (dispatch/promise.rs, dispatch/timer.rs and    *)
(* finish_execute in lib.rs): drain_event_loop, drain_microtasks with its     *)
(* rejection checkpoint, ticks, immediates, timers, polls, and the nested     *)
(* drains of module loading and node:vm. JavaScript is any sequence of calls. *)
EXTENDS Promises, Integers

CONSTANTS Resources,     \* bound: heap handles of timer objects
          Workloads,     \* bound: the calls a program makes, one set per program
          MaxCalls,      \* bound: calls of one run of the program
          MaxLateness    \* bound: how late a due timer is remembered to be

ASSUME LoopAssumption ==
  /\ MaxCalls \in Nat /\ MaxLateness \in Nat
  /\ Value # Throw /\ Thenable \notin {Value, Throw} /\ {Value, Throw, Thenable} \cap Promises = {}

VARIABLES
  table,       \* the promises and the microtask queue
  resolvable,  \* promises whose resolving functions the program has
  ticks,       \* how many callbacks wait in next_ticks
  immediates,  \* resources of the queued immediates
  timers,      \* queued timers by due time, then age; rem is the time left
  cancelled,   \* cancelled_timers: resources, never forgotten
  external,    \* external operations in flight
  stack,       \* drains and callbacks on the Rust stack, outermost first
  phase,       \* where drain_event_loop is while the stack is empty
  exit,        \* requested_exit_code
  uses, calls  \* what the program still calls, and how often

queueVars == <<ticks, immediates, timers, cancelled>>
programVars == <<resolvable, external, uses, calls>>
loopVars == <<table, resolvable, ticks, immediates, timers, cancelled, external, stack, phase,
              exit, uses, calls>>

Script == [run |-> "js", job |-> [kind |-> "script"]]
PollFrame == [run |-> "js", job |-> [kind |-> "poll"]]
Js(job) == [run |-> "js", job |-> job]
Drain(check) == [run |-> "drain", check |-> check, ran |-> FALSE]

LoopInit ==
  /\ table = NoPromises /\ resolvable = {}
  /\ ticks = 0 /\ immediates = <<>> /\ timers = <<>> /\ cancelled = {} /\ external = 0
  /\ stack = <<Script>> /\ phase = "running" /\ exit = "none"
  /\ uses \in Workloads /\ calls = MaxCalls

Depth == Len(stack)
Top == stack[Depth]
Below == SubSeq(stack, 1, Depth - 1)
InJs == Depth > 0 /\ Top.run = "js"
InDrain == Depth > 0 /\ Top.run = "drain"
Push(frame) == stack' = Append(stack, frame) /\ UNCHANGED phase
Pop == stack' = Below /\ UNCHANGED phase
NothingPending == ticks = 0 /\ table.microtasks = <<>>

(***************************************************************************)
(* The calls a callback makes. Each leaves the callback running.           *)
(***************************************************************************)
Calls(name) == InJs /\ name \in uses /\ calls > 0 /\ calls' = calls - 1
Promised(t) == table' = t /\ UNCHANGED <<queueVars, external, stack, phase, exit, uses>>

NewPromise ==
  /\ Calls("new") /\ HasRoom(table)
  /\ resolvable' = resolvable \cup {Fresh(table)}
  /\ Promised(Create(table))

Existing == {p \in Promises : Exists(table, p)}
Results == {Value, Thenable} \cup Existing

Resolve ==
  \E p \in resolvable, result \in Results :
    /\ Calls("resolve") \/ (Calls("fulfil") /\ result = Value)
    /\ Is(table, p, "pending")
    /\ Promised(ResolveInto(table, p, result)) /\ UNCHANGED resolvable

Reject ==
  \E p \in resolvable :
    /\ Calls("reject") /\ Is(table, p, "pending")
    /\ Promised(Settle(table, p, TRUE)) /\ UNCHANGED resolvable

CallThen ==
  \E p \in Promises, f \in BOOLEAN :
    /\ Calls("then") /\ Exists(table, p) /\ HasRoom(table)
    /\ Promised(Then(table, p, f, ~f)) /\ UNCHANGED resolvable

CallFinally ==
  \E p \in Promises :
    /\ Calls("finally") /\ Exists(table, p) /\ HasRoom(table)
    /\ Promised(ThenFinally(table, p)) /\ UNCHANGED resolvable

\* Promise.all, allSettled, any and race. Bounds: one such call in a program, of
\* up to two elements, in the order of their age.
Lists ==
  {<<>>} \cup {<<e>> : e \in Existing \cup {Value}} \cup {<<e, Value>> : e \in Existing \cup {Value}} \cup
  {list \in {<<p, q>> : p, q \in Existing} : list[1] <= list[2]}
NewFor(elements) == 1 + Cardinality({i \in DOMAIN elements : elements[i] = Value})
CallCombinator ==
  /\ Calls("combine") /\ uses' = uses \ {"combine"}
  /\ \E elements \in Lists, kind \in {"all", "allSettled", "any", "race"} :
       /\ HasRoomFor(table, NewFor(elements))
       /\ table' = IF kind = "race" THEN Race(table, elements) ELSE Combine(table, kind, elements)
  /\ UNCHANGED <<resolvable, queueVars, external, stack, phase, exit>>

\* An async function is called and awaits a promise.
CallAsync ==
  \E p \in Promises :
    /\ Calls("async") /\ Exists(table, p) /\ HasRoom(table)
    /\ Promised(Subscribe(Create(table), p, AsyncResume(Fresh(table)))) /\ UNCHANGED resolvable

QueueMicrotask ==
  Calls("microtask") /\ Promised(Enqueue(table, <<Callback>>)) /\ UNCHANGED resolvable

Queued(t) == /\ UNCHANGED <<table, resolvable, external, stack, phase, exit, uses>> /\ t

NextTick == Calls("tick") /\ Queued(ticks' = ticks + 1 /\ UNCHANGED <<immediates, timers, cancelled>>)

\* A resource is a heap object: its handle is reused once it is collected,
\* which a queued or running timer's is not.
Running == {stack[i].job.id : i \in {j \in DOMAIN stack : stack[j].run = "js" /\ stack[j].job.kind = "macro"}}
InUse == Running \cup {immediates[i] : i \in DOMAIN immediates} \cup {timers[i].id : i \in DOMAIN timers}

SetImmediate ==
  \E id \in Resources \ InUse :
    Calls("immediate") /\ Queued(immediates' = Append(immediates, id) /\ UNCHANGED <<ticks, timers, cancelled>>)

Insert(queue, timer) ==
  LET n == Cardinality({i \in DOMAIN queue : queue[i].rem <= timer.rem}) IN
  SubSeq(queue, 1, n) \o <<timer>> \o SubSeq(queue, n + 1, Len(queue))

SetTimer ==
  \E id \in Resources \ InUse, delay \in 0..1, repeat \in BOOLEAN :
    /\ Calls("timer")
    /\ Queued(timers' = Insert(timers, [id |-> id, rem |-> delay, repeat |-> repeat])
              /\ UNCHANGED <<ticks, immediates, cancelled>>)

\* clearTimeout, clearInterval and clearImmediate, of a timer in any state.
Clear ==
  \E id \in Resources :
    Calls("clear") /\ Queued(cancelled' = cancelled \cup {id} /\ UNCHANGED <<ticks, immediates, timers>>)

StartExternal ==
  /\ Calls("external") /\ external' = external + 1
  /\ UNCHANGED <<table, resolvable, queueVars, stack, phase, exit, uses>>

\* process.exit: the exception it throws can be caught.
Exit ==
  /\ Calls("exit") /\ exit = "none" /\ exit' = "program"
  /\ UNCHANGED <<table, resolvable, queueVars, external, stack, phase, uses>>

\* Mutant: the nested drain reports rejections.
NestedDrain_Checks ==
  /\ Calls("load") /\ Push(Drain(TRUE))
  /\ UNCHANGED <<table, resolvable, queueVars, external, exit, uses>>

\* A module that awaits at its top level, or a vm script, drains the queues.
NestedDrain ==
  /\ Calls("load") /\ Push(Drain(FALSE))
  /\ UNCHANGED <<table, resolvable, queueVars, external, exit, uses>>

Call ==
  \/ NewPromise \/ Resolve \/ Reject \/ CallThen \/ CallFinally \/ CallCombinator \/ CallAsync
  \/ QueueMicrotask \/ NextTick \/ SetImmediate \/ SetTimer \/ Clear
  \/ StartExternal \/ Exit \/ NestedDrain

(***************************************************************************)
(* A drain returns. The outer one leaves the loop to Turn and the rest; a  *)
(* nested one goes on with its caller, whatever it was.                    *)
(***************************************************************************)
DrainReturns ==
  /\ stack' = Below
  /\ phase' = IF Depth > 1 THEN phase ELSE IF exit' = "none" THEN "decide" ELSE "ended"
  /\ UNCHANGED programVars

\* report_unhandled_rejection: the checkpoint of the outer drain.
Report ==
  /\ InDrain /\ exit = "none" /\ Top.check /\ NothingPending /\ table.unhandled # {}
  /\ exit' = "rejection"
  /\ table' = [table EXCEPT !.unhandled = {}]
  /\ DrainReturns
  /\ UNCHANGED queueVars

Checked == InDrain /\ exit = "none" /\ (NothingPending /\ Top.check => table.unhandled = {})

TimerReady(timer) == timer.rem <= 0 \/ timer.id \in cancelled
MacrotaskReady ==
  NothingPending /\ ~Top.ran /\ (immediates # <<>> \/ (timers # <<>> /\ TimerReady(timers[1])))

DrainEnds ==
  /\ InDrain
  /\ exit # "none" \/ (Checked /\ NothingPending /\ ~MacrotaskReady)
  /\ UNCHANGED <<table, queueVars, exit>>
  /\ DrainReturns

RunTick ==
  /\ Checked /\ ticks > 0
  /\ ticks' = ticks - 1
  /\ Push(Js(Callback))
  /\ UNCHANGED <<table, immediates, timers, cancelled, programVars, exit>>

NextJob == Head(table.microtasks)
Dequeued == [table EXCEPT !.microtasks = Tail(@)]

\* A job that runs no callback: a settlement that passes through, or a thenable
\* whose promise has been settled meanwhile.
Silent(job) ==
  RunsAlone(job) \/ (job.kind = "thenable" /\ ~Is(table, job.target, "pending"))

RunMicrotask ==
  /\ Checked /\ ticks = 0 /\ table.microtasks # <<>>
  /\ IF Silent(NextJob)
     THEN /\ table' = IF NextJob.kind = "thenable" THEN Dequeued ELSE Alone(Dequeued, NextJob)
          /\ UNCHANGED <<stack, phase, resolvable>>
     ELSE /\ NextJob.kind = "reaction" => NextJob.reaction.kind # "generator"
          /\ table' = Dequeued
          /\ resolvable' = IF NextJob.kind = "thenable" THEN resolvable \cup {NextJob.target} ELSE resolvable
          /\ Push(Js(NextJob))
  /\ UNCHANGED <<queueVars, external, exit, uses, calls>>

\* An immediate or a timer: the drain returns once the queues are empty again.
\* One that was cancelled is dropped without its callback.
Macro(id, repeat, rem) == [kind |-> "macro", id |-> id, repeat |-> repeat, rem |-> rem]
Start(job) ==
  LET drain == [Top EXCEPT !.ran = TRUE] IN
  stack' = Append(Below, drain) \o (IF job.id \in cancelled THEN <<>> ELSE <<Js(job)>>)

RunImmediate ==
  /\ Checked /\ MacrotaskReady /\ immediates # <<>>
  /\ immediates' = Tail(immediates)
  /\ Start(Macro(Head(immediates), FALSE, 0))
  /\ UNCHANGED <<table, ticks, timers, cancelled, programVars, phase, exit>>

LatestOf(rem) == IF rem < -MaxLateness THEN -MaxLateness ELSE rem
Elapse(queue, time) == [i \in DOMAIN queue |-> [queue[i] EXCEPT !.rem = LatestOf(@ - time)]]

\* A cancelled timer is taken before it is due: the clock moves on to then.
RunTimer ==
  /\ Checked /\ MacrotaskReady /\ immediates = <<>>
  /\ LET timer == Head(timers) IN
     /\ timers' = IF timer.rem > 0 THEN Elapse(Tail(timers), timer.rem) ELSE Tail(timers)
     /\ Start(Macro(timer.id, timer.repeat, LatestOf(timer.rem)))
  /\ UNCHANGED <<table, ticks, immediates, cancelled, programVars, phase, exit>>

(***************************************************************************)
(* A callback returns, with any result its caller tells apart.             *)
(***************************************************************************)
Outcomes(job) ==
  IF job.kind = "reaction" THEN Results \cup {Throw} ELSE {Value, Throw}

\* finally needs a promise to wait with.
Allowed(job, result) ==
  (job.kind = "reaction" /\ job.reaction.kind = "finally" /\ result \in {Value, Thenable}) => HasRoom(table)

ScriptReturns ==
  /\ InJs /\ Top.job.kind = "script"
  /\ stack' = <<>> /\ phase' = IF exit = "none" THEN "turn" ELSE "ended"
  /\ UNCHANGED <<table, queueVars, programVars, exit>>

PollReturns(result) ==
  /\ InJs /\ Top.job.kind = "poll"
  /\ stack' = <<>> /\ phase' = IF result = Throw THEN "aborted" ELSE "turn"
  /\ UNCHANGED <<table, queueVars, programVars, exit>>

\* What it threw is printed; an interval that was not cleared is queued again.
MacroReturns ==
  /\ InJs /\ Top.job.kind = "macro"
  /\ Pop
  /\ timers' = IF exit = "none" /\ Top.job.repeat /\ Top.job.id \notin cancelled
               THEN Insert(timers, [id |-> Top.job.id, rem |-> Top.job.rem + 1, repeat |-> TRUE])
               ELSE timers
  /\ UNCHANGED <<table, ticks, immediates, cancelled, programVars, exit>>

\* A tick or a queueMicrotask callback that throws ends its drain.
CallbackReturns(result) ==
  /\ InJs /\ Top.job.kind = "callback"
  /\ IF result = Throw /\ exit = "none"
     THEN /\ stack' = SubSeq(stack, 1, Depth - 2)
          /\ phase' = IF Depth > 2 THEN phase ELSE "aborted"
     ELSE Pop
  /\ UNCHANGED <<table, queueVars, programVars, exit>>

ReactionReturns(result) ==
  /\ InJs /\ Top.job.kind \in {"reaction", "thenable"}
  /\ Top.job.kind = "reaction" => Top.job.reaction.kind # "generator"
  /\ Allowed(Top.job, result)
  /\ table' = Completed(table, Top.job, result)
  /\ Pop
  /\ UNCHANGED <<queueVars, programVars, exit>>

\* An async function awaits again.
AwaitAgain ==
  \E p \in Promises :
    /\ InJs /\ Top.job.kind = "reaction" /\ Top.job.reaction.kind = "resume"
    /\ Exists(table, p) /\ calls > 0 /\ calls' = calls - 1
    /\ table' = Subscribe(table, p, Top.job.reaction)
    /\ Pop
    /\ UNCHANGED <<queueVars, resolvable, external, uses, exit>>

Return ==
  \/ ScriptReturns \/ MacroReturns \/ AwaitAgain
  \/ /\ InJs
     /\ \E result \in Outcomes(Top.job) :
          PollReturns(result) \/ CallbackReturns(result) \/ ReactionReturns(result)

(***************************************************************************)
(* drain_event_loop: the clock is read, the queues are drained, and the    *)
(* loop sleeps, polls or ends.                                             *)
(***************************************************************************)
Turn(time) ==
  /\ phase = "turn"
  /\ timers' = Elapse(timers, time)
  /\ stack' = <<Drain(TRUE)>> /\ phase' = "running"
  /\ UNCHANGED <<table, ticks, immediates, cancelled, programVars, exit>>

QueuesEmpty == NothingPending /\ immediates = <<>> /\ timers = <<>>

Sleep ==
  /\ phase = "decide" /\ external = 0
  /\ phase' = IF QueuesEmpty THEN "ended" ELSE "turn"
  /\ UNCHANGED <<table, queueVars, programVars, stack, exit>>

\* poll_external_events: nothing has happened, or an operation has completed
\* and its callback runs.
Poll ==
  /\ phase = "decide" /\ external > 0
  /\ \/ phase' = "turn" /\ UNCHANGED <<stack, external>>
     \/ external' = external - 1 /\ stack' = <<PollFrame>> /\ phase' = "running"
  /\ UNCHANGED <<table, queueVars, resolvable, uses, calls, exit>>

DrainStep == Report \/ DrainEnds \/ RunTick \/ RunMicrotask \/ RunImmediate \/ RunTimer
LoopStep == (\E time \in 0..1 : Turn(time)) \/ Sleep \/ Poll
LoopNext == Call \/ Return \/ DrainStep \/ LoopStep

(***************************************************************************)
(* The types.                                                              *)
(***************************************************************************)
Reactions ==
  [kind : {"handler"}, f : BOOLEAN, r : BOOLEAN, target : Promises]
  \cup [kind : {"finally", "resume"}, target : Promises]
  \cup [kind : {"finallyResult"}, target : Promises, rejected : BOOLEAN]
  \cup [kind : {"element"}, combinator : Nat] \cup [kind : {"generator"}]
Jobs ==
  [kind : {"callback"}] \cup [kind : {"thenable"}, target : Promises]
  \cup [kind : {"reaction"}, of : Promises, reaction : Reactions, rejected : BOOLEAN]
Combinators ==
  [kind : {"all", "allSettled", "any"}, target : Promises, remaining : Nat, settled : BOOLEAN,
   of : Seq(Nat)]
Tables ==
  [state : [Promises -> PromiseStates], handled : SUBSET Promises,
   reactions : [Promises -> Seq(Reactions)], microtasks : Seq(Jobs),
   unhandled : SUBSET Promises, combinators : Seq(Combinators)]

Timers == [id : Resources, rem : -MaxLateness..1, repeat : BOOLEAN]
Callers ==
  [kind : {"script", "poll"}] \cup [kind : {"body"}, mode : {"next", "return", "throw"}]
  \cup [kind : {"macro"}, id : Resources, repeat : BOOLEAN, rem : -MaxLateness..0]
Frames ==
  [run : {"js"}, job : Jobs \cup Callers] \cup [run : {"drain"}, check : BOOLEAN, ran : BOOLEAN]

LoopTypeOK ==
  /\ table \in Tables /\ resolvable \subseteq Promises
  /\ ticks \in Nat /\ external \in Nat /\ calls \in 0..MaxCalls
  /\ cancelled \subseteq Resources /\ immediates \in Seq(Resources) /\ timers \in Seq(Timers)
  /\ stack \in Seq(Frames)
  /\ phase \in {"running", "turn", "decide", "ended", "aborted"}
  /\ (phase = "running") = (stack # <<>>)
  /\ exit \in {"none", "program", "rejection"} /\ \E all \in Workloads : uses \subseteq all
=============================================================================
