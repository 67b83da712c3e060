--------------------------- MODULE AsyncGenerator ---------------------------
(* One async generator (dispatch/async_generator.rs) in the loop of its       *)
(* agent: requests queue up while its body runs or awaits, the body runs in    *)
(* the caller's step at first and in a microtask from then on.                *)
EXTENDS EventLoop, FiniteSets

CONSTANT NoRequest

Requests == [kind : {"next", "return", "throw"}, promise : Promises]
ASSUME GeneratorAssumption == NoRequest \notin Promises \cup Requests

VARIABLES
  status,      \* AsyncGeneratorStatus
  queue,       \* requests not taken up yet
  active,      \* the request the body is working for
  resume,      \* the promise a suspended yield waits for
  completion   \* async_generator_resume_completions: a return is to be resumed

genVars == <<status, queue, active, resume, completion>>
vars == <<loopVars, genVars>>

Request(kind, p) == [kind |-> kind, promise |-> p]
Resumption == [kind |-> "generator"]
Body(mode) == Js([kind |-> "body", mode |-> mode])
InBody == InJs /\ Top.job.kind = "body"

GenInit ==
  /\ status = "start" /\ queue = <<>> /\ active = NoRequest
  /\ resume = NoRequest /\ completion = "none"

Open == (IF active = NoRequest THEN <<>> ELSE <<active>>) \o queue

(***************************************************************************)
(* settle_request, and drain_completed: what is still queued is answered   *)
(* in turn; only a throw rejects.                                          *)
(***************************************************************************)
Answer(t, request, rejected) == Settle(t, request.promise, rejected)
Thrown(request) == request.kind = "throw"
AnswerFirst(t) ==
  LET after[n \in 0..Len(queue)] ==
        IF n = 0 THEN t ELSE Answer(after[n - 1], queue[n], Thrown(queue[n]))
  IN after
AnswerQueue(t) == AnswerFirst(t)[Len(queue)]

\* process_suspended_yield: the next request resumes the body.
TakeUp(request) ==
  /\ active' = request /\ status' = "executing" /\ resume' = NoRequest
  /\ completion' = IF request.kind = "return" THEN "return" ELSE completion

(***************************************************************************)
(* enqueue and process_queue, by the state of the generator.               *)
(***************************************************************************)
\* Mutant: the newest request takes the place of the active one.
AskRunning_TakesUp(request) ==
  /\ table' = Create(table)
  /\ active' = request
  /\ UNCHANGED <<status, queue, resume, completion, stack>>

AskRunning(request) ==
  /\ table' = Create(table)
  /\ queue' = Append(queue, request)
  /\ UNCHANGED <<status, active, resume, completion, stack>>

AskCompleted(request) ==
  /\ table' = Answer(Create(table), request, Thrown(request))
  /\ UNCHANGED <<genVars, stack>>

\* Mutant: the generator still looks unstarted while its body runs.
AskStart_Late(request) ==
  /\ UNCHANGED <<queue, resume, completion>>
  /\ IF request.kind = "next"
     THEN /\ table' = Create(table)
          /\ active' = request /\ UNCHANGED status
          /\ stack' = Append(stack, Body("next"))
     ELSE /\ table' = Answer(Create(table), request, Thrown(request))
          /\ status' = "completed"
          /\ UNCHANGED <<active, stack>>

\* The first next runs the body at once, inside the caller.
AskStart(request) ==
  /\ UNCHANGED <<queue, resume, completion>>
  /\ IF request.kind = "next"
     THEN /\ table' = Create(table)
          /\ active' = request /\ status' = "executing"
          /\ stack' = Append(stack, Body("next"))
     ELSE /\ table' = Answer(Create(table), request, Thrown(request))
          /\ status' = "completed"
          /\ UNCHANGED <<active, stack>>

AskSuspended(request) ==
  /\ TakeUp(request)
  /\ table' = Settle(Create(table), resume, Thrown(request))
  /\ UNCHANGED <<queue, stack>>

\* A call of next, return or throw, from anywhere but the body itself.
Ask ==
  \E kind \in {"next", "return", "throw"} :
    /\ Calls(kind) /\ ~InBody /\ HasRoom(table)
    /\ LET request == Request(kind, Fresh(table)) IN
       CASE status = "executing" -> AskRunning(request)
         [] status = "completed" -> AskCompleted(request)
         [] status = "start" -> AskStart(request)
         [] status = "yield" -> AskSuspended(request)
    /\ UNCHANGED <<resolvable, queueVars, external, phase, exit, uses>>

(***************************************************************************)
(* The body: resumed by a microtask, it awaits, yields, returns or throws. *)
(***************************************************************************)
Mode(job) == IF completion = "return" THEN "return" ELSE IF job.rejected THEN "throw" ELSE "next"

ResumeBody ==
  /\ Checked /\ ticks = 0 /\ table.microtasks # <<>>
  /\ NextJob.kind = "reaction" /\ NextJob.reaction.kind = "generator"
  /\ table' = Dequeued
  /\ Push(Body(Mode(NextJob)))
  /\ completion' = "none"
  /\ UNCHANGED <<status, queue, active, resume, queueVars, programVars, exit>>

Await ==
  \E p \in Promises :
    /\ InBody /\ Exists(table, p) /\ calls > 0 /\ calls' = calls - 1
    /\ table' = Subscribe(table, p, Resumption)
    /\ Pop
    /\ UNCHANGED <<genVars, queueVars, resolvable, external, uses, exit>>

\* yield_value: the request is answered, and the body waits for its resume
\* promise, which the next request has settled already if there is one.
Yield ==
  /\ InBody
  /\ LET answered == Answer(table, active, FALSE)
         waiting == Create(answered)
         p == Fresh(answered)
     IN
     /\ HasRoom(answered)
     /\ IF queue = <<>>
        THEN /\ table' = Subscribe(waiting, p, Resumption)
             /\ status' = "yield" /\ active' = NoRequest /\ resume' = p
             /\ UNCHANGED <<queue, completion>>
        ELSE /\ table' = Subscribe(Settle(waiting, p, Thrown(Head(queue))), p, Resumption)
             /\ queue' = Tail(queue)
             /\ TakeUp(Head(queue))
  /\ Pop
  /\ UNCHANGED <<queueVars, programVars, exit>>

\* Mutant: the requests that are still queued are forgotten.
Complete_Forgets(rejected) ==
  /\ InBody
  /\ table' = Answer(table, active, rejected)
  /\ status' = "completed" /\ active' = NoRequest /\ resume' = NoRequest
  /\ UNCHANGED <<queue, completion>>
  /\ Pop
  /\ UNCHANGED <<queueVars, programVars, exit>>

\* complete, and reject_active for a body that threw.
Complete(rejected) ==
  /\ InBody
  /\ table' = AnswerQueue(Answer(table, active, rejected))
  /\ status' = "completed" /\ queue' = <<>> /\ active' = NoRequest /\ resume' = NoRequest
  /\ UNCHANGED completion
  /\ Pop
  /\ UNCHANGED <<queueVars, programVars, exit>>

BodyStep == Await \/ Yield \/ \E rejected \in BOOLEAN : Complete(rejected)

Init == LoopInit /\ GenInit
Next ==
  \/ LoopNext /\ UNCHANGED genVars
  \/ Ask \/ ResumeBody \/ BodyStep

Spec == Init /\ [][Next]_vars

(***************************************************************************)
(* The agent's thread goes on while it has something to do, callbacks      *)
(* return, and a loop that keeps turning sees time pass: it sleeps until   *)
(* its first timer, and the clock it reads is monotonic.                   *)
(***************************************************************************)
FairSpec == Spec /\ WF_vars(Next) /\ SF_vars(Turn(1) /\ UNCHANGED genVars)

TypeOK ==
  /\ LoopTypeOK
  /\ status \in {"start", "yield", "executing", "completed"}
  /\ queue \in Seq(Requests) /\ active \in Requests \cup {NoRequest}
  /\ resume \in Promises \cup {NoRequest} /\ completion \in {"none", "return"}
  /\ (resume # NoRequest) = (status = "yield") /\ (active # NoRequest) = (status = "executing")

(***************************************************************************)
(* Properties.                                                             *)
(***************************************************************************)

\* Reactions of a promise run in the order in which they were registered, once
\* each and only after it is settled, whether they were registered before or
\* after that: schedule_reaction and settle_promise feed the queue from two
\* sides.
QueuedOf(jobs, p) ==
  LET first[n \in 0..Len(jobs)] ==
        IF n = 0 THEN <<>>
        ELSE IF jobs[n].kind = "reaction" /\ jobs[n].of = p THEN Append(first[n - 1], jobs[n].reaction)
        ELSE first[n - 1]
  IN first[Len(jobs)]
ReactionsOf(t, p) == QueuedOf(t.microtasks, p) \o t.reactions[p]

Queues == INSTANCE ReactionQueue WITH
  Promise <- Promises,
  waiting <- [p \in Promises |-> ReactionsOf(table, p)],
  settled <- {p \in Promises : table.state[p] \in {"fulfilled", "rejected"}}

ReactionsRunInOrder == Queues!Spec

HasReactions(p) ==
  \/ table.reactions[p] # <<>>
  \/ \E i \in DOMAIN table.microtasks : table.microtasks[i].kind = "reaction" /\ table.microtasks[i].of = p

\* pending_unhandled_rejections is what nobody listens to: every promise in it
\* is rejected, has no reaction, waiting or queued, and was not adopted or
\* awaited; and no such promise is missing while the program runs.
HeardIsNotReported ==
  /\ \A p \in Promises : HasReactions(p) => p \notin table.unhandled
  /\ exit # "rejection" => table.unhandled = {p \in Promises : Is(table, p, "rejected")} \ table.handled

\* A rejection is reported only by the outer drain, when no callback is under
\* way that could still attach a handler (promise.rs:28-31).
ReportsAreFinal ==
  [][(exit # "rejection" /\ exit' = "rejection") => (Depth = 1 /\ NothingPending)]_vars

\* A loop that ends by itself leaves nothing behind: no callback is queued,
\* no reaction of a settled promise waits, no rejection went unreported, and a
\* generator with open requests awaits a promise that is still pending.
Awaited == {p \in Promises : \E i \in DOMAIN table.reactions[p] : table.reactions[p][i].kind = "generator"}
NothingLeftBehind ==
  (phase = "ended" /\ exit = "none") =>
    /\ QueuesEmpty /\ external = 0
    /\ \A p \in Promises : table.reactions[p] # <<>> => Is(table, p, "pending")
    /\ table.unhandled = {}
    /\ Open # <<>> => Awaited # {}

\* What all, allSettled and any owe the program, whenever and in whatever order
\* their elements settle: a target is pending exactly while reactions of
\* elements it still counts are under way, and its outcome is the one its
\* elements' promises call for.
ElementsAt(t, c) ==
  UNION {{<<p, i>> : i \in {k \in DOMAIN ReactionsOf(t, p) : ReactionsOf(t, p)[k] = Element(c)}} : p \in Promises}
Outstanding(t, c) == Cardinality(ElementsAt(t, c))
CombinatorsAnswer ==
  \A c \in DOMAIN table.combinators :
    LET entry == table.combinators[c]
        sources == {entry.of[i] : i \in DOMAIN entry.of}
        Every(outcome) == \A p \in sources : Is(table, p, outcome)
        Some(outcome) == \E p \in sources : Is(table, p, outcome)
        Target(outcome) == Is(table, entry.target, outcome)
    IN /\ entry.settled = ~Target("pending")
       /\ ~entry.settled => Outstanding(table, c) = entry.remaining /\ entry.remaining > 0
       /\ Target("fulfilled") =>
            CASE entry.kind = "all" -> Every("fulfilled")
              [] entry.kind = "any" -> Some("fulfilled")
              [] OTHER -> ~Some("pending")
       /\ Target("rejected") =>
            CASE entry.kind = "all" -> Some("rejected")
              [] entry.kind = "any" -> Every("rejected")
              [] OTHER -> FALSE

\* Requests are answered in the order of the calls, each once: those that are
\* open are pending, and those that leave were first and are settled.
RequestsInOrder ==
  [][/\ \A i \in DOMAIN Open' : Is(table', Open'[i].promise, "pending")
     /\ \/ Open' = Open
        \/ Len(Open') = Len(Open) + 1 /\ SubSeq(Open', 1, Len(Open)) = Open
        \/ \E n \in DOMAIN Open : Open' = SubSeq(Open, n + 1, Len(Open))]_vars

\* A body that was started and has not completed is at one place only: it runs,
\* it waits for one promise, or its resumption is queued. Otherwise it would be
\* resumed twice, or never, and the mark that return leaves for its next
\* resumption would meet another one.
IsResumption(job) == job.kind = "reaction" /\ job.reaction.kind = "generator"
IsBody(frame) == frame.run = "js" /\ frame.job.kind = "body"
WaitsAt(p) == {i \in DOMAIN table.reactions[p] : table.reactions[p][i].kind = "generator"}
Places ==
  (UNION {{<<"waits", p, i>> : i \in WaitsAt(p)} : p \in Promises})
  \cup {<<"queued", 0, i>> : i \in {j \in DOMAIN table.microtasks : IsResumption(table.microtasks[j])}}
  \cup {<<"runs", 0, i>> : i \in {j \in DOMAIN stack : IsBody(stack[j])}}
BodyIsAtOnePlace ==
  IF status \in {"executing", "yield"} THEN \E place \in Places : Places = {place} ELSE Places = {}

\* A timer that nobody clears fires, and a reaction of a settled promise runs,
\* unless the program exits, is ended by a rejection it does not hear, or is
\* aborted by what a callback threw: that the loop found nothing to do is no
\* excuse.
Over == phase = "aborted" \/ (phase = "ended" /\ exit # "none")
QueuedTimer(id) == \E i \in DOMAIN timers : timers[i].id = id
LoopServesAll ==
  /\ \A id \in Resources :
       QueuedTimer(id) ~> (~QueuedTimer(id) \/ id \in cancelled \/ Over)
  /\ \A p \in Promises :
       (ReactionsOf(table, p) # <<>> /\ ~Is(table, p, "pending")) ~> (ReactionsOf(table, p) = <<>> \/ Over)
=============================================================================
