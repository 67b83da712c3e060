------------------------------- MODULE Streams -------------------------------
(* The Web Streams of one agent (dispatch/streams): a readable source, a      *)
(* writable end that is a sink or leads through a transformer into a readable *)
(* output, the pipe between them, and the program that uses all of it. Tasks  *)
(* and reactions run from the agent's microtask queue; the program's own jobs *)
(* come between any two of them, and in the callbacks it gave to the streams. *)
EXTENDS Promises

CONSTANTS Programs,    \* bound: what a program calls and how its streams are made
          MaxCalls,    \* bound: calls of one run of a program
          MaxReaders,  \* bound: readers a program creates
          Nothing      \* no pipe, no callback, no stream

Readables == {"source", "output"}
Pipes == [promise : Promises, writing : BOOLEAN, closing : BOOLEAN]

ASSUME StreamsAssumption ==
  /\ MaxCalls \in Nat /\ Value # Throw /\ Thenable \notin {Value, Throw}
  /\ {Value, Throw, Thenable, Nothing} \cap Promises = {}
  /\ Nothing \notin Readables \cup Pipes

VARIABLES
  state,     \* the tables of the agent, as one record: see AllStreams
  running,   \* the callback a task has called, or Nothing
  over,      \* an exception or a rejection nobody hears has ended the program
  program, calls

vars == <<state, running, over, program, calls>>

\* ReadableState with its controller; sent, taken and dropped are history.
NewReadable ==
  [status |-> "readable", closing |-> FALSE, queue |-> <<>>, locked |-> FALSE,
   pulling |-> FALSE, pipe |-> Nothing, sent |-> 0, taken |-> <<>>, dropped |-> FALSE]

\* sinks are the promises that callbacks have returned. The promise of the
\* pipe, the chunks it took and the chunks written for it are history too.
AllStreams ==
  [table |-> NoPromises, readables |-> [r \in Readables |-> NewReadable], readers |-> <<>>,
   writable |-> [status |-> "writable", locked |-> FALSE, source |-> Nothing],
   writers |-> <<>>, sinks |-> {}, piped |-> Nothing, pumped |-> <<>>, written |-> <<>>]

Answer(s, p, rejected) == [s EXCEPT !.table = Settle(@, p, rejected)]

\* Promises settle in turn: the first n of them, and those of the first n readers
\* that read stream r.
SettleFirst(t, promises, rejected) ==
  LET after[n \in 0..Len(promises)] ==
        IF n = 0 THEN t ELSE Settle(after[n - 1], promises[n], rejected)
  IN after
SettleAll(t, promises, rejected) == SettleFirst(t, promises, rejected)[Len(promises)]
AnswerAll(s, promises, rejected) == [s EXCEPT !.table = SettleAll(@, promises, rejected)]
Schedule(s, job) == [s EXCEPT !.table = Enqueue(@, <<job>>)]

\* A promise that goes to the program, which listens to every one it gets, and
\* a promise that stays inside.
Given(s) == [s EXCEPT !.table = MarkHandled(Create(@), Fresh(@))]
Kept(s) == [s EXCEPT !.table = Create(@)]
NextPromise(s) == Fresh(s.table)

(***************************************************************************)
(* The readable side: close_if_drained, error_stream, enqueue, close, read *)
(***************************************************************************)
Promised(reader) == <<reader.closed>> \o reader.pending
EndFirst(t, readers, r, rejected) ==
  LET after[n \in 0..Len(readers)] ==
        IF n = 0 THEN t
        ELSE IF readers[n].stream # r THEN after[n - 1]
        ELSE SettleAll(after[n - 1], Promised(readers[n]), rejected)
  IN after
EndReaders(s, r, rejected) ==
  [s EXCEPT !.table = EndFirst(@, s.readers, r, rejected)[Len(s.readers)],
            !.readers = [i \in DOMAIN @ |->
              IF @[i].stream = r THEN [@[i] EXCEPT !.pending = <<>>] ELSE @[i]]]

CloseIfDrained(s, r) ==
  IF ~s.readables[r].closing \/ s.readables[r].queue # <<>> THEN s
  ELSE EndReaders([s EXCEPT !.readables[r].status = "closed"], r, FALSE)

ErrorStream(s, r) == EndReaders([s EXCEPT !.readables[r].status = "errored"], r, TRUE)

WakePipe(s, r) ==
  IF s.readables[r].pipe = Nothing THEN s ELSE Schedule(s, [kind |-> "pump", stream |-> r])

Waiting(s, r) == {i \in DOMAIN s.readers : s.readers[i].stream = r /\ s.readers[i].pending # <<>>}

\* enqueue: the first reader with a pending read gets the chunk.
Refuses(s, r) == s.readables[r].closing \/ s.readables[r].status # "readable"
\* Mutant: a chunk is queued although a read waits.
EnqueueChunk_Queues(s, r) ==
  WakePipe([s EXCEPT !.readables[r].sent = @ + 1, !.readables[r].queue = Append(@, s.readables[r].sent + 1)], r)

EnqueueChunk(s, r) ==
  LET n == s.readables[r].sent + 1
      i == CHOOSE j \in Waiting(s, r) : \A k \in Waiting(s, r) : j <= k
      chunk == [s EXCEPT !.readables[r].sent = n]
  IN WakePipe(
       IF Waiting(s, r) = {} THEN [chunk EXCEPT !.readables[r].queue = Append(@, n)]
       ELSE Answer([chunk EXCEPT !.readers[i].pending = Tail(@), !.readables[r].taken = Append(@, n)],
                   Head(s.readers[i].pending), FALSE), r)

CloseStream(s, r) == WakePipe(CloseIfDrained([s EXCEPT !.readables[r].closing = TRUE], r), r)

Cancel(s, r) ==
  CloseIfDrained([s EXCEPT !.readables[r].queue = <<>>, !.readables[r].closing = TRUE,
                           !.readables[r].dropped = TRUE], r)

SchedulePull(s, r) ==
  IF ~(program.pull /\ r = "source") \/ s.readables[r].pulling \/ s.readables[r].closing THEN s
  ELSE Schedule([s EXCEPT !.readables[r].pulling = TRUE], [kind |-> "pull", stream |-> r])

\* Mutant: the newest chunk is taken first.
TakeChunk_Newest(s, r) ==
  LET queue == s.readables[r].queue IN
  [s EXCEPT !.readables[r].queue = Front(@), !.readables[r].taken = Append(@, Last(queue))]

TakeChunk(s, r) ==
  [s EXCEPT !.readables[r].queue = Tail(@), !.readables[r].taken = Append(@, Head(s.readables[r].queue))]

\* read: a chunk, the end, the error, or a place in the reader's queue.
Read(s, i) ==
  LET r == s.readers[i].stream
      p == NextPromise(s)
      asked == Given(s)
  IN IF s.readables[r].queue # <<>> THEN CloseIfDrained(Answer(TakeChunk(asked, r), p, FALSE), r)
     ELSE IF s.readables[r].status # "readable" THEN Answer(asked, p, s.readables[r].status = "errored")
     ELSE SchedulePull([asked EXCEPT !.readers[i].pending = Append(@, p)], r)

\* get_reader: only a closed stream settles the closed promise at once.
NewReader(s, r) ==
  LET p == NextPromise(s)
      reader == [stream |-> r, closed |-> p, pending |-> <<>>]
      added == [Given(s) EXCEPT !.readers = Append(@, reader), !.readables[r].locked = TRUE]
  IN IF s.readables[r].status = "closed" THEN Answer(added, p, FALSE) ELSE added

(***************************************************************************)
(* The writable side: start_write, start_close, error_writable, abort.     *)
(* A write that is not accepted has its promise rejected.                  *)
(***************************************************************************)
Accept(s, p, job) == IF s.writable.status = "writable" THEN Schedule(s, job) ELSE Answer(s, p, TRUE)

StartWrite(s, p, chunk) == Accept(s, p, [kind |-> "write", promise |-> p, chunk |-> chunk])
StartClose(s, p) ==
  LET asked == Accept(s, p, [kind |-> "closeWritable", promise |-> p]) IN
  IF s.writable.status = "writable" THEN [asked EXCEPT !.writable.status = "closing"] ELSE asked

ErrorWritable(s) ==
  AnswerAll([s EXCEPT !.writable.status = "errored", !.writable.locked = FALSE], s.writers, TRUE)

NewWriter(s) ==
  [Given(s) EXCEPT !.writers = Append(@, NextPromise(s)), !.writable.locked = TRUE]

(***************************************************************************)
(* The pipe: pump, finish_pipe_write, start_pipe_write, start_pipe_close.  *)
(***************************************************************************)
StartPipe(s, r) ==
  LET p == NextPromise(s)
      pipe == [promise |-> p, writing |-> FALSE, closing |-> FALSE] IN
  WakePipe([Given(s) EXCEPT !.readables[r].locked = TRUE, !.readables[r].pipe = pipe, !.piped = p], r)

EndPipe(s, r, rejected) ==
  [Answer(s, s.readables[r].pipe.promise, rejected) EXCEPT !.readables[r].pipe = Nothing]

PumpChunk(s, r) ==
  LET p == NextPromise(s)
      chunk == Head(s.readables[r].queue)
      writing == [TakeChunk(Kept(s), r) EXCEPT !.readables[r].pipe.writing = TRUE,
                                               !.pumped = Append(@, chunk)]
  IN [StartWrite(writing, p, <<chunk>>) EXCEPT !.table = Subscribe(@, p, [kind |-> "pumped", stream |-> r])]

PumpClose(s, r) ==
  LET closing == [Kept(s) EXCEPT !.readables[r].pipe.writing = TRUE, !.readables[r].pipe.closing = TRUE,
                                 !.writable.source = r]
  IN StartClose(closing, NextPromise(s))

\* Mutant: a pump does not look for the write in flight.
Pump_Eager(s, r) ==
  LET stream == s.readables[r] IN
  IF stream.pipe = Nothing THEN s
  ELSE IF stream.queue # <<>> THEN PumpChunk(s, r)
  ELSE IF stream.status = "errored" THEN EndPipe(s, r, TRUE)
  ELSE IF stream.closing /\ ~stream.pipe.closing THEN PumpClose(s, r)
  ELSE s

Pump(s, r) ==
  LET stream == s.readables[r] IN
  IF stream.pipe = Nothing \/ (stream.pipe # Nothing /\ stream.pipe.writing) THEN s
  ELSE IF stream.queue # <<>> THEN PumpChunk(s, r)
  ELSE IF stream.status = "errored" THEN EndPipe(s, r, TRUE)
  ELSE IF stream.closing /\ ~stream.pipe.closing THEN PumpClose(s, r)
  ELSE s

\* Mutant: a finished write does not wake the pump.
FinishPipeWrite_Stops(s, r, rejected) ==
  IF r = Nothing \/ (r # Nothing /\ s.readables[r].pipe = Nothing) THEN s
  ELSE LET written == [s EXCEPT !.readables[r].pipe.writing = FALSE] IN
       IF rejected \/ s.readables[r].pipe.closing THEN EndPipe(written, r, rejected) ELSE written

\* Also for a pipe that has ended meanwhile.
FinishPipeWrite(s, r, rejected) ==
  IF r = Nothing \/ (r # Nothing /\ s.readables[r].pipe = Nothing) THEN s
  ELSE LET written == [s EXCEPT !.readables[r].pipe.writing = FALSE] IN
       IF rejected \/ s.readables[r].pipe.closing THEN EndPipe(written, r, rejected)
       ELSE Schedule(written, [kind |-> "pump", stream |-> r])

(***************************************************************************)
(* finish_close: the writers and the pipe that closed it hear of it, and   *)
(* a transform closes its output, which its transformer may have done.     *)
(***************************************************************************)
OutputRefuses(s) == program.transform /\ s.readables["output"].closing
FinishClose(s, p, rejected) ==
  LET source == s.writable.source
      left == [s EXCEPT !.writable.source = Nothing]
      closed == FinishPipeWrite(
                  AnswerAll([left EXCEPT !.writable.status = "closed"], s.writers, FALSE), source, FALSE)
  IN IF rejected THEN Answer(FinishPipeWrite(ErrorWritable(left), source, TRUE), p, TRUE)
     ELSE IF OutputRefuses(s) THEN Answer(ErrorWritable(closed), p, TRUE)
     ELSE Answer(IF program.transform THEN CloseStream(closed, "output") ELSE closed, p, FALSE)

(***************************************************************************)
(* What the program calls, from its own jobs and from its callbacks. A     *)
(* call that the streams refuse throws and changes nothing.                *)
(***************************************************************************)
StreamsInit ==
  /\ state = AllStreams /\ running = Nothing /\ over = FALSE
  /\ program \in Programs /\ calls = MaxCalls

Streams == IF program.transform THEN Readables ELSE {"source"}
Room == HasRoom(state.table)
Calls(name) == Room /\ ~over /\ calls > 0 /\ name \in program.calls /\ calls' = calls - 1
Does(s) == state' = s /\ UNCHANGED <<running, over, program>>

GetReader ==
  \E r \in Streams :
    /\ Calls("getReader") /\ ~state.readables[r].locked /\ Len(state.readers) < MaxReaders
    /\ Does(NewReader(state, r))

\* release_reader does not look whose the lock is.
ReleaseReader ==
  \E i \in DOMAIN state.readers :
    Calls("releaseReader") /\ Does([state EXCEPT !.readables[state.readers[i].stream].locked = FALSE])

CallRead == \E i \in DOMAIN state.readers : Calls("read") /\ Does(Read(state, i))

CallEnqueue == \E r \in Streams : Calls("enqueue") /\ ~Refuses(state, r) /\ Does(EnqueueChunk(state, r))

CallClose ==
  \E r \in Streams : Calls("close") /\ ~state.readables[r].closing /\ Does(CloseStream(state, r))

CallError == \E r \in Streams : Calls("error") /\ Does(ErrorStream(state, r))

CallCancel == \E r \in Streams : Calls("cancel") /\ Does(Cancel(state, r))

PipeTo ==
  /\ Calls("pipe") /\ ~state.readables["source"].locked /\ state.piped = Nothing
  /\ Does(StartPipe(state, "source"))

GetWriter == Calls("getWriter") /\ ~state.writable.locked /\ Does(NewWriter(state))

ReleaseWriter ==
  Calls("releaseWriter") /\ state.writers # <<>> /\ Does([state EXCEPT !.writable.locked = FALSE])

CallWrite ==
  Calls("write") /\ state.writers # <<>> /\ Does(StartWrite(Given(state), NextPromise(state), <<>>))

CloseWriter == Calls("closeWriter") /\ Does(StartClose(Given(state), NextPromise(state)))

\* abort leaves the closed promises of the writers alone.
Abort == Calls("abort") /\ Does([state EXCEPT !.writable.status = "errored"])

ErrorSink == Calls("errorSink") /\ Does(ErrorWritable(state))

ReadableCall ==
  \/ GetReader \/ ReleaseReader \/ CallRead \/ CallEnqueue \/ CallClose \/ CallError \/ CallCancel \/ PipeTo
WritableCall == GetWriter \/ ReleaseWriter \/ CallWrite \/ CloseWriter \/ Abort \/ ErrorSink
Call == ReadableCall \/ WritableCall

(***************************************************************************)
(* run_task and run_reaction: the head of the microtask queue. A callback  *)
(* stays on the stack until it returns.                                    *)
(***************************************************************************)
Job == Head(state.table.microtasks)
Begin(kind) ==
  ~over /\ running = Nothing /\ state.table.microtasks # <<>> /\ Job.kind = kind
Rest == [state EXCEPT !.table.microtasks = Tail(@)]
Ran(s) == Does(s) /\ UNCHANGED calls
Invoke(s) == state' = s /\ running' = Job /\ UNCHANGED <<over, program, calls>>

RunPull == Begin("pull") /\ Invoke([Rest EXCEPT !.readables[Job.stream].pulling = FALSE])

RunPump == Begin("pump") /\ Room /\ Ran(Pump(Rest, Job.stream))

\* run_write does not look at the status. Without a callback a transform
\* enqueues the chunk, and a sink is done.
Resolve(s, p, result) == [s EXCEPT !.table = ResolveInto(@, p, result)]
RunWrite ==
  LET begun == [Rest EXCEPT !.written = @ \o Job.chunk] IN
  /\ Begin("write")
  /\ IF program.callbacks THEN Invoke(begun)
     ELSE Ran(IF ~program.transform THEN Resolve(begun, Job.promise, Value)
              ELSE IF Refuses(begun, "output") THEN Resolve(begun, Job.promise, Throw)
              ELSE Resolve(EnqueueChunk(begun, "output"), Job.promise, Value))

RunClose ==
  /\ Begin("closeWritable")
  /\ IF program.callbacks THEN Invoke(Rest) ELSE Ran(FinishClose(Rest, Job.promise, FALSE))

\* What a callback returns: a value, an exception, or a promise of its own.
PullReturns ==
  \E result \in {Value, Throw} :
    /\ running # Nothing /\ running.kind = "pull" /\ running' = Nothing
    /\ state' = IF result = Throw THEN ErrorStream(state, running.stream) ELSE state
    /\ over' = (over \/ result = Throw) /\ UNCHANGED <<program, calls>>

SinkReturns ==
  LET sink == NextPromise(state)
      owing == [Kept(state) EXCEPT !.sinks = @ \cup {sink}] IN
  /\ Room /\ running # Nothing /\ running.kind \in {"write", "closeWritable"} /\ running' = Nothing
  /\ UNCHANGED <<over, program, calls>>
  /\ \/ /\ running.kind = "write"
        /\ \/ \E result \in {Value, Throw} : state' = Resolve(state, running.promise, result)
           \/ state' = Resolve(owing, running.promise, sink)
     \/ /\ running.kind = "closeWritable"
        /\ \/ \E rejected \in BOOLEAN : state' = FinishClose(state, running.promise, rejected)
           \/ state' = [owing EXCEPT !.table =
                Subscribe(@, sink, [kind |-> "finishClose", promise |-> running.promise])]

\* The exception of a transformer that has closed the output ends the loop.
RunReaction ==
  /\ Begin("reaction")
  /\ CASE Job.reaction.kind = "handler" -> Ran([Rest EXCEPT !.table = Alone(@, Job)])
       [] Job.reaction.kind = "pumped" -> Ran(FinishPipeWrite(Rest, Job.reaction.stream, Job.rejected))
       [] Job.reaction.kind = "finishClose" ->
            /\ state' = FinishClose(Rest, Job.reaction.promise, Job.rejected)
            /\ over' = (~Job.rejected /\ OutputRefuses(state))
            /\ UNCHANGED <<running, program, calls>>

\* The program settles a promise that one of its callbacks has returned.
SettleSink ==
  \E p \in state.sinks, rejected \in BOOLEAN :
    /\ ~over /\ Is(state.table, p, "pending")
    /\ Ran(Answer(state, p, rejected))

\* report_unhandled_rejection, once the queue is empty.
Report ==
  /\ ~over /\ running = Nothing /\ state.table.microtasks = <<>> /\ state.table.unhandled # {}
  /\ over' = TRUE /\ UNCHANGED <<state, running, program, calls>>

LoopStep ==
  RunPull \/ RunPump \/ RunWrite \/ RunClose \/ PullReturns \/ SinkReturns \/ RunReaction \/ Report
StreamsNext == Call \/ LoopStep \/ SettleSink

StreamsSpec == StreamsInit /\ [][StreamsNext]_vars /\ WF_vars(LoopStep) /\ WF_vars(SettleSink)

(***************************************************************************)
(* The type of the tables.                                                 *)
(***************************************************************************)
Reactions ==
  [kind : {"handler"}, f : {FALSE}, r : {FALSE}, target : Promises]
  \cup [kind : {"pumped"}, stream : Readables] \cup [kind : {"finishClose"}, promise : Promises]
Tasks ==
  [kind : {"pull", "pump"}, stream : Readables] \cup [kind : {"closeWritable"}, promise : Promises]
  \cup [kind : {"write"}, promise : Promises, chunk : Seq(Nat)]
ReactionJobs ==
  [kind : {"reaction"}, of : Promises, reaction : Reactions, rejected : BOOLEAN]
Tables ==
  [state : [Promises -> PromiseStates], handled : SUBSET Promises,
   reactions : [Promises -> Seq(Reactions)], microtasks : Seq(Tasks \cup ReactionJobs),
   unhandled : SUBSET Promises, combinators : {<<>>}]
ReadableStates ==
  [status : {"readable", "closed", "errored"}, closing : BOOLEAN, queue : Seq(Nat),
   locked : BOOLEAN, pulling : BOOLEAN,
   pipe : Pipes \cup {Nothing},
   sent : Nat, taken : Seq(Nat), dropped : BOOLEAN]
ReaderStates == [stream : Readables, closed : Promises, pending : Seq(Promises)]
WritableStates ==
  [status : {"writable", "closing", "closed", "errored"}, locked : BOOLEAN,
   source : Readables \cup {Nothing}]
States ==
  [table : Tables, readables : [Readables -> ReadableStates], readers : Seq(ReaderStates),
   writable : WritableStates, writers : Seq(Promises), sinks : SUBSET Promises,
   piped : Promises \cup {Nothing}, pumped : Seq(Nat), written : Seq(Nat)]

TypeOK ==
  /\ state \in States /\ running \in Tasks \cup {Nothing} /\ over \in BOOLEAN
  /\ program \in Programs /\ calls \in 0..MaxCalls

(***************************************************************************)
(* What the streams promise.                                               *)
(***************************************************************************)
\* Readers and the pipe get the chunks of a stream once and in the order in
\* which they were enqueued, whichever of them takes a chunk and whether it was
\* waiting; only cancel loses chunks.
ChunksInOrder ==
  \A r \in Readables :
    LET stream == state.readables[r]
        chunks == stream.taken \o stream.queue IN
    /\ \A i, j \in DOMAIN chunks : i < j => chunks[i] < chunks[j]
    /\ ~stream.dropped => Len(chunks) = stream.sent

\* A read waits only while its stream is readable and holds no chunk, and not
\* past the end unless a pipe has taken the last chunk (read, enqueue and
\* close_if_drained for every reader of the stream, released ones too). Once
\* the stream is closed no reader's closed promise is left pending.
WaitersAreServed ==
  \A i \in DOMAIN state.readers :
    LET reader == state.readers[i]
        stream == state.readables[reader.stream] IN
    /\ reader.pending # <<>> =>
         /\ stream.status = "readable" /\ stream.queue = <<>>
         /\ stream.closing => state.pumped # <<>>
    /\ stream.status = "closed" => ~Is(state.table, reader.closed, "pending")

\* A pipe has one chunk in flight, writes what it takes in that order however
\* often it is woken, and reports success only when the source has ended and
\* every chunk it took has been written.
PipeIsFaithful ==
  /\ IsPrefix(state.written, state.pumped)
  /\ Len(state.pumped) <= Len(state.written) + 1
  /\ (state.piped # Nothing /\ Is(state.table, state.piped, "fulfilled")) =>
       /\ state.readables["source"].closing /\ state.readables["source"].queue = <<>>
       /\ state.written = state.pumped

PipeSettled == state.piped # Nothing /\ ~Is(state.table, state.piped, "pending")

\* A pipe whose source is closed settles its promise, or the program has ended
\* with an exception or a rejection nobody hears. cancel does not wake the
\* pipe, so a cancelled source is excused.
PipeEnds ==
  (state.piped # Nothing /\ state.readables["source"].closing) ~>
  (PipeSettled \/ over \/ state.readables["source"].dropped)
=============================================================================
