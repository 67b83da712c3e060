---------------------------- MODULE StreamsProofs ----------------------------
(***************************************************************************)
(* Proofs about Streams for any program, number of promises, readers and   *)
(* calls.                                                                  *)
(***************************************************************************)
EXTENDS Streams, WellFoundedInduction, TLAPS

-----------------------------------------------------------------------------
(* Induction.  The library states it for operators; sets serve as well. *)

LEMMA Smallest ==
  ASSUME NEW T \in SUBSET Nat, T # {}
  PROVE  \E x \in T : \A y \in T : ~(y < x)
<1>1. IsWellFoundedOn(OpToRel(<, Nat), Nat)
  BY NatLessThanWellFounded, Zenon
<1>2. \E x \in T : \A y \in T : ~(<<y, x>> \in OpToRel(<, Nat))
  BY <1>1, WFMin, Zenon
<1>3. QED
  BY <1>2 DEF OpToRel

LEMMA LeastNat ==
  ASSUME NEW T \in SUBSET Nat, T # {}
  PROVE  \E x \in T : \A y \in T : x <= y
<1>1. PICK x \in T : \A y \in T : ~(y < x)
  BY Smallest
<1>2. \A y \in T : x <= y
  BY <1>1
<1>3. QED
  BY <1>2

LEMMA NatInSet ==
  ASSUME NEW S, 0 \in S, \A n \in Nat : n \in S => n + 1 \in S
  PROVE  Nat \subseteq S
<1> SUFFICES ASSUME Nat \ S # {} PROVE FALSE
  OBVIOUS
<1>1. PICK x \in Nat \ S : \A y \in Nat \ S : ~(y < x)
  BY Smallest
<1>2. x # 0 /\ x - 1 \in Nat /\ x - 1 < x
  BY <1>1
<1>3. QED
  BY <1>1, <1>2

LEMMA UpTo ==
  ASSUME NEW n \in Nat, NEW S, 0 \in S, \A k \in 0..(n - 1) : k \in S => k + 1 \in S
  PROVE  0..n \subseteq S
<1> DEFINE A == S \cup {k \in Nat : k > n}
<1>1. 0 \in A
  OBVIOUS
<1>2. \A k \in Nat : k \in A => k + 1 \in A
  OBVIOUS
<1>3. Nat \subseteq A
  <2> HIDE DEF A
  <2>1. QED
    BY <1>1, <1>2, NatInSet
<1>4. QED
  BY <1>3

-----------------------------------------------------------------------------
(* The promise table. *)

\* The next promise is one that does not exist yet.
LEMMA FreshPromise ==
  ASSUME NEW t \in Tables, HasRoom(t)
  PROVE  Fresh(t) \in Promises /\ t.state[Fresh(t)] = "absent"
<1> DEFINE free == {p \in Promises : ~Exists(t, p)}
<1>1. free # {} /\ free \in SUBSET Nat
  BY DEF HasRoom, Promises
<1>2. PICK p \in free : \A q \in free : p <= q
  BY <1>1, LeastNat
<1>3. \E r \in Promises : ~Exists(t, r) /\ \A q \in Promises : q < r => Exists(t, q)
  <2>1. \A q \in Promises : q < p => Exists(t, q)
    BY <1>2, PromisesAssumption DEF Promises
  <2>2. QED
    BY <1>2, <2>1
<1>4. QED
  BY <1>3 DEF Fresh, Exists, Is

\* Settling promises in turn is settling one more after the others.
LEMMA SettleFirstStep ==
  ASSUME NEW t, NEW promises \in Seq(Promises), NEW rejected
  PROVE  /\ SettleFirst(t, promises, rejected)[0] = t
         /\ \A n \in 1..Len(promises) :
              SettleFirst(t, promises, rejected)[n] =
                Settle(SettleFirst(t, promises, rejected)[n - 1], promises[n], rejected)
<1> DEFINE N == Len(promises)
           Step(f, n) == IF n = 0 THEN t ELSE Settle(f[n - 1], promises[n], rejected)
           done == {n \in Nat : \E f : f = [k \in 0..n |-> Step(f, k)]}
<1>1. N \in Nat
  OBVIOUS
<1>2. 0 \in done
  <2> DEFINE f == [k \in 0..0 |-> t]
  <2>1. f = [k \in 0..0 |-> Step(f, k)]
    OBVIOUS
  <2>2. QED
    BY <2>1
<1>3. \A n \in Nat : n \in done => n + 1 \in done
  <2> SUFFICES ASSUME NEW n \in Nat, NEW f, f = [k \in 0..n |-> Step(f, k)]
               PROVE  \E g : g = [k \in 0..(n + 1) |-> Step(g, k)]
    OBVIOUS
  <2> DEFINE g == [k \in 0..(n + 1) |-> IF k = n + 1 THEN Settle(f[n], promises[n + 1], rejected)
                                       ELSE f[k]]
  <2>1. \A k \in 0..(n + 1) : g[k] = Step(g, k)
    <3> SUFFICES ASSUME NEW k \in 0..(n + 1) PROVE g[k] = Step(g, k)
      OBVIOUS
    <3>1. CASE k = n + 1
      BY <3>1
    <3>2. CASE k \in 0..n
      <4>1. g[k] = f[k] /\ (k # 0 => g[k - 1] = f[k - 1])
        BY <3>2
      <4>2. f[k] = Step(f, k)
        BY <3>2
      <4>3. QED
        BY <4>1, <4>2
    <3>3. QED
      BY <3>1, <3>2
  <2>2. g = [k \in 0..(n + 1) |-> Step(g, k)]
    BY <2>1
  <2>3. QED
    BY <2>2
<1>4. N \in done
  <2> HIDE DEF done
  <2>1. 0..N \subseteq done
    BY <1>1, <1>2, <1>3, UpTo
  <2>2. QED
    BY <1>1, <2>1
<1>5. PICK f : f = [k \in 0..N |-> Step(f, k)]
  BY <1>4
<1>6. SettleFirst(t, promises, rejected) = [k \in 0..N |-> Step(SettleFirst(t, promises, rejected), k)]
  BY <1>5 DEF SettleFirst
<1>7. QED
  BY <1>1, <1>6

-----------------------------------------------------------------------------
(* What the operators do to the table. *)

LEMMA ReactionTypes ==
  /\ \A p \in Promises : PassThrough(p) \in Reactions
  /\ \A r \in Readables : [kind |-> "pumped", stream |-> r] \in Reactions
  /\ \A p \in Promises : [kind |-> "finishClose", promise |-> p] \in Reactions
  /\ \A x \in Reactions : x.kind \in {"handler", "pumped", "finishClose"}
  /\ \A x \in Reactions : x.kind = "handler" => x.target \in Promises
  /\ \A x \in Reactions : x.kind = "pumped" => x.stream \in Readables
  /\ \A x \in Reactions : x.kind = "finishClose" => x.promise \in Promises
BY DEF Reactions, PassThrough, Handler, Readables

LEMMA JobTypes ==
  /\ \A p \in Promises, x \in Reactions, rejected \in BOOLEAN : Reaction(p, x, rejected) \in ReactionJobs
  /\ \A r \in Readables : [kind |-> "pump", stream |-> r] \in Tasks /\ [kind |-> "pull", stream |-> r] \in Tasks
  /\ \A p \in Promises : [kind |-> "closeWritable", promise |-> p] \in Tasks
  /\ \A p \in Promises, chunk \in Seq(Nat) :
       [kind |-> "write", promise |-> p, chunk |-> chunk] \in Tasks
  /\ \A x \in Tasks : x.kind \in {"pull", "pump", "closeWritable", "write"}
  /\ \A x \in Tasks : x.kind \in {"pull", "pump"} => x.stream \in Readables
  /\ \A x \in Tasks : x.kind \in {"closeWritable", "write"} => x.promise \in Promises
  /\ \A x \in Tasks : x.kind = "write" => x.chunk \in Seq(Nat)
  /\ \A x \in ReactionJobs :
       x.kind = "reaction" /\ x.of \in Promises /\ x.reaction \in Reactions /\ x.rejected \in BOOLEAN
<1>1. /\ \A p \in Promises, x \in Reactions, rejected \in BOOLEAN : Reaction(p, x, rejected) \in ReactionJobs
      /\ \A x \in ReactionJobs :
           x.kind = "reaction" /\ x.of \in Promises /\ x.reaction \in Reactions /\ x.rejected \in BOOLEAN
  BY DEF ReactionJobs, Reaction
<1>2. /\ \A r \in Readables : [kind |-> "pump", stream |-> r] \in Tasks /\ [kind |-> "pull", stream |-> r] \in Tasks
      /\ \A p \in Promises : [kind |-> "closeWritable", promise |-> p] \in Tasks
      /\ \A p \in Promises, chunk \in Seq(Nat) :
           [kind |-> "write", promise |-> p, chunk |-> chunk] \in Tasks
  BY DEF Tasks
<1>3. /\ \A x \in Tasks : x.kind \in {"pull", "pump", "closeWritable", "write"}
      /\ \A x \in Tasks : x.kind \in {"pull", "pump"} => x.stream \in Readables
      /\ \A x \in Tasks : x.kind \in {"closeWritable", "write"} => x.promise \in Promises
      /\ \A x \in Tasks : x.kind = "write" => x.chunk \in Seq(Nat)
  BY DEF Tasks
<1>4. QED
  BY <1>1, <1>2, <1>3

LEMMA TableTypes ==
  ASSUME NEW t \in Tables
  PROVE  /\ t.state \in [Promises -> PromiseStates] /\ t.handled \in SUBSET Promises
         /\ t.reactions \in [Promises -> Seq(Reactions)]
         /\ t.microtasks \in Seq(Tasks \cup ReactionJobs)
         /\ t.unhandled \in SUBSET Promises
BY DEF Tables

LEMMA EnqueueIs ==
  ASSUME NEW t \in Tables, NEW job \in Tasks \cup ReactionJobs
  PROVE  /\ Enqueue(t, <<job>>) \in Tables
         /\ Enqueue(t, <<job>>).state = t.state
         /\ Enqueue(t, <<job>>).reactions = t.reactions
         /\ Enqueue(t, <<job>>).microtasks = Append(t.microtasks, job)
<1>1. <<job>> \in Seq(Tasks \cup ReactionJobs) /\ t.microtasks \in Seq(Tasks \cup ReactionJobs)
  BY DEF Tables
<1>2. t.microtasks \o <<job>> = Append(t.microtasks, job)
  BY <1>1
<1>3. t.microtasks \o <<job>> \in Seq(Tasks \cup ReactionJobs)
  BY <1>1
<1>4. QED
  BY <1>2, <1>3 DEF Enqueue, Tables

LEMMA CreateIs ==
  ASSUME NEW t \in Tables, HasRoom(t)
  PROVE  /\ Create(t) \in Tables /\ Create(t).reactions = t.reactions
         /\ Create(t).microtasks = t.microtasks
         /\ Create(t).state = [t.state EXCEPT ![Fresh(t)] = "pending"]
         /\ Fresh(t) \in Promises /\ t.state[Fresh(t)] = "absent"
BY FreshPromise DEF Create, Tables, PromiseStates

LEMMA MarkHandledIs ==
  ASSUME NEW t \in Tables, NEW p \in Promises
  PROVE  /\ MarkHandled(t, p) \in Tables /\ MarkHandled(t, p).reactions = t.reactions
         /\ MarkHandled(t, p).microtasks = t.microtasks /\ MarkHandled(t, p).state = t.state
BY DEF MarkHandled, Tables

LEMMA SubscribeIs ==
  ASSUME NEW t \in Tables, NEW p \in Promises, NEW x \in Reactions
  PROVE  /\ Subscribe(t, p, x) \in Tables /\ Subscribe(t, p, x).state = t.state
         /\ Is(t, p, "pending") =>
              /\ Subscribe(t, p, x).microtasks = t.microtasks
              /\ Subscribe(t, p, x).reactions = [t.reactions EXCEPT ![p] = Append(@, x)]
         /\ ~Is(t, p, "pending") =>
              /\ Subscribe(t, p, x).microtasks = Append(t.microtasks, Reaction(p, x, Is(t, p, "rejected")))
              /\ Subscribe(t, p, x).reactions = t.reactions
<1> DEFINE heard == MarkHandled(t, p)
<1>1. /\ heard \in Tables /\ heard.reactions = t.reactions
      /\ heard.microtasks = t.microtasks /\ heard.state = t.state
  BY MarkHandledIs
<1> HIDE DEF heard
<1>2. CASE Is(t, p, "pending")
  <2>1. Subscribe(t, p, x) =
          [heard EXCEPT !.reactions = [heard.reactions EXCEPT ![p] = Append(heard.reactions[p], x)]]
    BY <1>2 DEF Subscribe, heard
  <2>2. heard.reactions \in [Promises -> Seq(Reactions)]
    BY <1>1, TableTypes
  <2>3. Append(heard.reactions[p], x) \in Seq(Reactions)
    BY <2>2
  <2>4. [heard.reactions EXCEPT ![p] = Append(heard.reactions[p], x)] \in [Promises -> Seq(Reactions)]
    BY <2>2, <2>3
  <2>5. QED
    BY <1>1, <1>2, <2>1, <2>4 DEF Tables
<1>3. CASE ~Is(t, p, "pending")
  <2>1. Subscribe(t, p, x) = Enqueue(heard, <<Reaction(p, x, Is(t, p, "rejected"))>>)
    BY <1>3 DEF Subscribe, heard
  <2>2. Reaction(p, x, Is(t, p, "rejected")) \in ReactionJobs
    BY JobTypes DEF Is
  <2> DEFINE job == Reaction(p, x, Is(t, p, "rejected"))
  <2>3. job \in Tasks \cup ReactionJobs
    BY <2>2
  <2> HIDE DEF job
  <2>4. /\ Enqueue(heard, <<job>>) \in Tables
        /\ Enqueue(heard, <<job>>).state = heard.state
        /\ Enqueue(heard, <<job>>).reactions = heard.reactions
        /\ Enqueue(heard, <<job>>).microtasks = Append(heard.microtasks, job)
    BY <1>1, <2>3, EnqueueIs
  <2>5. QED
    BY <1>1, <1>3, <2>1, <2>4 DEF job
<1>4. QED
  BY <1>2, <1>3

\* u is t with promise p settled.
Settled(t, u, p, rejected) ==
  /\ u \in Tables
  /\ u.state = [t.state EXCEPT ![p] = IF rejected THEN "rejected" ELSE "fulfilled"]
  /\ u.reactions = [t.reactions EXCEPT ![p] = <<>>]
  /\ Len(u.microtasks) = Len(t.microtasks) + Len(t.reactions[p])
  /\ \A i \in DOMAIN t.microtasks : u.microtasks[i] = t.microtasks[i]
  /\ \A i \in DOMAIN t.reactions[p] :
       u.microtasks[Len(t.microtasks) + i] = Reaction(p, t.reactions[p][i], rejected)

LEMMA SettleIs ==
  ASSUME NEW t \in Tables, NEW p \in Promises, NEW rejected \in BOOLEAN,
         Is(t, p, "pending")
  PROVE  Settled(t, Settle(t, p, rejected), p, rejected)
<1> DEFINE u == Settle(t, p, rejected)
<1> DEFINE waiting == t.reactions[p]
           jobs == [i \in DOMAIN waiting |-> Reaction(p, waiting[i], rejected)]
           M == t.microtasks
<1>1. /\ waiting \in Seq(Reactions) /\ M \in Seq(Tasks \cup ReactionJobs)
      /\ t.state \in [Promises -> PromiseStates] /\ t.handled \in SUBSET Promises
      /\ t.reactions \in [Promises -> Seq(Reactions)] /\ t.unhandled \in SUBSET Promises
  BY TableTypes
<1>2. jobs \in Seq(Tasks \cup ReactionJobs) /\ Len(jobs) = Len(waiting)
      /\ \A i \in DOMAIN waiting : jobs[i] = Reaction(p, waiting[i], rejected)
  <2>1. \A i \in 1..Len(waiting) : Reaction(p, waiting[i], rejected) \in ReactionJobs
    BY <1>1, JobTypes
  <2>2. DOMAIN waiting = 1..Len(waiting) /\ Len(waiting) \in Nat
    BY <1>1
  <2> HIDE DEF waiting
  <2>3. QED
    BY <2>1, <2>2
<1>3. u = [t EXCEPT !.microtasks = M \o jobs,
                    !.state = [t.state EXCEPT ![p] = IF rejected THEN "rejected" ELSE "fulfilled"],
                    !.reactions = [t.reactions EXCEPT ![p] = <<>>],
                    !.unhandled = IF rejected THEN t.unhandled \cup ({p} \ t.handled) ELSE t.unhandled]
  BY DEF Settle, Enqueue, Tables
<1> HIDE DEF jobs, waiting, M, u
<1>4. M \o jobs \in Seq(Tasks \cup ReactionJobs) /\ Len(M \o jobs) = Len(M) + Len(jobs)
      /\ (\A i \in DOMAIN M : (M \o jobs)[i] = M[i])
      /\ (\A i \in DOMAIN jobs : (M \o jobs)[Len(M) + i] = jobs[i])
  <2>1. \A S, a, b : a \in Seq(S) /\ b \in Seq(S) =>
          a \o b \in Seq(S) /\ Len(a \o b) = Len(a) + Len(b)
    OBVIOUS
  <2>2. \A S, a, b : a \in Seq(S) /\ b \in Seq(S) =>
          (\A i \in DOMAIN a : (a \o b)[i] = a[i])
    OBVIOUS
  <2>3. \A S, a, b : a \in Seq(S) /\ b \in Seq(S) =>
          (\A i \in DOMAIN b : (a \o b)[Len(a) + i] = b[i])
    OBVIOUS
  <2>4. M \in Seq(Tasks \cup ReactionJobs) /\ jobs \in Seq(Tasks \cup ReactionJobs)
    BY <1>1, <1>2
  <2>5. QED
    BY ONLY <2>1, <2>2, <2>3, <2>4
<1>5. [t.reactions EXCEPT ![p] = <<>>] \in [Promises -> Seq(Reactions)]
      /\ [t.state EXCEPT ![p] = IF rejected THEN "rejected" ELSE "fulfilled"] \in [Promises -> PromiseStates]
      /\ (IF rejected THEN t.unhandled \cup ({p} \ t.handled) ELSE t.unhandled) \in SUBSET Promises
  BY <1>1 DEF PromiseStates
<1>6. u \in Tables /\ u.microtasks = M \o jobs
      /\ u.state = [t.state EXCEPT ![p] = IF rejected THEN "rejected" ELSE "fulfilled"]
      /\ u.reactions = [t.reactions EXCEPT ![p] = <<>>]
  BY <1>3, <1>4, <1>5 DEF Tables
<1>7. DOMAIN jobs = DOMAIN waiting
  BY DEF jobs
<1>8. QED
  BY <1>2, <1>4, <1>6, <1>7 DEF M, waiting, u, Settled
-----------------------------------------------------------------------------
(* The inductive invariant, over the tables s and the callback run that is *)
(* on the stack.                                                           *)

\* The chunks a stream has handed out and still holds are numbered upwards.
StreamChunks(stream) ==
  LET chunks == stream.taken \o stream.queue IN
  /\ \A i, j \in DOMAIN chunks : i < j => chunks[i] < chunks[j]
  /\ \A i \in DOMAIN chunks : chunks[i] <= stream.sent
  /\ ~stream.dropped => Len(chunks) = stream.sent

\* A stream that is closing and empty is closed, unless the pipe took the
\* last chunk.
StreamEnds(s, r) ==
  LET stream == s.readables[r] IN
  stream.closing /\ stream.queue = <<>> /\ stream.status = "readable" => s.pumped # <<>>

ReaderWaits(s, i) ==
  LET stream == s.readables[s.readers[i].stream] IN
  s.readers[i].pending # <<>> => stream.status = "readable" /\ stream.queue = <<>>

ReaderHears(s, i) ==
  s.readables[s.readers[i].stream].status = "closed" => ~Is(s.table, s.readers[i].closed, "pending")

Served(s) ==
  /\ \A r \in Readables : StreamChunks(s.readables[r]) /\ StreamEnds(s, r)
  /\ \A i \in DOMAIN s.readers :
       ReaderWaits(s, i) /\ ReaderHears(s, i) /\ Exists(s.table, s.readers[i].closed)

\* The write of a chunk for the pipe, and what tells the pipe that it is done:
\* a reaction that waits for the promise of the write, then a job.
IsWrite(job) == job.kind = "write" /\ job.chunk # <<>>
IsToken(job) == job.kind = "reaction" /\ job.reaction.kind = "pumped"
WaitsFor(t, p) == \E k \in DOMAIN t.reactions[p] : t.reactions[p][k].kind = "pumped"

OneToken(t) ==
  /\ \A p, q \in Promises : WaitsFor(t, p) /\ WaitsFor(t, q) => p = q
  /\ \A p \in Promises : \A k, l \in DOMAIN t.reactions[p] :
       t.reactions[p][k].kind = "pumped" /\ t.reactions[p][l].kind = "pumped" => k = l
  /\ \A i, j \in DOMAIN t.microtasks :
       IsToken(t.microtasks[i]) /\ IsToken(t.microtasks[j]) => i = j
  /\ \A i \in DOMAIN t.microtasks : \A p \in Promises :
       ~(IsToken(t.microtasks[i]) /\ WaitsFor(t, p))
NoToken(t) ==
  /\ \A p \in Promises : ~WaitsFor(t, p)
  /\ \A i \in DOMAIN t.microtasks : ~IsToken(t.microtasks[i])
NoWrite(t) == \A i \in DOMAIN t.microtasks : ~IsWrite(t.microtasks[i])
OneWrite(t) ==
  \A i, j \in DOMAIN t.microtasks : IsWrite(t.microtasks[i]) /\ IsWrite(t.microtasks[j]) => i = j

\* Who may settle promise p: a job or a reaction that aims at it, a reader, a
\* writer or a sink that holds it, the callback on the stack.
ReactionAims(reaction, p) ==
  \/ reaction.kind = "handler" /\ reaction.target = p
  \/ reaction.kind = "finishClose" /\ reaction.promise = p
JobAims(job, p) ==
  \/ job.kind = "write" /\ job.chunk = <<>> /\ job.promise = p
  \/ job.kind = "closeWritable" /\ job.promise = p
  \/ job.kind = "reaction" /\ ReactionAims(job.reaction, p)
Aimed(t, p) ==
  \/ \E i \in DOMAIN t.microtasks : JobAims(t.microtasks[i], p)
  \/ \E q \in Promises : \E k \in DOMAIN t.reactions[q] : ReactionAims(t.reactions[q][k], p)
Held(s, p) ==
  \/ \E i \in DOMAIN s.readers :
       \/ s.readers[i].closed = p
       \/ \E k \in DOMAIN s.readers[i].pending : s.readers[i].pending[k] = p
  \/ \E i \in DOMAIN s.writers : s.writers[i] = p
  \/ p \in s.sinks
Runs(run, p) == run # Nothing /\ run.kind \in {"write", "closeWritable"} /\ run.promise = p
Unclaimed(s, run, p) == ~Aimed(s.table, p) /\ ~Held(s, p) /\ ~Runs(run, p)
Awaits(t, p) == \E i \in DOMAIN t.microtasks : IsWrite(t.microtasks[i]) /\ t.microtasks[i].promise = p

\* Promises that do not exist are named nowhere, and nobody else settles the
\* promise of the pipe or the one of the pipe's write.
Names(s, run) ==
  /\ \A p \in Promises : Is(s.table, p, "absent") \/ p = s.piped \/ Awaits(s.table, p) => Unclaimed(s, run, p)
  /\ s.piped # Nothing => Exists(s.table, s.piped) /\ ~Awaits(s.table, s.piped)
  /\ \A p \in Promises : Awaits(s.table, p) => WaitsFor(s.table, p)

\* The write in flight: what has been taken and not yet written.
Flight(s) ==
  /\ OneToken(s.table) /\ OneWrite(s.table)
  /\ \A i \in DOMAIN s.table.microtasks : LET job == s.table.microtasks[i] IN
       /\ IsWrite(job) => Len(job.chunk) = 1 /\ s.pumped = s.written \o job.chunk
       /\ IsToken(job) /\ ~job.rejected => s.written = s.pumped
  /\ \A p \in Promises : WaitsFor(s.table, p) =>
       Is(s.table, p, "pending") /\ (s.written = s.pumped \/ Awaits(s.table, p))
  /\ s.written = s.pumped \/ \E n \in Nat : s.pumped = Append(s.written, n)

Idle(s) == NoToken(s.table) /\ NoWrite(s.table) /\ s.written = s.pumped

\* The pipe leads from the source only. While it is not writing, and while it
\* closes its destination, nothing is in flight.
PipeStands(s) ==
  LET source == s.readables["source"]
      pipe == source.pipe IN
  /\ s.readables["output"].pipe = Nothing
  /\ pipe = Nothing => NoToken(s.table) /\ NoWrite(s.table)
  /\ pipe # Nothing =>
       /\ pipe.promise = s.piped
       /\ ~pipe.writing \/ pipe.closing => Idle(s)
       /\ pipe.closing => pipe.writing /\ source.closing /\ source.queue = <<>>
  /\ s.writable.source = "source" /\ pipe # Nothing => pipe.closing
  /\ s.piped = Nothing =>
       pipe = Nothing /\ s.pumped = <<>> /\ s.written = <<>> /\ s.writable.source # "source"
  /\ s.piped # Nothing /\ Is(s.table, s.piped, "fulfilled") =>
       pipe = Nothing /\ source.closing /\ source.queue = <<>> /\ s.written = s.pumped

PipeInv(s, run) == Names(s, run) /\ Flight(s) /\ PipeStands(s)

IInv == TypeOK /\ Served(state) /\ PipeInv(state, running)

-----------------------------------------------------------------------------
(* Settling promises: what any number of settlements of promises in X may  *)
(* have made of a table.                                                   *)

After(t, X) ==
  {u \in Tables :
     /\ \A p \in Promises :
          \/ u.state[p] = t.state[p] /\ u.reactions[p] = t.reactions[p]
          \/ /\ p \in X /\ t.state[p] = "pending"
             /\ u.state[p] \in {"fulfilled", "rejected"} /\ u.reactions[p] = <<>>
     /\ Len(t.microtasks) <= Len(u.microtasks)
     /\ \A i \in DOMAIN t.microtasks : u.microtasks[i] = t.microtasks[i]
     /\ \A i \in DOMAIN u.microtasks : i > Len(t.microtasks) =>
          /\ u.microtasks[i] \in ReactionJobs
          /\ \E q \in X \cap Promises : \E k \in DOMAIN t.reactions[q] :
               u.microtasks[i].reaction = t.reactions[q][k]
     /\ OneToken(t) => OneToken(u)}

LEMMA AfterNothing ==
  ASSUME NEW t \in Tables, NEW X
  PROVE  t \in After(t, X)
<1>1. \A i \in DOMAIN t.microtasks : ~(i > Len(t.microtasks))
  BY TableTypes
<1>2. Len(t.microtasks) <= Len(t.microtasks)
  BY TableTypes
<1>3. QED
  BY <1>1, <1>2 DEF After

\* The reactions of a settled promise become jobs, each once.
LEMMA SettleOneToken ==
  ASSUME NEW t \in Tables, NEW p \in Promises, NEW rejected \in BOOLEAN, OneToken(t)
  PROVE  OneToken(Settle(t, p, rejected))
<1>1. CASE ~Is(t, p, "pending")
  BY <1>1 DEF Settle
<1>2. CASE Is(t, p, "pending")
  <2> DEFINE u == Settle(t, p, rejected)
             n == Len(t.microtasks)
  <2>0. u = Settle(t, p, rejected)
    OBVIOUS
  <2> HIDE DEF u
  <2>01. Settled(t, u, p, rejected)
    BY <1>2, <2>0, SettleIs
  <2>1. /\ u \in Tables
        /\ u.reactions = [t.reactions EXCEPT ![p] = <<>>]
        /\ Len(u.microtasks) = n + Len(t.reactions[p])
        /\ \A i \in DOMAIN t.microtasks : u.microtasks[i] = t.microtasks[i]
        /\ \A i \in DOMAIN t.reactions[p] :
             u.microtasks[n + i] = Reaction(p, t.reactions[p][i], rejected)
    BY <2>01 DEF Settled
  <2>2. /\ t.reactions \in [Promises -> Seq(Reactions)]
        /\ t.microtasks \in Seq(Tasks \cup ReactionJobs)
        /\ u.microtasks \in Seq(Tasks \cup ReactionJobs)
    BY <2>1, TableTypes
  <2>3. \A i \in DOMAIN u.microtasks :
          \/ i \in DOMAIN t.microtasks /\ u.microtasks[i] = t.microtasks[i]
          \/ /\ i - n \in DOMAIN t.reactions[p]
             /\ u.microtasks[i] = Reaction(p, t.reactions[p][i - n], rejected)
    <3> TAKE i \in DOMAIN u.microtasks
    <3> DEFINE w == t.reactions[p]
    <3>0. w \in Seq(Reactions)
      BY <2>2
    <3>1. DOMAIN w = 1..Len(w) /\ Len(w) \in Nat
      <4> HIDE DEF w
      <4>1. QED
        BY <3>0
    <3>2. i \in 1..(n + Len(w)) /\ n \in Nat /\ DOMAIN t.microtasks = 1..n
      <4>1. Len(u.microtasks) = n + Len(w)
        BY <2>1
      <4>2. DOMAIN u.microtasks = 1..Len(u.microtasks) /\ DOMAIN t.microtasks = 1..n /\ n \in Nat
        BY <2>2
      <4>3. QED
        BY ONLY <4>1, <4>2, i \in DOMAIN u.microtasks
    <3> HIDE DEF n, w
    <3>3. i \in 1..n \/ i - n \in 1..Len(w)
      BY <3>1, <3>2
    <3>4. CASE i \in 1..n
      BY <3>2, <3>4, <2>1
    <3>5. CASE i - n \in 1..Len(w)
      <4>1. n + (i - n) = i
        BY <3>2
      <4>2. u.microtasks[n + (i - n)] = Reaction(p, t.reactions[p][i - n], rejected)
        BY <3>1, <3>5, <2>1 DEF w, n
      <4>3. QED
        BY <4>1, <4>2, <3>1, <3>5 DEF w
    <3>6. QED
      BY <3>3, <3>4, <3>5
  <2>4. \A x \in Reactions : IsToken(Reaction(p, x, rejected)) <=> x.kind = "pumped"
    BY DEF IsToken, Reaction
  <2>5. \A q \in Promises : WaitsFor(u, q) => q # p /\ WaitsFor(t, q)
    <3>1. \A q \in Promises : u.reactions[q] = IF q = p THEN <<>> ELSE t.reactions[q]
      BY <2>1, <2>2
    <3>2. QED
      BY <3>1 DEF WaitsFor
  <2>6. \A i \in DOMAIN u.microtasks : IsToken(u.microtasks[i]) =>
          \/ i \in DOMAIN t.microtasks /\ IsToken(t.microtasks[i])
          \/ i - n \in DOMAIN t.reactions[p] /\ t.reactions[p][i - n].kind = "pumped"
    <3> TAKE i \in DOMAIN u.microtasks
    <3>1. CASE i \in DOMAIN t.microtasks /\ u.microtasks[i] = t.microtasks[i]
      BY <3>1
    <3>2. CASE /\ i - n \in DOMAIN t.reactions[p]
               /\ u.microtasks[i] = Reaction(p, t.reactions[p][i - n], rejected)
      <4>1. t.reactions[p][i - n] \in Reactions
        BY <3>2, <2>2
      <4>2. QED
        BY <3>2, <4>1, <2>4
    <3>3. QED
      BY <3>1, <3>2, <2>3
  <2>7. \A i, j \in DOMAIN u.microtasks :
          IsToken(u.microtasks[i]) /\ IsToken(u.microtasks[j]) => i = j
    <3> SUFFICES ASSUME NEW i \in DOMAIN u.microtasks, NEW j \in DOMAIN u.microtasks,
                        IsToken(u.microtasks[i]), IsToken(u.microtasks[j])
                 PROVE  i = j
      OBVIOUS
    <3>0. i \in Nat /\ j \in Nat /\ n \in Nat
      BY <2>2
    <3>1. CASE i \in DOMAIN t.microtasks /\ IsToken(t.microtasks[i])
      <4>1. ~WaitsFor(t, p)
        BY <3>1 DEF OneToken
      <4>2. j \in DOMAIN t.microtasks /\ IsToken(t.microtasks[j])
        BY <2>6, <4>1 DEF WaitsFor
      <4>3. QED
        BY <3>1, <4>2 DEF OneToken
    <3>2. CASE i - n \in DOMAIN t.reactions[p] /\ t.reactions[p][i - n].kind = "pumped"
      <4>1. WaitsFor(t, p)
        BY <3>2 DEF WaitsFor
      <4>2. j - n \in DOMAIN t.reactions[p] /\ t.reactions[p][j - n].kind = "pumped"
        BY <2>6, <4>1 DEF OneToken
      <4>3. i - n = j - n
        BY <3>2, <4>2 DEF OneToken
      <4>4. QED
        BY <3>0, <4>3
    <3>3. QED
      BY <3>1, <3>2, <2>6
  <2>8. \A i \in DOMAIN u.microtasks : \A q \in Promises :
          ~(IsToken(u.microtasks[i]) /\ WaitsFor(u, q))
    <3> SUFFICES ASSUME NEW i \in DOMAIN u.microtasks, NEW q \in Promises,
                        IsToken(u.microtasks[i]), WaitsFor(u, q)
                 PROVE  FALSE
      OBVIOUS
    <3>1. q # p /\ WaitsFor(t, q)
      BY <2>5
    <3>2. CASE i \in DOMAIN t.microtasks /\ IsToken(t.microtasks[i])
      BY <3>1, <3>2 DEF OneToken
    <3>3. CASE i - n \in DOMAIN t.reactions[p] /\ t.reactions[p][i - n].kind = "pumped"
      BY <3>1, <3>3 DEF OneToken, WaitsFor
    <3>4. QED
      BY <3>2, <3>3, <2>6
  <2>9. \A q \in Promises : \A k, l \in DOMAIN u.reactions[q] :
          u.reactions[q][k].kind = "pumped" /\ u.reactions[q][l].kind = "pumped" => k = l
    <3>1. \A q \in Promises : u.reactions[q] = IF q = p THEN <<>> ELSE t.reactions[q]
      BY <2>1, <2>2
    <3>2. QED
      BY <3>1 DEF OneToken
  <2>10. \A q1, q2 \in Promises : WaitsFor(u, q1) /\ WaitsFor(u, q2) => q1 = q2
    BY <2>5 DEF OneToken
  <2>11. QED
    BY <2>7, <2>8, <2>9, <2>10 DEF OneToken, u
<1>3. QED
  BY <1>1, <1>2

LEMMA AfterSettle ==
  ASSUME NEW t \in Tables, NEW X, NEW u \in After(t, X), NEW p \in Promises, p \in X,
         NEW rejected \in BOOLEAN
  PROVE  Settle(u, p, rejected) \in After(t, X)
<1>1. CASE ~Is(u, p, "pending")
  BY <1>1 DEF Settle
<1>2. CASE Is(u, p, "pending")
  <2> DEFINE v == Settle(u, p, rejected)
             n == Len(u.microtasks)
  <2>0. v = Settle(u, p, rejected) /\ u \in Tables
    BY DEF After
  <2> HIDE DEF v
  <2>01. Settled(u, v, p, rejected)
    BY <1>2, <2>0, SettleIs
  <2>1. /\ v \in Tables
        /\ v.state = [u.state EXCEPT ![p] = IF rejected THEN "rejected" ELSE "fulfilled"]
        /\ v.reactions = [u.reactions EXCEPT ![p] = <<>>]
        /\ Len(v.microtasks) = n + Len(u.reactions[p])
        /\ \A i \in DOMAIN u.microtasks : v.microtasks[i] = u.microtasks[i]
        /\ \A i \in DOMAIN u.reactions[p] :
             v.microtasks[n + i] = Reaction(p, u.reactions[p][i], rejected)
    BY <2>01 DEF Settled
  <2>2. OneToken(t) => OneToken(v)
    BY <2>0, SettleOneToken DEF After
  <2>3. /\ u \in Tables
        /\ \A q \in Promises :
          \/ u.state[q] = t.state[q] /\ u.reactions[q] = t.reactions[q]
          \/ /\ q \in X /\ t.state[q] = "pending"
             /\ u.state[q] \in {"fulfilled", "rejected"} /\ u.reactions[q] = <<>>
        /\ Len(t.microtasks) <= Len(u.microtasks)
        /\ \A i \in DOMAIN t.microtasks : u.microtasks[i] = t.microtasks[i]
        /\ \A i \in DOMAIN u.microtasks : i > Len(t.microtasks) =>
          /\ u.microtasks[i] \in ReactionJobs
          /\ \E q \in X \cap Promises : \E k \in DOMAIN t.reactions[q] :
               u.microtasks[i].reaction = t.reactions[q][k]
    BY DEF After
  <2>4. /\ u.reactions \in [Promises -> Seq(Reactions)] /\ u.state \in [Promises -> PromiseStates]
        /\ t.microtasks \in Seq(Tasks \cup ReactionJobs)
        /\ u.microtasks \in Seq(Tasks \cup ReactionJobs)
        /\ v.microtasks \in Seq(Tasks \cup ReactionJobs)
    BY <2>1, <2>3, TableTypes
  <2>40. u.reactions[p] \in Seq(Reactions)
    BY <2>4
  <2>5. u.state[p] = t.state[p] /\ u.reactions[p] = t.reactions[p] /\ t.state[p] = "pending"
    BY <2>3, <1>2 DEF Is
  <2>6. \A q \in Promises :
          \/ v.state[q] = t.state[q] /\ v.reactions[q] = t.reactions[q]
          \/ /\ q \in X /\ t.state[q] = "pending"
             /\ v.state[q] \in {"fulfilled", "rejected"} /\ v.reactions[q] = <<>>
    <3> TAKE q \in Promises
    <3>1. CASE q = p
      <4>1. v.state[p] \in {"fulfilled", "rejected"} /\ v.reactions[p] = <<>>
        BY <2>1, <2>4
      <4>2. QED
        BY <3>1, <4>1, <2>5
    <3>2. CASE q # p
      <4>1. v.state[q] = u.state[q] /\ v.reactions[q] = u.reactions[q]
        BY <3>2, <2>1, <2>4
      <4>2. QED
        BY <4>1, <2>3
    <3>3. QED
      BY <3>1, <3>2
  <2>7. n \in Nat /\ Len(u.reactions[p]) \in Nat /\ Len(t.microtasks) \in Nat
        /\ DOMAIN u.microtasks = 1..n /\ DOMAIN t.microtasks = 1..Len(t.microtasks)
        /\ DOMAIN v.microtasks = 1..(n + Len(u.reactions[p]))
        /\ DOMAIN u.reactions[p] = 1..Len(u.reactions[p])
    <3>1. Len(v.microtasks) = n + Len(u.reactions[p])
      BY <2>1
    <3>2. DOMAIN u.microtasks = 1..n /\ DOMAIN t.microtasks = 1..Len(t.microtasks)
          /\ DOMAIN v.microtasks = 1..Len(v.microtasks) /\ n \in Nat /\ Len(t.microtasks) \in Nat
      BY <2>4
    <3>3. Len(u.reactions[p]) \in Nat /\ DOMAIN u.reactions[p] = 1..Len(u.reactions[p])
      BY <2>40
    <3>4. QED
      BY ONLY <3>1, <3>2, <3>3
  <2> HIDE DEF n
  <2>8. Len(t.microtasks) <= Len(v.microtasks)
        /\ \A i \in DOMAIN t.microtasks : v.microtasks[i] = t.microtasks[i]
    <3>1. Len(t.microtasks) <= n
      BY <2>3 DEF n
    <3>2. Len(v.microtasks) = n + Len(u.reactions[p])
      BY <2>1
    <3>3. \A i \in DOMAIN t.microtasks : i \in DOMAIN u.microtasks
      BY <2>7, <3>1
    <3>4. QED
      BY <2>1, <2>3, <2>7, <3>1, <3>2, <3>3
  <2>9. \A i \in DOMAIN v.microtasks : i > Len(t.microtasks) =>
          /\ v.microtasks[i] \in ReactionJobs
          /\ \E q \in X \cap Promises : \E k \in DOMAIN t.reactions[q] :
               v.microtasks[i].reaction = t.reactions[q][k]
    <3> SUFFICES ASSUME NEW i \in DOMAIN v.microtasks, i > Len(t.microtasks)
                 PROVE  /\ v.microtasks[i] \in ReactionJobs
                        /\ \E q \in X \cap Promises : \E k \in DOMAIN t.reactions[q] :
                             v.microtasks[i].reaction = t.reactions[q][k]
      OBVIOUS
    <3>1. CASE i \in DOMAIN u.microtasks
      BY <3>1, <2>1, <2>3
    <3>2. CASE i \notin DOMAIN u.microtasks
      <4>1. i - n \in DOMAIN u.reactions[p] /\ n + (i - n) = i
        BY <3>2, <2>7
      <4>2. v.microtasks[i] = Reaction(p, u.reactions[p][i - n], rejected)
        BY <4>1, <2>1
      <4>3. u.reactions[p][i - n] \in Reactions
        BY <4>1, <2>4
      <4>4. v.microtasks[i] \in ReactionJobs
        BY <4>2, <4>3, JobTypes
      <4>5. v.microtasks[i].reaction = u.reactions[p][i - n]
        BY <4>2 DEF Reaction
      <4>6. i - n \in DOMAIN t.reactions[p] /\ v.microtasks[i].reaction = t.reactions[p][i - n]
        BY <4>1, <4>5, <2>5
      <4>7. p \in X \cap Promises
        OBVIOUS
      <4>8. QED
        BY <4>4, <4>6, <4>7
    <3>3. QED
      BY <3>1, <3>2
  <2>10. v \in After(t, X)
    BY <2>1, <2>2, <2>6, <2>8, <2>9 DEF After
  <2>11. QED
    BY <2>10 DEF v
<1>3. QED
  BY <1>1, <1>2

LEMMA SettleEnds ==
  ASSUME NEW t \in Tables, NEW p \in Promises, NEW rejected \in BOOLEAN
  PROVE  /\ ~Is(Settle(t, p, rejected), p, "pending")
         /\ \A q \in Promises : ~Is(t, q, "pending") => ~Is(Settle(t, p, rejected), q, "pending")
<1>1. CASE ~Is(t, p, "pending")
  BY <1>1 DEF Settle
<1>2. CASE Is(t, p, "pending")
  <2> DEFINE u == Settle(t, p, rejected)
  <2>1. Settled(t, u, p, rejected)
    BY <1>2, SettleIs
  <2> HIDE DEF u
  <2>2. u.state = [t.state EXCEPT ![p] = IF rejected THEN "rejected" ELSE "fulfilled"]
    BY <2>1 DEF Settled
  <2>3. t.state \in [Promises -> PromiseStates]
    BY TableTypes
  <2>4. ~Is(u, p, "pending") /\ \A q \in Promises : ~Is(t, q, "pending") => ~Is(u, q, "pending")
    BY <2>2, <2>3 DEF Is
  <2>5. QED
    BY <2>4 DEF u
<1>3. QED
  BY <1>1, <1>2

\* A list of promises is settled to the last one.
LEMMA SettleAllIs ==
  ASSUME NEW t0 \in Tables, NEW X, NEW t \in After(t0, X), NEW rejected \in BOOLEAN,
         NEW promises \in Seq(Promises), \A i \in DOMAIN promises : promises[i] \in X
  PROVE  /\ SettleAll(t, promises, rejected) \in After(t0, X)
         /\ \A i \in DOMAIN promises : ~Is(SettleAll(t, promises, rejected), promises[i], "pending")
         /\ \A q \in Promises :
              ~Is(t, q, "pending") => ~Is(SettleAll(t, promises, rejected), q, "pending")
<1> DEFINE f == SettleFirst(t, promises, rejected)
           N == Len(promises)
           S == {n \in Nat : /\ f[n] \in After(t0, X)
                             /\ \A i \in 1..n : ~Is(f[n], promises[i], "pending")
                             /\ \A q \in Promises : ~Is(t, q, "pending") => ~Is(f[n], q, "pending")}
<1>1. f[0] = t /\ \A n \in 1..N : f[n] = Settle(f[n - 1], promises[n], rejected)
  BY SettleFirstStep
<1>2. N \in Nat /\ DOMAIN promises = 1..N /\ \A n \in 1..N : promises[n] \in Promises
  OBVIOUS
<1> HIDE DEF f, N
<1>3. 0 \in S
  BY <1>1
<1>4. \A n \in 0..(N - 1) : n \in S => n + 1 \in S
  <2> SUFFICES ASSUME NEW n \in 0..(N - 1), n \in S PROVE n + 1 \in S
    OBVIOUS
  <2>1. n \in Nat /\ n + 1 \in 1..N /\ (n + 1) - 1 = n
    BY <1>2
  <2>2. f[n + 1] = Settle(f[n], promises[n + 1], rejected)
    BY <1>1, <2>1
  <2>3. promises[n + 1] \in Promises /\ promises[n + 1] \in X
    BY <1>2, <2>1
  <2>4. f[n] \in After(t0, X) /\ f[n] \in Tables
    BY DEF After
  <2>5. f[n + 1] \in After(t0, X)
    BY <2>2, <2>3, <2>4, AfterSettle
  <2>6. /\ ~Is(f[n + 1], promises[n + 1], "pending")
        /\ \A q \in Promises : ~Is(f[n], q, "pending") => ~Is(f[n + 1], q, "pending")
    BY <2>2, <2>3, <2>4, SettleEnds
  <2>7. \A i \in 1..(n + 1) : ~Is(f[n + 1], promises[i], "pending")
    <3> TAKE i \in 1..(n + 1)
    <3>1. i = n + 1 \/ (i \in 1..n /\ i \in 1..N)
      BY <1>2, <2>1
    <3>2. QED
      BY <3>1, <2>6, <1>2
  <2>8. QED
    BY <2>1, <2>5, <2>6, <2>7
<1>5. N \in S
  <2> HIDE DEF S
  <2>1. 0..N \subseteq S
    BY <1>2, <1>3, <1>4, UpTo
  <2>2. QED
    BY <1>2, <2>1
<1>6. SettleAll(t, promises, rejected) = f[N]
  BY DEF SettleAll, f, N
<1>7. QED
  BY <1>2, <1>5, <1>6

LEMMA EndFirstStep ==
  ASSUME NEW t, NEW readers \in Seq(ReaderStates), NEW r, NEW rejected
  PROVE  /\ EndFirst(t, readers, r, rejected)[0] = t
         /\ \A n \in 1..Len(readers) :
              EndFirst(t, readers, r, rejected)[n] =
                IF readers[n].stream # r THEN EndFirst(t, readers, r, rejected)[n - 1]
                ELSE SettleAll(EndFirst(t, readers, r, rejected)[n - 1], Promised(readers[n]), rejected)
<1> DEFINE N == Len(readers)
           Step(f, n) == IF n = 0 THEN t
                         ELSE IF readers[n].stream # r THEN f[n - 1]
                         ELSE SettleAll(f[n - 1], Promised(readers[n]), rejected)
           done == {n \in Nat : \E f : f = [k \in 0..n |-> Step(f, k)]}
<1>1. N \in Nat
  OBVIOUS
<1>2. 0 \in done
  <2> DEFINE f == [k \in 0..0 |-> t]
  <2>1. f = [k \in 0..0 |-> Step(f, k)]
    OBVIOUS
  <2>2. QED
    BY <2>1
<1>3. \A n \in Nat : n \in done => n + 1 \in done
  <2> SUFFICES ASSUME NEW n \in Nat, n \in done PROVE n + 1 \in done
    OBVIOUS
  <2>0. PICK f : f = [k \in 0..n |-> Step(f, k)]
    OBVIOUS
  <2> DEFINE g == [k \in 0..(n + 1) |->
                     IF k = n + 1
                     THEN IF readers[n + 1].stream # r THEN f[n]
                          ELSE SettleAll(f[n], Promised(readers[n + 1]), rejected)
                     ELSE f[k]]
  <2>1. \A k \in 0..(n + 1) : g[k] = Step(g, k)
    <3> SUFFICES ASSUME NEW k \in 0..(n + 1) PROVE g[k] = Step(g, k)
      OBVIOUS
    <3>1. CASE k = n + 1
      BY <3>1
    <3>2. CASE k \in 0..n
      <4>1. g[k] = f[k] /\ (k # 0 => g[k - 1] = f[k - 1])
        BY <3>2
      <4>2. f[k] = Step(f, k)
        BY <2>0, <3>2
      <4>3. QED
        BY <4>1, <4>2
    <3>3. QED
      BY <3>1, <3>2
  <2>2. g = [k \in 0..(n + 1) |-> Step(g, k)]
    BY <2>1
  <2>3. QED
    BY <2>2
<1>4. N \in done
  <2> HIDE DEF done
  <2>1. 0..N \subseteq done
    BY <1>1, <1>2, <1>3, UpTo
  <2>2. QED
    BY <1>1, <2>1
<1>5. PICK f : f = [k \in 0..N |-> Step(f, k)]
  BY <1>4
<1>6. EndFirst(t, readers, r, rejected) = [k \in 0..N |-> Step(EndFirst(t, readers, r, rejected), k)]
  BY <1>5 DEF EndFirst
<1>7. QED
  BY <1>1, <1>6

\* The promises that the end of stream r settles.
PromisedBy(readers, r) ==
  {p \in Promises : \E i \in DOMAIN readers : /\ readers[i].stream = r
                                              /\ \/ readers[i].closed = p
                                                 \/ \E k \in DOMAIN readers[i].pending :
                                                      readers[i].pending[k] = p}

LEMMA PromisedTypes ==
  ASSUME NEW readers \in Seq(ReaderStates), NEW n \in DOMAIN readers, NEW r, readers[n].stream = r
  PROVE  /\ Promised(readers[n]) \in Seq(Promises)
         /\ \A i \in DOMAIN Promised(readers[n]) : Promised(readers[n])[i] \in PromisedBy(readers, r)
         /\ readers[n].closed \in Promises
         /\ 1 \in DOMAIN Promised(readers[n]) /\ Promised(readers[n])[1] = readers[n].closed
<1> DEFINE c == readers[n].closed
           w == readers[n].pending
<1>0. readers[n] \in ReaderStates
  OBVIOUS
<1>1. c \in Promises /\ w \in Seq(Promises)
  BY <1>0 DEF ReaderStates
<1>2. \A i \in DOMAIN w : w[i] \in PromisedBy(readers, r)
  BY <1>1 DEF PromisedBy
<1>3. c \in PromisedBy(readers, r)
  BY <1>1 DEF PromisedBy
<1>4. Promised(readers[n]) = <<c>> \o w
  BY DEF Promised
<1> HIDE DEF c, w
<1>5. <<c>> \o w \in Seq(Promises) /\ Len(<<c>> \o w) = Len(w) + 1
      /\ (<<c>> \o w)[1] = c /\ 1 \in DOMAIN (<<c>> \o w)
  BY <1>1
<1>6. \A i \in DOMAIN (<<c>> \o w) : i = 1 \/ (i - 1 \in DOMAIN w /\ (<<c>> \o w)[i] = w[i - 1])
  BY <1>1
<1>7. QED
  BY <1>1, <1>2, <1>3, <1>4, <1>5, <1>6 DEF c

LEMMA EndFirstIs ==
  ASSUME NEW t \in Tables, NEW rejected \in BOOLEAN, NEW readers \in Seq(ReaderStates), NEW r
  PROVE  LET u == EndFirst(t, readers, r, rejected)[Len(readers)] IN
         /\ u \in After(t, PromisedBy(readers, r))
         /\ \A i \in DOMAIN readers : readers[i].stream = r => ~Is(u, readers[i].closed, "pending")
<1> DEFINE f == EndFirst(t, readers, r, rejected)
           X == PromisedBy(readers, r)
           N == Len(readers)
           S == {n \in Nat : /\ f[n] \in After(t, X)
                             /\ \A i \in 1..n : readers[i].stream = r => ~Is(f[n], readers[i].closed, "pending")}
<1>1. /\ f[0] = t
      /\ \A n \in 1..N : f[n] = IF readers[n].stream # r THEN f[n - 1]
                                ELSE SettleAll(f[n - 1], Promised(readers[n]), rejected)
  BY EndFirstStep
<1>2. N \in Nat /\ DOMAIN readers = 1..N
  OBVIOUS
<1>3. \A i \in DOMAIN readers : readers[i].closed \in Promises
  <2>1. \A i \in DOMAIN readers : readers[i] \in ReaderStates
    OBVIOUS
  <2>2. QED
    BY <2>1 DEF ReaderStates
<1>4. \A n \in DOMAIN readers : readers[n].stream = r =>
        /\ Promised(readers[n]) \in Seq(Promises)
        /\ \A i \in DOMAIN Promised(readers[n]) : Promised(readers[n])[i] \in X
        /\ 1 \in DOMAIN Promised(readers[n]) /\ Promised(readers[n])[1] = readers[n].closed
  BY PromisedTypes
<1> HIDE DEF f, N, X
<1>5. 0 \in S
  BY <1>1, AfterNothing
<1>6. \A n \in 0..(N - 1) : n \in S => n + 1 \in S
  <2> SUFFICES ASSUME NEW n \in 0..(N - 1), n \in S PROVE n + 1 \in S
    OBVIOUS
  <2>1. n \in Nat /\ n + 1 \in 1..N /\ (n + 1) - 1 = n /\ n + 1 \in DOMAIN readers
    BY <1>2
  <2>2. f[n] \in After(t, X)
    OBVIOUS
  <2>3. \A i \in 1..(n + 1) : i = n + 1 \/ (i \in 1..n /\ i \in DOMAIN readers)
    BY <1>2, <2>1
  <2>4. CASE readers[n + 1].stream # r
    <3>1. f[n + 1] = f[n]
      BY <1>1, <2>1, <2>4
    <3>2. QED
      BY <2>1, <2>3, <2>4, <3>1
  <2>5. CASE readers[n + 1].stream = r
    <3> DEFINE w == Promised(readers[n + 1])
    <3>1. f[n + 1] = SettleAll(f[n], w, rejected)
      BY <1>1, <2>1, <2>5
    <3>2. w \in Seq(Promises) /\ (\A i \in DOMAIN w : w[i] \in X)
          /\ 1 \in DOMAIN w /\ w[1] = readers[n + 1].closed
      BY <1>4, <2>1, <2>5
    <3> HIDE DEF w
    <3>3. /\ f[n + 1] \in After(t, X)
          /\ \A i \in DOMAIN w : ~Is(f[n + 1], w[i], "pending")
          /\ \A q \in Promises : ~Is(f[n], q, "pending") => ~Is(f[n + 1], q, "pending")
      BY <2>2, <3>1, <3>2, SettleAllIs
    <3>4. ~Is(f[n + 1], readers[n + 1].closed, "pending")
      BY <3>2, <3>3
    <3>5. \A i \in 1..(n + 1) : readers[i].stream = r => ~Is(f[n + 1], readers[i].closed, "pending")
      BY <1>3, <2>3, <3>3, <3>4
    <3>6. QED
      BY <2>1, <3>3, <3>5
  <2>6. QED
    BY <2>4, <2>5
<1>7. N \in S
  <2> HIDE DEF S
  <2>1. 0..N \subseteq S
    BY <1>2, <1>5, <1>6, UpTo
  <2>2. QED
    BY <1>2, <2>1
<1>8. QED
  BY <1>2, <1>7 DEF f, N, X

-----------------------------------------------------------------------------
(* The tables of the agent: their types, and the operators that change the *)
(* promises only.                                                          *)

LEMMA StateTypes ==
  ASSUME NEW s \in States
  PROVE  /\ s.table \in Tables /\ s.readables \in [Readables -> ReadableStates]
         /\ s.readers \in Seq(ReaderStates) /\ s.writable \in WritableStates
         /\ s.writers \in Seq(Promises) /\ s.sinks \in SUBSET Promises
         /\ s.piped \in Promises \cup {Nothing} /\ s.pumped \in Seq(Nat) /\ s.written \in Seq(Nat)
BY DEF States

LEMMA StreamTypes ==
  ASSUME NEW s \in States, NEW r \in Readables
  PROVE  /\ s.readables[r] \in ReadableStates
         /\ s.readables[r].status \in {"readable", "closed", "errored"}
         /\ s.readables[r].closing \in BOOLEAN /\ s.readables[r].queue \in Seq(Nat)
         /\ s.readables[r].locked \in BOOLEAN /\ s.readables[r].pulling \in BOOLEAN
         /\ s.readables[r].pipe \in
              Pipes \cup {Nothing}
         /\ s.readables[r].sent \in Nat /\ s.readables[r].taken \in Seq(Nat)
         /\ s.readables[r].dropped \in BOOLEAN
<1>1. s.readables[r] \in ReadableStates
  BY StateTypes
<1>2. QED
  BY <1>1 DEF ReadableStates

LEMMA ReaderTypes ==
  ASSUME NEW s \in States, NEW i \in DOMAIN s.readers
  PROVE  /\ s.readers[i] \in ReaderStates /\ s.readers[i].stream \in Readables
         /\ s.readers[i].closed \in Promises /\ s.readers[i].pending \in Seq(Promises)
<1>1. s.readers[i] \in ReaderStates
  BY StateTypes
<1>2. QED
  BY <1>1 DEF ReaderStates

\* u differs from s in the promise table only.
OnlyTable(s, u) ==
  /\ u \in States /\ u.readables = s.readables /\ u.readers = s.readers
  /\ u.writable = s.writable /\ u.writers = s.writers /\ u.sinks = s.sinks
  /\ u.piped = s.piped /\ u.pumped = s.pumped /\ u.written = s.written

LEMMA TableChanges ==
  ASSUME NEW s \in States, NEW t \in Tables
  PROVE  OnlyTable(s, [s EXCEPT !.table = t]) /\ [s EXCEPT !.table = t].table = t
BY DEF States, OnlyTable

LEMMA AnswerIs ==
  ASSUME NEW s \in States, NEW p \in Promises, NEW rejected \in BOOLEAN
  PROVE  /\ OnlyTable(s, Answer(s, p, rejected))
         /\ Answer(s, p, rejected).table \in After(s.table, {p})
         /\ Answer(s, p, rejected).table = Settle(s.table, p, rejected)
<1> DEFINE t == Settle(s.table, p, rejected)
<1>1. t \in After(s.table, {p})
  BY StateTypes, AfterNothing, AfterSettle
<1>2. t \in Tables
  BY <1>1 DEF After
<1>3. Answer(s, p, rejected) = [s EXCEPT !.table = t]
  BY DEF Answer
<1> HIDE DEF t
<1>4. OnlyTable(s, [s EXCEPT !.table = t]) /\ [s EXCEPT !.table = t].table = t
  BY <1>2, TableChanges
<1>5. QED
  BY <1>1, <1>3, <1>4 DEF t

LEMMA AnswerAllIs ==
  ASSUME NEW s \in States, NEW promises \in Seq(Promises), NEW rejected \in BOOLEAN
  PROVE  /\ OnlyTable(s, AnswerAll(s, promises, rejected))
         /\ AnswerAll(s, promises, rejected).table \in
              After(s.table, {p \in Promises : \E i \in DOMAIN promises : promises[i] = p})
<1> DEFINE t == SettleAll(s.table, promises, rejected)
           X == {p \in Promises : \E i \in DOMAIN promises : promises[i] = p}
<1>1. \A i \in DOMAIN promises : promises[i] \in X
  OBVIOUS
<1>2. s.table \in After(s.table, X) /\ s.table \in Tables
  BY StateTypes, AfterNothing
<1> HIDE DEF X
<1>3. t \in After(s.table, X)
  BY <1>1, <1>2, SettleAllIs
<1>4. t \in Tables
  BY <1>3 DEF After
<1>5. AnswerAll(s, promises, rejected) = [s EXCEPT !.table = t]
  BY DEF AnswerAll
<1> HIDE DEF t
<1>6. OnlyTable(s, [s EXCEPT !.table = t]) /\ [s EXCEPT !.table = t].table = t
  BY <1>4, TableChanges
<1>7. QED
  BY <1>3, <1>5, <1>6 DEF X

LEMMA ScheduleIs ==
  ASSUME NEW s \in States, NEW job \in Tasks \cup ReactionJobs
  PROVE  /\ OnlyTable(s, Schedule(s, job))
         /\ Schedule(s, job).table.state = s.table.state
         /\ Schedule(s, job).table.reactions = s.table.reactions
         /\ Schedule(s, job).table.microtasks = Append(s.table.microtasks, job)
<1> DEFINE t == Enqueue(s.table, <<job>>)
<1>1. /\ t \in Tables /\ t.state = s.table.state /\ t.reactions = s.table.reactions
      /\ t.microtasks = Append(s.table.microtasks, job)
  BY StateTypes, EnqueueIs
<1>2. Schedule(s, job) = [s EXCEPT !.table = t]
  BY DEF Schedule
<1> HIDE DEF t
<1>3. OnlyTable(s, [s EXCEPT !.table = t]) /\ [s EXCEPT !.table = t].table = t
  BY <1>1, TableChanges
<1>4. QED
  BY <1>1, <1>2, <1>3

\* The promise that Given and Kept create.
Created(s, u) ==
  /\ OnlyTable(s, u)
  /\ u.table.reactions = s.table.reactions /\ u.table.microtasks = s.table.microtasks
  /\ u.table.state = [s.table.state EXCEPT ![NextPromise(s)] = "pending"]
  /\ NextPromise(s) \in Promises /\ s.table.state[NextPromise(s)] = "absent"

LEMMA KeptIs ==
  ASSUME NEW s \in States, HasRoom(s.table)
  PROVE  Created(s, Kept(s))
<1> DEFINE t == Create(s.table)
<1>1. /\ t \in Tables /\ t.reactions = s.table.reactions /\ t.microtasks = s.table.microtasks
      /\ t.state = [s.table.state EXCEPT ![NextPromise(s)] = "pending"]
      /\ NextPromise(s) \in Promises /\ s.table.state[NextPromise(s)] = "absent"
  BY StateTypes, CreateIs DEF NextPromise
<1>2. Kept(s) = [s EXCEPT !.table = t]
  BY DEF Kept
<1> HIDE DEF t
<1>3. OnlyTable(s, [s EXCEPT !.table = t]) /\ [s EXCEPT !.table = t].table = t
  BY <1>1, TableChanges
<1>4. QED
  BY <1>1, <1>2, <1>3 DEF Created

LEMMA GivenIs ==
  ASSUME NEW s \in States, HasRoom(s.table)
  PROVE  Created(s, Given(s))
<1> DEFINE c == Create(s.table)
           t == MarkHandled(c, NextPromise(s))
<1>1. /\ c \in Tables /\ c.reactions = s.table.reactions /\ c.microtasks = s.table.microtasks
      /\ c.state = [s.table.state EXCEPT ![NextPromise(s)] = "pending"]
      /\ NextPromise(s) \in Promises /\ s.table.state[NextPromise(s)] = "absent"
  BY StateTypes, CreateIs DEF NextPromise
<1>2. Given(s) = [s EXCEPT !.table = t]
  BY DEF Given, NextPromise
<1> HIDE DEF c
<1>3. t \in Tables /\ t.reactions = c.reactions /\ t.microtasks = c.microtasks /\ t.state = c.state
  BY <1>1, MarkHandledIs
<1> HIDE DEF t
<1>4. OnlyTable(s, [s EXCEPT !.table = t]) /\ [s EXCEPT !.table = t].table = t
  BY <1>3, TableChanges
<1>5. QED
  BY <1>1, <1>2, <1>3, <1>4 DEF Created

-----------------------------------------------------------------------------
(* Steps that leave the pipe alone. *)

\* A promise that someone may claim: it exists, and the pipe does not wait for it.
Claimable(s, p) == ~Is(s.table, p, "absent") /\ p # s.piped /\ ~Awaits(s.table, p)

\* The table becomes u: no new write of a chunk, nothing new that tells the
\* pipe, and only claimable promises are aimed at.
Calm(s, u) ==
  LET t == s.table IN
  /\ \A q \in Promises : ~Is(t, q, "absent") => ~Is(u, q, "absent")
  /\ \A q \in Promises : WaitsFor(u, q) => WaitsFor(t, q) /\ u.state[q] = t.state[q]
  /\ \A q \in Promises : Awaits(t, q) => Awaits(u, q) /\ WaitsFor(u, q)
  /\ OneWrite(u) /\ OneToken(u)
  /\ \A i \in DOMAIN u.microtasks : IsWrite(u.microtasks[i]) =>
       \E j \in DOMAIN t.microtasks : u.microtasks[i] = t.microtasks[j]
  /\ \A i \in DOMAIN u.microtasks : IsToken(u.microtasks[i]) =>
       \/ \E j \in DOMAIN t.microtasks : u.microtasks[i] = t.microtasks[j]
       \/ \E q \in Promises : WaitsFor(t, q) /\ ~Awaits(t, q)
  /\ \A q \in Promises : Aimed(u, q) => Aimed(t, q) \/ Claimable(s, q)
Tame(s, u) == Calm(s, u) /\ (s.piped # Nothing => u.state[s.piped] = s.table.state[s.piped])

\* The rest of the tables: the pipe is as it was, and only claimable promises
\* get a holder.
Unheld(s, run, u, run1) ==
  /\ \A q \in Promises : Held(u, q) \/ Runs(run1, q) => Held(s, q) \/ Runs(run, q) \/ Claimable(s, q)
  /\ u.piped = s.piped /\ u.pumped = s.pumped /\ u.written = s.written
Undisturbed(s, run, u, run1) ==
  /\ Unheld(s, run, u, run1)
  /\ u.readables["source"].pipe = s.readables["source"].pipe
  /\ u.readables["output"].pipe = s.readables["output"].pipe
  /\ s.readables["source"].closing => u.readables["source"].closing
  /\ s.readables["source"].closing /\ s.readables["source"].queue = <<>> =>
       u.readables["source"].queue = <<>>
  /\ u.writable.source \in {s.writable.source, Nothing}

\* The invariant holds after the step, and what was claimable still is.
Steady(s, u, run) ==
  /\ u \in States /\ PipeInv(u, run)
  /\ \A q \in Promises : Claimable(s, q) => Claimable(u, q)

LEMMA CalmPipe ==
  ASSUME NEW s \in States, NEW run, NEW u \in States, NEW run1,
         Names(s, run), Flight(s), Calm(s, u.table), Unheld(s, run, u, run1)
  PROVE  /\ Names(u, run1) /\ Flight(u)
         /\ NoWrite(s.table) => NoWrite(u.table)
         /\ NoToken(s.table) => NoToken(u.table)
         /\ \A q \in Promises : Claimable(s, q) => Claimable(u, q)
<1> DEFINE t == s.table
           v == u.table
<1>1. /\ \A q \in Promises : ~Is(t, q, "absent") => ~Is(v, q, "absent")
      /\ \A q \in Promises : WaitsFor(v, q) => WaitsFor(t, q) /\ v.state[q] = t.state[q]
      /\ \A q \in Promises : Awaits(t, q) => Awaits(v, q) /\ WaitsFor(v, q)
      /\ OneWrite(v) /\ OneToken(v)
      /\ \A i \in DOMAIN v.microtasks : IsWrite(v.microtasks[i]) =>
           \E j \in DOMAIN t.microtasks : v.microtasks[i] = t.microtasks[j]
      /\ \A i \in DOMAIN v.microtasks : IsToken(v.microtasks[i]) =>
           \/ \E j \in DOMAIN t.microtasks : v.microtasks[i] = t.microtasks[j]
           \/ \E q \in Promises : WaitsFor(t, q) /\ ~Awaits(t, q)
      /\ \A q \in Promises : Aimed(v, q) => Aimed(t, q) \/ Claimable(s, q)
  BY DEF Calm
<1>2. Names(s, run) /\ Flight(s)
  OBVIOUS
<1>3. \A q \in Promises : Awaits(v, q) => Awaits(t, q)
  BY <1>1 DEF Awaits
<1>4. u.piped = s.piped /\ u.pumped = s.pumped /\ u.written = s.written
  BY DEF Unheld
<1>5. NoWrite(t) => NoWrite(v)
  BY <1>1 DEF NoWrite
<1>6. NoToken(t) => NoToken(v)
  BY <1>1 DEF NoToken
<1>7. Names(u, run1)
  <2>1. \A p \in Promises : Is(v, p, "absent") \/ p = u.piped \/ Awaits(v, p) => Unclaimed(u, run1, p)
    <3> SUFFICES ASSUME NEW p \in Promises, Is(v, p, "absent") \/ p = u.piped \/ Awaits(v, p)
                 PROVE  Unclaimed(u, run1, p)
      OBVIOUS
    <3>1. Is(t, p, "absent") \/ p = s.piped \/ Awaits(t, p)
      BY <1>1, <1>3, <1>4
    <3>2. Unclaimed(s, run, p) /\ ~Claimable(s, p)
      BY <3>1, <1>2 DEF Names, Claimable
    <3>3. ~Aimed(v, p)
      BY <1>1, <3>2 DEF Unclaimed
    <3>4. ~Held(u, p) /\ ~Runs(run1, p)
      BY <3>2 DEF Unheld, Unclaimed
    <3>5. QED
      BY <3>3, <3>4 DEF Unclaimed
  <2>2. u.piped # Nothing => Exists(v, u.piped) /\ ~Awaits(v, u.piped)
    <3>1. s.piped # Nothing => s.piped \in Promises
      BY StateTypes
    <3>2. QED
      BY <1>1, <1>2, <1>3, <1>4, <3>1 DEF Names, Exists
  <2>3. \A p \in Promises : Awaits(v, p) => WaitsFor(v, p)
    BY <1>1, <1>3
  <2>4. QED
    BY <2>1, <2>2, <2>3 DEF Names
<1>8. Flight(u)
  <2>1. \A i \in DOMAIN v.microtasks : LET job == v.microtasks[i] IN
          /\ IsWrite(job) => Len(job.chunk) = 1 /\ u.pumped = u.written \o job.chunk
          /\ IsToken(job) /\ ~job.rejected => u.written = u.pumped
    <3> TAKE i \in DOMAIN v.microtasks
    <3> DEFINE job == v.microtasks[i]
    <3>1. ASSUME IsWrite(job)
          PROVE  Len(job.chunk) = 1 /\ u.pumped = u.written \o job.chunk
      <4>1. PICK j \in DOMAIN t.microtasks : job = t.microtasks[j]
        BY <3>1, <1>1
      <4>2. IsWrite(t.microtasks[j])
        BY <3>1, <4>1
      <4>3. Len(t.microtasks[j].chunk) = 1 /\ s.pumped = s.written \o t.microtasks[j].chunk
        BY <4>2, <1>2 DEF Flight
      <4>4. QED
        BY <4>1, <4>3, <1>4
    <3>2. ASSUME IsToken(job), ~job.rejected
          PROVE  u.written = u.pumped
      <4>1. CASE \E j \in DOMAIN t.microtasks : job = t.microtasks[j]
        <5>1. PICK j \in DOMAIN t.microtasks : job = t.microtasks[j]
          BY <4>1
        <5>2. IsToken(t.microtasks[j]) /\ ~t.microtasks[j].rejected
          BY <3>2, <5>1
        <5>3. s.written = s.pumped
          BY <5>2, <1>2 DEF Flight
        <5>4. QED
          BY <5>3, <1>4
      <4>2. CASE \E q \in Promises : WaitsFor(t, q) /\ ~Awaits(t, q)
        BY <4>2, <1>2, <1>4 DEF Flight
      <4>3. QED
        BY <3>2, <4>1, <4>2, <1>1
    <3> HIDE DEF job
    <3>3. QED
      BY <3>1, <3>2 DEF job
  <2>2. \A p \in Promises : WaitsFor(v, p) => 
          Is(v, p, "pending") /\ (u.written = u.pumped \/ Awaits(v, p))
    BY <1>1, <1>2, <1>4 DEF Flight, Is
  <2>3. u.written = u.pumped \/ \E n \in Nat : u.pumped = Append(u.written, n)
    BY <1>2, <1>4 DEF Flight
  <2>4. QED
    BY <1>1, <2>1, <2>2, <2>3 DEF Flight
<1>9. \A q \in Promises : Claimable(s, q) => Claimable(u, q)
  BY <1>1, <1>3, <1>4 DEF Claimable
<1>10. QED
  BY <1>5, <1>6, <1>7, <1>8, <1>9

LEMMA TamePipe ==
  ASSUME NEW s \in States, NEW run, NEW u \in States, NEW run1,
         PipeInv(s, run), Tame(s, u.table), Undisturbed(s, run, u, run1)
  PROVE  Steady(s, u, run1)
<1> DEFINE t == s.table
           v == u.table
<1>1. Calm(s, v) /\ Unheld(s, run, u, run1) /\ (s.piped # Nothing => v.state[s.piped] = t.state[s.piped])
  BY DEF Tame, Undisturbed
<1>2. Names(s, run) /\ Flight(s) /\ PipeStands(s)
  BY DEF PipeInv
<1>4. u.piped = s.piped /\ u.pumped = s.pumped /\ u.written = s.written
  BY <1>1 DEF Unheld
<1>5. /\ Names(u, run1) /\ Flight(u)
      /\ NoWrite(t) => NoWrite(v)
      /\ NoToken(t) => NoToken(v)
      /\ \A q \in Promises : Claimable(s, q) => Claimable(u, q)
  BY <1>1, <1>2, CalmPipe
<1>9. PipeStands(u)
  <2>1. s.piped # Nothing => (Is(v, s.piped, "fulfilled") <=> Is(t, s.piped, "fulfilled"))
    BY <1>1 DEF Is
  <2>2. Idle(s) => Idle(u)
    BY <1>4, <1>5 DEF Idle
  <2>3. u.readables["source"].pipe = s.readables["source"].pipe
    BY DEF Undisturbed
  <2> DEFINE pipe == s.readables["source"].pipe
  <2> HIDE DEF pipe
  <2>4. u.readables["output"].pipe = Nothing
    BY <1>2 DEF Undisturbed, PipeStands
  <2>5. pipe = Nothing => NoToken(v) /\ NoWrite(v)
    BY <1>2, <1>5 DEF PipeStands, pipe
  <2>6. pipe # Nothing =>
          /\ pipe.promise = u.piped
          /\ ~pipe.writing \/ pipe.closing => Idle(u)
          /\ pipe.closing => pipe.writing /\ u.readables["source"].closing
                             /\ u.readables["source"].queue = <<>>
    BY <1>2, <1>4, <2>2 DEF PipeStands, pipe, Undisturbed
  <2>7. u.writable.source = "source" /\ pipe # Nothing => pipe.closing
    <3>1. CASE u.writable.source = s.writable.source
      BY <3>1, <1>2 DEF PipeStands, pipe
    <3>2. CASE u.writable.source = Nothing
        BY <3>2, StreamsAssumption DEF Readables
    <3>3. QED
      BY <3>1, <3>2 DEF Undisturbed
  <2>8. u.piped = Nothing =>
          pipe = Nothing /\ u.pumped = <<>> /\ u.written = <<>> /\ u.writable.source # "source"
    <3>1. u.writable.source = "source" => s.writable.source = "source"
      BY StreamsAssumption DEF Undisturbed, Readables
    <3>2. QED
      BY <1>2, <1>4, <3>1 DEF PipeStands, pipe
  <2>9. u.piped # Nothing /\ Is(v, u.piped, "fulfilled") =>
          pipe = Nothing /\ u.readables["source"].closing /\ u.readables["source"].queue = <<>>
          /\ u.written = u.pumped
    BY <1>2, <1>4, <2>1 DEF PipeStands, pipe, Undisturbed
  <2>10. QED
    BY <2>3, <2>4, <2>5, <2>6, <2>7, <2>8, <2>9 DEF PipeStands, pipe
<1>10. QED
  BY <1>5, <1>9 DEF PipeInv, Steady

LEMMA CalmAfter ==
  ASSUME NEW s \in States, NEW run, Names(s, run), Flight(s), NEW X,
         \A q \in X \cap Promises : ~Awaits(s.table, q),
         NEW u \in After(s.table, X)
  PROVE  Calm(s, u)
<1> DEFINE t == s.table
<1>1. /\ \A p \in Promises :
           \/ u.state[p] = t.state[p] /\ u.reactions[p] = t.reactions[p]
           \/ /\ p \in X /\ t.state[p] = "pending"
              /\ u.state[p] \in {"fulfilled", "rejected"} /\ u.reactions[p] = <<>>
      /\ Len(t.microtasks) <= Len(u.microtasks)
      /\ \A i \in DOMAIN t.microtasks : u.microtasks[i] = t.microtasks[i]
      /\ \A i \in DOMAIN u.microtasks : i > Len(t.microtasks) =>
           /\ u.microtasks[i] \in ReactionJobs
           /\ \E q \in X \cap Promises : \E k \in DOMAIN t.reactions[q] :
                u.microtasks[i].reaction = t.reactions[q][k]
      /\ OneToken(t) => OneToken(u)
      /\ u \in Tables
  BY DEF After
<1>2. /\ t.microtasks \in Seq(Tasks \cup ReactionJobs) /\ u.microtasks \in Seq(Tasks \cup ReactionJobs)
      /\ t.reactions \in [Promises -> Seq(Reactions)] /\ t.state \in [Promises -> PromiseStates]
  BY <1>1, TableTypes, StateTypes
<1>3. OneToken(t) /\ OneWrite(t) /\ \A q \in Promises : Awaits(t, q) => WaitsFor(t, q)
  BY DEF Names, Flight
<1>4. \A i \in DOMAIN u.microtasks : i \in DOMAIN t.microtasks \/ i > Len(t.microtasks)
  BY <1>2
<1>5. \A i \in DOMAIN t.microtasks : i \in DOMAIN u.microtasks
  BY <1>1, <1>2
<1> HIDE DEF t
<1>6. \A q \in Promises : ~Is(t, q, "absent") => ~Is(u, q, "absent")
  BY <1>1 DEF Is
<1>7. \A q \in Promises : WaitsFor(u, q) => WaitsFor(t, q) /\ u.state[q] = t.state[q]
  <2> SUFFICES ASSUME NEW q \in Promises, WaitsFor(u, q)
               PROVE  WaitsFor(t, q) /\ u.state[q] = t.state[q]
    OBVIOUS
  <2>1. u.reactions[q] # <<>>
    BY DEF WaitsFor
  <2>2. u.state[q] = t.state[q] /\ u.reactions[q] = t.reactions[q]
    BY <1>1, <2>1
  <2>3. QED
    BY <2>2 DEF WaitsFor
<1>8. \A q \in Promises : Awaits(t, q) => Awaits(u, q) /\ WaitsFor(u, q)
  <2> SUFFICES ASSUME NEW q \in Promises, Awaits(t, q)
               PROVE  Awaits(u, q) /\ WaitsFor(u, q)
    OBVIOUS
  <2>1. q \notin X
    BY DEF t
  <2>2. u.reactions[q] = t.reactions[q]
    BY <1>1, <2>1
  <2>3. QED
    BY <1>1, <1>3, <1>5, <2>2 DEF Awaits, WaitsFor
<1>9. \A i \in DOMAIN u.microtasks : IsWrite(u.microtasks[i]) =>
        i \in DOMAIN t.microtasks /\ u.microtasks[i] = t.microtasks[i]
  <2>1. \A x \in ReactionJobs : ~IsWrite(x)
    BY JobTypes DEF IsWrite
  <2>2. QED
    BY <1>1, <1>4, <2>1
<1>10. OneWrite(u)
  BY <1>3, <1>9 DEF OneWrite
<1>11. \A i \in DOMAIN u.microtasks : IsToken(u.microtasks[i]) =>
         \/ \E j \in DOMAIN t.microtasks : u.microtasks[i] = t.microtasks[j]
         \/ \E q \in Promises : WaitsFor(t, q) /\ ~Awaits(t, q)
  <2> SUFFICES ASSUME NEW i \in DOMAIN u.microtasks, IsToken(u.microtasks[i]), i > Len(t.microtasks)
               PROVE  \E q \in Promises : WaitsFor(t, q) /\ ~Awaits(t, q)
    BY <1>1, <1>4
  <2>1. PICK q \in X \cap Promises : \E k \in DOMAIN t.reactions[q] :
                u.microtasks[i].reaction = t.reactions[q][k]
    BY <1>1
  <2>2. WaitsFor(t, q)
    BY <2>1 DEF WaitsFor, IsToken
  <2>3. ~Awaits(t, q)
    BY <2>1 DEF t
  <2>4. QED
    BY <2>2, <2>3
<1>12. \A q \in Promises : Aimed(u, q) => Aimed(t, q)
  <2> SUFFICES ASSUME NEW q \in Promises, Aimed(u, q) PROVE Aimed(t, q)
    OBVIOUS
  <2>1. CASE \E i \in DOMAIN u.microtasks : JobAims(u.microtasks[i], q)
    <3>1. PICK i \in DOMAIN u.microtasks : JobAims(u.microtasks[i], q)
      BY <2>1
    <3>2. CASE i \in DOMAIN t.microtasks
      <4>1. JobAims(t.microtasks[i], q)
        BY <1>1, <3>1, <3>2
      <4>2. QED
        BY <3>2, <4>1 DEF Aimed
    <3>3. CASE i > Len(t.microtasks)
      <4>1. u.microtasks[i] \in ReactionJobs
        BY <1>1, <3>3
      <4>2. u.microtasks[i].kind = "reaction"
        BY <4>1, JobTypes
      <4>3. ReactionAims(u.microtasks[i].reaction, q)
        BY <3>1, <4>2 DEF JobAims
      <4>4. PICK p \in X \cap Promises : \E k \in DOMAIN t.reactions[p] :
                u.microtasks[i].reaction = t.reactions[p][k]
        BY <1>1, <3>3
      <4>5. \E k \in DOMAIN t.reactions[p] : ReactionAims(t.reactions[p][k], q)
        BY <4>3, <4>4
      <4>6. QED
        BY <4>5 DEF Aimed
    <3>4. QED
      BY <1>4, <3>2, <3>3
  <2>2. CASE \E p \in Promises : \E k \in DOMAIN u.reactions[p] : ReactionAims(u.reactions[p][k], q)
    <3>1. PICK p \in Promises : \E k \in DOMAIN u.reactions[p] : ReactionAims(u.reactions[p][k], q)
      BY <2>2
    <3>2. u.reactions[p] # <<>>
      BY <3>1
    <3>3. u.reactions[p] = t.reactions[p]
      BY <1>1, <3>2
    <3>4. QED
      BY <3>1, <3>3 DEF Aimed
  <2>3. QED
    BY <2>1, <2>2 DEF Aimed
<1>13. QED
  BY <1>1, <1>3, <1>6, <1>7, <1>8, <1>9, <1>10, <1>11, <1>12 DEF Calm, t

LEMMA TameAfter ==
  ASSUME NEW s \in States, NEW run, PipeInv(s, run), NEW X,
         \A q \in X \cap Promises : Claimable(s, q),
         NEW u \in After(s.table, X)
  PROVE  Tame(s, u)
<1>1. \A q \in X \cap Promises : ~Awaits(s.table, q)
  BY DEF Claimable
<1>2. Calm(s, u)
  BY <1>1, CalmAfter DEF PipeInv
<1>3. s.piped # Nothing => u.state[s.piped] = s.table.state[s.piped]
  <2> SUFFICES ASSUME s.piped # Nothing PROVE u.state[s.piped] = s.table.state[s.piped]
    OBVIOUS
  <2>1. s.piped \in Promises /\ s.piped \notin X
    BY StateTypes DEF Claimable
  <2>2. QED
    BY <2>1 DEF After
<1>4. QED
  BY <1>2, <1>3 DEF Tame

LEMMA TameCreated ==
  ASSUME NEW s \in States, NEW run, PipeInv(s, run), NEW u, Created(s, u)
  PROVE  Tame(s, u.table)
<1> DEFINE t == s.table
           v == u.table
           p == NextPromise(s)
<1>1. /\ v.reactions = t.reactions /\ v.microtasks = t.microtasks
      /\ v.state = [t.state EXCEPT ![p] = "pending"]
      /\ p \in Promises /\ t.state[p] = "absent"
      /\ t.state \in [Promises -> PromiseStates]
  BY StateTypes, TableTypes DEF Created
<1> HIDE DEF t, v, p
<1>2. /\ \A q \in Promises : WaitsFor(v, q) <=> WaitsFor(t, q)
      /\ \A q \in Promises : Awaits(v, q) <=> Awaits(t, q)
      /\ \A q \in Promises : Aimed(v, q) <=> Aimed(t, q)
      /\ OneToken(v) <=> OneToken(t)
      /\ OneWrite(v) <=> OneWrite(t)
  BY <1>1 DEF WaitsFor, Awaits, Aimed, OneToken, OneWrite
<1>3. /\ \A q \in Promises : ~Is(t, q, "absent") => ~Is(v, q, "absent")
      /\ \A q \in Promises : q # p => v.state[q] = t.state[q]
  BY <1>1 DEF Is
<1>4. OneToken(t) /\ OneWrite(t)
      /\ (\A q \in Promises : WaitsFor(t, q) => Is(t, q, "pending"))
      /\ (\A q \in Promises : Awaits(t, q) => WaitsFor(t, q))
      /\ (s.piped # Nothing => Exists(t, s.piped))
  BY DEF PipeInv, Flight, Names, t
<1>5. \A q \in Promises : WaitsFor(v, q) => WaitsFor(t, q) /\ v.state[q] = t.state[q]
  BY <1>1, <1>2, <1>3, <1>4 DEF Is
<1>6. s.piped # Nothing => v.state[s.piped] = t.state[s.piped]
  <2>1. s.piped # Nothing => s.piped \in Promises
    BY StateTypes
  <2>2. QED
    BY <1>1, <1>3, <1>4, <2>1 DEF Exists, Is
<1>7. QED
  BY <1>1, <1>2, <1>3, <1>4, <1>5, <1>6 DEF Tame, Calm, t, v

\* One more job, which is no write of a chunk and tells the pipe nothing.
LEMMA TameSchedule ==
  ASSUME NEW s \in States, NEW run, PipeInv(s, run), NEW u \in Tables,
         NEW job \in Tasks \cup ReactionJobs, ~IsWrite(job), ~IsToken(job),
         \A q \in Promises : JobAims(job, q) => Claimable(s, q),
         u.state = s.table.state, u.reactions = s.table.reactions,
         u.microtasks = Append(s.table.microtasks, job)
  PROVE  Tame(s, u)
<1> DEFINE t == s.table
<1>1. t.microtasks \in Seq(Tasks \cup ReactionJobs)
  BY StateTypes, TableTypes
<1>2. /\ \A i \in DOMAIN t.microtasks : i \in DOMAIN u.microtasks /\ u.microtasks[i] = t.microtasks[i]
      /\ \A i \in DOMAIN u.microtasks :
           \/ i \in DOMAIN t.microtasks /\ u.microtasks[i] = t.microtasks[i]
           \/ u.microtasks[i] = job
  BY <1>1
<1>3. OneToken(t) /\ OneWrite(t) /\ \A q \in Promises : Awaits(t, q) => WaitsFor(t, q)
  BY DEF PipeInv, Names, Flight
<1>4. u.state = t.state /\ u.reactions = t.reactions
  OBVIOUS
<1> HIDE DEF t
<1>5. \A q \in Promises : WaitsFor(u, q) <=> WaitsFor(t, q)
  BY <1>4 DEF WaitsFor
<1>6. \A q \in Promises : Awaits(t, q) => Awaits(u, q)
  BY <1>2 DEF Awaits
<1>7. \A i \in DOMAIN u.microtasks : IsWrite(u.microtasks[i]) \/ IsToken(u.microtasks[i]) =>
         i \in DOMAIN t.microtasks /\ u.microtasks[i] = t.microtasks[i]
  BY <1>2
<1>8. OneWrite(u)
  BY <1>3, <1>7 DEF OneWrite
<1>9. OneToken(u)
  BY <1>3, <1>4, <1>5, <1>7 DEF OneToken
<1>10. \A q \in Promises : Aimed(u, q) => Aimed(t, q) \/ Claimable(s, q)
  BY <1>2, <1>4 DEF Aimed
<1>11. QED
  BY <1>3, <1>4, <1>5, <1>6, <1>7, <1>8, <1>9, <1>10 DEF Tame, Calm, t, Is

\* A reaction that tells the pipe nothing, and that waits or is queued at once.
LEMMA TameSubscribe ==
  ASSUME NEW s \in States, NEW run, PipeInv(s, run), NEW p \in Promises, NEW x \in Reactions,
         x.kind # "pumped", \A q \in Promises : ReactionAims(x, q) => Claimable(s, q)
  PROVE  Tame(s, Subscribe(s.table, p, x))
<1> DEFINE t == s.table
           u == Subscribe(t, p, x)
<1>1. t \in Tables /\ t.reactions \in [Promises -> Seq(Reactions)]
  BY StateTypes, TableTypes
<1>2. /\ u \in Tables /\ u.state = t.state
      /\ Is(t, p, "pending") =>
           u.microtasks = t.microtasks /\ u.reactions = [t.reactions EXCEPT ![p] = Append(@, x)]
      /\ ~Is(t, p, "pending") =>
           /\ u.microtasks = Append(t.microtasks, Reaction(p, x, Is(t, p, "rejected")))
           /\ u.reactions = t.reactions
  BY <1>1, SubscribeIs
<1>3. CASE ~Is(t, p, "pending")
  <2> DEFINE job == Reaction(p, x, Is(t, p, "rejected"))
  <2>1. job \in ReactionJobs
    BY JobTypes DEF Is
  <2>2. job.kind = "reaction" /\ job.reaction = x
    BY DEF Reaction
  <2> HIDE DEF job, u, t
  <2>3. job \in Tasks \cup ReactionJobs
    BY <2>1
  <2>4. ~IsWrite(job) /\ ~IsToken(job) /\ \A q \in Promises : JobAims(job, q) => Claimable(s, q)
    BY <2>2 DEF IsWrite, IsToken, JobAims
  <2>5. u.state = t.state /\ u.reactions = t.reactions /\ u.microtasks = Append(t.microtasks, job) /\ u \in Tables
    BY <1>2, <1>3 DEF job
  <2>6. Tame(s, u)
    BY <2>3, <2>4, <2>5, TameSchedule DEF t
  <2>7. QED
    BY <2>6 DEF u, t
<1>4. CASE Is(t, p, "pending")
  <2> HIDE DEF u, t
  <2>1. u.state = t.state /\ u.microtasks = t.microtasks
    BY <1>2, <1>4
  <2>2. \A q \in Promises : u.reactions[q] = IF q = p THEN Append(t.reactions[q], x) ELSE t.reactions[q]
    BY <1>1, <1>2, <1>4
  <2>3. \A q \in Promises :
          /\ \A k \in DOMAIN t.reactions[q] :
               k \in DOMAIN u.reactions[q] /\ u.reactions[q][k] = t.reactions[q][k]
          /\ \A k \in DOMAIN u.reactions[q] :
               \/ k \in DOMAIN t.reactions[q] /\ u.reactions[q][k] = t.reactions[q][k]
               \/ u.reactions[q][k] = x
    <3> TAKE q \in Promises
    <3>2. t.reactions[q] \in Seq(Reactions)
      BY <1>1
    <3>3. CASE q = p
      <4>1. u.reactions[q] = Append(t.reactions[q], x)
        BY <3>3, <2>2
      <4> DEFINE w == t.reactions[q]
                 v == u.reactions[q]
      <4>2. w \in Seq(Reactions) /\ v = Append(w, x)
        BY <3>2, <4>1
      <4> HIDE DEF w, v
      <4>3. /\ \A k \in DOMAIN w : k \in DOMAIN v /\ v[k] = w[k]
            /\ \A k \in DOMAIN v : (k \in DOMAIN w /\ v[k] = w[k]) \/ v[k] = x
        BY ONLY <4>2
      <4>4. QED
        BY <4>3 DEF w, v
    <3>4. CASE q # p
      BY <3>4, <2>2
    <3>5. QED
      BY <3>3, <3>4
  <2>4. OneToken(t) /\ OneWrite(t) /\ \A q \in Promises : Awaits(t, q) => WaitsFor(t, q)
    BY DEF PipeInv, Names, Flight, t
  <2>5. \A q \in Promises : WaitsFor(u, q) <=> WaitsFor(t, q)
    BY <2>3 DEF WaitsFor
  <2>6. \A q \in Promises : Awaits(u, q) <=> Awaits(t, q)
    BY <2>1 DEF Awaits
  <2>7. OneWrite(u)
    BY <2>1, <2>4 DEF OneWrite
  <2>8. OneToken(u)
    <3>1. \A q \in Promises : \A k, l \in DOMAIN u.reactions[q] :
            u.reactions[q][k].kind = "pumped" /\ u.reactions[q][l].kind = "pumped" => k = l
      BY <2>3, <2>4 DEF OneToken
    <3>2. QED
      BY <2>1, <2>4, <2>5, <3>1 DEF OneToken
  <2>9. \A q \in Promises : Aimed(u, q) => Aimed(t, q) \/ Claimable(s, q)
    BY <2>1, <2>3 DEF Aimed
  <2>10. Tame(s, u)
    BY <2>1, <2>4, <2>5, <2>6, <2>7, <2>8, <2>9 DEF Tame, Calm, t, Is
  <2>11. QED
    BY <2>10 DEF u, t
<1>5. QED
  BY <1>3, <1>4

\* The head of the queue is gone, when it is no write of a chunk.
LEMMA TameRest ==
  ASSUME NEW s \in States, NEW run, PipeInv(s, run), s.table.microtasks # <<>>,
         ~IsWrite(Head(s.table.microtasks)),
         NEW u \in Tables, u.state = s.table.state, u.reactions = s.table.reactions,
         u.microtasks = Tail(s.table.microtasks)
  PROVE  Tame(s, u)
<1> DEFINE t == s.table
           M == t.microtasks
<1>1. M \in Seq(Tasks \cup ReactionJobs)
  BY StateTypes, TableTypes
<1>2. /\ \A i \in DOMAIN Tail(M) : i \in Nat /\ i + 1 \in DOMAIN M /\ Tail(M)[i] = M[i + 1]
      /\ \A i \in DOMAIN M : i \in Nat /\ (i = 1 \/ (i - 1 \in DOMAIN Tail(M) /\ M[i] = Tail(M)[i - 1]))
      /\ M[1] = Head(M)
  <2> HIDE DEF M
  <2>1. M # <<>>
    BY DEF M
  <2>2. QED
    BY <1>1, <2>1
<1>3. OneToken(t) /\ OneWrite(t) /\ \A q \in Promises : Awaits(t, q) => WaitsFor(t, q)
  BY DEF PipeInv, Names, Flight
<1>4. u.state = t.state /\ u.reactions = t.reactions /\ u.microtasks = Tail(M) /\ ~IsWrite(Head(M))
  OBVIOUS
<1> HIDE DEF t, M
<1>5. \A q \in Promises : WaitsFor(u, q) <=> WaitsFor(t, q)
  BY <1>4 DEF WaitsFor
<1>6. \A i \in DOMAIN u.microtasks : i \in Nat /\ i + 1 \in DOMAIN M /\ u.microtasks[i] = M[i + 1]
  BY <1>2, <1>4
<1>7. \A q \in Promises : Awaits(t, q) => Awaits(u, q)
  <2> SUFFICES ASSUME NEW q \in Promises, NEW i \in DOMAIN M, IsWrite(M[i]), M[i].promise = q
               PROVE  Awaits(u, q)
    BY DEF Awaits, M
  <2>1. i - 1 \in DOMAIN u.microtasks /\ M[i] = u.microtasks[i - 1]
    BY <1>2, <1>4
  <2>2. QED
    BY <2>1 DEF Awaits
<1>8. OneWrite(u)
  <2> SUFFICES ASSUME NEW i \in DOMAIN u.microtasks, NEW j \in DOMAIN u.microtasks,
                      IsWrite(u.microtasks[i]), IsWrite(u.microtasks[j])
               PROVE  i = j
    BY DEF OneWrite
  <2>1. i + 1 = j + 1
    BY <1>3, <1>6 DEF OneWrite, M
  <2>2. QED
    BY <1>6, <2>1
<1>9. OneToken(u)
  <2>1. \A i, j \in DOMAIN u.microtasks :
          IsToken(u.microtasks[i]) /\ IsToken(u.microtasks[j]) => i = j
    <3> SUFFICES ASSUME NEW i \in DOMAIN u.microtasks, NEW j \in DOMAIN u.microtasks,
                        IsToken(u.microtasks[i]), IsToken(u.microtasks[j])
                 PROVE  i = j
      OBVIOUS
    <3>1. i + 1 = j + 1
      BY <1>3, <1>6 DEF OneToken, M
    <3>2. QED
      BY <1>6, <3>1
  <2>2. \A i \in DOMAIN u.microtasks : \A q \in Promises :
          ~(IsToken(u.microtasks[i]) /\ WaitsFor(u, q))
    BY <1>3, <1>5, <1>6 DEF OneToken, M
  <2>3. QED
    BY <1>3, <1>4, <1>5, <2>1, <2>2 DEF OneToken
<1>10. \A q \in Promises : Aimed(u, q) => Aimed(t, q)
  BY <1>4, <1>6 DEF Aimed, M
<1>11. \A i \in DOMAIN u.microtasks : \E j \in DOMAIN M : u.microtasks[i] = M[j]
  BY <1>6
<1>12. QED
  BY <1>3, <1>4, <1>5, <1>7, <1>8, <1>9, <1>10, <1>11 DEF Tame, Calm, t, M, Is

LEMMA TameSame ==
  ASSUME NEW s \in States, NEW run, PipeInv(s, run)
  PROVE  Tame(s, s.table)
<1>1. s.table \in After(s.table, {})
  BY StateTypes, AfterNothing
<1>2. QED
  BY <1>1, TameAfter

LEMMA SteadyTrans ==
  ASSUME NEW s, NEW u, NEW v, NEW run, NEW run1, Steady(s, u, run), Steady(u, v, run1)
  PROVE  Steady(s, v, run1)
BY DEF Steady

LEMMA SteadySame ==
  ASSUME NEW s \in States, NEW run, PipeInv(s, run)
  PROVE  Steady(s, s, run)
BY DEF Steady

\* What someone has a claim on is claimable.
LEMMA ClaimedClaimable ==
  ASSUME NEW s, NEW run, PipeInv(s, run), NEW q \in Promises,
         Aimed(s.table, q) \/ Held(s, q) \/ Runs(run, q)
  PROVE  Claimable(s, q)
BY DEF PipeInv, Names, Claimable, Unclaimed

\* Claims do not grow, and the table alone changes.
LEMMA OnlyTableUndisturbed ==
  ASSUME NEW s \in States, NEW u, NEW run, OnlyTable(s, u)
  PROVE  Undisturbed(s, run, u, run)
<1>1. \A q \in Promises : Held(u, q) <=> Held(s, q)
  BY DEF OnlyTable, Held
<1>2. QED
  BY <1>1 DEF OnlyTable, Undisturbed, Unheld

LEMMA AnswerSteady ==
  ASSUME NEW s \in States, NEW run, PipeInv(s, run), NEW p \in Promises, Claimable(s, p),
         NEW rejected \in BOOLEAN
  PROVE  Steady(s, Answer(s, p, rejected), run)
<1> DEFINE u == Answer(s, p, rejected)
<1>1. OnlyTable(s, u) /\ u.table \in After(s.table, {p})
  BY AnswerIs
<1> HIDE DEF u
<1>2. Tame(s, u.table)
  BY <1>1, TameAfter
<1>3. Undisturbed(s, run, u, run) /\ u \in States
  BY <1>1, OnlyTableUndisturbed DEF OnlyTable
<1>4. Steady(s, u, run)
  BY <1>2, <1>3, TamePipe
<1>5. QED
  BY <1>4 DEF u

LEMMA AnswerAllSteady ==
  ASSUME NEW s \in States, NEW run, PipeInv(s, run), NEW promises \in Seq(Promises),
         \A i \in DOMAIN promises : Claimable(s, promises[i]), NEW rejected \in BOOLEAN
  PROVE  Steady(s, AnswerAll(s, promises, rejected), run)
<1> DEFINE u == AnswerAll(s, promises, rejected)
           X == {p \in Promises : \E i \in DOMAIN promises : promises[i] = p}
<1>1. OnlyTable(s, u) /\ u.table \in After(s.table, X)
  BY AnswerAllIs
<1>2. \A q \in X \cap Promises : Claimable(s, q)
  OBVIOUS
<1> HIDE DEF u, X
<1>3. Tame(s, u.table)
  BY <1>1, <1>2, TameAfter
<1>4. Undisturbed(s, run, u, run) /\ u \in States
  BY <1>1, OnlyTableUndisturbed DEF OnlyTable
<1>5. Steady(s, u, run)
  BY <1>3, <1>4, TamePipe
<1>6. QED
  BY <1>5 DEF u

LEMMA ScheduleSteady ==
  ASSUME NEW s \in States, NEW run, PipeInv(s, run),
         NEW job \in Tasks \cup ReactionJobs, ~IsWrite(job), ~IsToken(job),
         \A q \in Promises : JobAims(job, q) => Claimable(s, q)
  PROVE  Steady(s, Schedule(s, job), run)
<1> DEFINE u == Schedule(s, job)
<1>1. /\ OnlyTable(s, u)
      /\ u.table.state = s.table.state
      /\ u.table.reactions = s.table.reactions
      /\ u.table.microtasks = Append(s.table.microtasks, job)
  BY ScheduleIs
<1> HIDE DEF u
<1>2. Undisturbed(s, run, u, run) /\ u \in States /\ u.table \in Tables
  BY <1>1, OnlyTableUndisturbed, StateTypes DEF OnlyTable
<1>3. Tame(s, u.table)
  BY <1>1, <1>2, TameSchedule
<1>4. Steady(s, u, run)
  BY <1>2, <1>3, TamePipe
<1>5. QED
  BY <1>4 DEF u

\* A new promise is claimable.
LEMMA CreatedSteady ==
  ASSUME NEW s \in States, NEW run, PipeInv(s, run), NEW u, Created(s, u)
  PROVE  /\ Steady(s, u, run)
         /\ NextPromise(s) \in Promises /\ Claimable(u, NextPromise(s))
         /\ Unclaimed(u, run, NextPromise(s)) /\ ~WaitsFor(u.table, NextPromise(s))
         /\ Is(u.table, NextPromise(s), "pending")
<1> DEFINE p == NextPromise(s)
<1>1. OnlyTable(s, u) /\ u \in States /\ p \in Promises
  BY DEF Created, OnlyTable
<1>2. Tame(s, u.table)
  BY TameCreated
<1>3. Undisturbed(s, run, u, run)
  BY <1>1, OnlyTableUndisturbed
<1>4. Steady(s, u, run)
  BY <1>1, <1>2, <1>3, TamePipe
<1>5. /\ u.table.reactions = s.table.reactions /\ u.table.microtasks = s.table.microtasks
      /\ u.table.state = [s.table.state EXCEPT ![p] = "pending"]
      /\ s.table.state[p] = "absent" /\ s.table.state \in [Promises -> PromiseStates]
  BY StateTypes, TableTypes DEF Created
<1> HIDE DEF p
<1>6. Is(u.table, p, "pending")
  BY <1>1, <1>5 DEF Is
<1>7. Is(s.table, p, "absent")
  BY <1>5 DEF Is
<1>8. /\ Unclaimed(s, run, p) /\ ~Awaits(s.table, p) /\ p # s.piped /\ ~WaitsFor(s.table, p)
  <2>1. Unclaimed(s, run, p)
    BY <1>1, <1>7 DEF PipeInv, Names
  <2>2. ~WaitsFor(s.table, p)
    BY <1>1, <1>5 DEF PipeInv, Flight, Is
  <2>3. ~Awaits(s.table, p)
    BY <1>1, <2>2 DEF PipeInv, Names
  <2>4. p # s.piped
    <3>1. Nothing \notin Promises
      BY StreamsAssumption
    <3>2. QED
      BY <1>1, <1>7, <3>1 DEF PipeInv, Names, Exists
  <2>5. QED
    BY <2>1, <2>2, <2>3, <2>4
<1>9. ~Awaits(u.table, p) /\ ~WaitsFor(u.table, p) /\ (Aimed(u.table, p) <=> Aimed(s.table, p))
  BY <1>5, <1>8 DEF Awaits, WaitsFor, Aimed
<1>10. Held(u, p) <=> Held(s, p)
  BY <1>1 DEF OnlyTable, Held
<1>11. u.piped = s.piped
  BY <1>1 DEF OnlyTable
<1>12. Claimable(u, p)
  BY <1>6, <1>8, <1>9, <1>11 DEF Claimable, Is
<1>13. QED
  BY <1>1, <1>4, <1>6, <1>8, <1>9, <1>10, <1>12 DEF p, Unclaimed

\* u differs from s in stream r only.
OnlyReadable(s, u, r) ==
  /\ u \in States /\ u.readables = [s.readables EXCEPT ![r] = u.readables[r]]
  /\ u.table = s.table /\ u.readers = s.readers
  /\ u.writable = s.writable /\ u.writers = s.writers /\ u.sinks = s.sinks
  /\ u.piped = s.piped /\ u.pumped = s.pumped /\ u.written = s.written

LEMMA ReadableChanges ==
  ASSUME NEW s \in States, NEW r \in Readables, NEW stream \in ReadableStates
  PROVE  /\ OnlyReadable(s, [s EXCEPT !.readables[r] = stream], r)
         /\ [s EXCEPT !.readables[r] = stream].readables[r] = stream
<1>1. s.readables \in [Readables -> ReadableStates]
  BY StateTypes
<1>2. [s EXCEPT !.readables[r] = stream] = [s EXCEPT !.readables = [s.readables EXCEPT ![r] = stream]]
  OBVIOUS
<1>3. [s.readables EXCEPT ![r] = stream] \in [Readables -> ReadableStates]
  BY <1>1
<1>4. QED
  BY <1>1, <1>2, <1>3 DEF States, OnlyReadable

LEMMA OnlyReadableSteady ==
  ASSUME NEW s \in States, NEW run, PipeInv(s, run), NEW r \in Readables,
         NEW u, OnlyReadable(s, u, r),
         u.readables[r].pipe = s.readables[r].pipe,
         s.readables[r].closing => u.readables[r].closing,
         s.readables[r].closing /\ s.readables[r].queue = <<>> => u.readables[r].queue = <<>>
  PROVE  Steady(s, u, run)
<1>1. u \in States /\ u.table = s.table
  BY DEF OnlyReadable
<1>2. \A q \in Promises : Held(u, q) <=> Held(s, q)
  BY DEF OnlyReadable, Held
<1>3. \A q \in Readables : q # r => u.readables[q] = s.readables[q]
  BY StateTypes DEF OnlyReadable
<1>4. "source" \in Readables /\ "output" \in Readables
  BY DEF Readables
<1>5. Undisturbed(s, run, u, run)
  BY <1>2, <1>3, <1>4 DEF OnlyReadable, Undisturbed, Unheld
<1>6. Tame(s, u.table)
  BY <1>1, TameSame
<1>7. QED
  BY <1>1, <1>5, <1>6, TamePipe

-----------------------------------------------------------------------------
(* The readable side and the pipe's invariant. *)

\* The readers of stream r are answered, and their reads are over.
Ended(s, u, r) ==
  /\ u \in States /\ u.readables = s.readables
  /\ u.writable = s.writable /\ u.writers = s.writers /\ u.sinks = s.sinks
  /\ u.piped = s.piped /\ u.pumped = s.pumped /\ u.written = s.written
  /\ u.table \in After(s.table, PromisedBy(s.readers, r))
  /\ DOMAIN u.readers = DOMAIN s.readers
  /\ \A i \in DOMAIN s.readers :
       /\ u.readers[i].stream = s.readers[i].stream /\ u.readers[i].closed = s.readers[i].closed
       /\ u.readers[i].pending = IF s.readers[i].stream = r THEN <<>> ELSE s.readers[i].pending
       /\ s.readers[i].stream = r => ~Is(u.table, s.readers[i].closed, "pending")

LEMMA EndReadersIs ==
  ASSUME NEW s \in States, NEW r \in Readables, NEW rejected \in BOOLEAN
  PROVE  Ended(s, EndReaders(s, r, rejected), r)
<1> DEFINE t == EndFirst(s.table, s.readers, r, rejected)[Len(s.readers)]
           R == [i \in DOMAIN s.readers |->
                   IF s.readers[i].stream = r THEN [s.readers[i] EXCEPT !.pending = <<>>] ELSE s.readers[i]]
<1>1. s.table \in Tables /\ s.readers \in Seq(ReaderStates)
  BY StateTypes
<1>2. /\ t \in After(s.table, PromisedBy(s.readers, r))
      /\ \A i \in DOMAIN s.readers : s.readers[i].stream = r => ~Is(t, s.readers[i].closed, "pending")
  BY <1>1, EndFirstIs
<1>3. t \in Tables
  BY <1>2 DEF After
<1>4. \A i \in DOMAIN s.readers : R[i] \in ReaderStates
  <2> TAKE i \in DOMAIN s.readers
  <2>1. s.readers[i] \in ReaderStates
    BY ReaderTypes
  <2>2. <<>> \in Seq(Promises)
    OBVIOUS
  <2>3. [s.readers[i] EXCEPT !.pending = <<>>] \in ReaderStates
    BY <2>1, <2>2 DEF ReaderStates
  <2>4. QED
    BY <2>1, <2>3
<1>5. DOMAIN s.readers = 1..Len(s.readers) /\ Len(s.readers) \in Nat
  BY <1>1
<1>6. R \in Seq(ReaderStates)
  <2> DEFINE n == Len(s.readers)
  <2>1. DOMAIN R = 1..n /\ n \in Nat /\ \A i \in 1..n : R[i] \in ReaderStates
    BY <1>4, <1>5
  <2>2. R = [i \in 1..n |-> R[i]]
    BY <1>5
  <2> HIDE DEF R, n
  <2>3. QED
    BY <2>1, <2>2
<1>7. EndReaders(s, r, rejected) = [s EXCEPT !.table = t, !.readers = R]
  BY <1>1 DEF EndReaders, States
<1>8. DOMAIN R = DOMAIN s.readers
      /\ \A i \in DOMAIN s.readers :
           /\ R[i].stream = s.readers[i].stream /\ R[i].closed = s.readers[i].closed
           /\ R[i].pending = IF s.readers[i].stream = r THEN <<>> ELSE s.readers[i].pending
  <2>1. DOMAIN R = DOMAIN s.readers
    OBVIOUS
  <2> SUFFICES ASSUME NEW i \in DOMAIN s.readers
               PROVE  /\ R[i].stream = s.readers[i].stream /\ R[i].closed = s.readers[i].closed
                      /\ R[i].pending = IF s.readers[i].stream = r THEN <<>> ELSE s.readers[i].pending
    BY <2>1
  <2>2. s.readers[i] \in ReaderStates
    BY ReaderTypes
  <2>3. QED
    BY <2>2 DEF ReaderStates
<1> DEFINE u == [s EXCEPT !.table = t, !.readers = R]
<1> HIDE DEF t, R
<1>9. /\ u \in States /\ u.table = t /\ u.readers = R /\ u.readables = s.readables
      /\ u.writable = s.writable /\ u.writers = s.writers /\ u.sinks = s.sinks
      /\ u.piped = s.piped /\ u.pumped = s.pumped /\ u.written = s.written
  BY <1>3, <1>6 DEF States
<1> HIDE DEF u
<1>10. Ended(s, u, r)
  BY <1>2, <1>8, <1>9 DEF Ended
<1>11. QED
  BY <1>7, <1>10 DEF u

LEMMA EndedSteady ==
  ASSUME NEW s \in States, NEW run, PipeInv(s, run), NEW r \in Readables, NEW u, Ended(s, u, r)
  PROVE  Steady(s, u, run)
<1> DEFINE X == PromisedBy(s.readers, r)
<1>1. u \in States /\ u.table \in After(s.table, X)
  BY DEF Ended
<1>2. \A q \in X \cap Promises : Claimable(s, q)
  <2> SUFFICES ASSUME NEW q \in X \cap Promises PROVE Claimable(s, q)
    OBVIOUS
  <2>1. Held(s, q)
    BY DEF PromisedBy, Held
  <2>2. QED
    BY <2>1, ClaimedClaimable
<1>3. Tame(s, u.table)
  BY <1>1, <1>2, TameAfter
<1>4. \A q \in Promises : Held(u, q) => Held(s, q)
  <2> SUFFICES ASSUME NEW q \in Promises, Held(u, q) PROVE Held(s, q)
    OBVIOUS
  <2>1. u.writers = s.writers /\ u.sinks = s.sinks /\ DOMAIN u.readers = DOMAIN s.readers
    BY DEF Ended
  <2>2. ASSUME NEW i \in DOMAIN s.readers,
               u.readers[i].closed = q \/ \E k \in DOMAIN u.readers[i].pending : u.readers[i].pending[k] = q
        PROVE  Held(s, q)
    <3>1. /\ u.readers[i].closed = s.readers[i].closed
          /\ u.readers[i].pending = IF s.readers[i].stream = r THEN <<>> ELSE s.readers[i].pending
      BY DEF Ended
    <3>2. QED
      BY <2>2, <3>1 DEF Held
  <2>3. QED
    BY <2>1, <2>2 DEF Held
<1>5. Undisturbed(s, run, u, run)
  BY <1>4 DEF Ended, Undisturbed, Unheld
<1>6. QED
  BY <1>1, <1>3, <1>5, TamePipe

\* The stream gets a status, and its readers are answered.
LEMMA StatusIs ==
  ASSUME NEW s \in States, NEW r \in Readables, NEW status \in {"readable", "closed", "errored"}
  PROVE  LET u == [s EXCEPT !.readables[r].status = status] IN
         /\ OnlyReadable(s, u, r)
         /\ u.readables[r] = [s.readables[r] EXCEPT !.status = status]
<1> DEFINE stream == [s.readables[r] EXCEPT !.status = status]
<1>1. s.readables[r] \in ReadableStates
  BY StreamTypes
<1>2. stream \in ReadableStates
  BY <1>1 DEF ReadableStates
<1>3. [s EXCEPT !.readables[r].status = status] = [s EXCEPT !.readables[r] = stream]
  BY StateTypes DEF States
<1> HIDE DEF stream
<1>4. OnlyReadable(s, [s EXCEPT !.readables[r] = stream], r)
      /\ [s EXCEPT !.readables[r] = stream].readables[r] = stream
  BY <1>2, ReadableChanges
<1>5. QED
  BY <1>3, <1>4 DEF stream

LEMMA StatusSteady ==
  ASSUME NEW s \in States, NEW run, PipeInv(s, run), NEW r \in Readables,
         NEW status \in {"readable", "closed", "errored"}, NEW rejected \in BOOLEAN
  PROVE  Steady(s, EndReaders([s EXCEPT !.readables[r].status = status], r, rejected), run)
<1> DEFINE u == [s EXCEPT !.readables[r].status = status]
<1>1. OnlyReadable(s, u, r) /\ u.readables[r] = [s.readables[r] EXCEPT !.status = status]
  BY ZenonT(90), StatusIs
<1> HIDE DEF u
<1>2. s.readables[r] \in ReadableStates
  BY StreamTypes
<1>3. /\ u.readables[r].pipe = s.readables[r].pipe
      /\ u.readables[r].closing = s.readables[r].closing
      /\ u.readables[r].queue = s.readables[r].queue
  BY <1>1, <1>2 DEF ReadableStates
<1>4. Steady(s, u, run)
  BY <1>1, <1>3, OnlyReadableSteady
<1>5. u \in States /\ PipeInv(u, run)
  BY <1>4 DEF Steady
<1>6. Ended(u, EndReaders(u, r, rejected), r)
  BY <1>5, EndReadersIs
<1>7. Steady(u, EndReaders(u, r, rejected), run)
  BY <1>5, <1>6, EndedSteady
<1>8. Steady(s, EndReaders(u, r, rejected), run)
  BY <1>4, <1>7, SteadyTrans
<1>9. QED
  BY <1>8 DEF u

LEMMA CloseIfDrainedSteady ==
  ASSUME NEW s \in States, NEW run, PipeInv(s, run), NEW r \in Readables
  PROVE  Steady(s, CloseIfDrained(s, r), run)
<1>1. Steady(s, s, run)
  BY SteadySame
<1>2. Steady(s, EndReaders([s EXCEPT !.readables[r].status = "closed"], r, FALSE), run)
  BY StatusSteady
<1>3. QED
  BY <1>1, <1>2 DEF CloseIfDrained

LEMMA ErrorStreamSteady ==
  ASSUME NEW s \in States, NEW run, PipeInv(s, run), NEW r \in Readables
  PROVE  Steady(s, ErrorStream(s, r), run)
<1>1. Steady(s, EndReaders([s EXCEPT !.readables[r].status = "errored"], r, TRUE), run)
  BY StatusSteady
<1>2. QED
  BY <1>1 DEF ErrorStream

LEMMA StreamJobs ==
  ASSUME NEW r \in Readables, NEW s
  PROVE  /\ [kind |-> "pump", stream |-> r] \in Tasks \cup ReactionJobs
         /\ [kind |-> "pull", stream |-> r] \in Tasks \cup ReactionJobs
         /\ \A job \in {[kind |-> "pump", stream |-> r], [kind |-> "pull", stream |-> r]} :
              /\ ~IsWrite(job) /\ ~IsToken(job)
              /\ \A q \in Promises : JobAims(job, q) => Claimable(s, q)
BY JobTypes DEF IsWrite, IsToken, JobAims

LEMMA WakePipeSteady ==
  ASSUME NEW s \in States, NEW run, PipeInv(s, run), NEW r \in Readables
  PROVE  Steady(s, WakePipe(s, r), run)
<1> DEFINE job == [kind |-> "pump", stream |-> r]
<1>1. job \in Tasks \cup ReactionJobs /\ ~IsWrite(job) /\ ~IsToken(job)
      /\ \A q \in Promises : JobAims(job, q) => Claimable(s, q)
  BY StreamJobs
<1>2. WakePipe(s, r) = IF s.readables[r].pipe = Nothing THEN s ELSE Schedule(s, job)
  BY DEF WakePipe
<1> HIDE DEF job
<1>3. Steady(s, Schedule(s, job), run)
  BY <1>1, ScheduleSteady
<1>4. QED
  BY <1>2, <1>3, SteadySame

LEMMA SchedulePullSteady ==
  ASSUME NEW s \in States, NEW run, PipeInv(s, run), NEW r \in Readables
  PROVE  Steady(s, SchedulePull(s, r), run)
<1> DEFINE job == [kind |-> "pull", stream |-> r]
           u == [s EXCEPT !.readables[r].pulling = TRUE]
           stream == [s.readables[r] EXCEPT !.pulling = TRUE]
<1>1. s.readables[r] \in ReadableStates
  BY StreamTypes
<1>2. stream \in ReadableStates /\ stream.pipe = s.readables[r].pipe
      /\ stream.closing = s.readables[r].closing /\ stream.queue = s.readables[r].queue
  BY <1>1 DEF ReadableStates
<1>3. u = [s EXCEPT !.readables[r] = stream]
  BY StateTypes DEF States
<1>4. SchedulePull(s, r) = s \/ SchedulePull(s, r) = Schedule(u, job)
  BY DEF SchedulePull
<1>5. job \in Tasks \cup ReactionJobs /\ ~IsWrite(job) /\ ~IsToken(job)
      /\ \A q \in Promises : JobAims(job, q) => Claimable(u, q)
  BY StreamJobs
<1> HIDE DEF job, u, stream
<1>6. OnlyReadable(s, u, r) /\ u.readables[r] = stream
  BY <1>2, <1>3, ReadableChanges
<1>7. Steady(s, u, run)
  BY <1>2, <1>6, OnlyReadableSteady
<1>8. u \in States /\ PipeInv(u, run)
  BY <1>7 DEF Steady
<1>9. Steady(u, Schedule(u, job), run)
  BY <1>5, <1>8, ScheduleSteady
<1>10. Steady(s, Schedule(u, job), run)
  BY <1>7, <1>9, SteadyTrans
<1>11. QED
  BY <1>4, <1>10, SteadySame

\* The first reader that waits.
LEMMA FirstWaiting ==
  ASSUME NEW s \in States, NEW r \in Readables, Waiting(s, r) # {},
         NEW i, i = CHOOSE j \in Waiting(s, r) : \A k \in Waiting(s, r) : j <= k
  PROVE  /\ i \in DOMAIN s.readers /\ s.readers[i].stream = r /\ s.readers[i].pending # <<>>
         /\ s.readers[i].pending \in Seq(Promises)
         /\ Head(s.readers[i].pending) \in Promises /\ Held(s, Head(s.readers[i].pending))
<1>1. Waiting(s, r) \in SUBSET Nat
  <2>1. s.readers \in Seq(ReaderStates)
    BY StateTypes
  <2>2. DOMAIN s.readers \subseteq Nat
    BY <2>1
  <2>3. QED
    BY <2>2 DEF Waiting
<1>2. \E j \in Waiting(s, r) : \A k \in Waiting(s, r) : j <= k
  BY <1>1, LeastNat
<1>3. i \in Waiting(s, r)
  BY <1>2
<1>4. i \in DOMAIN s.readers /\ s.readers[i].stream = r /\ s.readers[i].pending # <<>>
  BY <1>3 DEF Waiting
<1>5. s.readers[i].pending \in Seq(Promises)
  BY <1>4, ReaderTypes
<1> DEFINE w == s.readers[i].pending
<1>6. w \in Seq(Promises) /\ w # <<>>
  BY <1>4, <1>5
<1> HIDE DEF w
<1>7. Head(w) \in Promises /\ 1 \in DOMAIN w /\ w[1] = Head(w)
  BY <1>6
<1>8. Held(s, Head(w))
  BY <1>4, <1>7 DEF Held, w
<1>9. QED
  BY <1>4, <1>5, <1>7, <1>8 DEF w

\* Reader i is handed a chunk: its first read is over.
Handed(s, u, r, i) ==
  /\ u \in States /\ u.table = s.table
  /\ u.writable = s.writable /\ u.writers = s.writers /\ u.sinks = s.sinks
  /\ u.piped = s.piped /\ u.pumped = s.pumped /\ u.written = s.written
  /\ u.readables = [s.readables EXCEPT ![r] = u.readables[r]]
  /\ u.readables[r] = [s.readables[r] EXCEPT !.sent = @ + 1,
                                             !.taken = Append(@, s.readables[r].sent + 1)]
  /\ u.readers = [s.readers EXCEPT ![i] = [s.readers[i] EXCEPT !.pending = Tail(@)]]

LEMMA HandedIs ==
  ASSUME NEW s \in States, NEW r \in Readables, NEW i \in DOMAIN s.readers,
         s.readers[i].pending # <<>>
  PROVE  LET n == s.readables[r].sent + 1
             u == [[s EXCEPT !.readables[r].sent = n] EXCEPT !.readers[i].pending = Tail(@),
                                                             !.readables[r].taken = Append(@, n)] IN
         Handed(s, u, r, i)
<1> DEFINE n == s.readables[r].sent + 1
           u == [[s EXCEPT !.readables[r].sent = n] EXCEPT !.readers[i].pending = Tail(@),
                                                           !.readables[r].taken = Append(@, n)]
           stream == [s.readables[r] EXCEPT !.sent = n, !.taken = Append(@, n)]
           reader == [s.readers[i] EXCEPT !.pending = Tail(@)]
<1>1. s.readables[r] \in ReadableStates /\ s.readers[i] \in ReaderStates
      /\ s.readers \in Seq(ReaderStates) /\ s.readables \in [Readables -> ReadableStates]
  BY StateTypes, StreamTypes, ReaderTypes
<1>2. stream \in ReadableStates
  <2>1. n \in Nat /\ Append(s.readables[r].taken, n) \in Seq(Nat)
    BY StreamTypes
  <2> HIDE DEF n
  <2>2. QED
    BY <1>1, <2>1 DEF ReadableStates
<1>3. reader \in ReaderStates
  <2>1. s.readers[i].pending \in Seq(Promises)
    BY ReaderTypes
  <2>2. Tail(s.readers[i].pending) \in Seq(Promises)
    BY <2>1
  <2>3. QED
    BY <1>1, <2>2 DEF ReaderStates
<1>4. u = [s EXCEPT !.readers = [s.readers EXCEPT ![i] = reader],
                    !.readables = [s.readables EXCEPT ![r] = stream]]
  <2>1. [s EXCEPT !.readables[r].sent = n] =
          [s EXCEPT !.readables = [s.readables EXCEPT ![r] = [s.readables[r] EXCEPT !.sent = n]]]
    BY <1>1 DEF States
  <2> DEFINE one == [s.readables[r] EXCEPT !.sent = n]
             v == [s EXCEPT !.readables = [s.readables EXCEPT ![r] = one]]
  <2>2. v.readables = [s.readables EXCEPT ![r] = one] /\ v.readers = s.readers
        /\ v.readables[r] = one
    BY <1>1 DEF States
  <2>3. u = [v EXCEPT !.readers = [v.readers EXCEPT ![i] = [v.readers[i] EXCEPT !.pending = Tail(@)]],
                      !.readables = [v.readables EXCEPT ![r] = [v.readables[r] EXCEPT !.taken = Append(@, n)]]]
    BY <2>1
  <2>4. [one EXCEPT !.taken = Append(@, n)] = stream
    BY <1>1 DEF ReadableStates
  <2>5. [v.readables EXCEPT ![r] = stream] = [s.readables EXCEPT ![r] = stream]
    BY <2>2, <1>1
  <2>6. u = [v EXCEPT !.readers = [s.readers EXCEPT ![i] = reader],
                      !.readables = [s.readables EXCEPT ![r] = stream]]
    BY <2>2, <2>3, <2>4, <2>5
  <2> HIDE DEF one, stream, reader
  <2>7. QED
    BY <2>6 DEF States
<1>5. [s.readers EXCEPT ![i] = reader] \in Seq(ReaderStates)
      /\ [s.readables EXCEPT ![r] = stream] \in [Readables -> ReadableStates]
      /\ [s.readables EXCEPT ![r] = stream][r] = stream
  <2> HIDE DEF reader, stream
  <2>1. QED
    BY <1>1, <1>2, <1>3
<1> HIDE DEF u
<1>6. /\ u \in States /\ u.table = s.table
      /\ u.writable = s.writable /\ u.writers = s.writers /\ u.sinks = s.sinks
      /\ u.piped = s.piped /\ u.pumped = s.pumped /\ u.written = s.written
      /\ u.readables = [s.readables EXCEPT ![r] = stream]
      /\ u.readers = [s.readers EXCEPT ![i] = reader]
  <2> HIDE DEF reader, stream
  <2>1. QED
    BY <1>4, <1>5 DEF States
<1>7. u.readables[r] = stream
  BY <1>5, <1>6
<1>8. QED
  BY <1>6, <1>7 DEF Handed, u

LEMMA HandedSteady ==
  ASSUME NEW s \in States, NEW run, PipeInv(s, run), NEW r \in Readables,
         NEW i \in DOMAIN s.readers, NEW u, Handed(s, u, r, i), s.readers[i].pending # <<>>
  PROVE  Steady(s, u, run)
<1>1. u \in States /\ u.table = s.table /\ s.readers \in Seq(ReaderStates)
  BY StateTypes DEF Handed
<1>2. \A q \in Promises : Held(u, q) => Held(s, q)
  <2> SUFFICES ASSUME NEW q \in Promises, Held(u, q) PROVE Held(s, q)
    OBVIOUS
  <2>1. u.writers = s.writers /\ u.sinks = s.sinks
        /\ u.readers = [s.readers EXCEPT ![i] = [s.readers[i] EXCEPT !.pending = Tail(@)]]
    BY DEF Handed
  <2>2. ASSUME NEW j \in DOMAIN u.readers,
               u.readers[j].closed = q \/ \E k \in DOMAIN u.readers[j].pending : u.readers[j].pending[k] = q
        PROVE  Held(s, q)
    <3>1. j \in DOMAIN s.readers
      BY <2>1
    <3>2. CASE j # i
      <4>1. u.readers[j] = s.readers[j]
        BY <3>1, <3>2, <2>1
      <4>2. QED
        BY <3>1, <4>1, <2>2 DEF Held
    <3>3. CASE j = i
      <4>1. u.readers[i] = [s.readers[i] EXCEPT !.pending = Tail(@)] /\ s.readers[i] \in ReaderStates
        BY <2>1, ReaderTypes
      <4>2. u.readers[i].closed = s.readers[i].closed /\ u.readers[i].pending = Tail(s.readers[i].pending)
        BY <4>1 DEF ReaderStates
      <4> DEFINE w == s.readers[i].pending
      <4>3. w \in Seq(Promises) /\ w # <<>>
        BY ReaderTypes
      <4> HIDE DEF w
      <4>4. \A k \in DOMAIN Tail(w) : k + 1 \in DOMAIN w /\ Tail(w)[k] = w[k + 1]
        BY <4>3
      <4>5. CASE u.readers[j].closed = q
        BY <3>3, <4>2, <4>5 DEF Held
      <4>6. CASE \E k \in DOMAIN u.readers[j].pending : u.readers[j].pending[k] = q
        <5>1. PICK k \in DOMAIN Tail(w) : Tail(w)[k] = q
          BY <3>3, <4>2, <4>6 DEF w
        <5>2. k + 1 \in DOMAIN s.readers[i].pending /\ s.readers[i].pending[k + 1] = q
          BY <4>4, <5>1 DEF w
        <5>3. QED
          BY <5>2 DEF Held
      <4>7. QED
        BY <2>2, <4>5, <4>6
    <3>4. QED
      BY <3>2, <3>3
  <2>3. QED
    BY <2>1, <2>2 DEF Held
<1>3. s.readables[r] \in ReadableStates
  BY StreamTypes
<1>4. /\ u.readables[r].pipe = s.readables[r].pipe
      /\ u.readables[r].closing = s.readables[r].closing
      /\ u.readables[r].queue = s.readables[r].queue
  BY <1>3 DEF Handed, ReadableStates
<1>5. \A q \in Readables : q # r => u.readables[q] = s.readables[q]
  BY StateTypes DEF Handed
<1>6. "source" \in Readables /\ "output" \in Readables
  BY DEF Readables
<1>7. Undisturbed(s, run, u, run)
  BY <1>2, <1>4, <1>5, <1>6 DEF Handed, Undisturbed, Unheld
<1>8. Tame(s, u.table)
  BY <1>1, TameSame
<1>9. QED
  BY <1>1, <1>7, <1>8, TamePipe

\* The chunk goes to the first reader that waits, or to the queue.
Queued(s, u, r) ==
  /\ OnlyReadable(s, u, r)
  /\ u.readables[r] = [s.readables[r] EXCEPT !.sent = @ + 1,
                                             !.queue = Append(@, s.readables[r].sent + 1)]

LEMMA QueuedIs ==
  ASSUME NEW s \in States, NEW r \in Readables
  PROVE  LET n == s.readables[r].sent + 1 IN
         Queued(s, [[s EXCEPT !.readables[r].sent = n] EXCEPT !.readables[r].queue = Append(@, n)], r)
<1> DEFINE n == s.readables[r].sent + 1
           u == [[s EXCEPT !.readables[r].sent = n] EXCEPT !.readables[r].queue = Append(@, n)]
           one == [s.readables[r] EXCEPT !.sent = n]
           v == [s EXCEPT !.readables[r] = one]
           stream == [s.readables[r] EXCEPT !.sent = n, !.queue = Append(@, n)]
<1>1. s.readables[r] \in ReadableStates /\ s.readables \in [Readables -> ReadableStates]
  BY StateTypes, StreamTypes
<1>2. n \in Nat /\ Append(s.readables[r].queue, n) \in Seq(Nat)
  BY StreamTypes
<1> HIDE DEF n
<1>3. one \in ReadableStates /\ stream \in ReadableStates /\ stream = [one EXCEPT !.queue = Append(@, n)]
  BY <1>1, <1>2 DEF ReadableStates
<1>4. [s EXCEPT !.readables[r].sent = n] = v
  BY <1>1 DEF States
<1>5. OnlyReadable(s, v, r) /\ v.readables[r] = one
  <2> HIDE DEF one
  <2>1. QED
    BY <1>3, ReadableChanges
<1>6. u = [v EXCEPT !.readables[r] = stream]
  <2>1. u = [v EXCEPT !.readables[r].queue = Append(@, n)]
    BY <1>4
  <2>2. v.readables \in [Readables -> ReadableStates]
    BY <1>5, StateTypes DEF OnlyReadable
  <2> HIDE DEF v, u
  <2>3. u = [v EXCEPT !.readables = [v.readables EXCEPT ![r] = [v.readables[r] EXCEPT !.queue = Append(@, n)]]]
    BY <2>1
  <2>4. [v.readables[r] EXCEPT !.queue = Append(@, n)] = stream
    BY <1>3, <1>5
  <2> HIDE DEF stream
  <2>5. QED
    BY <2>3, <2>4
<1> HIDE DEF v, u, one, stream
<1>7. OnlyReadable(v, u, r) /\ u.readables[r] = stream
  <2>1. v \in States
    BY <1>5 DEF OnlyReadable
  <2>2. QED
    BY ZenonT(90), <1>3, <1>6, <2>1, ReadableChanges
<1>8. u.readables = [s.readables EXCEPT ![r] = u.readables[r]]
  BY <1>1, <1>5, <1>7 DEF OnlyReadable
<1>9. OnlyReadable(s, u, r)
  BY <1>5, <1>7, <1>8 DEF OnlyReadable
<1>10. QED
  BY <1>7, <1>9 DEF Queued, u, stream, n

LEMMA EnqueueChunkSteady ==
  ASSUME NEW s \in States, NEW run, PipeInv(s, run), NEW r \in Readables, ~Refuses(s, r)
  PROVE  Steady(s, EnqueueChunk(s, r), run)
<1> DEFINE n == s.readables[r].sent + 1
           i == CHOOSE j \in Waiting(s, r) : \A k \in Waiting(s, r) : j <= k
           a == [[s EXCEPT !.readables[r].sent = n] EXCEPT !.readables[r].queue = Append(@, n)]
           b == [[s EXCEPT !.readables[r].sent = n] EXCEPT !.readers[i].pending = Tail(@),
                                                           !.readables[r].taken = Append(@, n)]
           p == Head(s.readers[i].pending)
<1>1. EnqueueChunk(s, r) = WakePipe(IF Waiting(s, r) = {} THEN a ELSE Answer(b, p, FALSE), r)
  BY DEF EnqueueChunk
<1>2. Queued(s, a, r)
  BY QueuedIs
<1>3. CASE Waiting(s, r) = {}
  <2> HIDE DEF a, b, p
  <2>1. s.readables[r] \in ReadableStates
    BY StreamTypes
  <2>2. a.readables[r].pipe = s.readables[r].pipe /\ a.readables[r].closing = s.readables[r].closing
    BY <1>2, <2>1 DEF Queued, ReadableStates
  <2>3. ~s.readables[r].closing
    BY DEF Refuses
  <2>4. OnlyReadable(s, a, r)
    BY <1>2 DEF Queued
  <2>5. Steady(s, a, run)
    BY <2>2, <2>3, <2>4, OnlyReadableSteady
  <2>6. Steady(a, WakePipe(a, r), run)
    BY <2>5, WakePipeSteady DEF Steady
  <2>7. Steady(s, WakePipe(a, r), run)
    BY <2>5, <2>6, SteadyTrans
  <2>8. QED
    BY <1>1, <1>3, <2>7
<1>4. CASE Waiting(s, r) # {}
  <2>0. i = CHOOSE j \in Waiting(s, r) : \A k \in Waiting(s, r) : j <= k
    OBVIOUS
  <2> HIDE DEF i
  <2>1. /\ i \in DOMAIN s.readers /\ s.readers[i].pending # <<>>
        /\ p \in Promises /\ Held(s, p)
    BY <1>4, <2>0, FirstWaiting
  <2>2. Handed(s, b, r, i)
    BY <2>1, HandedIs
  <2>3. Claimable(s, p)
    BY <2>1, ClaimedClaimable
  <2> HIDE DEF a, b, p
  <2>4. Steady(s, b, run)
    BY <2>1, <2>2, HandedSteady
  <2>5. Steady(b, Answer(b, p, FALSE), run)
    BY <2>1, <2>3, <2>4, AnswerSteady DEF Steady
  <2> DEFINE c == Answer(b, p, FALSE)
  <2> HIDE DEF c
  <2>6. Steady(s, c, run)
    BY <2>4, <2>5, SteadyTrans DEF c
  <2>7. Steady(c, WakePipe(c, r), run)
    BY <2>6, WakePipeSteady DEF Steady
  <2>8. Steady(s, WakePipe(c, r), run)
    BY <2>6, <2>7, SteadyTrans
  <2>9. QED
    BY <1>1, <1>4, <2>8 DEF c
<1>5. QED
  BY <1>3, <1>4

LEMMA ClosingIs ==
  ASSUME NEW s \in States, NEW r \in Readables
  PROVE  LET u == [s EXCEPT !.readables[r].closing = TRUE] IN
         OnlyReadable(s, u, r) /\ u.readables[r] = [s.readables[r] EXCEPT !.closing = TRUE]
<1> DEFINE stream == [s.readables[r] EXCEPT !.closing = TRUE]
<1>1. s.readables[r] \in ReadableStates
  BY StreamTypes
<1>2. stream \in ReadableStates
  BY <1>1 DEF ReadableStates
<1>3. [s EXCEPT !.readables[r].closing = TRUE] = [s EXCEPT !.readables[r] = stream]
  BY StateTypes DEF States
<1> HIDE DEF stream
<1>4. OnlyReadable(s, [s EXCEPT !.readables[r] = stream], r)
      /\ [s EXCEPT !.readables[r] = stream].readables[r] = stream
  BY <1>2, ReadableChanges
<1>5. QED
  BY <1>3, <1>4 DEF stream

LEMMA CloseStreamSteady ==
  ASSUME NEW s \in States, NEW run, PipeInv(s, run), NEW r \in Readables
  PROVE  Steady(s, CloseStream(s, r), run)
<1> DEFINE u == [s EXCEPT !.readables[r].closing = TRUE]
           v == CloseIfDrained(u, r)
<1>1. OnlyReadable(s, u, r) /\ u.readables[r] = [s.readables[r] EXCEPT !.closing = TRUE]
  BY ClosingIs
<1>2. CloseStream(s, r) = WakePipe(v, r)
  BY DEF CloseStream
<1> HIDE DEF u
<1>3. s.readables[r] \in ReadableStates
  BY StreamTypes
<1>4. /\ u.readables[r].pipe = s.readables[r].pipe
      /\ u.readables[r].closing
      /\ u.readables[r].queue = s.readables[r].queue
  BY <1>1, <1>3 DEF ReadableStates
<1>5. Steady(s, u, run)
  BY <1>1, <1>4, OnlyReadableSteady
<1>6. Steady(u, v, run)
  BY <1>5, CloseIfDrainedSteady DEF Steady
<1> HIDE DEF v
<1>7. Steady(v, WakePipe(v, r), run)
  BY <1>6, WakePipeSteady DEF Steady
<1>8. Steady(s, v, run)
  BY <1>5, <1>6, SteadyTrans
<1>9. QED
  BY <1>2, <1>7, <1>8, SteadyTrans

LEMMA DroppedIs ==
  ASSUME NEW s \in States, NEW r \in Readables
  PROVE  LET u == [s EXCEPT !.readables[r].queue = <<>>, !.readables[r].closing = TRUE,
                            !.readables[r].dropped = TRUE] IN
         /\ OnlyReadable(s, u, r)
         /\ u.readables[r] = [s.readables[r] EXCEPT !.queue = <<>>, !.closing = TRUE, !.dropped = TRUE]
<1> DEFINE stream == [s.readables[r] EXCEPT !.queue = <<>>, !.closing = TRUE, !.dropped = TRUE]
           u == [s EXCEPT !.readables[r].queue = <<>>, !.readables[r].closing = TRUE,
                          !.readables[r].dropped = TRUE]
<1>1. s.readables[r] \in ReadableStates /\ s.readables \in [Readables -> ReadableStates]
  BY StreamTypes, StateTypes
<1>2. stream \in ReadableStates
  <2>1. <<>> \in Seq(Nat)
    OBVIOUS
  <2>2. QED
    BY <1>1, <2>1 DEF ReadableStates
<1>3. u = [s EXCEPT !.readables[r] = stream]
  <2> DEFINE one == [s.readables[r] EXCEPT !.queue = <<>>]
             two == [one EXCEPT !.closing = TRUE]
             R1 == [s.readables EXCEPT ![r] = one]
             R2 == [R1 EXCEPT ![r] = two]
             R3 == [R2 EXCEPT ![r] = stream]
  <2>1. stream = [two EXCEPT !.dropped = TRUE]
    BY <1>1 DEF ReadableStates
  <2>2. R1[r] = one /\ R2[r] = two
    BY <1>1
  <2>3. u = [s EXCEPT !.readables = [[R1 EXCEPT ![r] = [R1[r] EXCEPT !.closing = TRUE]]
                                     EXCEPT ![r] = [[R1 EXCEPT ![r] = [R1[r] EXCEPT !.closing = TRUE]][r]
                                                    EXCEPT !.dropped = TRUE]]]
    BY <1>1 DEF States
  <2>4. u = [s EXCEPT !.readables = R3]
    BY <2>1, <2>2, <2>3
  <2>5. R3 = [s.readables EXCEPT ![r] = stream]
    <3> HIDE DEF one, two, stream
    <3>1. QED
      BY <1>1
  <2> HIDE DEF R3, u, stream
  <2>6. QED
    BY <2>4, <2>5
<1> HIDE DEF stream
<1>4. OnlyReadable(s, [s EXCEPT !.readables[r] = stream], r)
      /\ [s EXCEPT !.readables[r] = stream].readables[r] = stream
  BY <1>2, ReadableChanges
<1>5. QED
  BY <1>3, <1>4 DEF stream

LEMMA CancelSteady ==
  ASSUME NEW s \in States, NEW run, PipeInv(s, run), NEW r \in Readables
  PROVE  Steady(s, Cancel(s, r), run)
<1> DEFINE u == [s EXCEPT !.readables[r].queue = <<>>, !.readables[r].closing = TRUE,
                          !.readables[r].dropped = TRUE]
<1>1. /\ OnlyReadable(s, u, r)
      /\ u.readables[r] = [s.readables[r] EXCEPT !.queue = <<>>, !.closing = TRUE, !.dropped = TRUE]
  BY DroppedIs
<1>2. Cancel(s, r) = CloseIfDrained(u, r)
  BY DEF Cancel
<1> HIDE DEF u
<1>3. s.readables[r] \in ReadableStates
  BY StreamTypes
<1>4. /\ u.readables[r].pipe = s.readables[r].pipe
      /\ u.readables[r].closing
      /\ u.readables[r].queue = <<>>
  BY <1>1, <1>3 DEF ReadableStates
<1>5. Steady(s, u, run)
  BY <1>1, <1>4, OnlyReadableSteady
<1>6. Steady(u, CloseIfDrained(u, r), run)
  BY <1>5, CloseIfDrainedSteady DEF Steady
<1>7. QED
  BY <1>2, <1>5, <1>6, SteadyTrans

\* The head of the queue is taken.
Took(s, u, r) ==
  /\ OnlyReadable(s, u, r)
  /\ u.readables[r] = [s.readables[r] EXCEPT !.queue = Tail(@),
                                             !.taken = Append(@, Head(s.readables[r].queue))]

LEMMA TakeChunkIs ==
  ASSUME NEW s \in States, NEW r \in Readables, s.readables[r].queue # <<>>
  PROVE  Took(s, TakeChunk(s, r), r)
<1> DEFINE q == s.readables[r].queue
           w == s.readables[r].taken
           stream == [s.readables[r] EXCEPT !.queue = Tail(q), !.taken = Append(w, Head(q))]
           u == TakeChunk(s, r)
<1>1. s.readables[r] \in ReadableStates /\ s.readables \in [Readables -> ReadableStates]
      /\ q \in Seq(Nat) /\ q # <<>> /\ w \in Seq(Nat)
  BY StreamTypes, StateTypes
<1>2. u = [s EXCEPT !.readables[r] = stream]
  <2> DEFINE one == [s.readables[r] EXCEPT !.queue = Tail(q)]
             R1 == [s.readables EXCEPT ![r] = one]
  <2>1. u = [s EXCEPT !.readables = [R1 EXCEPT ![r] = [R1[r] EXCEPT !.taken = Append(@, Head(q))]]]
    BY ZenonT(90), <1>1 DEF States, TakeChunk
  <2>2. R1[r] = one
    BY <1>1
  <2>3. [one EXCEPT !.taken = Append(@, Head(q))] = stream
    BY <1>1 DEF ReadableStates
  <2>4. u = [s EXCEPT !.readables = [R1 EXCEPT ![r] = stream]]
    BY <2>1, <2>2, <2>3
  <2> HIDE DEF one, stream, u
  <2>5. [R1 EXCEPT ![r] = stream] = [s.readables EXCEPT ![r] = stream]
    BY <1>1
  <2>6. QED
    BY <2>4, <2>5
<1>3. stream \in ReadableStates
  <2> HIDE DEF q, w
  <2>1. Tail(q) \in Seq(Nat) /\ Append(w, Head(q)) \in Seq(Nat)
    BY <1>1
  <2>2. QED
    BY <1>1, <2>1 DEF ReadableStates
<1>4. stream = [s.readables[r] EXCEPT !.queue = Tail(@), !.taken = Append(@, Head(s.readables[r].queue))]
  OBVIOUS
<1> HIDE DEF stream, u
<1>5. OnlyReadable(s, [s EXCEPT !.readables[r] = stream], r)
      /\ [s EXCEPT !.readables[r] = stream].readables[r] = stream
  BY <1>3, ReadableChanges
<1>6. QED
  BY <1>2, <1>4, <1>5 DEF Took, u

LEMMA TakeChunkSteady ==
  ASSUME NEW s \in States, NEW run, PipeInv(s, run), NEW r \in Readables, s.readables[r].queue # <<>>
  PROVE  Steady(s, TakeChunk(s, r), run)
<1> DEFINE u == TakeChunk(s, r)
<1>1. Took(s, u, r)
  BY TakeChunkIs
<1> HIDE DEF u
<1>2. s.readables[r] \in ReadableStates /\ s.readables[r].queue # <<>>
  BY StreamTypes
<1>3. /\ u.readables[r].pipe = s.readables[r].pipe
      /\ u.readables[r].closing = s.readables[r].closing
  BY <1>1, <1>2 DEF ReadableStates, Took
<1>4. OnlyReadable(s, u, r)
  BY <1>1 DEF Took
<1>5. Steady(s, u, run)
  BY <1>2, <1>3, <1>4, OnlyReadableSteady
<1>6. QED
  BY <1>5 DEF u

LEMMA ReadSteady ==
  ASSUME NEW s \in States, NEW run, PipeInv(s, run), NEW i \in DOMAIN s.readers, HasRoom(s.table)
  PROVE  Steady(s, Read(s, i), run)
<1> DEFINE r == s.readers[i].stream
           p == NextPromise(s)
           asked == Given(s)
<1>1. r \in Readables
  BY ReaderTypes
<1>2. Created(s, asked)
  BY GivenIs
<1>3. Read(s, i) = IF s.readables[r].queue # <<>> THEN CloseIfDrained(Answer(TakeChunk(asked, r), p, FALSE), r)
                   ELSE IF s.readables[r].status # "readable" THEN Answer(asked, p, s.readables[r].status = "errored")
                   ELSE SchedulePull([asked EXCEPT !.readers[i].pending = Append(@, p)], r)
  BY DEF Read
<1> HIDE DEF asked, p, r
<1>4. /\ Steady(s, asked, run) /\ p \in Promises /\ Claimable(asked, p)
  BY <1>2, CreatedSteady DEF p
<1>5. asked \in States /\ PipeInv(asked, run)
      /\ asked.readables = s.readables /\ asked.readers = s.readers
  BY <1>2, <1>4 DEF Steady, Created, OnlyTable
<1>6. CASE s.readables[r].queue # <<>>
  <2> DEFINE u == TakeChunk(asked, r)
             v == Answer(u, p, FALSE)
  <2>1. Steady(asked, u, run)
    BY <1>1, <1>5, <1>6, TakeChunkSteady
  <2> HIDE DEF u
  <2>2. Steady(u, v, run)
    BY <1>4, <2>1, AnswerSteady DEF Steady
  <2> HIDE DEF v
  <2>3. Steady(v, CloseIfDrained(v, r), run)
    BY <1>1, <2>2, CloseIfDrainedSteady DEF Steady
  <2>4. Steady(s, u, run)
    BY <1>4, <2>1, SteadyTrans
  <2>5. Steady(s, v, run)
    BY <2>2, <2>4, SteadyTrans
  <2>6. Steady(s, CloseIfDrained(v, r), run)
    BY <2>3, <2>5, SteadyTrans
  <2>7. QED
    BY <1>3, <1>6, <2>6 DEF u, v
<1>7. CASE s.readables[r].queue = <<>> /\ s.readables[r].status # "readable"
  <2>1. (s.readables[r].status = "errored") \in BOOLEAN
    OBVIOUS
  <2>2. Steady(asked, Answer(asked, p, s.readables[r].status = "errored"), run)
    BY <1>4, <1>5, <2>1, AnswerSteady
  <2>3. QED
    BY <1>3, <1>4, <1>7, <2>2, SteadyTrans
<1>8. CASE s.readables[r].queue = <<>> /\ s.readables[r].status = "readable"
  <2> DEFINE reader == [asked.readers[i] EXCEPT !.pending = Append(@, p)]
             u == [asked EXCEPT !.readers[i].pending = Append(@, p)]
  <2>1. asked.readers[i] \in ReaderStates /\ asked.readers \in Seq(ReaderStates) /\ i \in DOMAIN asked.readers
        /\ asked.readers[i].pending \in Seq(Promises)
    BY <1>5, ReaderTypes, StateTypes
  <2>2. reader \in ReaderStates
    <3>1. Append(asked.readers[i].pending, p) \in Seq(Promises)
      BY <1>4, <2>1
    <3>2. QED
      BY <2>1, <3>1 DEF ReaderStates
  <2>3. u = [asked EXCEPT !.readers = [asked.readers EXCEPT ![i] = reader]]
    BY <1>5 DEF States
  <2>4. [asked.readers EXCEPT ![i] = reader] \in Seq(ReaderStates)
    <3> HIDE DEF reader
    <3>1. QED
      BY <2>1, <2>2
  <2>5. /\ u \in States /\ u.table = asked.table /\ u.readables = asked.readables
        /\ u.writable = asked.writable /\ u.writers = asked.writers /\ u.sinks = asked.sinks
        /\ u.piped = asked.piped /\ u.pumped = asked.pumped /\ u.written = asked.written
        /\ u.readers = [asked.readers EXCEPT ![i] = reader]
    <3> HIDE DEF reader, u
    <3>1. QED
      BY <1>5, <2>3, <2>4 DEF States
  <2>6. \A q \in Promises : Held(u, q) => Held(asked, q) \/ q = p
    <3> SUFFICES ASSUME NEW q \in Promises, Held(u, q), q # p PROVE Held(asked, q)
      OBVIOUS
    <3>1. u.writers = asked.writers /\ u.sinks = asked.sinks /\ DOMAIN u.readers = DOMAIN asked.readers
          /\ u.readers[i] = reader
          /\ \A j \in DOMAIN asked.readers : j # i => u.readers[j] = asked.readers[j]
      <4> HIDE DEF reader, u
      <4>1. QED
        BY <2>1, <2>5
    <3> HIDE DEF u
    <3>2. ASSUME NEW j \in DOMAIN u.readers,
                 u.readers[j].closed = q \/ \E k \in DOMAIN u.readers[j].pending : u.readers[j].pending[k] = q
          PROVE  Held(asked, q)
      <4>1. CASE j # i
        BY <3>1, <3>2, <4>1 DEF Held
      <4>2. CASE j = i
        <5>1. reader.closed = asked.readers[i].closed /\ reader.pending = Append(asked.readers[i].pending, p)
          BY <2>1 DEF ReaderStates
        <5> DEFINE w == asked.readers[i].pending
        <5>2. w \in Seq(Promises)
          BY <2>1
        <5> HIDE DEF w
        <5>3. \A k \in DOMAIN Append(w, p) : Append(w, p)[k] = p \/ (k \in DOMAIN w /\ Append(w, p)[k] = w[k])
          BY <5>2
        <5>4. CASE u.readers[j].closed = q
          BY <3>1, <4>2, <5>1, <5>4, <2>1 DEF Held
        <5>5. CASE \E k \in DOMAIN u.readers[j].pending : u.readers[j].pending[k] = q
          <6>1. PICK k \in DOMAIN Append(w, p) : Append(w, p)[k] = q
            BY <3>1, <4>2, <5>1, <5>5 DEF w
          <6>2. k \in DOMAIN asked.readers[i].pending /\ asked.readers[i].pending[k] = q
            BY <5>3, <6>1 DEF w
          <6>3. QED
            BY <6>2, <2>1 DEF Held
        <5>6. QED
          BY <3>2, <5>4, <5>5
      <4>3. QED
        BY <4>1, <4>2
    <3>3. QED
      BY <3>1, <3>2 DEF Held
  <2> HIDE DEF u
  <2>7. Undisturbed(asked, run, u, run)
    <3>1. \A q \in Promises : Held(u, q) \/ Runs(run, q) =>
            Held(asked, q) \/ Runs(run, q) \/ Claimable(asked, q)
      BY <1>4, <2>6
    <3>2. QED
      BY <2>5, <3>1 DEF Undisturbed, Unheld
  <2>8. Tame(asked, u.table)
    BY <1>5, <2>5, TameSame
  <2>9. Steady(asked, u, run)
    BY <1>5, <2>5, <2>7, <2>8, TamePipe
  <2>10. Steady(u, SchedulePull(u, r), run)
    BY <1>1, <2>9, SchedulePullSteady DEF Steady
  <2>11. Steady(s, u, run)
    BY <1>4, <2>9, SteadyTrans
  <2>12. Steady(s, SchedulePull(u, r), run)
    BY <2>10, <2>11, SteadyTrans
  <2>13. QED
    BY <1>3, <1>8, <2>12 DEF u
<1>9. QED
  BY <1>6, <1>7, <1>8

LEMMA NewReaderSteady ==
  ASSUME NEW s \in States, NEW run, PipeInv(s, run), NEW r \in Readables, HasRoom(s.table)
  PROVE  Steady(s, NewReader(s, r), run)
<1> DEFINE p == NextPromise(s)
           reader == [stream |-> r, closed |-> p, pending |-> <<>>]
           asked == Given(s)
           added == [asked EXCEPT !.readers = Append(@, reader), !.readables[r].locked = TRUE]
           stream == [s.readables[r] EXCEPT !.locked = TRUE]
<1>1. NewReader(s, r) = IF s.readables[r].status = "closed" THEN Answer(added, p, FALSE) ELSE added
  BY DEF NewReader
<1>2. Created(s, asked)
  BY GivenIs
<1> HIDE DEF asked, p
<1>3. /\ Steady(s, asked, run) /\ p \in Promises /\ Claimable(asked, p)
  BY <1>2, CreatedSteady DEF p
<1>4. asked \in States /\ PipeInv(asked, run)
      /\ asked.readables = s.readables /\ asked.readers = s.readers
  BY <1>2, <1>3 DEF Steady, Created, OnlyTable
<1>5. reader \in ReaderStates
  <2>1. <<>> \in Seq(Promises)
    OBVIOUS
  <2>2. QED
    BY <1>3, <2>1 DEF ReaderStates
<1>6. asked.readers \in Seq(ReaderStates) /\ s.readables \in [Readables -> ReadableStates]
      /\ s.readables[r] \in ReadableStates
  BY <1>4, StateTypes, StreamTypes
<1>7. stream \in ReadableStates /\ stream.pipe = s.readables[r].pipe
      /\ stream.closing = s.readables[r].closing /\ stream.queue = s.readables[r].queue
  BY <1>6 DEF ReadableStates
<1>8. added = [asked EXCEPT !.readers = Append(asked.readers, reader),
                            !.readables = [s.readables EXCEPT ![r] = stream]]
  BY <1>4, <1>6 DEF States
<1> DEFINE R == Append(asked.readers, reader)
<1>9. R \in Seq(ReaderStates)
      /\ \A j \in DOMAIN R : R[j] = reader \/ (j \in DOMAIN asked.readers /\ R[j] = asked.readers[j])
  <2> HIDE DEF reader
  <2>1. QED
    BY <1>5, <1>6
<1>10. [s.readables EXCEPT ![r] = stream] \in [Readables -> ReadableStates]
  <2> HIDE DEF stream
  <2>1. QED
    BY <1>6, <1>7
<1> HIDE DEF stream, R, added
<1>11. /\ added \in States /\ added.table = asked.table
       /\ added.readables = [s.readables EXCEPT ![r] = stream]
       /\ added.writable = asked.writable /\ added.writers = asked.writers /\ added.sinks = asked.sinks
       /\ added.piped = asked.piped /\ added.pumped = asked.pumped /\ added.written = asked.written
       /\ added.readers = R
  BY <1>4, <1>8, <1>9, <1>10 DEF States, R
<1>12. \A q \in Promises : Held(added, q) => Held(asked, q) \/ q = p
  <2>1. reader.closed = p /\ reader.pending = <<>>
    OBVIOUS
  <2> HIDE DEF reader
  <2>2. \A q \in Promises : q # p => ~(\E k \in DOMAIN reader.pending : reader.pending[k] = q) /\ reader.closed # q
    BY <2>1
  <2>3. QED
    BY <1>9, <1>11, <2>2 DEF Held
<1>13. /\ \A q \in Readables : added.readables[q].pipe = asked.readables[q].pipe
                             /\ added.readables[q].closing = asked.readables[q].closing
                             /\ added.readables[q].queue = asked.readables[q].queue
  BY <1>4, <1>6, <1>7, <1>11
<1>14. Undisturbed(asked, run, added, run)
  <2>1. \A q \in Promises : Held(added, q) \/ Runs(run, q) =>
          Held(asked, q) \/ Runs(run, q) \/ Claimable(asked, q)
    BY <1>3, <1>12
  <2>2. "source" \in Readables /\ "output" \in Readables
    BY DEF Readables
  <2>3. QED
    BY <1>11, <1>13, <2>1, <2>2 DEF Undisturbed, Unheld
<1>15. Tame(asked, added.table)
  BY <1>4, <1>11, TameSame
<1>16. Steady(asked, added, run)
  BY <1>4, <1>11, <1>14, <1>15, TamePipe
<1>17. Steady(added, Answer(added, p, FALSE), run)
  BY <1>3, <1>16, AnswerSteady DEF Steady
<1>18. Steady(s, added, run)
  BY <1>3, <1>16, SteadyTrans
<1>19. Steady(s, Answer(added, p, FALSE), run)
  BY <1>17, <1>18, SteadyTrans
<1>20. QED
  BY <1>1, <1>18, <1>19

-----------------------------------------------------------------------------
(* The writable side. *)

\* u differs from s in the state of the writable.
OnlyWritable(s, u) ==
  /\ u \in States /\ u.table = s.table /\ u.readables = s.readables /\ u.readers = s.readers
  /\ u.writers = s.writers /\ u.sinks = s.sinks
  /\ u.piped = s.piped /\ u.pumped = s.pumped /\ u.written = s.written

LEMMA WritableChanges ==
  ASSUME NEW s \in States, NEW w \in WritableStates
  PROVE  OnlyWritable(s, [s EXCEPT !.writable = w]) /\ [s EXCEPT !.writable = w].writable = w
BY DEF States, OnlyWritable

LEMMA WritableTypes ==
  ASSUME NEW s \in States
  PROVE  /\ s.writable.status \in {"writable", "closing", "closed", "errored"}
         /\ s.writable.locked \in BOOLEAN /\ s.writable.source \in Readables \cup {Nothing}
         /\ s.writable \in WritableStates
BY StateTypes DEF WritableStates

LEMMA OnlyWritableSteady ==
  ASSUME NEW s \in States, NEW run, PipeInv(s, run), NEW u, OnlyWritable(s, u),
         u.writable.source \in {s.writable.source, Nothing}
  PROVE  Steady(s, u, run)
<1>1. u \in States /\ u.table = s.table
  BY DEF OnlyWritable
<1>2. \A q \in Promises : Held(u, q) <=> Held(s, q)
  BY DEF OnlyWritable, Held
<1>3. Undisturbed(s, run, u, run)
  BY <1>2 DEF OnlyWritable, Undisturbed, Unheld
<1>4. Tame(s, u.table)
  BY <1>1, TameSame
<1>5. QED
  BY <1>1, <1>3, <1>4, TamePipe

LEMMA AcceptSteady ==
  ASSUME NEW s \in States, NEW run, PipeInv(s, run), NEW p \in Promises, Claimable(s, p),
         NEW job \in Tasks \cup ReactionJobs, ~IsWrite(job), ~IsToken(job),
         \A q \in Promises : JobAims(job, q) => q = p
  PROVE  Steady(s, Accept(s, p, job), run) /\ OnlyTable(s, Accept(s, p, job))
<1>1. Steady(s, Schedule(s, job), run) /\ OnlyTable(s, Schedule(s, job))
  BY ScheduleSteady, ScheduleIs
<1>2. Steady(s, Answer(s, p, TRUE), run) /\ OnlyTable(s, Answer(s, p, TRUE))
  BY AnswerSteady, AnswerIs
<1>3. QED
  BY <1>1, <1>2 DEF Accept

LEMMA StartWriteSteady ==
  ASSUME NEW s \in States, NEW run, PipeInv(s, run), NEW p \in Promises, Claimable(s, p)
  PROVE  Steady(s, StartWrite(s, p, <<>>), run)
<1> DEFINE job == [kind |-> "write", promise |-> p, chunk |-> <<>>]
<1>1. job \in Tasks \cup ReactionJobs
  <2>1. <<>> \in Seq(Nat)
    OBVIOUS
  <2>2. QED
    BY <2>1, JobTypes
<1>2. ~IsWrite(job) /\ ~IsToken(job) /\ \A q \in Promises : JobAims(job, q) => q = p
  BY DEF IsWrite, IsToken, JobAims
<1>3. StartWrite(s, p, <<>>) = Accept(s, p, job)
  BY DEF StartWrite
<1> HIDE DEF job
<1>4. QED
  BY <1>1, <1>2, <1>3, AcceptSteady

LEMMA StartCloseSteady ==
  ASSUME NEW s \in States, NEW run, PipeInv(s, run), NEW p \in Promises, Claimable(s, p)
  PROVE  Steady(s, StartClose(s, p), run)
<1> DEFINE job == [kind |-> "closeWritable", promise |-> p]
           asked == Accept(s, p, job)
           u == [asked EXCEPT !.writable.status = "closing"]
           w == [asked.writable EXCEPT !.status = "closing"]
<1>1. job \in Tasks \cup ReactionJobs
  BY JobTypes
<1>2. ~IsWrite(job) /\ ~IsToken(job) /\ \A q \in Promises : JobAims(job, q) => q = p
  BY DEF IsWrite, IsToken, JobAims
<1>3. StartClose(s, p) = IF s.writable.status = "writable" THEN u ELSE asked
  BY DEF StartClose
<1> HIDE DEF job
<1>4. Steady(s, asked, run)
  BY <1>1, <1>2, AcceptSteady
<1> HIDE DEF asked
<1>5. asked \in States /\ PipeInv(asked, run)
  BY <1>4 DEF Steady
<1>6. asked.writable \in WritableStates
  BY <1>5, WritableTypes
<1>7. w \in WritableStates /\ w.source = asked.writable.source
  BY <1>6 DEF WritableStates
<1>8. u = [asked EXCEPT !.writable = w]
  BY <1>5 DEF States
<1> HIDE DEF w, u
<1>9. OnlyWritable(asked, u) /\ u.writable = w
  BY <1>5, <1>7, <1>8, WritableChanges
<1>10. Steady(asked, u, run)
  BY <1>5, <1>7, <1>9, OnlyWritableSteady
<1>11. Steady(s, u, run)
  BY <1>4, <1>10, SteadyTrans
<1>12. QED
  BY <1>3, <1>4, <1>11

\* The closed promises of the writers are held.
LEMMA WritersClaimable ==
  ASSUME NEW s \in States, NEW run, PipeInv(s, run)
  PROVE  s.writers \in Seq(Promises) /\ \A i \in DOMAIN s.writers : Claimable(s, s.writers[i])
<1>1. s.writers \in Seq(Promises)
  BY StateTypes
<1>2. \A i \in DOMAIN s.writers : s.writers[i] \in Promises /\ Held(s, s.writers[i])
  BY <1>1 DEF Held
<1>3. QED
  BY <1>1, <1>2, ClaimedClaimable

LEMMA ErrorWritableSteady ==
  ASSUME NEW s \in States, NEW run, PipeInv(s, run)
  PROVE  /\ Steady(s, ErrorWritable(s), run)
         /\ ErrorWritable(s).readables = s.readables /\ ErrorWritable(s).readers = s.readers
         /\ ErrorWritable(s).writable.source = s.writable.source
         /\ ErrorWritable(s).pumped = s.pumped
         /\ \E X : ErrorWritable(s).table \in After(s.table, X)
<1> DEFINE w == [s.writable EXCEPT !.status = "errored", !.locked = FALSE]
           u == [s EXCEPT !.writable.status = "errored", !.writable.locked = FALSE]
           v == AnswerAll(u, u.writers, TRUE)
           X == {p \in Promises : \E i \in DOMAIN u.writers : u.writers[i] = p}
<1>1. s.writable \in WritableStates
  BY WritableTypes
<1>2. w \in WritableStates /\ w.source = s.writable.source
  BY <1>1 DEF WritableStates
<1>3. u = [s EXCEPT !.writable = w]
  BY <1>1 DEF States, WritableStates
<1> HIDE DEF w
<1>4. OnlyWritable(s, u) /\ u.writable = w
  BY <1>2, <1>3, WritableChanges
<1>5. u.writers = s.writers
  BY <1>4 DEF OnlyWritable
<1>6. ErrorWritable(s) = v
  BY <1>5 DEF ErrorWritable
<1> HIDE DEF u
<1>7. Steady(s, u, run)
  BY <1>2, <1>4, OnlyWritableSteady
<1>8. u \in States /\ PipeInv(u, run)
  BY <1>7 DEF Steady
<1>9. u.writers \in Seq(Promises) /\ \A i \in DOMAIN u.writers : Claimable(u, u.writers[i])
  BY <1>8, WritersClaimable
<1>10. OnlyTable(u, v) /\ v.table \in After(u.table, X)
  BY <1>8, <1>9, AnswerAllIs
<1>11. Steady(u, v, run)
  BY <1>8, <1>9, AnswerAllSteady
<1> HIDE DEF v, X
<1>12. Steady(s, v, run)
  BY <1>7, <1>11, SteadyTrans
<1>13. v.readables = s.readables /\ v.readers = s.readers /\ v.writable.source = s.writable.source
       /\ v.pumped = s.pumped
  BY <1>2, <1>4, <1>10 DEF OnlyTable, OnlyWritable
<1>14. v.table \in After(s.table, X)
  BY <1>4, <1>10 DEF OnlyWritable
<1>15. QED
  BY <1>6, <1>12, <1>13, <1>14

LEMMA NewWriterSteady ==
  ASSUME NEW s \in States, NEW run, PipeInv(s, run), HasRoom(s.table)
  PROVE  /\ Steady(s, NewWriter(s), run)
         /\ \E g : Created(s, g) /\ NewWriter(s).table = g.table
         /\ NewWriter(s).readables = s.readables /\ NewWriter(s).readers = s.readers
         /\ NewWriter(s).pumped = s.pumped
<1> DEFINE p == NextPromise(s)
           asked == Given(s)
           w == [asked.writable EXCEPT !.locked = TRUE]
           u == [asked EXCEPT !.writers = Append(@, p), !.writable.locked = TRUE]
<1>1. NewWriter(s) = u
  BY DEF NewWriter
<1>2. Created(s, asked)
  BY GivenIs
<1> HIDE DEF asked, p
<1>3. /\ Steady(s, asked, run) /\ p \in Promises /\ Claimable(asked, p)
  BY <1>2, CreatedSteady DEF p
<1>4. asked \in States /\ PipeInv(asked, run)
      /\ asked.readables = s.readables /\ asked.readers = s.readers /\ asked.pumped = s.pumped
  BY <1>2, <1>3 DEF Steady, Created, OnlyTable
<1>5. asked.writable \in WritableStates
  BY <1>4, WritableTypes
<1>6. w \in WritableStates /\ w.source = asked.writable.source
  BY <1>5 DEF WritableStates
<1>7. u = [asked EXCEPT !.writers = Append(asked.writers, p), !.writable = w]
  BY <1>4 DEF States
<1> DEFINE W == Append(asked.writers, p)
<1>8. asked.writers \in Seq(Promises)
  BY <1>4, StateTypes
<1>9. W \in Seq(Promises) /\ \A j \in DOMAIN W : W[j] = p \/ (j \in DOMAIN asked.writers /\ W[j] = asked.writers[j])
  BY <1>3, <1>8
<1> HIDE DEF W, w, u
<1>10. /\ u \in States /\ u.table = asked.table /\ u.readables = asked.readables /\ u.readers = asked.readers
       /\ u.writable = w /\ u.writers = W /\ u.sinks = asked.sinks
       /\ u.piped = asked.piped /\ u.pumped = asked.pumped /\ u.written = asked.written
  BY <1>4, <1>6, <1>7, <1>9 DEF States, W
<1>11. \A q \in Promises : Held(u, q) => Held(asked, q) \/ q = p
  BY <1>9, <1>10 DEF Held
<1>12. \A q \in Promises : Held(u, q) \/ Runs(run, q) =>
          Held(asked, q) \/ Runs(run, q) \/ Claimable(asked, q)
  BY <1>3, <1>11
<1>13. Undisturbed(asked, run, u, run)
  BY <1>6, <1>10, <1>12 DEF Undisturbed, Unheld
<1>14. Tame(asked, u.table)
  BY <1>4, <1>10, TameSame
<1>15. Steady(asked, u, run)
  BY <1>4, <1>10, <1>13, <1>14, TamePipe
<1>16. Steady(s, u, run)
  BY <1>3, <1>15, SteadyTrans
<1>17. QED
  BY <1>1, <1>2, <1>4, <1>10, <1>16

-----------------------------------------------------------------------------
(* The pipe. *)

LEMMA PipeTypes ==
  /\ Nothing \notin Promises /\ Nothing \notin Readables /\ Nothing \notin Pipes
  /\ \A pipe \in Pipes : /\ pipe.promise \in Promises /\ pipe.writing \in BOOLEAN
                         /\ pipe.closing \in BOOLEAN
BY StreamsAssumption DEF Pipes

\* u is s with a pipe that waits for its first chunk.
Opened(s, u, p) ==
  /\ u \in States /\ u.table = s.table /\ u.readers = s.readers
  /\ u.writable = s.writable /\ u.writers = s.writers /\ u.sinks = s.sinks
  /\ u.piped = p /\ u.pumped = s.pumped /\ u.written = s.written
  /\ u.readables = [s.readables EXCEPT !["source"] = u.readables["source"]]
  /\ u.readables["source"] =
       [s.readables["source"] EXCEPT !.locked = TRUE,
          !.pipe = [promise |-> p, writing |-> FALSE, closing |-> FALSE]]

LEMMA OpenedIs ==
  ASSUME NEW s \in States, NEW p \in Promises
  PROVE  LET u == [s EXCEPT !.readables["source"].locked = TRUE,
                            !.readables["source"].pipe =
                              [promise |-> p, writing |-> FALSE, closing |-> FALSE],
                            !.piped = p] IN
         Opened(s, u, p)
<1> DEFINE pipe == [promise |-> p, writing |-> FALSE, closing |-> FALSE]
           stream == [s.readables["source"] EXCEPT !.locked = TRUE, !.pipe = pipe]
           f == [s.readables EXCEPT !["source"] = stream]
           u == [s EXCEPT !.readables["source"].locked = TRUE,
                          !.readables["source"].pipe = pipe, !.piped = p]
<1>1. "source" \in Readables /\ s.readables \in [Readables -> ReadableStates]
  BY StateTypes DEF Readables
<1>2. pipe \in Pipes
  BY DEF Pipes
<1> HIDE DEF pipe
<1>3. stream \in ReadableStates
  BY <1>1, <1>2 DEF ReadableStates
<1>4. u = [s EXCEPT !.readables = f, !.piped = p]
  BY <1>1 DEF States, ReadableStates
<1>41. stream = [s.readables["source"] EXCEPT !.locked = TRUE, !.pipe = pipe]
  OBVIOUS
<1> HIDE DEF u, stream
<1>5. f \in [Readables -> ReadableStates] /\ f["source"] = stream
  BY <1>1, <1>3
<1>51. f = [s.readables EXCEPT !["source"] = stream]
  OBVIOUS
<1> HIDE DEF f
<1>6. /\ u \in States /\ u.readables = f
      /\ u.table = s.table /\ u.readers = s.readers
      /\ u.writable = s.writable /\ u.writers = s.writers /\ u.sinks = s.sinks
      /\ u.piped = p /\ u.pumped = s.pumped /\ u.written = s.written
  BY <1>4, <1>5 DEF States
<1>7. QED
  BY <1>41, <1>5, <1>51, <1>6 DEF u, pipe, Opened

LEMMA OpenedSteady ==
  ASSUME NEW s \in States, NEW run, PipeInv(s, run), NEW p \in Promises, s.piped = Nothing,
         Unclaimed(s, run, p), ~WaitsFor(s.table, p), Is(s.table, p, "pending"),
         NEW u, Opened(s, u, p)
  PROVE  u \in States /\ PipeInv(u, run)
<1>1. /\ u \in States /\ u.table = s.table /\ u.readers = s.readers
      /\ u.writable = s.writable /\ u.writers = s.writers /\ u.sinks = s.sinks
      /\ u.piped = p /\ u.pumped = s.pumped /\ u.written = s.written
  BY DEF Opened
<1>2. Names(s, run) /\ Flight(s) /\ PipeStands(s)
  BY DEF PipeInv
<1>3. \A q \in Promises : Unclaimed(s, run, q) => Unclaimed(u, run, q)
  BY <1>1 DEF Unclaimed, Held
<1>4. ~Awaits(s.table, p)
  BY <1>2 DEF Names
<1>5. Names(u, run)
  <2>1. \A q \in Promises : Is(u.table, q, "absent") \/ q = u.piped \/ Awaits(u.table, q) =>
          Unclaimed(u, run, q)
    BY <1>1, <1>2, <1>3 DEF Names
  <2>2. Exists(u.table, u.piped) /\ ~Awaits(u.table, u.piped)
    BY <1>1, <1>4 DEF Exists, Is
  <2>3. \A q \in Promises : Awaits(u.table, q) => WaitsFor(u.table, q)
    BY <1>1, <1>2 DEF Names
  <2>4. QED
    BY <2>1, <2>2, <2>3 DEF Names
<1>6. Flight(u)
  BY <1>1, <1>2 DEF Flight
<1>7. PipeStands(u)
  <2> DEFINE pipe == u.readables["source"].pipe
             stream == s.readables["source"]
  <2>0. stream \in ReadableStates /\ "source" \in Readables /\ "output" \in Readables
        /\ s.readables \in [Readables -> ReadableStates]
    BY StateTypes DEF Readables
  <2>1. pipe = [promise |-> p, writing |-> FALSE, closing |-> FALSE]
    <3> DEFINE x == [promise |-> p, writing |-> FALSE, closing |-> FALSE]
    <3>1. u.readables["source"] = [stream EXCEPT !.locked = TRUE, !.pipe = x]
      BY DEF Opened
    <3> HIDE DEF x, stream
    <3>2. pipe = x
      BY <2>0, <3>1 DEF ReadableStates
    <3>3. QED
      BY <3>2 DEF x
  <2>2. u.readables["output"].pipe = Nothing
    <3>1. u.readables["output"] = s.readables["output"]
      BY <2>0 DEF Opened
    <3>2. QED
      BY <3>1, <1>2 DEF PipeStands
  <2> HIDE DEF pipe, stream
  <2>3. pipe # Nothing /\ pipe.promise = u.piped /\ ~pipe.writing /\ ~pipe.closing
    <3>1. [promise |-> p, writing |-> FALSE, closing |-> FALSE] \in Pipes
      BY DEF Pipes
    <3>2. QED
      BY <2>1, <3>1, <1>1, PipeTypes
  <2>4. Idle(u) /\ u.writable.source # "source"
    BY <1>1, <1>2 DEF PipeStands, Idle
  <2>5. u.piped # Nothing /\ ~Is(u.table, u.piped, "fulfilled")
    BY <1>1, PipeTypes DEF Is
  <2>6. QED
    BY <2>2, <2>3, <2>4, <2>5 DEF PipeStands, pipe
<1>8. QED
  BY <1>1, <1>5, <1>6, <1>7 DEF PipeInv

LEMMA StartPipeSteady ==
  ASSUME NEW s \in States, NEW run, PipeInv(s, run), s.piped = Nothing, HasRoom(s.table)
  PROVE  LET u == StartPipe(s, "source") IN u \in States /\ PipeInv(u, run)
<1> DEFINE p == NextPromise(s)
           g == Given(s)
           u == [g EXCEPT !.readables["source"].locked = TRUE,
                          !.readables["source"].pipe =
                            [promise |-> p, writing |-> FALSE, closing |-> FALSE],
                          !.piped = p]
<1>1. Created(s, g)
  BY GivenIs
<1>2. StartPipe(s, "source") = WakePipe(u, "source")
  BY DEF StartPipe
<1>p. p = NextPromise(s)
  OBVIOUS
<1> HIDE DEF g, p
<1>3. /\ Steady(s, g, run) /\ p \in Promises /\ Unclaimed(g, run, p) /\ ~WaitsFor(g.table, p)
      /\ Is(g.table, p, "pending")
  BY <1>1, <1>p, CreatedSteady
<1>4. g \in States /\ PipeInv(g, run)
  BY <1>3 DEF Steady
<1>5. g.piped = Nothing
  BY <1>1 DEF Created, OnlyTable
<1>6. Opened(g, u, p)
  BY <1>3, <1>4, OpenedIs
<1> HIDE DEF u
<1>7. u \in States /\ PipeInv(u, run)
  BY <1>3, <1>4, <1>5, <1>6, OpenedSteady
<1>8. Steady(u, WakePipe(u, "source"), run)
  BY <1>7, WakePipeSteady DEF Readables
<1>9. QED
  BY <1>2, <1>8 DEF Steady

\* u is s with another pipe at the source.
Piped(s, u, pipe) ==
  /\ OnlyReadable(s, u, "source")
  /\ u.readables["source"] = [s.readables["source"] EXCEPT !.pipe = pipe]
  /\ u.readables["source"].pipe = pipe
  /\ u.readables["source"].closing = s.readables["source"].closing
  /\ u.readables["source"].queue = s.readables["source"].queue
  /\ u.readables["output"] = s.readables["output"]

LEMMA PipedIs ==
  ASSUME NEW s \in States, NEW pipe \in Pipes \cup {Nothing}
  PROVE  Piped(s, [s EXCEPT !.readables["source"].pipe = pipe], pipe)
<1> DEFINE stream == [s.readables["source"] EXCEPT !.pipe = pipe]
           u == [s EXCEPT !.readables["source"].pipe = pipe]
<1>1. "source" \in Readables /\ s.readables \in [Readables -> ReadableStates]
  BY StateTypes DEF Readables
<1>2. stream \in ReadableStates /\ stream.pipe = pipe
      /\ stream.closing = s.readables["source"].closing
      /\ stream.queue = s.readables["source"].queue
  BY <1>1 DEF ReadableStates
<1>3. u = [s EXCEPT !.readables["source"] = stream]
  BY <1>1 DEF States
<1>31. stream = [s.readables["source"] EXCEPT !.pipe = pipe]
  OBVIOUS
<1> HIDE DEF u, stream
<1>4. OnlyReadable(s, u, "source") /\ u.readables["source"] = stream
  BY <1>1, <1>2, <1>3, ReadableChanges
<1>5. u.readables["output"] = s.readables["output"]
  <2>1. u.readables = [s.readables EXCEPT !["source"] = u.readables["source"]]
    BY <1>4 DEF OnlyReadable
  <2>2. QED
    BY <1>1, <2>1 DEF Readables
<1>6. QED
  BY <1>2, <1>31, <1>4, <1>5 DEF Piped, u

\* The pipe is put aside and its promise settled.
LEMMA EndPipeSteady ==
  ASSUME NEW s \in States, NEW run, Names(s, run), Flight(s),
         NoToken(s.table), NoWrite(s.table),
         s.readables["output"].pipe = Nothing, s.readables["source"].pipe # Nothing,
         s.readables["source"].pipe.promise = s.piped, ~Is(s.table, s.piped, "fulfilled"),
         NEW rejected \in BOOLEAN,
         ~rejected => /\ s.written = s.pumped
                      /\ s.readables["source"].closing /\ s.readables["source"].queue = <<>>
  PROVE  Steady(s, EndPipe(s, "source", rejected), run)
<1> DEFINE a == Answer(s, s.piped, rejected)
           u == [a EXCEPT !.readables["source"].pipe = Nothing]
<1>1. s.piped \in Promises /\ s.piped # Nothing
  <2>1. s.readables["source"].pipe \in Pipes
    BY StreamTypes DEF Readables
  <2>2. QED
    BY <2>1, PipeTypes
<1>2. EndPipe(s, "source", rejected) = u
  BY DEF EndPipe
<1>3. /\ OnlyTable(s, a) /\ a.table \in After(s.table, {s.piped})
      /\ a.table = Settle(s.table, s.piped, rejected)
  BY <1>1, AnswerIs
<1> HIDE DEF a
<1>4. a \in States
  BY <1>3 DEF OnlyTable
<1>5. Piped(a, u, Nothing)
  BY <1>4, PipedIs
<1> HIDE DEF u
<1>6. /\ u \in States /\ u.table = a.table /\ u.readers = s.readers
      /\ u.writable = s.writable /\ u.writers = s.writers /\ u.sinks = s.sinks
      /\ u.piped = s.piped /\ u.pumped = s.pumped /\ u.written = s.written
      /\ u.readables["source"].pipe = Nothing
      /\ u.readables["source"].closing = s.readables["source"].closing
      /\ u.readables["source"].queue = s.readables["source"].queue
      /\ u.readables["output"].pipe = Nothing
  BY <1>3, <1>5 DEF Piped, OnlyReadable, OnlyTable
<1>7. Calm(s, u.table)
  <2>1. \A q \in {s.piped} \cap Promises : ~Awaits(s.table, q)
    BY <1>1 DEF Names
  <2>2. u.table \in After(s.table, {s.piped})
    BY <1>3, <1>6
  <2>3. QED
    BY <2>1, <2>2, CalmAfter
<1>8. Unheld(s, run, u, run)
  BY <1>6 DEF Unheld, Held
<1>9. /\ Names(u, run) /\ Flight(u)
      /\ NoWrite(u.table) /\ NoToken(u.table)
      /\ \A q \in Promises : Claimable(s, q) => Claimable(u, q)
  BY <1>6, <1>7, <1>8, CalmPipe
<1>10. rejected => ~Is(u.table, u.piped, "fulfilled")
  <2> SUFFICES ASSUME rejected PROVE ~Is(u.table, u.piped, "fulfilled")
    OBVIOUS
  <2>1. CASE Is(s.table, s.piped, "pending")
    <3>1. Settled(s.table, a.table, s.piped, rejected)
      BY <1>1, <1>3, <2>1, SettleIs, StateTypes
    <3>2. a.table.state = [s.table.state EXCEPT ![s.piped] = "rejected"]
      BY <3>1 DEF Settled
    <3>3. s.table.state \in [Promises -> PromiseStates]
      BY StateTypes, TableTypes
    <3>4. a.table.state[s.piped] = "rejected"
      BY <1>1, <3>2, <3>3
    <3>5. QED
      BY <1>6, <3>4 DEF Is
  <2>2. CASE ~Is(s.table, s.piped, "pending")
    <3>1. a.table = s.table
      BY <1>3, <2>2 DEF Settle
    <3>2. QED
      BY <3>1, <1>6
  <2>3. QED
    BY <2>1, <2>2
<1>11. PipeStands(u)
  BY <1>1, <1>6, <1>9, <1>10 DEF PipeStands
<1>12. QED
  BY <1>2, <1>6, <1>9, <1>11 DEF Steady, PipeInv

\* A write of a chunk has a promise, for which the pipe waits.
LEMMA NoTokenNoWrite ==
  ASSUME NEW s \in States, NEW run, Names(s, run), NoToken(s.table)
  PROVE  NoWrite(s.table)
<1> SUFFICES ASSUME NEW i \in DOMAIN s.table.microtasks, IsWrite(s.table.microtasks[i])
             PROVE  FALSE
  BY DEF NoWrite
<1>1. s.table.microtasks[i] \in Tasks \cup ReactionJobs
  BY StateTypes, TableTypes
<1>2. s.table.microtasks[i].promise \in Promises
  BY <1>1, JobTypes DEF IsWrite
<1>3. Awaits(s.table, s.table.microtasks[i].promise)
  BY <1>2 DEF Awaits
<1>4. QED
  BY <1>2, <1>3 DEF Names, NoToken

LEMMA FinishPipeWriteSteady ==
  ASSUME NEW s \in States, NEW run, PipeInv(s, run), NEW r \in Readables \cup {Nothing},
         NEW rejected \in BOOLEAN,
         r = "source" /\ s.readables["source"].pipe # Nothing =>
           NoToken(s.table) /\ (~rejected => s.written = s.pumped)
  PROVE  Steady(s, FinishPipeWrite(s, r, rejected), run)
<1>1. Names(s, run) /\ Flight(s) /\ PipeStands(s)
  BY DEF PipeInv
<1>2. CASE r = Nothing \/ (r # Nothing /\ s.readables[r].pipe = Nothing)
  BY <1>2, SteadySame DEF FinishPipeWrite
<1>3. CASE r # Nothing /\ s.readables[r].pipe # Nothing
  <2>1. r = "source"
    BY <1>1, <1>3 DEF Readables, PipeStands
  <2> DEFINE pipe == s.readables["source"].pipe
             idle == [pipe EXCEPT !.writing = FALSE]
             u == [s EXCEPT !.readables["source"].pipe.writing = FALSE]
  <2>2. pipe \in Pipes /\ "source" \in Readables /\ s.readables \in [Readables -> ReadableStates]
    BY <1>3, <2>1, StreamTypes, StateTypes DEF Readables
  <2>3. FinishPipeWrite(s, r, rejected) =
          IF rejected \/ pipe.closing THEN EndPipe(u, "source", rejected)
          ELSE Schedule(u, [kind |-> "pump", stream |-> "source"])
    BY <1>3, <2>1 DEF FinishPipeWrite
  <2>4. idle \in Pipes /\ idle.promise = pipe.promise /\ idle.closing = pipe.closing /\ ~idle.writing
    <3> HIDE DEF pipe
    <3>1. QED
      BY <2>2 DEF Pipes
  <2>5. u = [s EXCEPT !.readables["source"].pipe = idle]
    BY <2>2 DEF States, ReadableStates
  <2>5a. idle # Nothing /\ pipe # Nothing
    BY <2>2, <2>4, PipeTypes
  <2> HIDE DEF u, idle
  <2>6. Piped(s, u, idle)
    BY <2>4, <2>5, PipedIs
  <2>7. /\ u \in States /\ u.table = s.table /\ u.readers = s.readers
        /\ u.writable = s.writable /\ u.writers = s.writers /\ u.sinks = s.sinks
        /\ u.piped = s.piped /\ u.pumped = s.pumped /\ u.written = s.written
        /\ u.readables["source"].pipe = idle
        /\ u.readables["source"].closing = s.readables["source"].closing
        /\ u.readables["source"].queue = s.readables["source"].queue
        /\ u.readables["output"].pipe = Nothing
    BY <1>1, <2>6 DEF Piped, OnlyReadable, PipeStands
  <2>8. NoToken(s.table) /\ (~rejected => s.written = s.pumped) /\ NoWrite(s.table)
    BY <1>1, <1>3, <2>1, NoTokenNoWrite
  <2>9. /\ pipe.promise = s.piped
        /\ pipe.closing => s.readables["source"].closing /\ s.readables["source"].queue = <<>>
        /\ s.piped # Nothing /\ ~Is(s.table, s.piped, "fulfilled")
        /\ s.writable.source = "source" => pipe.closing
    BY <1>1, <2>5a DEF PipeStands
  <2> HIDE DEF pipe
  <2>10. Names(u, run) /\ Flight(u) /\ \A q \in Promises : Claimable(s, q) => Claimable(u, q)
    <3>1. \A q \in Promises : Unclaimed(s, run, q) => Unclaimed(u, run, q)
      BY <2>7 DEF Unclaimed, Held
    <3>2. Names(u, run)
      BY <1>1, <2>7, <3>1 DEF Names
    <3>3. Flight(u)
      BY <1>1, <2>7 DEF Flight
    <3>4. QED
      BY <2>7, <3>2, <3>3 DEF Claimable
  <2>11. CASE rejected \/ pipe.closing
    <3>1. Steady(u, EndPipe(u, "source", rejected), run)
      <4>1. ~rejected => /\ u.written = u.pumped
                         /\ u.readables["source"].closing /\ u.readables["source"].queue = <<>>
        BY <2>7, <2>8, <2>9, <2>11
      <4>2. NoToken(u.table) /\ NoWrite(u.table) /\ ~Is(u.table, u.piped, "fulfilled")
        BY <2>7, <2>8, <2>9
      <4>3. /\ u.readables["output"].pipe = Nothing /\ u.readables["source"].pipe # Nothing
            /\ u.readables["source"].pipe.promise = u.piped
        BY <2>4, <2>5a, <2>7, <2>9
      <4>4. QED
        BY <2>7, <2>10, <4>1, <4>2, <4>3, EndPipeSteady
    <3>2. FinishPipeWrite(s, r, rejected) = EndPipe(u, "source", rejected)
      BY <2>3, <2>11
    <3>3. QED
      BY <2>10, <3>1, <3>2 DEF Steady
  <2>12. CASE ~(rejected \/ pipe.closing)
    <3>1. PipeStands(u)
      BY <2>4, <2>5a, <2>7, <2>8, <2>9, <2>12 DEF PipeStands, Idle
    <3>2. PipeInv(u, run)
      BY <2>10, <3>1 DEF PipeInv
    <3>3. Steady(u, Schedule(u, [kind |-> "pump", stream |-> "source"]), run)
      BY <2>2, <2>7, <3>2, StreamJobs, ScheduleSteady
    <3>4. FinishPipeWrite(s, r, rejected) = Schedule(u, [kind |-> "pump", stream |-> "source"])
      BY <2>3, <2>12
    <3>5. QED
      BY <2>10, <3>3, <3>4 DEF Steady
  <2>13. QED
    BY <2>11, <2>12
<1>4. QED
  BY <1>2, <1>3

\* u is s after the pipe has taken the first chunk of the source.
Pumped(s, u) ==
  LET source == s.readables["source"] IN
  /\ u \in States /\ u.table = s.table /\ u.readers = s.readers
  /\ u.writable = s.writable /\ u.writers = s.writers /\ u.sinks = s.sinks
  /\ u.piped = s.piped /\ u.written = s.written
  /\ Head(source.queue) \in Nat /\ u.pumped = Append(s.pumped, Head(source.queue))
  /\ u.readables = [s.readables EXCEPT !["source"] = u.readables["source"]]
  /\ u.readables["source"] =
       [source EXCEPT !.queue = Tail(@), !.taken = Append(@, Head(source.queue)),
                      !.pipe = [source.pipe EXCEPT !.writing = TRUE]]

LEMMA PumpedIs ==
  ASSUME NEW s \in States, s.readables["source"].queue # <<>>, s.readables["source"].pipe # Nothing
  PROVE  Pumped(s, [TakeChunk(s, "source") EXCEPT
                      !.readables["source"].pipe.writing = TRUE,
                      !.pumped = Append(@, Head(s.readables["source"].queue))])
<1> DEFINE source == s.readables["source"]
           chunk == Head(source.queue)
           t == TakeChunk(s, "source")
           busy == [source.pipe EXCEPT !.writing = TRUE]
           v == [t EXCEPT !.readables["source"].pipe = busy]
           u == [t EXCEPT !.readables["source"].pipe.writing = TRUE, !.pumped = Append(@, chunk)]
<1>1. "source" \in Readables /\ source.queue \in Seq(Nat) /\ source.pipe \in Pipes
      /\ source \in ReadableStates
  BY StreamTypes DEF Readables
<1>2. Took(s, t, "source")
  BY <1>1, TakeChunkIs
<1>c. chunk \in Nat /\ chunk = Head(source.queue)
  <2> HIDE DEF source
  <2>1. source.queue # <<>>
    BY DEF source
  <2>2. QED
    BY <1>1, <2>1
<1>t. source = s.readables["source"] /\ busy = [source.pipe EXCEPT !.writing = TRUE]
  OBVIOUS
<1> HIDE DEF t, source, chunk
<1>3. /\ t \in States /\ t.readables = [s.readables EXCEPT !["source"] = t.readables["source"]]
      /\ t.readables["source"] = [source EXCEPT !.queue = Tail(@), !.taken = Append(@, chunk)]
      /\ t.table = s.table /\ t.readers = s.readers
      /\ t.writable = s.writable /\ t.writers = s.writers /\ t.sinks = s.sinks
      /\ t.piped = s.piped /\ t.pumped = s.pumped /\ t.written = s.written
  BY <1>2, <1>c, <1>t DEF Took, OnlyReadable
<1>4. t.readables["source"].pipe = source.pipe
  BY <1>1, <1>3 DEF ReadableStates
<1>5. busy \in Pipes
  BY <1>1 DEF Pipes
<1>6. u = [v EXCEPT !.pumped = Append(t.pumped, chunk)]
  <2>1. "source" \in Readables /\ t.readables \in [Readables -> ReadableStates]
    BY <1>1, <1>3, StateTypes
  <2>2. QED
    BY <1>3, <1>4, <2>1 DEF States, ReadableStates
<1> HIDE DEF busy
<1>7. Piped(t, v, busy)
  BY <1>3, <1>5, PipedIs
<1> HIDE DEF v, u
<1>8. /\ v \in States /\ v.readables = [t.readables EXCEPT !["source"] = v.readables["source"]]
      /\ v.readables["source"] = [t.readables["source"] EXCEPT !.pipe = busy]
      /\ v.table = t.table /\ v.readers = t.readers
      /\ v.writable = t.writable /\ v.writers = t.writers /\ v.sinks = t.sinks
      /\ v.piped = t.piped /\ v.pumped = t.pumped /\ v.written = t.written
  BY <1>7 DEF Piped, OnlyReadable
<1>9. v.readables["source"] =
        [source EXCEPT !.queue = Tail(@), !.taken = Append(@, chunk), !.pipe = busy]
  BY <1>1, <1>3, <1>8 DEF ReadableStates
<1>10. v.readables = [s.readables EXCEPT !["source"] = v.readables["source"]]
  <2>1. s.readables \in [Readables -> ReadableStates]
    BY StateTypes
  <2> DEFINE x == t.readables["source"]
             y == v.readables["source"]
  <2>2. t.readables = [s.readables EXCEPT !["source"] = x]
        /\ v.readables = [t.readables EXCEPT !["source"] = y]
    BY <1>3, <1>8
  <2> HIDE DEF x, y
  <2>3. v.readables = [s.readables EXCEPT !["source"] = y]
    BY <2>1, <2>2
  <2>4. QED
    BY <2>3 DEF y
<1>11. Append(t.pumped, chunk) \in Seq(Nat)
  <2>1. t.pumped \in Seq(Nat)
    BY <1>3, StateTypes
  <2>2. QED
    BY <2>1, <1>c
<1>12. /\ u \in States /\ u.readables = v.readables /\ u.pumped = Append(t.pumped, chunk)
       /\ u.table = v.table /\ u.readers = v.readers
       /\ u.writable = v.writable /\ u.writers = v.writers /\ u.sinks = v.sinks
       /\ u.piped = v.piped /\ u.written = v.written
  <2>1. v \in States
    BY <1>8
  <2>2. QED
    BY <1>6, <1>11, <2>1 DEF States
<1>13. /\ u \in States /\ u.table = s.table /\ u.readers = s.readers
       /\ u.writable = s.writable /\ u.writers = s.writers /\ u.sinks = s.sinks
       /\ u.piped = s.piped /\ u.written = s.written
  BY <1>3, <1>8, <1>12
<1>14. u.pumped = Append(s.pumped, chunk) /\ u.readables = v.readables
  BY <1>3, <1>12
<1>15. /\ Head(source.queue) \in Nat /\ u.pumped = Append(s.pumped, Head(source.queue))
       /\ u.readables = [s.readables EXCEPT !["source"] = u.readables["source"]]
       /\ u.readables["source"] =
            [source EXCEPT !.queue = Tail(@), !.taken = Append(@, Head(source.queue)),
                           !.pipe = [source.pipe EXCEPT !.writing = TRUE]]
  BY <1>9, <1>10, <1>14, <1>c DEF busy
<1>16. Pumped(s, u)
  BY <1>13, <1>15 DEF source, Pumped
<1>17. QED
  BY <1>16 DEF u, t, chunk, source

LEMMA PumpedSteady ==
  ASSUME NEW s \in States, NEW run, PipeInv(s, run), s.readables["source"].queue # <<>>,
         s.readables["source"].pipe # Nothing, ~s.readables["source"].pipe.writing,
         NEW u, Pumped(s, u)
  PROVE  /\ Steady(s, u, run) /\ NoToken(u.table) /\ NoWrite(u.table)
         /\ u.readables["source"].pipe # Nothing
         /\ u.readables["source"].pipe.writing /\ ~u.readables["source"].pipe.closing
         /\ Head(s.readables["source"].queue) \in Nat
         /\ u.pumped = Append(u.written, Head(s.readables["source"].queue))
<1> DEFINE source == s.readables["source"]
           pipe == source.pipe
           busy == [pipe EXCEPT !.writing = TRUE]
           chunk == Head(source.queue)
<1>1. Names(s, run) /\ Flight(s) /\ PipeStands(s)
  BY DEF PipeInv
<1>2. pipe \in Pipes /\ source \in ReadableStates
  BY StreamTypes DEF Readables
<1>3. busy \in Pipes /\ busy.promise = pipe.promise /\ busy.writing /\ busy.closing = pipe.closing
  <2> HIDE DEF pipe
  <2>1. QED
    BY <1>2 DEF Pipes
<1>3a. busy # Nothing
  BY <1>3, PipeTypes
<1>4. /\ pipe.promise = s.piped /\ Idle(s) /\ ~pipe.closing
      /\ s.writable.source # "source" /\ s.piped # Nothing
      /\ ~Is(s.table, s.piped, "fulfilled") /\ s.readables["output"].pipe = Nothing
  BY <1>1 DEF PipeStands
<1>5. u.readables["source"].pipe = busy
  <2>1. u.readables["source"] =
          [source EXCEPT !.queue = Tail(@), !.taken = Append(@, chunk), !.pipe = busy]
    BY DEF Pumped
  <2> HIDE DEF source, busy, chunk
  <2>2. QED
    BY <1>2, <2>1 DEF ReadableStates
<1>6. u.readables["output"].pipe = Nothing
  <2>1. s.readables \in [Readables -> ReadableStates] /\ "output" \in Readables
    BY StateTypes DEF Readables
  <2>2. u.readables = [s.readables EXCEPT !["source"] = u.readables["source"]]
    BY DEF Pumped
  <2>3. u.readables["output"] = s.readables["output"]
    BY <2>1, <2>2
  <2>4. QED
    BY <1>4, <2>3
<1>7. /\ u \in States /\ u.table = s.table /\ u.readers = s.readers
      /\ u.writable = s.writable /\ u.writers = s.writers /\ u.sinks = s.sinks
      /\ u.piped = s.piped /\ u.written = s.written
      /\ chunk \in Nat /\ u.pumped = Append(s.pumped, chunk)
  BY DEF Pumped
<1> HIDE DEF pipe, busy, source, chunk
<1>8. s.written = s.pumped /\ NoToken(s.table) /\ NoWrite(s.table)
  BY <1>4 DEF Idle
<1>9. u.pumped = Append(u.written, chunk)
  BY <1>7, <1>8
<1>10. \A q \in Promises : Unclaimed(s, run, q) => Unclaimed(u, run, q)
  BY <1>7 DEF Unclaimed, Held
<1>11. Names(u, run)
  BY <1>1, <1>7, <1>10 DEF Names
<1>12. Flight(u)
  <2>1. OneToken(u.table) /\ OneWrite(u.table)
    BY <1>1, <1>7 DEF Flight
  <2>2. /\ \A i \in DOMAIN u.table.microtasks : ~IsWrite(u.table.microtasks[i])
        /\ \A i \in DOMAIN u.table.microtasks : ~IsToken(u.table.microtasks[i])
        /\ \A p \in Promises : ~WaitsFor(u.table, p)
    BY <1>7, <1>8 DEF NoToken, NoWrite
  <2>3. QED
    BY <1>7, <1>9, <2>1, <2>2 DEF Flight
<1>13. PipeStands(u)
  BY <1>3, <1>3a, <1>4, <1>5, <1>6, <1>7 DEF PipeStands
<1>14. \A q \in Promises : Claimable(s, q) => Claimable(u, q)
  BY <1>7 DEF Claimable
<1>15. Steady(s, u, run)
  BY <1>7, <1>11, <1>12, <1>13, <1>14 DEF Steady, PipeInv
<1>16. QED
  BY <1>3, <1>3a, <1>4, <1>5, <1>7, <1>8, <1>9, <1>15 DEF chunk, source

\* A write that was refused: its rejection is queued for the pipe.
LEMMA TokenQueued ==
  ASSUME NEW s \in States, NEW run, PipeInv(s, run), NoToken(s.table), NoWrite(s.table),
         s.readables["source"].pipe # Nothing,
         s.readables["source"].pipe.writing, ~s.readables["source"].pipe.closing,
         NEW p \in Promises, Is(s.table, p, "rejected"),
         NEW u, OnlyTable(s, u), u.table = Subscribe(s.table, p, [kind |-> "pumped", stream |-> "source"])
  PROVE  Steady(s, u, run)
<1> DEFINE token == [kind |-> "pumped", stream |-> "source"]
           job == Reaction(p, token, TRUE)
           t == s.table
           v == u.table
<1>1. Names(s, run) /\ Flight(s) /\ PipeStands(s)
  BY DEF PipeInv
<1>2. token \in Reactions /\ t \in Tables
  BY ReactionTypes, StateTypes DEF Readables
<1>3. ~Is(t, p, "pending") /\ Is(t, p, "rejected") = TRUE
  BY DEF Is
<1>4. job.kind = "reaction" /\ job.reaction = token /\ job.rejected = TRUE
  BY DEF Reaction
<1>5. token.kind = "pumped"
  OBVIOUS
<1>6. v \in Tables /\ v.state = t.state /\ v.reactions = t.reactions
      /\ v.microtasks = Append(t.microtasks, job)
  <2> HIDE DEF token
  <2>1. v = Subscribe(t, p, token)
    BY DEF token
  <2>2. job = Reaction(p, token, Is(t, p, "rejected"))
    BY <1>3
  <2> HIDE DEF t, v, job
  <2>3. QED
    BY ZenonT(90), <1>2, <1>3, <2>1, <2>2, SubscribeIs
<1> HIDE DEF token, job
<1>7. t.microtasks \in Seq(Tasks \cup ReactionJobs) /\ v.microtasks \in Seq(Tasks \cup ReactionJobs)
  BY <1>2, <1>6, TableTypes
<1> DEFINE n == Len(t.microtasks) + 1
<1>8. /\ n \in DOMAIN v.microtasks /\ v.microtasks[n] = job
      /\ \A i \in DOMAIN v.microtasks : i = n \/ (i \in DOMAIN t.microtasks /\ v.microtasks[i] = t.microtasks[i])
      /\ \A i \in DOMAIN t.microtasks : i \in DOMAIN v.microtasks /\ v.microtasks[i] = t.microtasks[i]
  <2> HIDE DEF t, v
  <2>1. QED
    BY ONLY <1>6, <1>7
<1> HIDE DEF n
<1>9. ~IsWrite(job) /\ IsToken(job) /\ \A q \in Promises : ~JobAims(job, q)
  BY <1>4, <1>5 DEF IsWrite, IsToken, JobAims, ReactionAims
<1>10. /\ \A i \in DOMAIN v.microtasks : ~IsWrite(v.microtasks[i])
       /\ \A i \in DOMAIN v.microtasks : IsToken(v.microtasks[i]) => i = n
       /\ \A q \in Promises : ~WaitsFor(v, q)
  BY <1>6, <1>8, <1>9 DEF NoToken, NoWrite, WaitsFor
<1>11. \A q \in Promises : ~Awaits(v, q)
  BY <1>10 DEF Awaits
<1>12. \A q \in Promises : Aimed(v, q) => Aimed(t, q)
  BY <1>6, <1>8, <1>9 DEF Aimed
<1>13. /\ u \in States /\ u.readables = s.readables /\ u.readers = s.readers
       /\ u.writable = s.writable /\ u.writers = s.writers /\ u.sinks = s.sinks
       /\ u.piped = s.piped /\ u.pumped = s.pumped /\ u.written = s.written
  BY DEF OnlyTable
<1>14. \A q \in Promises : Unclaimed(s, run, q) => Unclaimed(u, run, q)
  BY <1>12, <1>13 DEF Unclaimed, Held
<1>15. Names(u, run)
  <2>1. \A q \in Promises : Is(v, q, "absent") \/ q = u.piped \/ Awaits(v, q) => Unclaimed(u, run, q)
    BY <1>1, <1>6, <1>11, <1>13, <1>14 DEF Names, Is
  <2>2. u.piped # Nothing => Exists(v, u.piped) /\ ~Awaits(v, u.piped)
    <3>1. u.piped # Nothing => u.piped \in Promises
      BY <1>13, StateTypes
    <3>2. QED
      BY <1>1, <1>6, <1>11, <1>13, <3>1 DEF Names, Exists, Is
  <2>3. QED
    BY <1>11, <2>1, <2>2 DEF Names
<1>16. Flight(u)
  <2>1. OneToken(v)
    BY <1>10 DEF OneToken, WaitsFor
  <2>2. OneWrite(v)
    BY <1>10 DEF OneWrite
  <2>3. \A i \in DOMAIN v.microtasks : IsToken(v.microtasks[i]) => v.microtasks[i].rejected
    BY <1>4, <1>8, <1>10
  <2>4. u.written = u.pumped \/ \E m \in Nat : u.pumped = Append(u.written, m)
    BY <1>1, <1>13 DEF Flight
  <2>5. QED
    BY <1>10, <2>1, <2>2, <2>3, <2>4 DEF Flight
<1>17. PipeStands(u)
  BY <1>1, <1>6, <1>13 DEF PipeStands, Is
<1>18. \A q \in Promises : Claimable(s, q) => Claimable(u, q)
  BY <1>6, <1>11, <1>13 DEF Claimable, Is
<1>19. QED
  BY <1>13, <1>15, <1>16, <1>17, <1>18 DEF Steady, PipeInv

\* A write that was accepted: it is queued, and the pipe waits for its promise.
LEMMA TokenWaits ==
  ASSUME NEW s \in States, NEW run, PipeInv(s, run), NoToken(s.table), NoWrite(s.table),
         s.readables["source"].pipe # Nothing,
         s.readables["source"].pipe.writing, ~s.readables["source"].pipe.closing,
         NEW p \in Promises, Is(s.table, p, "pending"), Unclaimed(s, run, p), Claimable(s, p),
         NEW n \in Nat, s.pumped = Append(s.written, n),
         NEW u, OnlyTable(s, u), u.table.state = s.table.state,
         u.table.microtasks =
           Append(s.table.microtasks, [kind |-> "write", promise |-> p, chunk |-> <<n>>]),
         u.table.reactions =
           [s.table.reactions EXCEPT ![p] = Append(@, [kind |-> "pumped", stream |-> "source"])]
  PROVE  /\ u \in States /\ PipeInv(u, run)
         /\ \A q \in Promises : Claimable(s, q) /\ q # p => Claimable(u, q)
<1> DEFINE token == [kind |-> "pumped", stream |-> "source"]
           job == [kind |-> "write", promise |-> p, chunk |-> <<n>>]
           t == s.table
           v == u.table
<1>1. Names(s, run) /\ Flight(s) /\ PipeStands(s)
  BY DEF PipeInv
<1>2. token.kind = "pumped" /\ token \in Reactions
  BY ReactionTypes DEF Readables
<1>3. job.kind = "write" /\ job.promise = p /\ job.chunk = <<n>> /\ Len(<<n>>) = 1 /\ <<n>> # <<>>
  OBVIOUS
<1>31. s.pumped = s.written \o <<n>>
  <2>1. s.written \in Seq(Nat)
    BY StateTypes
  <2>2. QED
    BY <2>1
<1>4. v.microtasks = Append(t.microtasks, job) /\ v.reactions = [t.reactions EXCEPT ![p] = Append(@, token)]
  OBVIOUS
<1> HIDE DEF token, job
<1>5. /\ u \in States /\ u.readables = s.readables /\ u.readers = s.readers
      /\ u.writable = s.writable /\ u.writers = s.writers /\ u.sinks = s.sinks
      /\ u.piped = s.piped /\ u.pumped = s.pumped /\ u.written = s.written
  BY DEF OnlyTable
<1>6. /\ t.microtasks \in Seq(Tasks \cup ReactionJobs) /\ v.microtasks \in Seq(Tasks \cup ReactionJobs)
      /\ t.reactions \in [Promises -> Seq(Reactions)]
  BY <1>5, StateTypes, TableTypes
<1> DEFINE N == Len(t.microtasks) + 1
           M == Len(t.reactions[p]) + 1
<1>7. /\ N \in DOMAIN v.microtasks /\ v.microtasks[N] = job
      /\ \A i \in DOMAIN v.microtasks : i = N \/ (i \in DOMAIN t.microtasks /\ v.microtasks[i] = t.microtasks[i])
      /\ \A i \in DOMAIN t.microtasks : i \in DOMAIN v.microtasks /\ v.microtasks[i] = t.microtasks[i]
  <2> HIDE DEF t, v
  <2>1. QED
    BY ONLY <1>4, <1>6
<1>8. /\ \A q \in Promises : q # p => v.reactions[q] = t.reactions[q]
      /\ v.reactions[p] = Append(t.reactions[p], token)
  BY <1>4, <1>6
<1>9. /\ M \in DOMAIN v.reactions[p] /\ v.reactions[p][M] = token
      /\ \A k \in DOMAIN v.reactions[p] :
           k = M \/ (k \in DOMAIN t.reactions[p] /\ v.reactions[p][k] = t.reactions[p][k])
  <2> DEFINE w == t.reactions[p]
             x == v.reactions[p]
  <2>1. w \in Seq(Reactions) /\ x = Append(w, token)
    BY <1>6, <1>8
  <2> HIDE DEF w, x
  <2>2. /\ Len(w) + 1 \in DOMAIN x /\ x[Len(w) + 1] = token
        /\ \A k \in DOMAIN x : k = Len(w) + 1 \/ (k \in DOMAIN w /\ x[k] = w[k])
    BY ONLY <1>2, <2>1
  <2>3. QED
    BY <2>2 DEF w, x
<1> HIDE DEF N, M
<1>10. IsWrite(job) /\ ~IsToken(job) /\ \A q \in Promises : ~JobAims(job, q)
  BY <1>3 DEF IsWrite, IsToken, JobAims
<1>11. \A q \in Promises : ~ReactionAims(token, q)
  BY <1>2 DEF ReactionAims
<1>12. /\ \A i \in DOMAIN v.microtasks : IsWrite(v.microtasks[i]) => i = N
       /\ \A i \in DOMAIN v.microtasks : ~IsToken(v.microtasks[i])
  BY <1>7, <1>10 DEF NoToken, NoWrite
<1>13. /\ \A q \in Promises : WaitsFor(v, q) <=> q = p
       /\ \A k \in DOMAIN v.reactions[p] : v.reactions[p][k].kind = "pumped" => k = M
  BY SMTT(60), <1>2, <1>8, <1>9 DEF WaitsFor, NoToken
<1>14. \A q \in Promises : Awaits(v, q) <=> q = p
  BY <1>3, <1>7, <1>10, <1>12 DEF Awaits
<1>15. \A q \in Promises : Aimed(v, q) => Aimed(t, q)
  <2> SUFFICES ASSUME NEW q \in Promises, Aimed(v, q) PROVE Aimed(t, q)
    OBVIOUS
  <2>1. CASE \E i \in DOMAIN v.microtasks : JobAims(v.microtasks[i], q)
    BY <1>7, <1>10, <2>1 DEF Aimed
  <2>2. CASE \E x \in Promises : \E k \in DOMAIN v.reactions[x] : ReactionAims(v.reactions[x][k], q)
    BY <1>8, <1>9, <1>11, <2>2 DEF Aimed
  <2>3. QED
    BY <2>1, <2>2 DEF Aimed
<1>16. \A q \in Promises : Unclaimed(s, run, q) => Unclaimed(u, run, q)
  BY <1>5, <1>15 DEF Unclaimed, Held
<1>17. s.piped # p
  BY DEF Claimable
<1>18. Names(u, run)
  <2>1. \A q \in Promises : Is(v, q, "absent") \/ q = u.piped \/ Awaits(v, q) => Unclaimed(u, run, q)
    BY <1>1, <1>5, <1>14, <1>16 DEF Names, Is
  <2>2. u.piped # Nothing => Exists(v, u.piped) /\ ~Awaits(v, u.piped)
    <3>1. u.piped # Nothing => u.piped \in Promises
      BY <1>5, StateTypes
    <3>2. QED
      BY <1>1, <1>5, <1>14, <1>17, <3>1 DEF Names, Exists, Is
  <2>3. QED
    BY <1>13, <1>14, <2>1, <2>2 DEF Names
<1>19. Flight(u)
  <2>1. OneToken(v)
    <3>1. \A q \in Promises : \A k, l \in DOMAIN v.reactions[q] :
            v.reactions[q][k].kind = "pumped" /\ v.reactions[q][l].kind = "pumped" => k = l
      BY <1>13 DEF WaitsFor
    <3>2. QED
      BY <1>12, <1>13, <3>1 DEF OneToken
  <2>2. OneWrite(v)
    BY <1>12 DEF OneWrite
  <2>3. \A i \in DOMAIN v.microtasks : IsWrite(v.microtasks[i]) =>
          Len(v.microtasks[i].chunk) = 1 /\ u.pumped = u.written \o v.microtasks[i].chunk
    BY ZenonT(90), <1>3, <1>31, <1>5, <1>7, <1>12
  <2>4. \A q \in Promises : WaitsFor(v, q) => Is(v, q, "pending") /\ Awaits(v, q)
    BY <1>13, <1>14 DEF Is
  <2>5. \E m \in Nat : u.pumped = Append(u.written, m)
    BY <1>5
  <2>6. QED
    BY <1>12, <2>1, <2>2, <2>3, <2>4, <2>5 DEF Flight
<1>20. PipeStands(u)
  BY <1>1, <1>5 DEF PipeStands, Is
<1>21. \A q \in Promises : Claimable(s, q) /\ q # p => Claimable(u, q)
  BY <1>5, <1>14 DEF Claimable, Is
<1>22. QED
  BY <1>5, <1>18, <1>19, <1>20, <1>21 DEF PipeInv

LEMMA PumpChunkSteady ==
  ASSUME NEW s \in States, NEW run, PipeInv(s, run), s.readables["source"].queue # <<>>,
         s.readables["source"].pipe # Nothing, ~s.readables["source"].pipe.writing,
         HasRoom(s.table)
  PROVE  /\ Steady(s, PumpChunk(s, "source"), run)
         /\ \E k, w : Created(s, k) /\ Pumped(k, w) /\ Steady(s, w, run)
                      /\ LET u == PumpChunk(s, "source") IN
                         /\ OnlyTable(w, u)
                         /\ \A q \in Promises : ~Is(w.table, q, "pending") => ~Is(u.table, q, "pending")
                         /\ \A q \in Promises : ~Is(w.table, q, "absent") => ~Is(u.table, q, "absent")
<1> DEFINE p == NextPromise(s)
           k == Kept(s)
           chunk == Head(s.readables["source"].queue)
           w == [TakeChunk(k, "source") EXCEPT !.readables["source"].pipe.writing = TRUE,
                                               !.pumped = Append(@, chunk)]
           token == [kind |-> "pumped", stream |-> "source"]
           job == [kind |-> "write", promise |-> p, chunk |-> <<chunk>>]
           v == Accept(w, p, job)
           u == [v EXCEPT !.table = Subscribe(v.table, p, token)]
<1>1. Created(s, k)
  BY KeptIs
<1>2. PumpChunk(s, "source") = u
  <2>1. PumpChunk(s, "source") = [v EXCEPT !.table = Subscribe(@, p, token)]
    BY DEF PumpChunk, StartWrite
  <2> HIDE DEF v, p, token
  <2>2. QED
    BY <2>1
<1>3. k.readables = s.readables
  BY <1>1 DEF Created, OnlyTable
<1>4. Steady(s, k, run) /\ p \in Promises /\ Claimable(k, p) /\ Unclaimed(k, run, p)
      /\ Is(k.table, p, "pending") /\ s.table.state[p] = "absent"
  BY <1>1, CreatedSteady DEF Created
<1> HIDE DEF k
<1>5. k \in States /\ PipeInv(k, run) /\ k.readables["source"].queue # <<>>
      /\ k.readables["source"].pipe # Nothing /\ ~k.readables["source"].pipe.writing
  BY <1>3, <1>4 DEF Steady
<1>6. Pumped(k, w)
  BY <1>3, <1>5, PumpedIs
<1> HIDE DEF w
<1>7. /\ Steady(k, w, run) /\ NoToken(w.table) /\ NoWrite(w.table)
      /\ w.readables["source"].pipe # Nothing
      /\ w.readables["source"].pipe.writing /\ ~w.readables["source"].pipe.closing
      /\ chunk \in Nat /\ w.pumped = Append(w.written, chunk)
  BY <1>3, <1>5, <1>6, PumpedSteady
<1>8. w \in States /\ PipeInv(w, run) /\ Steady(s, w, run) /\ w.table \in Tables
  BY <1>4, <1>7, SteadyTrans, StateTypes DEF Steady
<1>9. Claimable(w, p) /\ Unclaimed(w, run, p) /\ Is(w.table, p, "pending")
  BY <1>4, <1>6 DEF Pumped, Claimable, Unclaimed, Held
<1>10. ~Claimable(s, p)
  BY <1>4 DEF Claimable, Is
<1>11. job \in Tasks \cup ReactionJobs /\ token \in Reactions
  <2>1. <<chunk>> \in Seq(Nat)
    BY <1>7
  <2>2. token \in Reactions
    BY ReactionTypes DEF Readables
  <2> HIDE DEF chunk, p
  <2>3. QED
    BY <1>4, <2>1, <2>2, JobTypes
<1>j. job = [kind |-> "write", promise |-> p, chunk |-> <<chunk>>]
      /\ token = [kind |-> "pumped", stream |-> "source"]
  OBVIOUS
<1> HIDE DEF job, chunk, p, token
<1>12. CASE w.writable.status = "writable"
  <2>1. v = Schedule(w, job)
    BY <1>12 DEF Accept
  <2>2. /\ OnlyTable(w, v) /\ v.table.state = w.table.state /\ v.table.reactions = w.table.reactions
        /\ v.table.microtasks = Append(w.table.microtasks, job)
    BY <1>8, <1>11, <2>1, ScheduleIs
  <2> HIDE DEF v
  <2>3. v \in States /\ v.table \in Tables
    BY <2>2, StateTypes DEF OnlyTable
  <2>4. Is(v.table, p, "pending")
    BY <1>9, <2>2 DEF Is
  <2> DEFINE t == Subscribe(v.table, p, token)
  <2>5. /\ t \in Tables /\ t.state = v.table.state /\ t.microtasks = v.table.microtasks
        /\ t.reactions = [v.table.reactions EXCEPT ![p] = Append(@, token)]
    BY <1>4, <1>11, <2>3, <2>4, SubscribeIs
  <2>6. u = [v EXCEPT !.table = t]
    OBVIOUS
  <2> HIDE DEF t, u
  <2>7. OnlyTable(v, u) /\ u.table = t
    BY <2>3, <2>5, <2>6, TableChanges
  <2>8. OnlyTable(w, u)
    BY <2>2, <2>7 DEF OnlyTable
  <2>9. /\ u.table.state = w.table.state
        /\ u.table.microtasks = Append(w.table.microtasks, job)
        /\ u.table.reactions = [w.table.reactions EXCEPT ![p] = Append(@, token)]
    BY <2>2, <2>5, <2>7
  <2>10. /\ u \in States /\ PipeInv(u, run)
         /\ \A q \in Promises : Claimable(w, q) /\ q # p => Claimable(u, q)
    <3>1. /\ u.table.microtasks =
               Append(w.table.microtasks, [kind |-> "write", promise |-> p, chunk |-> <<chunk>>])
          /\ u.table.reactions =
               [w.table.reactions EXCEPT ![p] = Append(@, [kind |-> "pumped", stream |-> "source"])]
      BY <1>j, <2>9
    <3>2. u.table.state = w.table.state
      BY <2>9
    <3> HIDE DEF u, v
    <3>3. QED
      BY ZenonT(90), <1>4, <1>7, <1>8, <1>9, <2>8, <3>1, <3>2, TokenWaits
  <2>11. Steady(s, u, run)
    BY <1>8, <1>10, <2>10 DEF Steady
  <2>12. /\ \A q \in Promises : ~Is(w.table, q, "pending") => ~Is(u.table, q, "pending")
         /\ \A q \in Promises : ~Is(w.table, q, "absent") => ~Is(u.table, q, "absent")
    BY <2>9 DEF Is
  <2>13. QED
    BY <1>1, <1>2, <1>6, <1>8, <2>8, <2>11, <2>12
<1>13. CASE w.writable.status # "writable"
  <2>1. v = Answer(w, p, TRUE)
    BY <1>13 DEF Accept
  <2>2. OnlyTable(w, v) /\ v.table \in After(w.table, {p}) /\ v.table = Settle(w.table, p, TRUE)
    BY <1>4, <1>8, <2>1, AnswerIs
  <2>3. Steady(w, v, run)
    BY <1>4, <1>8, <1>9, <2>1, AnswerSteady
  <2> HIDE DEF v
  <2>4. v \in States /\ v.table \in Tables /\ PipeInv(v, run)
    BY <2>3, StateTypes DEF Steady
  <2>5. NoToken(v.table) /\ NoWrite(v.table)
    <3>1. Names(w, run) /\ Flight(w)
      BY <1>8 DEF PipeInv
    <3>2. \A q \in {p} \cap Promises : ~Awaits(w.table, q)
      BY <1>9 DEF Claimable
    <3>3. Calm(w, v.table)
      BY <1>8, <2>2, <3>1, <3>2, CalmAfter
    <3>4. Unheld(w, run, v, run)
      BY <2>2 DEF OnlyTable, Unheld, Held
    <3>5. QED
      BY <1>7, <1>8, <2>4, <3>1, <3>3, <3>4, CalmPipe
  <2>6. Is(v.table, p, "rejected")
    <3>1. Settled(w.table, v.table, p, TRUE)
      BY <1>4, <1>8, <1>9, <2>2, SettleIs
    <3>2. v.table.state = [w.table.state EXCEPT ![p] = "rejected"]
      BY <3>1 DEF Settled
    <3>3. w.table.state \in [Promises -> PromiseStates]
      BY <1>8, TableTypes
    <3>4. QED
      BY <1>4, <3>2, <3>3 DEF Is
  <2> DEFINE t == Subscribe(v.table, p, token)
  <2>7. t \in Tables /\ t.state = v.table.state
    BY <1>4, <1>11, <2>4, SubscribeIs
  <2>8. u = [v EXCEPT !.table = t]
    OBVIOUS
  <2>t. t = Subscribe(v.table, p, token)
    OBVIOUS
  <2> HIDE DEF t, u
  <2>9. OnlyTable(v, u) /\ u.table = t
    BY <2>4, <2>7, <2>8, TableChanges
  <2>10. /\ v.readables["source"].pipe # Nothing
         /\ v.readables["source"].pipe.writing /\ ~v.readables["source"].pipe.closing
    BY <1>7, <2>2 DEF OnlyTable
  <2>11. Steady(v, u, run)
    BY <1>4, <1>j, <2>4, <2>5, <2>6, <2>9, <2>10, <2>t, TokenQueued
  <2>12. OnlyTable(w, u)
    BY <2>2, <2>9 DEF OnlyTable
  <2>13. /\ \A q \in Promises : ~Is(w.table, q, "pending") => ~Is(u.table, q, "pending")
         /\ \A q \in Promises : ~Is(w.table, q, "absent") => ~Is(u.table, q, "absent")
    <3>1. \A q \in Promises : v.table.state[q] = w.table.state[q]
            \/ (w.table.state[q] = "pending" /\ v.table.state[q] \in {"fulfilled", "rejected"})
      BY <2>2 DEF After
    <3>2. QED
      BY <2>7, <2>9, <3>1 DEF Is
  <2>14. Steady(s, u, run)
    BY <1>8, <2>3, <2>11, SteadyTrans
  <2>15. QED
    BY <1>1, <1>2, <1>6, <1>8, <2>12, <2>13, <2>14
<1>14. QED
  BY <1>12, <1>13

LEMMA PumpCloseSteady ==
  ASSUME NEW s \in States, NEW run, PipeInv(s, run),
         s.readables["source"].pipe # Nothing, ~s.readables["source"].pipe.writing,
         s.readables["source"].queue = <<>>, s.readables["source"].closing,
         HasRoom(s.table)
  PROVE  /\ Steady(s, PumpClose(s, "source"), run)
<1> DEFINE p == NextPromise(s)
           k == Kept(s)
           pipe == s.readables["source"].pipe
           busy == [pipe EXCEPT !.writing = TRUE, !.closing = TRUE]
           w == [s.writable EXCEPT !.source = "source"]
           half == [pipe EXCEPT !.writing = TRUE]
           x == [k EXCEPT !.readables["source"].pipe.writing = TRUE]
           v == [x EXCEPT !.readables["source"].pipe.closing = TRUE]
           u == [v EXCEPT !.writable.source = "source"]
<1>1. Created(s, k)
  BY KeptIs
<1>2. k.readables = s.readables /\ k.writable = s.writable
  BY <1>1 DEF Created, OnlyTable
<1>3. Steady(s, k, run) /\ p \in Promises /\ Claimable(k, p)
  BY <1>1, CreatedSteady
<1>4. k \in States /\ PipeInv(k, run) /\ k.readables \in [Readables -> ReadableStates]
      /\ "source" \in Readables
  BY <1>3, StateTypes DEF Steady, Readables
<1>5. PumpClose(s, "source") = StartClose(u, p)
  <2>1. PumpClose(s, "source") =
          StartClose([k EXCEPT !.readables["source"].pipe.writing = TRUE,
                               !.readables["source"].pipe.closing = TRUE,
                               !.writable.source = "source"], p)
    BY DEF PumpClose
  <2> HIDE DEF k, p
  <2>2. QED
    BY <2>1
<1> HIDE DEF k, p
<1>6. pipe \in Pipes
  BY StreamTypes DEF Readables
<1>7. /\ busy \in Pipes /\ busy.promise = pipe.promise /\ busy.writing /\ busy.closing
  <2> HIDE DEF pipe
  <2>1. QED
    BY <1>6 DEF Pipes
<1>7a. busy # Nothing
  BY <1>7, PipeTypes
<1>8. w \in WritableStates
  BY WritableTypes DEF WritableStates, Readables
<1>9. half \in Pipes /\ busy = [half EXCEPT !.closing = TRUE]
  <2> HIDE DEF pipe
  <2>1. QED
    BY <1>6 DEF Pipes
<1>10. x = [k EXCEPT !.readables["source"].pipe = half]
  BY <1>2, <1>4 DEF States, ReadableStates
<1> HIDE DEF w, busy, half, x
<1>11. Piped(k, x, half)
  BY <1>4, <1>9, <1>10, PipedIs
<1>11a. x \in States /\ x.readables["source"].pipe = half
       /\ x.readables \in [Readables -> ReadableStates]
  BY <1>11, StateTypes DEF Piped, OnlyReadable
<1>11b. v = [x EXCEPT !.readables["source"].pipe = busy]
  BY <1>4, <1>9, <1>11a DEF States, ReadableStates
<1> HIDE DEF v
<1>11c. Piped(x, v, busy)
  BY <1>7, <1>11a, <1>11b, PipedIs
<1>11d. v \in States /\ v.writable = k.writable
  BY <1>11, <1>11c DEF Piped, OnlyReadable
<1>11e. u = [v EXCEPT !.writable = w]
  BY <1>2, <1>11d DEF States, WritableStates, w
<1> HIDE DEF u
<1>11f. OnlyWritable(v, u) /\ u.writable = w
  BY <1>8, <1>11d, <1>11e, WritableChanges
<1>12. /\ u \in States /\ u.table = k.table /\ u.readers = k.readers
       /\ u.writers = k.writers /\ u.sinks = k.sinks
       /\ u.piped = k.piped /\ u.pumped = k.pumped /\ u.written = k.written
       /\ u.readables["source"].pipe = busy
       /\ u.readables["source"].closing /\ u.readables["source"].queue = <<>>
       /\ u.readables["output"] = k.readables["output"]
  <2>1. /\ x.table = k.table /\ x.readers = k.readers
        /\ x.writers = k.writers /\ x.sinks = k.sinks
        /\ x.piped = k.piped /\ x.pumped = k.pumped /\ x.written = k.written
        /\ x.readables["source"].closing = k.readables["source"].closing
        /\ x.readables["source"].queue = k.readables["source"].queue
        /\ x.readables["output"] = k.readables["output"]
    BY <1>11 DEF Piped, OnlyReadable
  <2>2. /\ v.table = x.table /\ v.readers = x.readers
        /\ v.writers = x.writers /\ v.sinks = x.sinks
        /\ v.piped = x.piped /\ v.pumped = x.pumped /\ v.written = x.written
        /\ v.readables["source"].pipe = busy
        /\ v.readables["source"].closing = x.readables["source"].closing
        /\ v.readables["source"].queue = x.readables["source"].queue
        /\ v.readables["output"] = x.readables["output"]
    BY <1>11c DEF Piped, OnlyReadable
  <2>3. /\ u \in States /\ u.table = v.table /\ u.readables = v.readables /\ u.readers = v.readers
        /\ u.writers = v.writers /\ u.sinks = v.sinks
        /\ u.piped = v.piped /\ u.pumped = v.pumped /\ u.written = v.written
    BY <1>11f DEF OnlyWritable
  <2>4. k.readables["source"].closing /\ k.readables["source"].queue = <<>>
    BY <1>2
  <2>5. QED
    BY ZenonT(90), <2>1, <2>2, <2>3, <2>4
<1>13. Names(k, run) /\ Flight(k) /\ PipeStands(k)
  BY <1>4 DEF PipeInv
<1>14. /\ pipe.promise = k.piped /\ Idle(k) /\ k.piped # Nothing
       /\ ~Is(k.table, k.piped, "fulfilled") /\ k.readables["output"].pipe = Nothing
  BY <1>2, <1>13 DEF PipeStands
<1> HIDE DEF pipe
<1>15. \A q \in Promises : Unclaimed(k, run, q) => Unclaimed(u, run, q)
  BY <1>12 DEF Unclaimed, Held
<1>16. Names(u, run) /\ Flight(u)
  BY <1>12, <1>13, <1>15 DEF Names, Flight
<1>17. PipeStands(u)
  BY <1>7, <1>7a, <1>12, <1>14 DEF PipeStands, Idle
<1>18. PipeInv(u, run) /\ \A q \in Promises : Claimable(k, q) => Claimable(u, q)
  BY <1>12, <1>16, <1>17 DEF PipeInv, Claimable
<1>19. Steady(u, StartClose(u, p), run)
  BY <1>3, <1>12, <1>18, StartCloseSteady
<1>20. Steady(k, u, run)
  BY <1>12, <1>18 DEF Steady
<1>21. QED
  BY <1>3, <1>5, <1>19, <1>20, SteadyTrans

LEMMA PumpSteady ==
  ASSUME NEW s \in States, NEW run, PipeInv(s, run), NEW r \in Readables, HasRoom(s.table)
  PROVE  Steady(s, Pump(s, r), run)
<1> DEFINE stream == s.readables[r]
<1>1. CASE stream.pipe = Nothing \/ (stream.pipe # Nothing /\ stream.pipe.writing)
  BY <1>1, SteadySame DEF Pump
<1>2. CASE stream.pipe # Nothing /\ ~stream.pipe.writing
  <2>1. r = "source" /\ PipeStands(s) /\ Names(s, run) /\ Flight(s)
    BY <1>2 DEF PipeInv, PipeStands, Readables
  <2>2. CASE stream.queue # <<>>
    <3>1. Pump(s, r) = PumpChunk(s, "source")
      BY <1>2, <2>1, <2>2 DEF Pump
    <3>2. QED
      BY <1>2, <2>1, <2>2, <3>1, PumpChunkSteady
  <2>3. CASE stream.queue = <<>> /\ stream.status = "errored"
    <3>1. Pump(s, r) = EndPipe(s, "source", TRUE)
      BY <1>2, <2>1, <2>3 DEF Pump
    <3>2. /\ NoToken(s.table) /\ NoWrite(s.table)
          /\ s.readables["output"].pipe = Nothing /\ s.readables["source"].pipe # Nothing
          /\ s.readables["source"].pipe.promise = s.piped
          /\ ~Is(s.table, s.piped, "fulfilled")
      BY <1>2, <2>1 DEF PipeStands, Idle
    <3>3. QED
      BY <2>1, <3>1, <3>2, EndPipeSteady
  <2>4. CASE stream.queue = <<>> /\ stream.status # "errored" /\ stream.closing /\ ~stream.pipe.closing
    <3>1. Pump(s, r) = PumpClose(s, "source")
      BY <1>2, <2>1, <2>4 DEF Pump
    <3>2. QED
      BY <1>2, <2>1, <2>4, <3>1, PumpCloseSteady
  <2>5. CASE stream.queue = <<>> /\ stream.status # "errored" /\ ~(stream.closing /\ ~stream.pipe.closing)
    BY <1>2, <2>5, SteadySame DEF Pump
  <2>6. QED
    BY <2>2, <2>3, <2>4, <2>5
<1>3. QED
  BY <1>1, <1>2

-----------------------------------------------------------------------------
(* finish_close. *)

LEMMA SourceIs ==
  ASSUME NEW s \in States, NEW source \in Readables \cup {Nothing}
  PROVE  /\ OnlyWritable(s, [s EXCEPT !.writable.source = source])
         /\ [s EXCEPT !.writable.source = source].writable.source = source
         /\ [s EXCEPT !.writable.source = source].writable.status = s.writable.status
<1> DEFINE w == [s.writable EXCEPT !.source = source]
<1>1. w \in WritableStates /\ w.source = source /\ w.status = s.writable.status
  BY WritableTypes DEF WritableStates
<1>2. [s EXCEPT !.writable.source = source] = [s EXCEPT !.writable = w]
  BY DEF States
<1> HIDE DEF w
<1>3. QED
  BY <1>1, <1>2, WritableChanges

LEMMA WritableStatusIs ==
  ASSUME NEW s \in States, NEW status \in {"writable", "closing", "closed", "errored"}
  PROVE  /\ OnlyWritable(s, [s EXCEPT !.writable.status = status])
         /\ [s EXCEPT !.writable.status = status].writable.source = s.writable.source
<1> DEFINE w == [s.writable EXCEPT !.status = status]
<1>1. w \in WritableStates /\ w.source = s.writable.source
  BY WritableTypes DEF WritableStates
<1>2. [s EXCEPT !.writable.status = status] = [s EXCEPT !.writable = w]
  BY DEF States
<1> HIDE DEF w
<1>3. QED
  BY ZenonT(90), <1>1, <1>2, WritableChanges

\* The pipe that closed the destination is told when nothing is in flight.
LEMMA ToldSteady ==
  ASSUME NEW s \in States, NEW run, PipeInv(s, run), NEW u, Steady(s, u, run),
         u.readables = s.readables, NEW rejected \in BOOLEAN
  PROVE  Steady(s, FinishPipeWrite(u, s.writable.source, rejected), run)
<1>1. PipeStands(s) /\ u \in States /\ PipeInv(u, run) /\ PipeStands(u)
  BY DEF PipeInv, Steady
<1>2. s.writable.source \in Readables \cup {Nothing}
  BY WritableTypes
<1>3. s.writable.source = "source" /\ u.readables["source"].pipe # Nothing =>
        NoToken(u.table) /\ (~rejected => u.written = u.pumped)
  BY <1>1 DEF PipeStands, Idle
<1> DEFINE r == s.writable.source
<1> HIDE DEF r
<1>4. Steady(u, FinishPipeWrite(u, r, rejected), run)
  BY <1>1, <1>2, <1>3, FinishPipeWriteSteady DEF r
<1>5. QED
  BY <1>4, SteadyTrans DEF r

LEMMA FinishCloseSteady ==
  ASSUME NEW s \in States, NEW run, PipeInv(s, run), NEW p \in Promises, Claimable(s, p),
         NEW rejected \in BOOLEAN
  PROVE  Steady(s, FinishClose(s, p, rejected), run)
<1> DEFINE source == s.writable.source
           left == [s EXCEPT !.writable.source = Nothing]
           done == [left EXCEPT !.writable.status = "closed"]
           told == AnswerAll(done, s.writers, FALSE)
           closed == FinishPipeWrite(told, source, FALSE)
           broken == ErrorWritable(left)
<1>1. FinishClose(s, p, rejected) =
        IF rejected THEN Answer(FinishPipeWrite(broken, source, TRUE), p, TRUE)
        ELSE IF OutputRefuses(s) THEN Answer(ErrorWritable(closed), p, TRUE)
        ELSE Answer(IF program.transform THEN CloseStream(closed, "output") ELSE closed, p, FALSE)
  BY DEF FinishClose
<1>2. OnlyWritable(s, left) /\ left.writable.source = Nothing
  BY SourceIs
<1> HIDE DEF left
<1>3. Steady(s, left, run)
  BY <1>2, OnlyWritableSteady
<1>4. left \in States /\ PipeInv(left, run) /\ left.readables = s.readables
  BY <1>2, <1>3 DEF Steady, OnlyWritable
<1>5. OnlyWritable(left, done) /\ done.writable.source = left.writable.source
  BY <1>4, WritableStatusIs
<1> HIDE DEF done
<1>6. Steady(s, done, run) /\ done.readables = s.readables
  BY <1>3, <1>4, <1>5, OnlyWritableSteady, SteadyTrans DEF OnlyWritable
<1>7. done \in States /\ PipeInv(done, run)
  BY <1>6 DEF Steady
<1>8. s.writers \in Seq(Promises) /\ \A i \in DOMAIN s.writers : Claimable(done, s.writers[i])
  BY <1>6, WritersClaimable DEF Steady
<1>9. Steady(s, told, run) /\ told.readables = s.readables
  <2>1. OnlyTable(done, told)
    BY <1>7, <1>8, AnswerAllIs
  <2>2. Steady(done, told, run)
    BY <1>7, <1>8, AnswerAllSteady
  <2>3. QED
    BY <1>6, <2>1, <2>2, SteadyTrans DEF OnlyTable
<1> HIDE DEF told
<1>10. Steady(s, closed, run)
  BY <1>9, ToldSteady
<1> HIDE DEF closed
<1>11. Steady(s, broken, run) /\ broken.readables = s.readables
  BY <1>3, <1>4, ErrorWritableSteady, SteadyTrans
<1> HIDE DEF broken
<1>12. Steady(s, FinishPipeWrite(broken, source, TRUE), run)
  BY <1>11, ToldSteady
<1>13. \A u : \A b \in BOOLEAN : Steady(s, u, run) => Steady(s, Answer(u, p, b), run)
  <2> SUFFICES ASSUME NEW u, NEW b \in BOOLEAN, Steady(s, u, run)
               PROVE  Steady(s, Answer(u, p, b), run)
    OBVIOUS
  <2>1. u \in States /\ PipeInv(u, run) /\ Claimable(u, p)
    BY DEF Steady
  <2>2. Steady(u, Answer(u, p, b), run)
    BY <2>1, AnswerSteady
  <2>3. QED
    BY <2>2, SteadyTrans
<1>14. closed \in States /\ PipeInv(closed, run)
  BY <1>10 DEF Steady
<1>15. Steady(s, ErrorWritable(closed), run)
  BY <1>10, <1>14, ErrorWritableSteady, SteadyTrans
<1>16. Steady(s, CloseStream(closed, "output"), run)
  BY <1>10, <1>14, CloseStreamSteady, SteadyTrans DEF Readables
<1> HIDE DEF source
<1>17. CASE rejected
  BY <1>1, <1>12, <1>13, <1>17
<1>18. CASE ~rejected /\ OutputRefuses(s)
  BY <1>1, <1>13, <1>15, <1>18
<1>19. CASE ~rejected /\ ~OutputRefuses(s)
  BY <1>1, <1>10, <1>13, <1>16, <1>19
<1>20. QED
  BY <1>17, <1>18, <1>19

-----------------------------------------------------------------------------
(* The steps, and the pipe. *)

\* The head of the queue is taken off.
RestOf(s) == [s EXCEPT !.table.microtasks = Tail(@)]
Off(s, u) ==
  /\ OnlyTable(s, u) /\ u.table.state = s.table.state /\ u.table.reactions = s.table.reactions
  /\ u.table.microtasks = Tail(s.table.microtasks)

LEMMA RestIs ==
  ASSUME NEW s \in States, s.table.microtasks # <<>>
  PROVE  /\ Off(s, RestOf(s))
         /\ Head(s.table.microtasks) \in Tasks \cup ReactionJobs
         /\ 1 \in DOMAIN s.table.microtasks /\ Head(s.table.microtasks) = s.table.microtasks[1]
<1> DEFINE M == s.table.microtasks
           t == [s.table EXCEPT !.microtasks = Tail(M)]
<1>1. s.table \in Tables /\ M \in Seq(Tasks \cup ReactionJobs)
  BY StateTypes, TableTypes
<1>2. RestOf(s) = [s EXCEPT !.table = t]
  BY DEF RestOf, States
<1>3. M # <<>>
  OBVIOUS
<1>t. t = [s.table EXCEPT !.microtasks = Tail(M)] /\ M = s.table.microtasks
  OBVIOUS
<1> HIDE DEF M, t
<1>4. Tail(M) \in Seq(Tasks \cup ReactionJobs) /\ Head(M) \in Tasks \cup ReactionJobs
      /\ 1 \in DOMAIN M /\ Head(M) = M[1]
  BY ONLY <1>1, <1>3
<1>5. t \in Tables /\ t.state = s.table.state /\ t.reactions = s.table.reactions
      /\ t.microtasks = Tail(M)
  BY <1>1, <1>4, <1>t DEF Tables
<1>6. OnlyTable(s, RestOf(s)) /\ RestOf(s).table = t
  BY <1>2, <1>5, TableChanges
<1>7. QED
  BY <1>4, <1>5, <1>6 DEF M, Off

LEMMA TailIs ==
  ASSUME NEW S, NEW w \in Seq(S), w # <<>>
  PROVE  /\ \A i \in DOMAIN Tail(w) : i + 1 \in DOMAIN w /\ Tail(w)[i] = w[i + 1] /\ i + 1 # 1
         /\ \A i, j \in DOMAIN Tail(w) : i + 1 = j + 1 => i = j
         /\ 1 \in DOMAIN w
OBVIOUS

LEMMA RestSteady ==
  ASSUME NEW s \in States, NEW run, PipeInv(s, run), s.table.microtasks # <<>>,
         ~IsWrite(Head(s.table.microtasks)), NEW u, Off(s, u)
  PROVE  /\ Steady(s, u, run)
         /\ IsToken(Head(s.table.microtasks)) =>
              /\ NoToken(u.table)
              /\ ~Head(s.table.microtasks).rejected => u.written = u.pumped
<1> DEFINE M == s.table.microtasks
<1>1. OnlyTable(s, u) /\ u \in States /\ u.table \in Tables /\ u.table.state = s.table.state
      /\ u.table.reactions = s.table.reactions /\ u.table.microtasks = Tail(M)
  BY StateTypes DEF Off, OnlyTable
<1>2. Tame(s, u.table)
  BY <1>1, TameRest
<1>3. Steady(s, u, run)
  BY <1>1, <1>2, OnlyTableUndisturbed, TamePipe
<1>4. ASSUME IsToken(Head(M))
      PROVE  NoToken(u.table) /\ (~Head(M).rejected => u.written = u.pumped)
  <2>1. 1 \in DOMAIN M /\ Head(M) = M[1] /\ IsToken(M[1]) /\ Flight(s)
    BY <1>4, RestIs DEF PipeInv
  <2>2. ~Head(M).rejected => u.written = u.pumped
    BY <1>1, <2>1 DEF Flight, OnlyTable
  <2>3. OneToken(s.table)
    BY <2>1 DEF Flight
  <2>4. \A p \in Promises : ~WaitsFor(u.table, p)
    BY <1>1, <2>1, <2>3 DEF OneToken, WaitsFor
  <2>5. \A i \in DOMAIN Tail(M) : ~IsToken(Tail(M)[i])
    <3>1. M \in Seq(Tasks \cup ReactionJobs) /\ M # <<>>
      BY StateTypes, TableTypes
    <3>2. \A i \in DOMAIN M : IsToken(M[i]) => i = 1
      BY <2>1, <2>3 DEF OneToken
    <3> HIDE DEF M
    <3>3. \A i \in DOMAIN Tail(M) : i + 1 \in DOMAIN M /\ Tail(M)[i] = M[i + 1] /\ i + 1 # 1
      BY <3>1, TailIs
    <3>4. QED
      BY <3>2, <3>3
  <2>6. QED
    BY <1>1, <2>2, <2>4, <2>5 DEF NoToken
<1>5. QED
  BY <1>3, <1>4

\* Another callback on the stack, or none.
LEMMA SwitchRun ==
  ASSUME NEW s, NEW run, PipeInv(s, run), NEW run1,
         \A q \in Promises : Runs(run1, q) => Claimable(s, q)
  PROVE  PipeInv(s, run1)
<1>1. Names(s, run) /\ Flight(s) /\ PipeStands(s)
  BY DEF PipeInv
<1>2. \A q \in Promises : Is(s.table, q, "absent") \/ q = s.piped \/ Awaits(s.table, q) => ~Claimable(s, q)
  BY DEF Claimable
<1>3. Names(s, run1)
  BY <1>1, <1>2 DEF Names, Unclaimed
<1>4. QED
  BY <1>1, <1>3 DEF PipeInv

LEMMA NothingRuns ==
  ASSUME NEW s, NEW run, PipeInv(s, run)
  PROVE  PipeInv(s, Nothing)
<1>1. \A q \in Promises : ~Runs(Nothing, q)
  BY DEF Runs
<1>2. QED
  BY <1>1, SwitchRun

\* A write that has begun: its chunk counts as written, and its promise may be
\* settled by whoever runs it.
Begun(s, u, job) ==
  /\ u \in States /\ u.readables = s.readables /\ u.readers = s.readers
  /\ u.writable = s.writable /\ u.writers = s.writers /\ u.sinks = s.sinks
  /\ u.piped = s.piped /\ u.pumped = s.pumped /\ u.written = s.written \o job.chunk
  /\ u.table.state = s.table.state /\ u.table.reactions = s.table.reactions
  /\ u.table.microtasks = Tail(s.table.microtasks)

LEMMA BegunIs ==
  ASSUME NEW s \in States, s.table.microtasks # <<>>, Head(s.table.microtasks).kind = "write"
  PROVE  /\ Begun(s, [RestOf(s) EXCEPT !.written = @ \o Head(s.table.microtasks).chunk],
                  Head(s.table.microtasks))
         /\ Head(s.table.microtasks).chunk \in Seq(Nat)
         /\ Head(s.table.microtasks).promise \in Promises
<1> DEFINE job == Head(s.table.microtasks)
           u == [RestOf(s) EXCEPT !.written = @ \o job.chunk]
<1>1. Off(s, RestOf(s)) /\ job \in Tasks \cup ReactionJobs
  BY RestIs
<1>2. job \in Tasks
  BY <1>1, JobTypes
<1>3. job.chunk \in Seq(Nat) /\ job.promise \in Promises
  BY <1>2, JobTypes
<1> DEFINE r == RestOf(s)
<1>4. r \in States /\ r.written \in Seq(Nat) /\ r.written = s.written
  BY <1>1, StateTypes DEF Off, OnlyTable
<1>5. u = [r EXCEPT !.written = r.written \o job.chunk]
  OBVIOUS
<1> HIDE DEF r, job, u
<1>6. r.written \o job.chunk \in Seq(Nat)
  BY <1>3, <1>4
<1>7. /\ u \in States /\ u.readables = r.readables /\ u.readers = r.readers /\ u.table = r.table
      /\ u.writable = r.writable /\ u.writers = r.writers /\ u.sinks = r.sinks
      /\ u.piped = r.piped /\ u.pumped = r.pumped /\ u.written = s.written \o job.chunk
  BY <1>4, <1>5, <1>6 DEF States
<1>8. Off(s, r)
  BY <1>1 DEF r
<1>9. Begun(s, u, job)
  BY <1>7, <1>8 DEF Off, OnlyTable, Begun
<1>10. QED
  BY <1>3, <1>9 DEF u, job

LEMMA BegunSteady ==
  ASSUME NEW s \in States, NEW run, PipeInv(s, run), s.table.microtasks # <<>>,
         NEW job, job = Head(s.table.microtasks), job.kind = "write",
         job.promise \in Promises, job.chunk \in Seq(Nat), NEW u, Begun(s, u, job)
  PROVE  Steady(s, u, run) /\ Claimable(u, job.promise)
<1> DEFINE M == s.table.microtasks
           p == job.promise
<1>1. 1 \in DOMAIN M /\ job = M[1] /\ M \in Seq(Tasks \cup ReactionJobs)
  BY RestIs, StateTypes, TableTypes
<1>2. Names(s, run) /\ Flight(s) /\ PipeStands(s)
  BY DEF PipeInv
<1>3. /\ u \in States /\ u.readables = s.readables /\ u.readers = s.readers
      /\ u.writable = s.writable /\ u.writers = s.writers /\ u.sinks = s.sinks
      /\ u.piped = s.piped /\ u.pumped = s.pumped /\ u.written = s.written \o job.chunk
      /\ u.table.state = s.table.state /\ u.table.reactions = s.table.reactions
      /\ u.table.microtasks = Tail(M)
  BY DEF Begun
<1>4. CASE job.chunk = <<>>
  <2>1. u.written = s.written
    <3>1. s.written \in Seq(Nat)
      BY StateTypes
    <3>2. \A w \in Seq(Nat) : w \o <<>> = w
      OBVIOUS
    <3>3. QED
      BY <1>3, <1>4, <3>1, <3>2
  <2>2. Off(s, u)
    BY <1>3, <2>1 DEF Off, OnlyTable
  <2>3. ~IsWrite(Head(M))
    BY <1>4 DEF IsWrite
  <2>4. Steady(s, u, run)
    BY <2>2, <2>3, RestSteady
  <2>5. JobAims(job, p)
    BY <1>4 DEF JobAims
  <2>6. Aimed(s.table, p)
    BY <1>1, <2>5 DEF Aimed
  <2>7. Claimable(s, p)
    BY <2>6, ClaimedClaimable
  <2>8. QED
    BY <2>4, <2>7 DEF Steady
<1>5. CASE job.chunk # <<>>
  <2>1. IsWrite(M[1])
    BY <1>1, <1>5 DEF IsWrite
  <2>2. Awaits(s.table, p)
    BY <1>1, <2>1 DEF Awaits
  <2>3. WaitsFor(s.table, p) /\ Is(s.table, p, "pending") /\ u.written = u.pumped
    BY <1>1, <1>2, <1>3, <2>1, <2>2 DEF Names, Flight
  <2>4. p # s.piped /\ ~Is(s.table, p, "absent")
    <3>1. s.piped # p
      BY <1>2, <2>2, PipeTypes DEF Names
    <3>2. QED
      BY <2>3, <3>1 DEF Is
  <2>5. /\ \A i \in DOMAIN Tail(M) : i + 1 \in DOMAIN M /\ Tail(M)[i] = M[i + 1] /\ i + 1 # 1
        /\ \A i, j \in DOMAIN Tail(M) : i + 1 = j + 1 => i = j
    <3>1. M # <<>>
      OBVIOUS
    <3> HIDE DEF M
    <3>2. QED
      BY <1>1, <3>1, TailIs
  <2>6. NoWrite(u.table)
    <3>1. \A i \in DOMAIN M : IsWrite(M[i]) => i = 1
      BY <1>1, <1>2, <2>1 DEF Flight, OneWrite
    <3> HIDE DEF M
    <3>2. QED
      BY <1>3, <2>5, <3>1 DEF NoWrite
  <2>7. \A q \in Promises : ~Awaits(u.table, q)
    BY <2>6 DEF Awaits, NoWrite
  <2>8. \A q \in Promises : Aimed(u.table, q) => Aimed(s.table, q)
    <3>1. \A i \in DOMAIN u.table.microtasks : \E j \in DOMAIN M : u.table.microtasks[i] = M[j]
      BY <1>3, <2>5
    <3>2. QED
      BY <1>3, <3>1 DEF Aimed
  <2>9. \A q \in Promises : Unclaimed(s, run, q) => Unclaimed(u, run, q)
    BY <1>3, <2>8 DEF Unclaimed, Held
  <2>10. Names(u, run)
    <3>1. \A q \in Promises : Is(u.table, q, "absent") \/ q = u.piped \/ Awaits(u.table, q) =>
            Unclaimed(u, run, q)
      BY <1>2, <1>3, <2>7, <2>9 DEF Names, Is
    <3>2. u.piped # Nothing => Exists(u.table, u.piped) /\ ~Awaits(u.table, u.piped)
      <4>1. u.piped # Nothing => u.piped \in Promises
        BY <1>3, StateTypes
      <4>2. QED
        BY <1>2, <1>3, <2>7, <4>1 DEF Names, Exists, Is
    <3>3. QED
      BY <2>7, <3>1, <3>2 DEF Names
  <2>11. OneToken(u.table)
    <3>1. OneToken(s.table)
      BY <1>2 DEF Flight
    <3>2. /\ \A q1, q2 \in Promises : WaitsFor(u.table, q1) /\ WaitsFor(u.table, q2) => q1 = q2
          /\ \A q \in Promises : \A k, l \in DOMAIN u.table.reactions[q] :
               u.table.reactions[q][k].kind = "pumped" /\ u.table.reactions[q][l].kind = "pumped" => k = l
          /\ \A q \in Promises : WaitsFor(u.table, q) <=> WaitsFor(s.table, q)
      BY <1>3, <3>1 DEF OneToken, WaitsFor
    <3>3. \A i \in DOMAIN M : ~IsToken(M[i])
      BY <2>3, <3>1 DEF OneToken
    <3>4. \A i \in DOMAIN u.table.microtasks : ~IsToken(u.table.microtasks[i])
      BY <1>3, <2>5, <3>3
    <3>5. QED
      BY <3>2, <3>4 DEF OneToken
  <2>12. Flight(u)
    <3>1. \A q \in Promises : WaitsFor(u.table, q) => Is(u.table, q, "pending")
      BY <1>2, <1>3 DEF Flight, WaitsFor, Is
    <3>2. OneWrite(u.table) /\ \A i \in DOMAIN u.table.microtasks : ~IsWrite(u.table.microtasks[i])
      BY <2>6 DEF OneWrite, NoWrite
    <3>3. QED
      BY <2>3, <2>11, <3>1, <3>2 DEF Flight
  <2>13. PipeStands(u)
    <3>1. ~NoWrite(s.table)
      BY <1>1, <2>1 DEF NoWrite
    <3>2. ~Idle(s)
      BY <3>1 DEF Idle
    <3>3. s.readables["source"].pipe # Nothing
      BY <1>2, <3>1 DEF PipeStands
    <3> DEFINE pipe == s.readables["source"].pipe
    <3>4. /\ pipe # Nothing /\ pipe.promise = s.piped /\ pipe.writing /\ ~pipe.closing
          /\ s.writable.source # "source" /\ s.piped # Nothing
          /\ ~Is(s.table, s.piped, "fulfilled") /\ s.readables["output"].pipe = Nothing
      BY <1>2, <3>2, <3>3 DEF PipeStands
    <3> HIDE DEF pipe
    <3>5. ~Is(u.table, u.piped, "fulfilled")
      BY <1>3, <3>4 DEF Is
    <3>6. QED
      BY <1>3, <3>4, <3>5 DEF PipeStands, pipe
  <2>14. \A q \in Promises : Claimable(s, q) => Claimable(u, q)
    BY <1>3, <2>7 DEF Claimable, Is
  <2>15. Claimable(u, p)
    BY <1>3, <2>4, <2>7 DEF Claimable, Is
  <2>16. QED
    BY <1>3, <2>10, <2>12, <2>13, <2>14, <2>15 DEF Steady, PipeInv
<1>6. QED
  BY <1>4, <1>5

\* A promise resolved with a value or an exception is settled, and one that is
\* resolved with a pending promise waits for it.
LEMMA ResolveIs ==
  ASSUME NEW s \in States, NEW p \in Promises
  PROVE  Resolve(s, p, Value) = Answer(s, p, FALSE) /\ Resolve(s, p, Throw) = Answer(s, p, TRUE)
<1>1. Value # Throw /\ Thenable # Value /\ Thenable # Throw /\ Value # p /\ Throw # p
  BY StreamsAssumption
<1>2. \A t : ~Is(t, p, "pending") =>
        /\ ResolveInto(t, p, Value) = t /\ ResolveInto(t, p, Throw) = t
        /\ Settle(t, p, FALSE) = t /\ Settle(t, p, TRUE) = t
  BY DEF ResolveInto, Settle
<1>3. \A t : Is(t, p, "pending") =>
        /\ ResolveInto(t, p, Value) = Settle(t, p, FALSE)
        /\ ResolveInto(t, p, Throw) = Settle(t, p, TRUE)
  BY <1>1 DEF ResolveInto
<1>4. ResolveInto(s.table, p, Value) = Settle(s.table, p, FALSE)
      /\ ResolveInto(s.table, p, Throw) = Settle(s.table, p, TRUE)
  BY <1>2, <1>3
<1>5. QED
  BY <1>4 DEF Resolve, Answer

LEMMA ResolveSinkIs ==
  ASSUME NEW s \in States, NEW p \in Promises, NEW sink \in Promises, p # sink,
         Is(s.table, sink, "pending")
  PROVE  Resolve(s, p, sink) \in {s, [s EXCEPT !.table = Subscribe(s.table, sink, PassThrough(p))]}
<1>1. sink # Value /\ sink # Throw /\ sink # Thenable
  BY StreamsAssumption
<1>2. CASE ~Is(s.table, p, "pending")
  <2>1. ResolveInto(s.table, p, sink) = s.table
    BY <1>2 DEF ResolveInto
  <2>2. Resolve(s, p, sink) = s
    BY <2>1 DEF Resolve, States
  <2>3. QED
    BY <2>2
<1>3. CASE Is(s.table, p, "pending")
  <2>1. ResolveInto(s.table, p, sink) = Subscribe(s.table, sink, PassThrough(p))
    BY <1>1, <1>3 DEF ResolveInto
  <2>2. QED
    BY <2>1 DEF Resolve
<1>4. QED
  BY <1>2, <1>3

LEMMA SubscribeSteady ==
  ASSUME NEW s \in States, NEW run, PipeInv(s, run), NEW p \in Promises, NEW x \in Reactions,
         x.kind # "pumped", \A q \in Promises : ReactionAims(x, q) => Claimable(s, q),
         NEW u, u = [s EXCEPT !.table = Subscribe(s.table, p, x)]
  PROVE  Steady(s, u, run) /\ OnlyTable(s, u) /\ u.table.state = s.table.state
<1> DEFINE t == Subscribe(s.table, p, x)
<1>1. t \in Tables /\ t.state = s.table.state
  BY ZenonT(90), SubscribeIs, StateTypes
<1>2. Tame(s, t)
  BY TameSubscribe
<1>3. u = [s EXCEPT !.table = t]
  OBVIOUS
<1> HIDE DEF t
<1>4. OnlyTable(s, u) /\ u.table = t
  BY ZenonT(90), <1>1, <1>3, TableChanges
<1>5. u \in States
  BY <1>4 DEF OnlyTable
<1>6. QED
  BY <1>1, <1>2, <1>4, <1>5, OnlyTableUndisturbed, TamePipe

\* A promise that a callback is going to return.
Owed(s, u) ==
  /\ u \in States /\ u.table = s.table /\ u.readables = s.readables /\ u.readers = s.readers
  /\ u.writable = s.writable /\ u.writers = s.writers
  /\ u.piped = s.piped /\ u.pumped = s.pumped /\ u.written = s.written

LEMMA OwedIs ==
  ASSUME NEW s \in States, NEW p \in Promises
  PROVE  LET u == [s EXCEPT !.sinks = @ \cup {p}] IN Owed(s, u) /\ u.sinks = s.sinks \cup {p}
BY DEF States, Owed

LEMMA OwingSteady ==
  ASSUME NEW s \in States, NEW run, PipeInv(s, run), HasRoom(s.table)
  PROVE  LET u == [Kept(s) EXCEPT !.sinks = @ \cup {NextPromise(s)}] IN
         /\ Steady(s, u, run) /\ Is(u.table, NextPromise(s), "pending")
         /\ NextPromise(s) \in Promises /\ ~Claimable(s, NextPromise(s))
         /\ Created(s, Kept(s)) /\ Owed(Kept(s), u)
<1> DEFINE p == NextPromise(s)
           k == Kept(s)
           u == [k EXCEPT !.sinks = @ \cup {p}]
<1>1. Created(s, k)
  BY KeptIs
<1> HIDE DEF k, p
<1>2. Steady(s, k, run) /\ p \in Promises /\ Claimable(k, p) /\ Is(k.table, p, "pending")
  BY <1>1, CreatedSteady DEF p
<1>3. ~Claimable(s, p)
  BY <1>1 DEF Created, Claimable, Is, p
<1>4. k \in States /\ PipeInv(k, run)
  BY <1>2 DEF Steady
<1>5. Owed(k, u) /\ u.sinks = k.sinks \cup {p}
  BY <1>2, <1>4, OwedIs
<1> HIDE DEF u
<1>6. u \in States /\ u.table = k.table
  BY <1>5 DEF Owed
<1>7. \A q \in Promises : Held(u, q) => Held(k, q) \/ Claimable(k, q)
  BY <1>2, <1>5 DEF Owed, Held
<1>8. Undisturbed(k, run, u, run)
  BY <1>5, <1>7 DEF Owed, Undisturbed, Unheld
<1>9. Tame(k, u.table)
  BY <1>4, <1>6, TameSame
<1>10. Steady(k, u, run)
  BY <1>4, <1>6, <1>8, <1>9, TamePipe
<1>11. Steady(s, u, run) /\ Is(u.table, p, "pending")
  BY <1>2, <1>6, <1>10, SteadyTrans
<1>12. QED
  BY <1>1, <1>2, <1>3, <1>5, <1>11 DEF u, k, p

LEMMA FlagIs ==
  ASSUME NEW s \in States, NEW r \in Readables
  PROVE  /\ LET u == [s EXCEPT !.readables[r].locked = FALSE] IN
            OnlyReadable(s, u, r) /\ u.readables[r] = [s.readables[r] EXCEPT !.locked = FALSE]
         /\ LET u == [s EXCEPT !.readables[r].pulling = FALSE] IN
            OnlyReadable(s, u, r) /\ u.readables[r] = [s.readables[r] EXCEPT !.pulling = FALSE]
<1> DEFINE open == [s.readables[r] EXCEPT !.locked = FALSE]
           calm == [s.readables[r] EXCEPT !.pulling = FALSE]
<1>1. s.readables[r] \in ReadableStates /\ s.readables \in [Readables -> ReadableStates]
  BY StateTypes
<1>2. open \in ReadableStates /\ calm \in ReadableStates
  BY <1>1 DEF ReadableStates
<1>3. /\ [s EXCEPT !.readables[r].locked = FALSE] = [s EXCEPT !.readables[r] = open]
      /\ [s EXCEPT !.readables[r].pulling = FALSE] = [s EXCEPT !.readables[r] = calm]
  BY <1>1 DEF States
<1>4. OnlyReadable(s, [s EXCEPT !.readables[r] = open], r)
      /\ [s EXCEPT !.readables[r] = open].readables[r] = open
  <2> HIDE DEF open
  <2>1. QED
    BY <1>2, ReadableChanges
<1>5. OnlyReadable(s, [s EXCEPT !.readables[r] = calm], r)
      /\ [s EXCEPT !.readables[r] = calm].readables[r] = calm
  <2> HIDE DEF calm
  <2>1. QED
    BY <1>2, ReadableChanges
<1>6. QED
  BY <1>3, <1>4, <1>5

LEMMA FlagSteady ==
  ASSUME NEW s \in States, NEW run, PipeInv(s, run), NEW r \in Readables
  PROVE  /\ Steady(s, [s EXCEPT !.readables[r].locked = FALSE], run)
         /\ Steady(s, [s EXCEPT !.readables[r].pulling = FALSE], run)
<1>1. s.readables[r] \in ReadableStates
  BY StreamTypes
<1>2. /\ [s.readables[r] EXCEPT !.locked = FALSE].pipe = s.readables[r].pipe
      /\ [s.readables[r] EXCEPT !.locked = FALSE].closing = s.readables[r].closing
      /\ [s.readables[r] EXCEPT !.locked = FALSE].queue = s.readables[r].queue
      /\ [s.readables[r] EXCEPT !.pulling = FALSE].pipe = s.readables[r].pipe
      /\ [s.readables[r] EXCEPT !.pulling = FALSE].closing = s.readables[r].closing
      /\ [s.readables[r] EXCEPT !.pulling = FALSE].queue = s.readables[r].queue
  BY <1>1 DEF ReadableStates
<1>3. Steady(s, [s EXCEPT !.readables[r].locked = FALSE], run)
  <2> DEFINE u == [s EXCEPT !.readables[r].locked = FALSE]
  <2>1. OnlyReadable(s, u, r) /\ u.readables[r] = [s.readables[r] EXCEPT !.locked = FALSE]
    BY FlagIs
  <2> HIDE DEF u
  <2>2. Steady(s, u, run)
    BY <1>2, <2>1, OnlyReadableSteady
  <2>3. QED
    BY <2>2 DEF u
<1>4. Steady(s, [s EXCEPT !.readables[r].pulling = FALSE], run)
  <2> DEFINE u == [s EXCEPT !.readables[r].pulling = FALSE]
  <2>1. OnlyReadable(s, u, r) /\ u.readables[r] = [s.readables[r] EXCEPT !.pulling = FALSE]
    BY FlagIs
  <2> HIDE DEF u
  <2>2. Steady(s, u, run)
    BY <1>2, <2>1, OnlyReadableSteady
  <2>3. QED
    BY <2>2 DEF u
<1>5. QED
  BY <1>3, <1>4

LEMMA WritableFlagIs ==
  ASSUME NEW s \in States
  PROVE  /\ OnlyWritable(s, [s EXCEPT !.writable.locked = FALSE])
         /\ [s EXCEPT !.writable.locked = FALSE].writable.source = s.writable.source
<1> DEFINE w == [s.writable EXCEPT !.locked = FALSE]
<1>1. w \in WritableStates /\ w.source = s.writable.source
  BY WritableTypes DEF WritableStates
<1>2. [s EXCEPT !.writable.locked = FALSE] = [s EXCEPT !.writable = w]
  BY DEF States
<1> HIDE DEF w
<1>3. QED
  BY ZenonT(90), <1>1, <1>2, WritableChanges

LEMMA TypesNow ==
  ASSUME TypeOK
  PROVE  /\ state \in States /\ running \in Tasks \cup {Nothing} /\ over \in BOOLEAN
         /\ program \in Programs /\ calls \in 0..MaxCalls
         /\ Streams \subseteq Readables
         /\ \A i \in DOMAIN state.readers : state.readers[i].stream \in Readables
BY ReaderTypes DEF TypeOK, Streams, Readables

\* The calls of the program leave the pipe as it is, or open it.
LEMMA ReadableCallKeepsPipe ==
  ASSUME TypeOK, PipeInv(state, running), ReadableCall
  PROVE  state' \in States /\ PipeInv(state', running')
<1>1. state \in States /\ Streams \subseteq Readables
      /\ \A i \in DOMAIN state.readers : state.readers[i].stream \in Readables
  BY TypesNow
<1>2. \A name : Calls(name) => HasRoom(state.table)
  BY DEF Calls, Room
<1>3. \A u : Steady(state, u, running) /\ Does(u) => state' \in States /\ PipeInv(state', running')
  BY DEF Does, Steady
<1>4. CASE GetReader
  <2>1. PICK r \in Streams : Calls("getReader") /\ Does(NewReader(state, r))
    BY <1>4 DEF GetReader
  <2>2. Steady(state, NewReader(state, r), running)
    BY <1>1, <1>2, <2>1, NewReaderSteady
  <2>3. QED
    BY <1>3, <2>1, <2>2
<1>5. CASE ReleaseReader
  <2>1. PICK i \in DOMAIN state.readers :
          Does([state EXCEPT !.readables[state.readers[i].stream].locked = FALSE])
    BY <1>5 DEF ReleaseReader
  <2>2. Steady(state, [state EXCEPT !.readables[state.readers[i].stream].locked = FALSE], running)
    BY <1>1, FlagSteady
  <2>3. QED
    BY <1>3, <2>1, <2>2
<1>6. CASE CallRead
  <2>1. PICK i \in DOMAIN state.readers : Calls("read") /\ Does(Read(state, i))
    BY <1>6 DEF CallRead
  <2>2. Steady(state, Read(state, i), running)
    BY <1>1, <1>2, <2>1, ReadSteady
  <2>3. QED
    BY <1>3, <2>1, <2>2
<1>7. CASE CallEnqueue
  <2>1. PICK r \in Streams : ~Refuses(state, r) /\ Does(EnqueueChunk(state, r))
    BY <1>7 DEF CallEnqueue
  <2>2. Steady(state, EnqueueChunk(state, r), running)
    BY <1>1, <2>1, EnqueueChunkSteady
  <2>3. QED
    BY <1>3, <2>1, <2>2
<1>8. CASE CallClose
  <2>1. PICK r \in Streams : Does(CloseStream(state, r))
    BY <1>8 DEF CallClose
  <2>2. Steady(state, CloseStream(state, r), running)
    BY <1>1, CloseStreamSteady
  <2>3. QED
    BY <1>3, <2>1, <2>2
<1>9. CASE CallError
  <2>1. PICK r \in Streams : Does(ErrorStream(state, r))
    BY <1>9 DEF CallError
  <2>2. Steady(state, ErrorStream(state, r), running)
    BY <1>1, ErrorStreamSteady
  <2>3. QED
    BY <1>3, <2>1, <2>2
<1>10. CASE CallCancel
  <2>1. PICK r \in Streams : Does(Cancel(state, r))
    BY <1>10 DEF CallCancel
  <2>2. Steady(state, Cancel(state, r), running)
    BY <1>1, CancelSteady
  <2>3. QED
    BY <1>3, <2>1, <2>2
<1>11. CASE PipeTo
  <2>1. HasRoom(state.table) /\ state.piped = Nothing /\ Does(StartPipe(state, "source"))
    BY <1>2, <1>11 DEF PipeTo
  <2>2. StartPipe(state, "source") \in States /\ PipeInv(StartPipe(state, "source"), running)
    BY <1>1, <2>1, StartPipeSteady
  <2>3. QED
    BY <2>1, <2>2 DEF Does
<1>12. QED
  BY <1>4, <1>5, <1>6, <1>7, <1>8, <1>9, <1>10, <1>11 DEF ReadableCall

LEMMA WritableCallKeepsPipe ==
  ASSUME TypeOK, PipeInv(state, running), WritableCall
  PROVE  state' \in States /\ PipeInv(state', running')
<1>1. state \in States
  BY TypesNow
<1>2. \A name : Calls(name) => HasRoom(state.table)
  BY DEF Calls, Room
<1>3. \A u : Steady(state, u, running) /\ Does(u) => state' \in States /\ PipeInv(state', running')
  BY DEF Does, Steady
<1> DEFINE p == NextPromise(state)
           g == Given(state)
<1>4. HasRoom(state.table) => /\ Steady(state, g, running) /\ g \in States /\ PipeInv(g, running)
                              /\ p \in Promises /\ Claimable(g, p)
  <2> SUFFICES ASSUME HasRoom(state.table)
               PROVE  /\ Steady(state, g, running) /\ g \in States /\ PipeInv(g, running)
                      /\ p \in Promises /\ Claimable(g, p)
    OBVIOUS
  <2>1. Created(state, g)
    BY <1>1, GivenIs
  <2> HIDE DEF g
  <2>2. Steady(state, g, running) /\ p \in Promises /\ Claimable(g, p)
    BY <1>1, <2>1, CreatedSteady
  <2>3. QED
    BY <2>2 DEF Steady
<1> HIDE DEF g, p
<1>5. CASE GetWriter
  <2>1. HasRoom(state.table) /\ Does(NewWriter(state))
    BY <1>2, <1>5 DEF GetWriter
  <2>2. Steady(state, NewWriter(state), running)
    BY <1>1, <2>1, NewWriterSteady
  <2>3. QED
    BY <1>3, <2>1, <2>2
<1>6. CASE ReleaseWriter
  <2> DEFINE u == [state EXCEPT !.writable.locked = FALSE]
  <2>1. Does(u)
    BY <1>6 DEF ReleaseWriter
  <2>2. OnlyWritable(state, u) /\ u.writable.source = state.writable.source
    BY <1>1, WritableFlagIs
  <2> HIDE DEF u
  <2>3. Steady(state, u, running)
    BY <1>1, <2>2, OnlyWritableSteady
  <2>4. QED
    BY <1>3, <2>1, <2>3
<1>7. CASE CallWrite
  <2>1. HasRoom(state.table) /\ Does(StartWrite(g, p, <<>>))
    BY <1>2, <1>7 DEF CallWrite, g, p
  <2>2. Steady(g, StartWrite(g, p, <<>>), running)
    BY <1>4, <2>1, StartWriteSteady
  <2>3. Steady(state, StartWrite(g, p, <<>>), running)
    BY <1>4, <2>1, <2>2, SteadyTrans
  <2>4. QED
    BY <1>3, <2>1, <2>3
<1>8. CASE CloseWriter
  <2>1. HasRoom(state.table) /\ Does(StartClose(g, p))
    BY <1>2, <1>8 DEF CloseWriter, g, p
  <2>2. Steady(g, StartClose(g, p), running)
    BY <1>4, <2>1, StartCloseSteady
  <2>3. Steady(state, StartClose(g, p), running)
    BY <1>4, <2>1, <2>2, SteadyTrans
  <2>4. QED
    BY <1>3, <2>1, <2>3
<1>9. CASE Abort
  <2> DEFINE u == [state EXCEPT !.writable.status = "errored"]
  <2>1. Does(u)
    BY <1>9 DEF Abort
  <2>2. OnlyWritable(state, u) /\ u.writable.source = state.writable.source
    BY <1>1, WritableStatusIs
  <2> HIDE DEF u
  <2>3. Steady(state, u, running)
    BY <1>1, <2>2, OnlyWritableSteady
  <2>4. QED
    BY <1>3, <2>1, <2>3
<1>10. CASE ErrorSink
  <2>1. Does(ErrorWritable(state))
    BY <1>10 DEF ErrorSink
  <2>2. Steady(state, ErrorWritable(state), running)
    BY <1>1, ErrorWritableSteady
  <2>3. QED
    BY <1>3, <2>1, <2>2
<1>11. QED
  BY <1>5, <1>6, <1>7, <1>8, <1>9, <1>10 DEF WritableCall

\* So do the tasks of the queue.
LEMMA RunTaskKeepsPipe ==
  ASSUME TypeOK, PipeInv(state, running), RunPull \/ RunPump \/ RunWrite \/ RunClose
  PROVE  state' \in States /\ PipeInv(state', running')
<1> DEFINE job == Head(state.table.microtasks)
           rest == RestOf(state)
<1>1. state \in States /\ Job = job /\ Rest = rest
  BY TypesNow DEF Job, Rest, RestOf
<1>2. running = Nothing /\ state.table.microtasks # <<>>
  BY <1>1 DEF RunPull, RunPump, RunWrite, RunClose, Begin
<1>3. /\ Off(state, rest) /\ job \in Tasks \cup ReactionJobs
      /\ 1 \in DOMAIN state.table.microtasks /\ job = state.table.microtasks[1]
  BY <1>1, <1>2, RestIs
<1>4. /\ job.kind \in {"pull", "pump"} => job.stream \in Readables
      /\ job.kind \in {"write", "closeWritable"} => job.promise \in Promises
  BY <1>3, JobTypes
<1>5. \A u : Steady(state, u, running) /\ Ran(u) => state' \in States /\ PipeInv(state', running')
  BY DEF Ran, Does, Steady
<1>6. \A u : Steady(state, u, running) /\ Invoke(u) /\ (\A q \in Promises : Runs(job, q) => Claimable(u, q))
        => state' \in States /\ PipeInv(state', running')
  <2> SUFFICES ASSUME NEW u, Steady(state, u, running), Invoke(u),
                      \A q \in Promises : Runs(job, q) => Claimable(u, q)
               PROVE  state' \in States /\ PipeInv(state', running')
    OBVIOUS
  <2>1. u \in States /\ PipeInv(u, running)
    BY DEF Steady
  <2> HIDE DEF job
  <2>2. PipeInv(u, job)
    BY <2>1, SwitchRun
  <2>3. state' = u /\ running' = job
    BY <1>1 DEF Invoke
  <2>4. QED
    BY <2>1, <2>2, <2>3
<1> HIDE DEF job, rest
<1>7. job.kind # "write" => Steady(state, rest, running)
  <2>1. job.kind # "write" => ~IsWrite(job)
    BY DEF IsWrite
  <2>2. QED
    BY <1>1, <1>2, <1>3, <2>1, RestSteady DEF job
<1>8. \A u : Steady(state, u, running) => u \in States /\ PipeInv(u, running)
  BY DEF Steady
<1>9. CASE RunPull
  <2>1. job.kind = "pull" /\ Invoke([rest EXCEPT !.readables[job.stream].pulling = FALSE])
    BY <1>1, <1>9 DEF RunPull, Begin
  <2>2. Steady(state, rest, running)
    BY <1>7, <2>1
  <2>3. Steady(rest, [rest EXCEPT !.readables[job.stream].pulling = FALSE], running)
    BY <1>4, <1>8, <2>1, <2>2, FlagSteady
  <2>4. Steady(state, [rest EXCEPT !.readables[job.stream].pulling = FALSE], running)
    BY <2>2, <2>3, SteadyTrans
  <2>5. \A q \in Promises : ~Runs(job, q)
    BY <2>1 DEF Runs
  <2>6. QED
    BY <1>6, <2>1, <2>4, <2>5
<1>10. CASE RunPump
  <2>1. job.kind = "pump" /\ Ran(Pump(rest, job.stream)) /\ HasRoom(state.table)
    BY <1>1, <1>10 DEF RunPump, Begin, Room
  <2>2. Steady(state, rest, running)
    BY <1>7, <2>1
  <2>3. HasRoom(rest.table)
    <3>1. rest.table.state = state.table.state
      BY <1>3 DEF Off
    <3>2. QED
      BY <2>1, <3>1 DEF HasRoom, Exists, Is
  <2>4. Steady(rest, Pump(rest, job.stream), running)
    BY <1>4, <1>8, <2>1, <2>2, <2>3, PumpSteady
  <2>5. Steady(state, Pump(rest, job.stream), running)
    BY <2>2, <2>4, SteadyTrans
  <2>6. QED
    BY <1>5, <2>1, <2>5
<1>11. CASE RunWrite
  <2> DEFINE begun == [rest EXCEPT !.written = @ \o job.chunk]
             p == job.promise
  <2>1. job.kind = "write"
    BY <1>1, <1>11 DEF RunWrite, Begin
  <2>2. Begun(state, begun, job) /\ job.chunk \in Seq(Nat) /\ p \in Promises
    BY <1>1, <1>2, <2>1, BegunIs DEF job, rest
  <2>3. IF program.callbacks THEN Invoke(begun)
        ELSE Ran(IF ~program.transform THEN Resolve(begun, p, Value)
                 ELSE IF Refuses(begun, "output") THEN Resolve(begun, p, Throw)
                 ELSE Resolve(EnqueueChunk(begun, "output"), p, Value))
    BY <1>1, <1>11 DEF RunWrite
  <2> HIDE DEF begun
  <2>4. Steady(state, begun, running) /\ Claimable(begun, p)
    BY <1>1, <1>2, <2>1, <2>2, BegunSteady DEF job
  <2>5. begun \in States /\ PipeInv(begun, running)
    BY <1>8, <2>4
  <2>6. CASE program.callbacks
    <3>1. \A q \in Promises : Runs(job, q) => Claimable(begun, q)
      BY <2>4 DEF Runs
    <3>2. QED
      BY <1>6, <2>3, <2>4, <2>6, <3>1
  <2>7. CASE ~program.callbacks
    <3> DEFINE e == EnqueueChunk(begun, "output")
    <3>1. /\ Steady(state, Resolve(begun, p, Value), running)
          /\ Steady(state, Resolve(begun, p, Throw), running)
      <4>1. Steady(begun, Answer(begun, p, FALSE), running) /\ Steady(begun, Answer(begun, p, TRUE), running)
        BY <2>2, <2>4, <2>5, AnswerSteady
      <4>2. Steady(state, Answer(begun, p, FALSE), running) /\ Steady(state, Answer(begun, p, TRUE), running)
        BY <2>4, <4>1, SteadyTrans
      <4>3. QED
        BY <2>2, <2>5, <4>2, ResolveIs
    <3>2. ~Refuses(begun, "output") => Steady(state, Resolve(e, p, Value), running)
      <4> SUFFICES ASSUME ~Refuses(begun, "output")
                   PROVE  Steady(state, Resolve(e, p, Value), running)
        OBVIOUS
      <4>1. Steady(begun, e, running)
        BY <2>5, EnqueueChunkSteady DEF Readables
      <4> HIDE DEF e
      <4>2. e \in States /\ PipeInv(e, running) /\ Claimable(e, p)
        BY <2>2, <2>4, <4>1 DEF Steady
      <4>3. Steady(e, Answer(e, p, FALSE), running)
        BY <2>2, <4>2, AnswerSteady
      <4>4. Steady(state, Answer(e, p, FALSE), running)
        BY <2>4, <4>1, <4>3, SteadyTrans
      <4>5. QED
        BY <2>2, <4>2, <4>4, ResolveIs
    <3> HIDE DEF e, p
    <3>3. QED
      BY <1>5, <2>3, <2>7, <3>1, <3>2 DEF e
  <2>8. QED
    BY <2>6, <2>7
<1>12. CASE RunClose
  <2>1. /\ job.kind = "closeWritable"
        /\ IF program.callbacks THEN Invoke(rest) ELSE Ran(FinishClose(rest, job.promise, FALSE))
    BY <1>1, <1>12 DEF RunClose, Begin
  <2>2. Steady(state, rest, running)
    BY <1>7, <2>1
  <2>3. job.promise \in Promises /\ Aimed(state.table, job.promise)
    BY <1>3, <1>4, <2>1 DEF Aimed, JobAims
  <2>4. Claimable(rest, job.promise) /\ rest \in States /\ PipeInv(rest, running)
    BY <1>8, <2>2, <2>3, ClaimedClaimable DEF Steady
  <2>5. CASE program.callbacks
    <3>1. \A q \in Promises : Runs(job, q) => Claimable(rest, q)
      BY <2>4 DEF Runs
    <3>2. QED
      BY <1>6, <2>1, <2>2, <2>5, <3>1
  <2>6. CASE ~program.callbacks
    <3>1. Steady(rest, FinishClose(rest, job.promise, FALSE), running)
      BY <2>3, <2>4, FinishCloseSteady
    <3>2. Steady(state, FinishClose(rest, job.promise, FALSE), running)
      BY <2>2, <3>1, SteadyTrans
    <3>3. QED
      BY <1>5, <2>1, <2>6, <3>2
  <2>7. QED
    BY <2>5, <2>6
<1>13. QED
  BY <1>9, <1>10, <1>11, <1>12

\* And what the callbacks return.
LEMMA ReturnKeepsPipe ==
  ASSUME TypeOK, PipeInv(state, running), PullReturns \/ SinkReturns
  PROVE  state' \in States /\ PipeInv(state', running')
<1>1. state \in States /\ running \in Tasks \cup {Nothing}
  BY TypesNow
<1>2. running # Nothing /\ running \in Tasks /\ running' = Nothing
  BY <1>1 DEF PullReturns, SinkReturns
<1>3. \A u : Steady(state, u, running) /\ state' = u => state' \in States /\ PipeInv(state', running')
  <2> SUFFICES ASSUME NEW u, Steady(state, u, running), state' = u
               PROVE  state' \in States /\ PipeInv(state', running')
    OBVIOUS
  <2>1. u \in States /\ PipeInv(u, running)
    BY DEF Steady
  <2>2. PipeInv(u, Nothing)
    BY <2>1, NothingRuns
  <2>3. QED
    BY <1>2, <2>1, <2>2
<1>4. Steady(state, state, running)
  BY <1>1, SteadySame
<1>5. CASE PullReturns
  <2>1. running.stream \in Readables /\ state' \in {ErrorStream(state, running.stream), state}
    BY <1>2, <1>5, JobTypes DEF PullReturns
  <2>2. Steady(state, ErrorStream(state, running.stream), running)
    BY <1>1, <2>1, ErrorStreamSteady
  <2>3. QED
    BY <1>3, <1>4, <2>1, <2>2
<1>6. CASE SinkReturns
  <2> DEFINE p == running.promise
             sink == NextPromise(state)
             owing == [Kept(state) EXCEPT !.sinks = @ \cup {sink}]
             u == [owing EXCEPT !.table = Subscribe(owing.table, sink, [kind |-> "finishClose", promise |-> p])]
  <2>1. running.kind \in {"write", "closeWritable"} /\ HasRoom(state.table)
    BY <1>6 DEF SinkReturns, Room
  <2>2. p \in Promises /\ Runs(running, p)
    BY <1>2, <2>1, JobTypes DEF Runs
  <2>3. Claimable(state, p)
    BY <2>2, ClaimedClaimable
  <2>4. \/ \E result \in {Value, Throw} : state' = Resolve(state, p, result)
        \/ state' = Resolve(owing, p, sink)
        \/ \E rejected \in BOOLEAN : state' = FinishClose(state, p, rejected)
        \/ state' = u
    <3>1. [owing EXCEPT !.table = Subscribe(@, sink, [kind |-> "finishClose", promise |-> p])] = u
      <4> HIDE DEF owing, sink, p
      <4>1. QED
        OBVIOUS
    <3> HIDE DEF u
    <3>2. QED
      BY <1>6, <3>1 DEF SinkReturns
  <2>5. /\ Steady(state, owing, running) /\ Is(owing.table, sink, "pending")
        /\ sink \in Promises /\ ~Claimable(state, sink)
    BY <1>1, <2>1, OwingSteady
  <2> HIDE DEF owing, sink
  <2>6. owing \in States /\ PipeInv(owing, running) /\ Claimable(owing, p) /\ sink # p
    BY <2>2, <2>3, <2>5 DEF Steady
  <2> HIDE DEF p
  <2>7. CASE \E result \in {Value, Throw} : state' = Resolve(state, p, result)
    <3>1. state' \in {Answer(state, p, FALSE), Answer(state, p, TRUE)}
      BY <1>1, <2>2, <2>7, ResolveIs
    <3>2. Steady(state, Answer(state, p, FALSE), running) /\ Steady(state, Answer(state, p, TRUE), running)
      BY <1>1, <2>2, <2>3, AnswerSteady
    <3>3. QED
      BY <1>3, <3>1, <3>2
  <2>8. CASE state' = Resolve(owing, p, sink)
    <3> DEFINE x == PassThrough(p)
               v == [owing EXCEPT !.table = Subscribe(owing.table, sink, x)]
    <3>1. state' \in {owing, v}
      BY <2>2, <2>5, <2>6, <2>8, ResolveSinkIs
    <3>2. x \in Reactions /\ x.kind # "pumped" /\ \A q \in Promises : ReactionAims(x, q) => q = p
      BY <2>2, ReactionTypes DEF PassThrough, Handler, ReactionAims
    <3> HIDE DEF x
    <3>3. Steady(owing, v, running)
      BY <2>5, <2>6, <3>2, SubscribeSteady
    <3>4. Steady(state, v, running)
      BY <2>5, <3>3, SteadyTrans
    <3>5. QED
      BY <1>3, <2>5, <3>1, <3>4
  <2>9. CASE \E rejected \in BOOLEAN : state' = FinishClose(state, p, rejected)
    <3>1. PICK rejected \in BOOLEAN : state' = FinishClose(state, p, rejected)
      BY <2>9
    <3>2. Steady(state, FinishClose(state, p, rejected), running)
      BY <1>1, <2>2, <2>3, FinishCloseSteady
    <3>3. QED
      BY <1>3, <3>1, <3>2
  <2>10. CASE state' = u
    <3> DEFINE x == [kind |-> "finishClose", promise |-> p]
    <3>1. x \in Reactions /\ x.kind # "pumped" /\ \A q \in Promises : ReactionAims(x, q) => q = p
      BY <2>2, ReactionTypes DEF ReactionAims
    <3>2. u = [owing EXCEPT !.table = Subscribe(owing.table, sink, x)]
      OBVIOUS
    <3> HIDE DEF x, u
    <3>3. Steady(owing, u, running)
      BY <2>5, <2>6, <3>1, <3>2, SubscribeSteady
    <3>4. Steady(state, u, running)
      BY <2>5, <3>3, SteadyTrans
    <3>5. QED
      BY <1>3, <2>10, <3>4
  <2>11. QED
    BY <2>4, <2>7, <2>8, <2>9, <2>10
<1>7. QED
  BY <1>5, <1>6

LEMMA ReactionKeepsPipe ==
  ASSUME TypeOK, PipeInv(state, running), RunReaction \/ SettleSink
  PROVE  state' \in States /\ PipeInv(state', running')
<1>1. state \in States
  BY TypesNow
<1>2. \A u : Steady(state, u, running) /\ state' = u /\ running' = running =>
        state' \in States /\ PipeInv(state', running')
  BY DEF Steady
<1>3. CASE RunReaction
  <2> DEFINE job == Head(state.table.microtasks)
             rest == RestOf(state)
  <2>1. Job = job /\ Rest = rest /\ state.table.microtasks # <<>> /\ job.kind = "reaction"
    BY <1>3 DEF Job, Rest, RestOf, RunReaction, Begin
  <2>2. /\ Off(state, rest) /\ job \in Tasks \cup ReactionJobs
        /\ 1 \in DOMAIN state.table.microtasks /\ job = state.table.microtasks[1]
    BY <1>1, <2>1, RestIs
  <2>3. job \in ReactionJobs
    BY <2>1, <2>2, JobTypes
  <2> DEFINE x == job.reaction
  <2>4. x \in Reactions /\ job.rejected \in BOOLEAN
        /\ x.kind \in {"handler", "pumped", "finishClose"}
        /\ (x.kind = "handler" => x.target \in Promises)
        /\ (x.kind = "pumped" => x.stream \in Readables)
        /\ (x.kind = "finishClose" => x.promise \in Promises)
    BY <2>3, JobTypes, ReactionTypes
  <2>5. ~IsWrite(job)
    BY <2>1 DEF IsWrite
  <2>6. /\ Steady(state, rest, running)
        /\ IsToken(job) => NoToken(rest.table) /\ (~job.rejected => rest.written = rest.pumped)
    BY <1>1, <2>1, <2>2, <2>5, RestSteady
  <2>7a. running' = running
    BY <1>3, <2>1, <2>4 DEF RunReaction, Ran, Does
  <2>7. \/ x.kind = "handler" /\ state' = [rest EXCEPT !.table = Alone(rest.table, job)]
        \/ x.kind = "pumped" /\ state' = FinishPipeWrite(rest, x.stream, job.rejected)
        \/ x.kind = "finishClose" /\ state' = FinishClose(rest, x.promise, job.rejected)
    BY <1>3, <2>1, <2>4 DEF RunReaction, Ran, Does
  <2>8. \A q \in Promises : ReactionAims(x, q) => Claimable(rest, q)
    <3> SUFFICES ASSUME NEW q \in Promises, ReactionAims(x, q) PROVE Claimable(rest, q)
      OBVIOUS
    <3>1. JobAims(job, q)
      BY <2>1 DEF JobAims
    <3>2. Aimed(state.table, q)
      BY <2>2, <3>1 DEF Aimed
    <3>3. Claimable(state, q)
      BY <3>2, ClaimedClaimable
    <3>4. QED
      BY <2>6, <3>3 DEF Steady
  <2>9. rest \in States /\ PipeInv(rest, running)
    BY <2>6 DEF Steady
  <2>10. x.kind = "pumped" => IsToken(job)
    BY <2>1 DEF IsToken
  <2> HIDE DEF rest, job, x
  <2>11. CASE x.kind = "handler" /\ state' = [rest EXCEPT !.table = Alone(rest.table, job)]
    <3>1. x.target \in Promises /\ Claimable(rest, x.target)
      BY <2>4, <2>8, <2>11 DEF ReactionAims
    <3>2. Alone(rest.table, job) = Settle(rest.table, x.target, job.rejected)
      BY <2>4, <2>11 DEF Alone, x
    <3>3. state' = Answer(rest, x.target, job.rejected)
      BY <2>11, <3>2 DEF Answer
    <3>4. Steady(rest, Answer(rest, x.target, job.rejected), running)
      BY <2>4, <2>9, <3>1, AnswerSteady
    <3>5. Steady(state, Answer(rest, x.target, job.rejected), running)
      BY <2>6, <3>4, SteadyTrans
    <3>6. QED
      BY <1>2, <2>7a, <3>3, <3>5
  <2>12. CASE x.kind = "pumped" /\ state' = FinishPipeWrite(rest, x.stream, job.rejected)
    <3>1. Steady(rest, FinishPipeWrite(rest, x.stream, job.rejected), running)
      BY <2>4, <2>6, <2>9, <2>10, <2>12, FinishPipeWriteSteady
    <3>2. Steady(state, FinishPipeWrite(rest, x.stream, job.rejected), running)
      BY <2>6, <3>1, SteadyTrans
    <3>3. QED
      BY <1>2, <2>7a, <2>12, <3>2
  <2>13. CASE x.kind = "finishClose" /\ state' = FinishClose(rest, x.promise, job.rejected)
    <3>1. x.promise \in Promises /\ Claimable(rest, x.promise)
      BY <2>4, <2>8, <2>13 DEF ReactionAims
    <3>2. Steady(rest, FinishClose(rest, x.promise, job.rejected), running)
      BY <2>4, <2>9, <3>1, FinishCloseSteady
    <3>3. Steady(state, FinishClose(rest, x.promise, job.rejected), running)
      BY <2>6, <3>2, SteadyTrans
    <3>4. QED
      BY <1>2, <2>7a, <2>13, <3>3
  <2>14. QED
    BY <2>7, <2>11, <2>12, <2>13
<1>4. CASE SettleSink
  <2>1. PICK p \in state.sinks, rejected \in BOOLEAN : Ran(Answer(state, p, rejected))
    BY <1>4 DEF SettleSink
  <2>2. p \in Promises /\ Claimable(state, p)
    <3>1. p \in Promises /\ Held(state, p)
      BY <1>1, StateTypes DEF Held
    <3>2. QED
      BY <3>1, ClaimedClaimable
  <2>3. Steady(state, Answer(state, p, rejected), running)
    BY <1>1, <2>2, AnswerSteady
  <2>4. QED
    BY <1>2, <2>1, <2>3 DEF Ran, Does
<1>5. QED
  BY <1>3, <1>4

-----------------------------------------------------------------------------
(* Theorems on the types and the pipe. *)

LEMMA EmptyTables ==
  /\ AllStreams \in States /\ PipeInv(AllStreams, Nothing)
  /\ AllStreams.readers = <<>>
  /\ \A r \in Readables : AllStreams.readables[r] = NewReadable
<1> DEFINE s == AllStreams
<1>1. NoPromises \in Tables
  <2>1. [p \in Promises |-> <<>>] \in [Promises -> Seq(Reactions)]
    OBVIOUS
  <2>2. [p \in Promises |-> "absent"] \in [Promises -> PromiseStates]
    BY DEF PromiseStates
  <2>3. <<>> \in Seq(Tasks \cup ReactionJobs)
    OBVIOUS
  <2>4. QED
    BY <2>1, <2>2, <2>3 DEF NoPromises, Tables
<1>2. NewReadable \in ReadableStates
  BY DEF NewReadable, ReadableStates
<1>3. [r \in Readables |-> NewReadable] \in [Readables -> ReadableStates]
  BY <1>2
<1>4. [status |-> "writable", locked |-> FALSE, source |-> Nothing] \in WritableStates
  BY DEF WritableStates
<1>5. s \in States
  <2>1. <<>> \in Seq(ReaderStates) /\ <<>> \in Seq(Promises) /\ <<>> \in Seq(Nat)
    OBVIOUS
  <2> DEFINE t == NoPromises
             f == [r \in Readables |-> NewReadable]
             w == [status |-> "writable", locked |-> FALSE, source |-> Nothing]
  <2>2. t \in Tables /\ f \in [Readables -> ReadableStates] /\ w \in WritableStates
    BY <1>1, <1>3, <1>4
  <2>3. s = [table |-> t, readables |-> f, readers |-> <<>>, writable |-> w,
             writers |-> <<>>, sinks |-> {}, piped |-> Nothing, pumped |-> <<>>, written |-> <<>>]
    BY DEF AllStreams
  <2> HIDE DEF t, f, w, s
  <2>4. QED
    BY <2>1, <2>2, <2>3 DEF States
<1>6. /\ s.table = NoPromises /\ s.readers = <<>> /\ s.writers = <<>> /\ s.sinks = {}
      /\ s.piped = Nothing /\ s.pumped = <<>> /\ s.written = <<>>
      /\ s.writable.source = Nothing
      /\ \A r \in Readables : s.readables[r] = NewReadable
  BY DEF AllStreams
<1>7. /\ s.table.microtasks = <<>> /\ \A p \in Promises : s.table.reactions[p] = <<>>
  BY <1>6 DEF NoPromises
<1> HIDE DEF s
<1>8. /\ \A i \in DOMAIN s.table.microtasks : FALSE
      /\ \A p \in Promises : \A k \in DOMAIN s.table.reactions[p] : FALSE
  BY <1>7
<1>9. /\ \A p \in Promises : ~WaitsFor(s.table, p) /\ ~Awaits(s.table, p) /\ ~Aimed(s.table, p)
  BY <1>8 DEF WaitsFor, Awaits, Aimed
<1>10. Names(s, Nothing)
  <2>1. \A p \in Promises : ~Held(s, p) /\ ~Runs(Nothing, p)
    BY <1>6 DEF Held, Runs
  <2>2. QED
    BY <1>6, <1>9, <2>1 DEF Names, Unclaimed
<1>11. Flight(s)
  <2>1. OneToken(s.table) /\ OneWrite(s.table)
    BY <1>8, <1>9 DEF OneToken, OneWrite
  <2>2. QED
    BY <1>6, <1>8, <1>9, <2>1 DEF Flight
<1>12. PipeStands(s)
  <2>1. NoToken(s.table) /\ NoWrite(s.table)
    BY <1>8, <1>9 DEF NoToken, NoWrite
  <2>2. \A r \in Readables : s.readables[r].pipe = Nothing
    BY <1>6 DEF NewReadable
  <2>3. s.writable.source # "source"
    BY <1>6, StreamsAssumption DEF Readables
  <2>4. QED
    BY <1>6, <2>1, <2>2, <2>3 DEF PipeStands, Readables
<1>13. QED
  BY <1>5, <1>6, <1>10, <1>11, <1>12 DEF PipeInv, s

LEMMA PipeStep ==
  ASSUME TypeOK, PipeInv(state, running), StreamsNext
  PROVE  state' \in States /\ PipeInv(state', running')
<1>1. CASE Call
  BY <1>1, ReadableCallKeepsPipe, WritableCallKeepsPipe DEF Call
<1>2. CASE LoopStep
  <2>1. CASE Report
    <3>1. state' = state /\ running' = running /\ state \in States
      BY <2>1, TypesNow DEF Report
    <3>2. QED
      BY <3>1
  <2>2. QED
    BY <1>2, <2>1, RunTaskKeepsPipe, ReturnKeepsPipe, ReactionKeepsPipe DEF LoopStep
<1>3. CASE SettleSink
  BY <1>3, ReactionKeepsPipe
<1>4. QED
  BY <1>1, <1>2, <1>3 DEF StreamsNext

LEMMA OthersTyped ==
  ASSUME TypeOK, StreamsNext
  PROVE  running' \in Tasks \cup {Nothing} /\ over' \in BOOLEAN
         /\ program' \in Programs /\ calls' \in 0..MaxCalls
<1>1. /\ state \in States /\ running \in Tasks \cup {Nothing} /\ over \in BOOLEAN
      /\ program \in Programs /\ calls \in 0..MaxCalls /\ MaxCalls \in Nat
  BY TypesNow, StreamsAssumption
<1>2. \A name, u : Calls(name) /\ Does(u) =>
        /\ running' \in Tasks \cup {Nothing} /\ over' \in BOOLEAN
        /\ program' \in Programs /\ calls' \in 0..MaxCalls
  BY <1>1 DEF Calls, Does
<1>3. \A u : Ran(u) =>
        /\ running' \in Tasks \cup {Nothing} /\ over' \in BOOLEAN
        /\ program' \in Programs /\ calls' \in 0..MaxCalls
  BY <1>1 DEF Ran, Does
<1>4. \A kind, u : Begin(kind) /\ kind \in {"pull", "write", "closeWritable"} /\ Invoke(u) =>
        /\ running' \in Tasks \cup {Nothing} /\ over' \in BOOLEAN
        /\ program' \in Programs /\ calls' \in 0..MaxCalls
  <2> SUFFICES ASSUME NEW kind \in {"pull", "write", "closeWritable"}, NEW u, Begin(kind), Invoke(u)
               PROVE  /\ running' \in Tasks \cup {Nothing} /\ over' \in BOOLEAN
                      /\ program' \in Programs /\ calls' \in 0..MaxCalls
    OBVIOUS
  <2>1. Job \in Tasks \cup ReactionJobs /\ Job.kind = kind
    BY <1>1, RestIs DEF Begin, Job
  <2>2. Job \in Tasks
    BY <2>1, JobTypes
  <2>3. QED
    BY <1>1, <2>2 DEF Invoke
<1>5. CASE Call
  BY <1>2, <1>5 DEF Call, ReadableCall, WritableCall, GetReader, ReleaseReader, CallRead, CallEnqueue,
     CallClose, CallError, CallCancel, PipeTo, GetWriter, ReleaseWriter, CallWrite, CloseWriter,
     Abort, ErrorSink
<1>6. CASE RunPull \/ RunPump \/ RunWrite \/ RunClose
  BY <1>3, <1>4, <1>6 DEF RunPull, RunPump, RunWrite, RunClose
<1>7. CASE PullReturns \/ SinkReturns \/ Report
  BY <1>1, <1>7 DEF PullReturns, SinkReturns, Report
<1>8. CASE RunReaction
  <2>1. Job.kind = "reaction" /\ Job \in Tasks \cup ReactionJobs
    BY <1>1, <1>8, RestIs DEF RunReaction, Begin, Job
  <2>2. Job.reaction.kind \in {"handler", "pumped", "finishClose"}
    BY <2>1, JobTypes, ReactionTypes
  <2>3. over' \in BOOLEAN /\ running' = running /\ program' = program /\ calls' = calls
    BY <1>1, <1>8, <2>2 DEF RunReaction, Ran, Does
  <2>4. QED
    BY <1>1, <2>3
<1>9. CASE SettleSink
  BY <1>3, <1>9 DEF SettleSink
<1>10. QED
  BY <1>5, <1>6, <1>7, <1>8, <1>9 DEF StreamsNext, LoopStep

LEMMA PipeInvariant == StreamsSpec => [](TypeOK /\ PipeInv(state, running))
<1>1. StreamsInit => TypeOK /\ PipeInv(state, running)
  <2> SUFFICES ASSUME StreamsInit PROVE TypeOK /\ PipeInv(state, running)
    OBVIOUS
  <2>1. state \in States /\ PipeInv(state, running)
    BY EmptyTables DEF StreamsInit
  <2>2. running = Nothing /\ over = FALSE /\ program \in Programs /\ calls \in 0..MaxCalls
    BY StreamsAssumption DEF StreamsInit
  <2>3. QED
    BY <2>1, <2>2 DEF TypeOK
<1>2. TypeOK /\ PipeInv(state, running) /\ [StreamsNext]_vars => (TypeOK /\ PipeInv(state, running))'
  <2> SUFFICES ASSUME TypeOK, PipeInv(state, running), [StreamsNext]_vars
               PROVE  (TypeOK /\ PipeInv(state, running))'
    OBVIOUS
  <2>1. CASE StreamsNext
    BY <2>1, PipeStep, OthersTyped DEF TypeOK
  <2>2. CASE UNCHANGED vars
    <3>1. TypeOK'
      BY <2>2 DEF vars, TypeOK
    <3>2. PipeInv(state', running')
      BY <2>2 DEF vars
    <3>3. QED
      BY <3>1, <3>2
  <2>3. QED
    BY <2>1, <2>2
<1>3. QED
  BY <1>1, <1>2, PTL DEF StreamsSpec

\* What the tables, the callback on the stack and the counters are made of,
\* whatever the program and however often tasks, callbacks and the program's own
\* jobs alternate.
THEOREM TypeCorrect == StreamsSpec => []TypeOK
BY PipeInvariant, PTL

\* A pipe writes what it takes, in that order and with one chunk in flight, however
\* often pump is woken and whoever else writes, closes, aborts or errors the
\* destination; it fulfils its promise only when the source has ended and every
\* chunk has been written (pump, start_pipe_write, finish_pipe_write, finish_close).
THEOREM PipeStaysFaithful == StreamsSpec => []PipeIsFaithful
<1>1. TypeOK /\ PipeInv(state, running) => PipeIsFaithful
  <2> SUFFICES ASSUME TypeOK, PipeInv(state, running) PROVE PipeIsFaithful
    OBVIOUS
  <2>1. /\ state \in States /\ Flight(state) /\ PipeStands(state)
        /\ state.pumped \in Seq(Nat) /\ state.written \in Seq(Nat)
    BY StateTypes, TypesNow DEF PipeInv
  <2> DEFINE w == state.written
             v == state.pumped
  <2>2. w = v \/ \E n \in Nat : v = Append(w, n)
    BY <2>1 DEF Flight
  <2>3. IsPrefix(w, v) /\ Len(v) <= Len(w) + 1
    <3>1. w \in Seq(Nat) /\ v \in Seq(Nat)
      BY <2>1
    <3> HIDE DEF w, v
    <3>2. CASE w = v
      BY <3>1, <3>2 DEF IsPrefix
    <3>3. CASE \E n \in Nat : v = Append(w, n)
      <4>1. PICK n \in Nat : v = Append(w, n)
        BY <3>3
      <4>2. Len(v) = Len(w) + 1 /\ Len(w) \in Nat
        BY <3>1, <4>1
      <4>3. \A i \in 1..Len(w) : v[i] = w[i]
        BY <3>1, <4>1
      <4>4. SubSeq(w, 1, Len(w)) = SubSeq(v, 1, Len(w))
        BY <3>1, <4>2, <4>3
      <4>5. QED
        BY <4>2, <4>3, <4>4 DEF IsPrefix
    <3>4. QED
      BY <2>2, <3>2, <3>3
  <2>4. QED
    BY <2>1, <2>3 DEF PipeStands, PipeIsFaithful
<1>2. QED
  BY <1>1, PipeInvariant, PTL

-----------------------------------------------------------------------------
(* The chunks and the readers. *)

\* Served, but for the end of the streams in X.
Partly(s, X) ==
  /\ \A r \in Readables : StreamChunks(s.readables[r]) /\ (r \notin X => StreamEnds(s, r))
  /\ \A i \in DOMAIN s.readers :
       ReaderWaits(s, i) /\ ReaderHears(s, i) /\ Exists(s.table, s.readers[i].closed)

\* Promises that exist and those that are settled remain so.
Later(t, u) ==
  \A p \in Promises : ~Is(t, p, "absent") =>
    ~Is(u, p, "absent") /\ (~Is(t, p, "pending") => ~Is(u, p, "pending"))

SameChunks(stream, other) ==
  /\ other.taken = stream.taken /\ other.queue = stream.queue /\ other.sent = stream.sent
  /\ other.dropped = stream.dropped /\ other.closing = stream.closing
  /\ other.status = stream.status

\* The step leaves chunks and readers alone.
Beside(s, u) ==
  /\ \A r \in Readables : SameChunks(s.readables[r], u.readables[r])
  /\ u.readers = s.readers /\ (s.pumped # <<>> => u.pumped # <<>>)
  /\ Later(s.table, u.table)

LEMMA PartlyServed ==
  ASSUME NEW s
  PROVE  /\ Served(s) <=> Partly(s, {})
         /\ \A X : Served(s) => Partly(s, X)
BY DEF Served, Partly

LEMMA BesideTrans ==
  ASSUME NEW s, NEW u, NEW v, Beside(s, u), Beside(u, v)
  PROVE  Beside(s, v)
<1>1. Later(s.table, v.table)
  BY DEF Beside, Later
<1>2. \A r \in Readables : SameChunks(s.readables[r], v.readables[r])
  BY DEF Beside, SameChunks
<1>3. QED
  BY <1>1, <1>2 DEF Beside

LEMMA BesideSame ==
  ASSUME NEW s
  PROVE  Beside(s, s)
BY DEF Beside, SameChunks, Later

LEMMA BesidePartly ==
  ASSUME NEW s \in States, NEW u, Beside(s, u), NEW X, Partly(s, X)
  PROVE  Partly(u, X)
<1>1. \A r \in Readables : SameChunks(s.readables[r], u.readables[r])
  BY DEF Beside
<1>2. \A r \in Readables : StreamChunks(u.readables[r])
  <2> TAKE r \in Readables
  <2>1. StreamChunks(s.readables[r]) /\ SameChunks(s.readables[r], u.readables[r])
    BY <1>1 DEF Partly
  <2>2. QED
    BY <2>1 DEF StreamChunks, SameChunks
<1>3. \A r \in Readables : r \notin X => StreamEnds(u, r)
  BY <1>1 DEF Partly, StreamEnds, SameChunks, Beside
<1>4. u.readers = s.readers
  BY DEF Beside
<1>5. \A i \in DOMAIN u.readers :
        ReaderWaits(u, i) /\ ReaderHears(u, i) /\ Exists(u.table, u.readers[i].closed)
  <2> TAKE i \in DOMAIN u.readers
  <2>1. s.readers[i].stream \in Readables /\ s.readers[i].closed \in Promises
    BY <1>4, ReaderTypes
  <2>2. ReaderWaits(s, i) /\ ReaderHears(s, i) /\ Exists(s.table, s.readers[i].closed)
    BY <1>4 DEF Partly
  <2>3. ReaderWaits(u, i)
    BY <1>1, <1>4, <2>1, <2>2 DEF ReaderWaits, SameChunks
  <2>4. Exists(u.table, u.readers[i].closed)
        /\ (~Is(s.table, s.readers[i].closed, "pending") => ~Is(u.table, s.readers[i].closed, "pending"))
    BY <1>4, <2>1, <2>2 DEF Beside, Later, Exists
  <2>5. ReaderHears(u, i)
    BY <1>1, <1>4, <2>1, <2>2, <2>4 DEF ReaderHears, SameChunks
  <2>6. QED
    BY <2>3, <2>4, <2>5
<1>6. QED
  BY <1>2, <1>3, <1>5 DEF Partly

LEMMA BesideServed ==
  ASSUME NEW s \in States, NEW u, Beside(s, u), Served(s)
  PROVE  Served(u)
BY PartlyServed, BesidePartly

LEMMA LaterAfter ==
  ASSUME NEW t \in Tables, NEW X, NEW u \in After(t, X)
  PROVE  Later(t, u)
<1>1. \A p \in Promises : u.state[p] = t.state[p]
        \/ (t.state[p] = "pending" /\ u.state[p] \in {"fulfilled", "rejected"})
  BY DEF After
<1>2. QED
  BY <1>1 DEF Later, Is

LEMMA LaterSame ==
  ASSUME NEW t, NEW u, u.state = t.state
  PROVE  Later(t, u)
BY DEF Later, Is

LEMMA OnlyTableBeside ==
  ASSUME NEW s, NEW u, OnlyTable(s, u), Later(s.table, u.table)
  PROVE  Beside(s, u)
BY DEF OnlyTable, Beside, SameChunks

LEMMA OnlyWritableBeside ==
  ASSUME NEW s, NEW u, OnlyWritable(s, u)
  PROVE  Beside(s, u)
BY DEF OnlyWritable, Beside, SameChunks, Later

LEMMA OwedBeside ==
  ASSUME NEW s, NEW u, Owed(s, u)
  PROVE  Beside(s, u)
BY DEF Owed, Beside, SameChunks, Later

LEMMA OnlyReadableBeside ==
  ASSUME NEW s \in States, NEW r \in Readables, NEW u, OnlyReadable(s, u, r),
         SameChunks(s.readables[r], u.readables[r])
  PROVE  Beside(s, u)
<1>1. \A q \in Readables : q # r => u.readables[q] = s.readables[q]
  BY StateTypes DEF OnlyReadable
<1>2. \A q \in Readables : SameChunks(s.readables[q], u.readables[q])
  BY <1>1 DEF SameChunks
<1>3. Later(s.table, u.table)
  BY LaterSame DEF OnlyReadable
<1>4. QED
  BY <1>2, <1>3 DEF OnlyReadable, Beside

LEMMA CreatedBeside ==
  ASSUME NEW s \in States, NEW u, Created(s, u)
  PROVE  Beside(s, u)
<1>1. s.table.state \in [Promises -> PromiseStates]
  BY StateTypes, TableTypes
<1>2. \A p \in Promises : s.table.state[p] # "absent" => u.table.state[p] = s.table.state[p]
  BY <1>1 DEF Created
<1>3. Later(s.table, u.table)
  BY <1>2 DEF Later, Is
<1>4. QED
  BY <1>3, OnlyTableBeside DEF Created

LEMMA AnswerBeside ==
  ASSUME NEW s \in States, NEW p \in Promises, NEW rejected \in BOOLEAN
  PROVE  Beside(s, Answer(s, p, rejected)) /\ Answer(s, p, rejected) \in States
<1>1. /\ OnlyTable(s, Answer(s, p, rejected))
      /\ Answer(s, p, rejected).table \in After(s.table, {p})
  BY AnswerIs
<1>2. Later(s.table, Answer(s, p, rejected).table)
  BY <1>1, LaterAfter, StateTypes
<1>3. QED
  BY <1>1, <1>2, OnlyTableBeside DEF OnlyTable

LEMMA AnswerAllBeside ==
  ASSUME NEW s \in States, NEW promises \in Seq(Promises), NEW rejected \in BOOLEAN
  PROVE  Beside(s, AnswerAll(s, promises, rejected)) /\ AnswerAll(s, promises, rejected) \in States
<1> DEFINE X == {p \in Promises : \E i \in DOMAIN promises : promises[i] = p}
           u == AnswerAll(s, promises, rejected)
<1>1. OnlyTable(s, u) /\ u.table \in After(s.table, X)
  BY AnswerAllIs
<1> HIDE DEF X, u
<1>2. Later(s.table, u.table)
  BY <1>1, LaterAfter, StateTypes
<1>3. QED
  BY <1>1, <1>2, OnlyTableBeside DEF OnlyTable, u

LEMMA ScheduleBeside ==
  ASSUME NEW s \in States, NEW job \in Tasks \cup ReactionJobs
  PROVE  Beside(s, Schedule(s, job)) /\ Schedule(s, job) \in States
<1>1. OnlyTable(s, Schedule(s, job)) /\ Schedule(s, job).table.state = s.table.state
  BY ScheduleIs
<1>2. QED
  BY <1>1, LaterSame, OnlyTableBeside DEF OnlyTable

LEMMA WakePipeBeside ==
  ASSUME NEW s \in States, NEW r \in Readables
  PROVE  Beside(s, WakePipe(s, r)) /\ WakePipe(s, r) \in States
BY BesideSame, ScheduleBeside, StreamJobs DEF WakePipe

LEMMA SchedulePullBeside ==
  ASSUME NEW s \in States, NEW r \in Readables
  PROVE  Beside(s, SchedulePull(s, r))
<1> DEFINE stream == [s.readables[r] EXCEPT !.pulling = TRUE]
           u == [s EXCEPT !.readables[r].pulling = TRUE]
           job == [kind |-> "pull", stream |-> r]
<1>1. s.readables[r] \in ReadableStates /\ s.readables \in [Readables -> ReadableStates]
  BY StateTypes
<1>2. stream \in ReadableStates /\ SameChunks(s.readables[r], stream)
  BY <1>1 DEF ReadableStates, SameChunks
<1>3. u = [s EXCEPT !.readables[r] = stream]
  BY <1>1 DEF States
<1> HIDE DEF stream, u
<1>4. OnlyReadable(s, u, r) /\ u.readables[r] = stream
  BY <1>2, <1>3, ReadableChanges
<1>5. Beside(s, u) /\ u \in States
  BY <1>2, <1>4, OnlyReadableBeside DEF OnlyReadable
<1>6. job \in Tasks \cup ReactionJobs
  BY StreamJobs
<1> HIDE DEF job
<1>7. Beside(u, Schedule(u, job))
  BY <1>5, <1>6, ScheduleBeside
<1>8. Beside(s, Schedule(u, job))
  BY <1>5, <1>7, BesideTrans
<1>9. SchedulePull(s, r) \in {s, Schedule(u, job)}
  BY DEF SchedulePull, u, job
<1>10. QED
  BY <1>8, <1>9, BesideSame

LEMMA SubscribeBeside ==
  ASSUME NEW s \in States, NEW p \in Promises, NEW x \in Reactions,
         NEW u, u = [s EXCEPT !.table = Subscribe(s.table, p, x)]
  PROVE  Beside(s, u)
<1> DEFINE t == Subscribe(s.table, p, x)
<1>1. t \in Tables /\ t.state = s.table.state
  BY ZenonT(90), SubscribeIs, StateTypes
<1>2. u = [s EXCEPT !.table = t]
  OBVIOUS
<1> HIDE DEF t
<1>3. OnlyTable(s, u) /\ u.table = t
  BY <1>1, <1>2, TableChanges
<1>4. QED
  BY <1>1, <1>3, LaterSame, OnlyTableBeside

LEMMA AcceptBeside ==
  ASSUME NEW s \in States, NEW p \in Promises, NEW job \in Tasks \cup ReactionJobs
  PROVE  Beside(s, Accept(s, p, job)) /\ Accept(s, p, job) \in States
BY AnswerBeside, ScheduleBeside DEF Accept

LEMMA StartWriteBeside ==
  ASSUME NEW s \in States, NEW p \in Promises, NEW chunk \in Seq(Nat)
  PROVE  Beside(s, StartWrite(s, p, chunk))
<1> DEFINE job == [kind |-> "write", promise |-> p, chunk |-> chunk]
<1>1. job \in Tasks \cup ReactionJobs
  BY JobTypes
<1>2. StartWrite(s, p, chunk) = Accept(s, p, job)
  BY DEF StartWrite
<1> HIDE DEF job
<1>3. QED
  BY <1>1, <1>2, AcceptBeside

LEMMA StartCloseBeside ==
  ASSUME NEW s \in States, NEW p \in Promises
  PROVE  Beside(s, StartClose(s, p))
<1> DEFINE job == [kind |-> "closeWritable", promise |-> p]
           asked == Accept(s, p, job)
           u == [asked EXCEPT !.writable.status = "closing"]
<1>1. job \in Tasks \cup ReactionJobs
  BY JobTypes
<1>2. StartClose(s, p) \in {u, asked}
  BY DEF StartClose
<1> HIDE DEF job
<1>3. Beside(s, asked) /\ asked \in States
  BY <1>1, AcceptBeside
<1> HIDE DEF asked
<1>4. OnlyWritable(asked, u)
  BY <1>3, WritableStatusIs
<1> HIDE DEF u
<1>5. Beside(asked, u)
  BY <1>4, OnlyWritableBeside
<1>6. Beside(s, u)
  BY <1>3, <1>5, BesideTrans
<1>7. QED
  BY <1>2, <1>3, <1>6

LEMMA ErrorWritableBeside ==
  ASSUME NEW s \in States
  PROVE  /\ Beside(s, ErrorWritable(s)) /\ ErrorWritable(s) \in States
         /\ ErrorWritable(s).readables = s.readables
<1> DEFINE w == [s.writable EXCEPT !.status = "errored", !.locked = FALSE]
           u == [s EXCEPT !.writable.status = "errored", !.writable.locked = FALSE]
<1>1. w \in WritableStates
  BY WritableTypes DEF WritableStates
<1>2. u = [s EXCEPT !.writable = w]
  BY DEF States
<1>3. ErrorWritable(s) = AnswerAll(u, s.writers, TRUE)
  BY DEF ErrorWritable
<1> HIDE DEF w, u
<1>4. OnlyWritable(s, u)
  BY <1>1, <1>2, WritableChanges
<1>5. u \in States /\ Beside(s, u) /\ s.writers \in Seq(Promises)
  BY <1>4, OnlyWritableBeside, StateTypes DEF OnlyWritable
<1>6. Beside(u, AnswerAll(u, s.writers, TRUE)) /\ AnswerAll(u, s.writers, TRUE) \in States
  BY <1>5, AnswerAllBeside
<1>7. OnlyTable(u, AnswerAll(u, s.writers, TRUE)) /\ u.readables = s.readables
  BY <1>4, <1>5, AnswerAllIs DEF OnlyWritable
<1>8. QED
  BY <1>3, <1>5, <1>6, <1>7, BesideTrans DEF OnlyTable

LEMMA PipedBeside ==
  ASSUME NEW s \in States, NEW u, NEW pipe, Piped(s, u, pipe)
  PROVE  Beside(s, u)
<1>1. s.readables["source"] \in ReadableStates /\ "source" \in Readables
  BY StreamTypes DEF Readables
<1>2. u.readables["source"] = [s.readables["source"] EXCEPT !.pipe = pipe] /\ OnlyReadable(s, u, "source")
  BY DEF Piped
<1>3. SameChunks(s.readables["source"], u.readables["source"])
  BY <1>1, <1>2 DEF ReadableStates, SameChunks
<1>4. QED
  BY <1>1, <1>2, <1>3, OnlyReadableBeside

LEMMA EndPipeBeside ==
  ASSUME NEW s \in States, s.readables["source"].pipe # Nothing, NEW rejected \in BOOLEAN
  PROVE  Beside(s, EndPipe(s, "source", rejected)) /\ EndPipe(s, "source", rejected) \in States
<1> DEFINE p == s.readables["source"].pipe.promise
           a == Answer(s, p, rejected)
           u == [a EXCEPT !.readables["source"].pipe = Nothing]
<1>1. p \in Promises
  <2>1. s.readables["source"].pipe \in Pipes
    BY StreamTypes DEF Readables
  <2>2. QED
    BY <2>1, PipeTypes
<1>2. EndPipe(s, "source", rejected) = u
  BY DEF EndPipe
<1> HIDE DEF p
<1>3. Beside(s, a) /\ a \in States
  BY <1>1, AnswerBeside
<1> HIDE DEF a
<1>4. Piped(a, u, Nothing)
  BY <1>3, PipedIs
<1>5. Beside(a, u)
  BY <1>3, <1>4, PipedBeside
<1>6. u \in States
  BY <1>4 DEF Piped, OnlyReadable
<1>7. QED
  BY <1>2, <1>3, <1>5, <1>6, BesideTrans

LEMMA FinishPipeWriteBeside ==
  ASSUME NEW s \in States, s.readables["output"].pipe = Nothing,
         NEW r \in Readables \cup {Nothing}, NEW rejected \in BOOLEAN
  PROVE  Beside(s, FinishPipeWrite(s, r, rejected)) /\ FinishPipeWrite(s, r, rejected) \in States
<1>1. CASE r = Nothing \/ (r # Nothing /\ s.readables[r].pipe = Nothing)
  BY <1>1, BesideSame DEF FinishPipeWrite
<1>2. CASE r # Nothing /\ s.readables[r].pipe # Nothing
  <2>1. r = "source"
    BY <1>2 DEF Readables
  <2> DEFINE pipe == s.readables["source"].pipe
             idle == [pipe EXCEPT !.writing = FALSE]
             u == [s EXCEPT !.readables["source"].pipe.writing = FALSE]
             job == [kind |-> "pump", stream |-> "source"]
  <2>2. pipe \in Pipes /\ "source" \in Readables /\ s.readables \in [Readables -> ReadableStates]
    BY <1>2, <2>1, StreamTypes, StateTypes DEF Readables
  <2>3. FinishPipeWrite(s, r, rejected) \in {EndPipe(u, "source", rejected), Schedule(u, job)}
    BY <1>2, <2>1 DEF FinishPipeWrite
  <2>4. idle \in Pipes
    <3> HIDE DEF pipe
    <3>1. QED
      BY <2>2 DEF Pipes
  <2>5. u = [s EXCEPT !.readables["source"].pipe = idle]
    BY <2>2 DEF States, ReadableStates
  <2>6. idle # Nothing /\ job \in Tasks \cup ReactionJobs
    BY <2>2, <2>4, PipeTypes, StreamJobs
  <2> HIDE DEF u, idle, job
  <2>7. Piped(s, u, idle)
    BY <2>4, <2>5, PipedIs
  <2>8. Beside(s, u) /\ u \in States /\ u.readables["source"].pipe # Nothing
    <3>1. Beside(s, u)
      BY <2>7, PipedBeside
    <3>2. u \in States /\ u.readables["source"].pipe = idle
      BY <2>7 DEF Piped, OnlyReadable
    <3>3. QED
      BY <2>6, <3>1, <3>2
  <2>9. /\ Beside(u, EndPipe(u, "source", rejected)) /\ EndPipe(u, "source", rejected) \in States
        /\ Beside(u, Schedule(u, job)) /\ Schedule(u, job) \in States
    BY <2>6, <2>8, EndPipeBeside, ScheduleBeside
  <2>10. QED
    BY <2>3, <2>8, <2>9, BesideTrans
<1>3. QED
  BY <1>1, <1>2

LEMMA PumpCloseBeside ==
  ASSUME NEW s \in States, s.readables["source"].pipe # Nothing, HasRoom(s.table)
  PROVE  Beside(s, PumpClose(s, "source"))
<1> DEFINE p == NextPromise(s)
           k == Kept(s)
           pipe == s.readables["source"].pipe
           half == [pipe EXCEPT !.writing = TRUE]
           busy == [half EXCEPT !.closing = TRUE]
           x == [k EXCEPT !.readables["source"].pipe.writing = TRUE]
           v == [x EXCEPT !.readables["source"].pipe.closing = TRUE]
           u == [v EXCEPT !.writable.source = "source"]
<1>1. Created(s, k)
  BY KeptIs
<1>2. PumpClose(s, "source") = StartClose(u, p)
  <2>1. PumpClose(s, "source") =
          StartClose([k EXCEPT !.readables["source"].pipe.writing = TRUE,
                               !.readables["source"].pipe.closing = TRUE,
                               !.writable.source = "source"], p)
    BY DEF PumpClose
  <2> HIDE DEF k, p
  <2>2. QED
    BY <2>1
<1> HIDE DEF k
<1>3. k \in States /\ k.readables = s.readables /\ Beside(s, k) /\ p \in Promises
  BY <1>1, CreatedBeside DEF Created, OnlyTable
<1> HIDE DEF p
<1>4. pipe \in Pipes /\ "source" \in Readables /\ k.readables \in [Readables -> ReadableStates]
  BY <1>3, StreamTypes, StateTypes DEF Readables
<1>5. half \in Pipes /\ busy \in Pipes
  <2> HIDE DEF pipe
  <2>1. QED
    BY <1>4 DEF Pipes
<1>6. x = [k EXCEPT !.readables["source"].pipe = half]
  BY <1>3, <1>4 DEF States, ReadableStates
<1>b. busy = [half EXCEPT !.closing = TRUE]
  OBVIOUS
<1> HIDE DEF busy, half, x
<1>7. Piped(k, x, half)
  BY <1>3, <1>5, <1>6, PipedIs
<1>8. x \in States /\ x.readables["source"].pipe = half
      /\ x.readables \in [Readables -> ReadableStates] /\ Beside(k, x)
  <2>1. x \in States
    BY <1>7 DEF Piped, OnlyReadable
  <2>2. x.readables["source"] = [k.readables["source"] EXCEPT !.pipe = half]
    BY <1>7 DEF Piped
  <2>3. k.readables["source"] \in ReadableStates
    BY <1>4
  <2>4. x.readables["source"].pipe = half
    BY <2>2, <2>3 DEF ReadableStates
  <2>5. Beside(k, x)
    BY <1>3, <1>7, PipedBeside
  <2>6. x.readables \in [Readables -> ReadableStates]
    BY <2>1, StateTypes
  <2>7. QED
    BY <2>1, <2>4, <2>5, <2>6
<1>9. v = [x EXCEPT !.readables["source"].pipe = busy]
  BY <1>4, <1>8, <1>b DEF States, ReadableStates
<1> HIDE DEF v
<1>10. Piped(x, v, busy)
  BY <1>5, <1>8, <1>9, PipedIs
<1>11. v \in States /\ Beside(x, v)
  <2>1. Beside(x, v)
    BY <1>8, <1>10, PipedBeside
  <2>2. QED
    BY <1>10, <2>1 DEF Piped, OnlyReadable
<1>12. OnlyWritable(v, u)
  BY <1>4, <1>11, SourceIs
<1> HIDE DEF u
<1>13. u \in States /\ Beside(v, u)
  BY <1>12, OnlyWritableBeside DEF OnlyWritable
<1>14. Beside(u, StartClose(u, p))
  BY <1>3, <1>13, StartCloseBeside
<1>15. Beside(s, x)
  BY <1>3, <1>8, BesideTrans
<1>16. Beside(s, v)
  BY <1>11, <1>15, BesideTrans
<1>17. Beside(s, u)
  BY <1>13, <1>16, BesideTrans
<1>18. QED
  BY <1>2, <1>14, <1>17, BesideTrans

LEMMA StartPipeBeside ==
  ASSUME NEW s \in States, HasRoom(s.table)
  PROVE  Beside(s, StartPipe(s, "source"))
<1> DEFINE p == NextPromise(s)
           g == Given(s)
           u == [g EXCEPT !.readables["source"].locked = TRUE,
                          !.readables["source"].pipe =
                            [promise |-> p, writing |-> FALSE, closing |-> FALSE],
                          !.piped = p]
<1>1. Created(s, g)
  BY GivenIs
<1>2. StartPipe(s, "source") = WakePipe(u, "source")
  BY DEF StartPipe
<1> HIDE DEF g
<1>3. Beside(s, g) /\ p \in Promises /\ g \in States
  BY <1>1, CreatedBeside DEF Created, OnlyTable
<1> HIDE DEF p
<1>4. Opened(g, u, p)
  BY <1>3, OpenedIs
<1> HIDE DEF u
<1>5. Beside(g, u) /\ u \in States
  <2>1. g.readables["source"] \in ReadableStates /\ g.readables \in [Readables -> ReadableStates]
        /\ "source" \in Readables
    BY <1>3, StateTypes DEF Readables
  <2>2. u.readables = [g.readables EXCEPT !["source"] = u.readables["source"]]
    BY <1>4 DEF Opened
  <2>3. SameChunks(g.readables["source"], u.readables["source"])
    <3> DEFINE x == [promise |-> p, writing |-> FALSE, closing |-> FALSE]
    <3>1. u.readables["source"] = [g.readables["source"] EXCEPT !.locked = TRUE, !.pipe = x]
      BY <1>4 DEF Opened
    <3> HIDE DEF x
    <3>2. QED
      BY <2>1, <3>1 DEF ReadableStates, SameChunks
  <2>4. \A r \in Readables : SameChunks(g.readables[r], u.readables[r])
    <3>1. \A r \in Readables : r # "source" => u.readables[r] = g.readables[r]
      BY <2>1, <2>2
    <3>2. QED
      BY <2>3, <3>1 DEF SameChunks
  <2>5. Later(g.table, u.table) /\ u.readers = g.readers /\ u.pumped = g.pumped /\ u \in States
    BY <1>4, LaterSame DEF Opened
  <2>6. QED
    BY <2>4, <2>5 DEF Beside
<1>6. Beside(u, WakePipe(u, "source"))
  BY <1>5, WakePipeBeside DEF Readables
<1>7. Beside(s, u)
  BY <1>3, <1>5, BesideTrans
<1>8. QED
  BY <1>2, <1>6, <1>7, BesideTrans

-----------------------------------------------------------------------------
(* Chunks that come and go, and the readers that wait for them. *)

LEMMA Moved ==
  ASSUME NEW w \in Seq(Nat), NEW q \in Seq(Nat), NEW n \in Nat
  PROVE  /\ q # <<>> => Append(w, Head(q)) \o Tail(q) = w \o q
         /\ w \o Append(q, n) = Append(w \o q, n)
         /\ q = <<>> => Append(w, n) \o q = Append(w \o q, n)
         /\ w \o <<>> = w /\ \A i \in DOMAIN w : (w \o q)[i] = w[i] /\ i \in DOMAIN (w \o q)
<1>1. q # <<>> => Append(w, Head(q)) \o Tail(q) = w \o q
  OBVIOUS
<1>2. w \o Append(q, n) = Append(w \o q, n)
  OBVIOUS
<1>3. Append(w, n) \o <<>> = Append(w \o <<>>, n) /\ w \o <<>> = w
  OBVIOUS
<1>4. \A i \in DOMAIN w : (w \o q)[i] = w[i] /\ i \in DOMAIN (w \o q)
  OBVIOUS
<1>5. QED
  BY <1>1, <1>2, <1>3, <1>4

\* A chunk changes hands, is added to the others, or goes with the queue.
LEMMA ChunksStay ==
  ASSUME NEW stream, NEW other, StreamChunks(stream),
         other.taken \o other.queue = stream.taken \o stream.queue,
         other.sent = stream.sent, other.dropped = stream.dropped
  PROVE  StreamChunks(other)
BY DEF StreamChunks

LEMMA ChunksGrow ==
  ASSUME NEW stream \in ReadableStates, NEW other, StreamChunks(stream),
         other.taken \o other.queue = Append(stream.taken \o stream.queue, stream.sent + 1),
         other.sent = stream.sent + 1, other.dropped = stream.dropped
  PROVE  StreamChunks(other)
<1> DEFINE c == stream.taken \o stream.queue
           d == other.taken \o other.queue
           n == stream.sent
<1>1. stream.taken \in Seq(Nat) /\ stream.queue \in Seq(Nat) /\ n \in Nat
  BY DEF ReadableStates
<1>2. c \in Seq(Nat) /\ d = Append(c, n + 1)
  BY <1>1
<1>3. /\ \A i, j \in DOMAIN c : i < j => c[i] < c[j]
      /\ \A i \in DOMAIN c : c[i] <= n
      /\ ~stream.dropped => Len(c) = n
  BY DEF StreamChunks
<1> HIDE DEF c, d, n
<1>4. Len(d) = Len(c) + 1 /\ d[Len(c) + 1] = n + 1 /\ DOMAIN d = 1..(Len(c) + 1)
      /\ DOMAIN c = 1..Len(c) /\ Len(c) \in Nat /\ \A i \in DOMAIN c : d[i] = c[i] /\ c[i] \in Nat
  BY <1>1, <1>2
<1>5. \A i \in DOMAIN d : d[i] <= n + 1
  <2> SUFFICES ASSUME NEW i \in DOMAIN d PROVE d[i] <= n + 1
    OBVIOUS
  <2>1. CASE i \in DOMAIN c
    <3>1. d[i] = c[i] /\ c[i] \in Nat /\ c[i] <= n
      BY <1>3, <1>4, <2>1
    <3>2. QED
      BY <1>1, <3>1
  <2>2. CASE i \notin DOMAIN c
    <3>1. i = Len(c) + 1
      BY <1>4, <2>2
    <3>2. QED
      BY <1>1, <1>4, <3>1
  <2>3. QED
    BY <2>1, <2>2
<1>6. \A i, j \in DOMAIN d : i < j => d[i] < d[j]
  <2> SUFFICES ASSUME NEW i \in DOMAIN d, NEW j \in DOMAIN d, i < j PROVE d[i] < d[j]
    OBVIOUS
  <2>1. i \in DOMAIN c
    BY <1>4
  <2>2. CASE j \in DOMAIN c
    BY <1>3, <1>4, <2>1, <2>2
  <2>3. CASE j \notin DOMAIN c
    <3>1. j = Len(c) + 1 /\ c[i] <= n /\ c[i] \in Nat
      BY <1>3, <1>4, <2>1, <2>3
    <3>2. QED
      BY <1>1, <1>4, <2>1, <3>1
  <2>4. QED
    BY <2>2, <2>3
<1>7. QED
  BY <1>3, <1>4, <1>5, <1>6 DEF StreamChunks, d, n

LEMMA ChunksDrop ==
  ASSUME NEW stream \in ReadableStates, NEW other, StreamChunks(stream),
         other.taken = stream.taken, other.queue = <<>>, other.sent = stream.sent, other.dropped
  PROVE  StreamChunks(other)
<1> DEFINE w == stream.taken
           q == stream.queue
           c == w \o q
<1>1. w \in Seq(Nat) /\ q \in Seq(Nat) /\ 0 \in Nat
  BY DEF ReadableStates
<1>2. /\ \A i, j \in DOMAIN c : i < j => c[i] < c[j]
      /\ \A i \in DOMAIN c : c[i] <= stream.sent
  BY DEF StreamChunks
<1>3. other.taken \o other.queue = w \o <<>>
  OBVIOUS
<1> HIDE DEF w, q
<1>4. w \o <<>> = w /\ \A i \in DOMAIN w : c[i] = w[i] /\ i \in DOMAIN c
  BY <1>1, Moved
<1> HIDE DEF c
<1>5. QED
  BY <1>2, <1>3, <1>4 DEF StreamChunks

\* The readers stay served when a stream that changes under one of them is
\* readable and empty wherever a read waits.
LEMMA ReadersServed ==
  ASSUME NEW s \in States, NEW u, NEW X, Partly(s, X), Later(s.table, u.table),
         DOMAIN u.readers = DOMAIN s.readers,
         \A j \in DOMAIN s.readers :
           /\ u.readers[j].stream = s.readers[j].stream /\ u.readers[j].closed = s.readers[j].closed
           /\ u.readables[s.readers[j].stream].status = s.readables[s.readers[j].stream].status
           /\ u.readers[j].pending # <<>> =>
                /\ s.readables[s.readers[j].stream].status = "readable"
                /\ u.readables[s.readers[j].stream].queue = <<>>
  PROVE  \A j \in DOMAIN u.readers :
           ReaderWaits(u, j) /\ ReaderHears(u, j) /\ Exists(u.table, u.readers[j].closed)
<1> TAKE j \in DOMAIN u.readers
<1>1. j \in DOMAIN s.readers /\ s.readers[j].closed \in Promises
  BY ReaderTypes
<1>2. ReaderHears(s, j) /\ Exists(s.table, s.readers[j].closed)
  BY <1>1 DEF Partly
<1>3. ReaderWaits(u, j)
  BY <1>1 DEF ReaderWaits
<1>4. /\ Exists(u.table, s.readers[j].closed)
      /\ ~Is(s.table, s.readers[j].closed, "pending") => ~Is(u.table, s.readers[j].closed, "pending")
  BY <1>1, <1>2 DEF Later, Exists
<1>5. ReaderHears(u, j)
  BY <1>1, <1>2, <1>4 DEF ReaderHears
<1>6. QED
  BY <1>1, <1>3, <1>4, <1>5

\* Stream r alone changes, and keeps its status.
LEMMA ReadableServed ==
  ASSUME NEW s \in States, NEW r \in Readables, Partly(s, {r}), NEW u, OnlyReadable(s, u, r),
         StreamChunks(u.readables[r]), u.readables[r].status = s.readables[r].status,
         Waiting(s, r) = {} \/ (s.readables[r].queue = <<>> => u.readables[r].queue = <<>>)
  PROVE  Partly(u, {r})
<1>1. /\ u.table = s.table /\ u.readers = s.readers /\ u.pumped = s.pumped
      /\ \A q \in Readables : q # r => u.readables[q] = s.readables[q]
  BY StateTypes DEF OnlyReadable
<1>2. \A q \in Readables : StreamChunks(u.readables[q]) /\ (q \notin {r} => StreamEnds(u, q))
  <2> TAKE q \in Readables
  <2>1. CASE q = r
    BY <2>1
  <2>2. CASE q # r
    <3>1. StreamChunks(s.readables[q]) /\ StreamEnds(s, q) /\ u.readables[q] = s.readables[q]
      BY <1>1, <2>2 DEF Partly
    <3>2. QED
      BY <1>1, <3>1 DEF StreamEnds
  <2>3. QED
    BY <2>1, <2>2
<1>3. ASSUME NEW j \in DOMAIN s.readers
      PROVE  /\ u.readables[s.readers[j].stream].status = s.readables[s.readers[j].stream].status
             /\ u.readers[j].pending # <<>> =>
                  /\ s.readables[s.readers[j].stream].status = "readable"
                  /\ u.readables[s.readers[j].stream].queue = <<>>
  <2>1. s.readers[j].stream \in Readables /\ ReaderWaits(s, j)
    BY ReaderTypes DEF Partly
  <2>2. CASE s.readers[j].stream # r
    BY <1>1, <2>1, <2>2 DEF ReaderWaits
  <2>3. CASE s.readers[j].stream = r
    <3>1. s.readers[j].pending # <<>> => j \in Waiting(s, r)
      BY <2>3 DEF Waiting
    <3>2. QED
      BY <1>1, <2>1, <2>3, <3>1 DEF ReaderWaits
  <2>4. QED
    BY <2>2, <2>3
<1>4. \A j \in DOMAIN u.readers :
        ReaderWaits(u, j) /\ ReaderHears(u, j) /\ Exists(u.table, u.readers[j].closed)
  <2>1. Later(s.table, u.table)
    BY <1>1, LaterSame
  <2>2. \A j \in DOMAIN s.readers :
           /\ u.readers[j].stream = s.readers[j].stream /\ u.readers[j].closed = s.readers[j].closed
           /\ u.readables[s.readers[j].stream].status = s.readables[s.readers[j].stream].status
           /\ u.readers[j].pending # <<>> =>
                /\ s.readables[s.readers[j].stream].status = "readable"
                /\ u.readables[s.readers[j].stream].queue = <<>>
    BY <1>1, <1>3
  <2>3. QED
    BY <1>1, <2>1, <2>2, ReadersServed
<1>5. QED
  BY <1>2, <1>4 DEF Partly

\* What is left open may be closed: the end of a stream that is not closing,
\* or holds a chunk.
LEMMA StillOpen ==
  ASSUME NEW s, NEW r \in Readables, Partly(s, {r}),
         ~s.readables[r].closing \/ s.readables[r].queue # <<>>
  PROVE  Served(s)
BY DEF Partly, Served, StreamEnds

-----------------------------------------------------------------------------
(* The readable side and the readers. *)

LEMMA EndServes ==
  ASSUME NEW s \in States, NEW r \in Readables, Partly(s, {r}),
         NEW status \in {"closed", "errored"}, NEW rejected \in BOOLEAN
  PROVE  LET u == EndReaders([s EXCEPT !.readables[r].status = status], r, rejected) IN
         Served(u) /\ u \in States
<1> DEFINE v == [s EXCEPT !.readables[r].status = status]
           u == EndReaders(v, r, rejected)
<1>1. OnlyReadable(s, v, r) /\ v.readables[r] = [s.readables[r] EXCEPT !.status = status]
  BY StatusIs
<1> HIDE DEF v
<1>2. /\ v \in States /\ v.table = s.table /\ v.readers = s.readers /\ v.pumped = s.pumped
      /\ \A q \in Readables : q # r => v.readables[q] = s.readables[q]
  BY <1>1, StateTypes DEF OnlyReadable
<1>3. Ended(v, u, r)
  BY <1>2, EndReadersIs
<1> HIDE DEF u
<1>4. /\ v.readables[r].status = status /\ StreamChunks(v.readables[r])
  <2>1. s.readables[r] \in ReadableStates /\ StreamChunks(s.readables[r])
    BY StreamTypes DEF Partly
  <2>2. /\ v.readables[r].status = status /\ v.readables[r].taken = s.readables[r].taken
        /\ v.readables[r].queue = s.readables[r].queue /\ v.readables[r].sent = s.readables[r].sent
        /\ v.readables[r].dropped = s.readables[r].dropped
    BY <1>1, <2>1 DEF ReadableStates
  <2>3. QED
    BY <2>1, <2>2, ChunksStay
<1>5. u \in States /\ u.readables = v.readables /\ u.pumped = s.pumped /\ Later(s.table, u.table)
      /\ DOMAIN u.readers = DOMAIN s.readers
  <2>1. u.table \in After(v.table, PromisedBy(v.readers, r)) /\ v.table \in Tables
    BY <1>2, <1>3, StateTypes DEF Ended
  <2>2. Later(v.table, u.table)
    BY <2>1, LaterAfter
  <2>3. QED
    BY <1>2, <1>3, <2>2 DEF Ended
<1>6. \A q \in Readables : StreamChunks(u.readables[q]) /\ StreamEnds(u, q)
  <2> TAKE q \in Readables
  <2>1. CASE q = r
    BY <1>4, <1>5, <2>1 DEF StreamEnds
  <2>2. CASE q # r
    <3>1. StreamChunks(s.readables[q]) /\ StreamEnds(s, q) /\ u.readables[q] = s.readables[q]
      BY <1>2, <1>5, <2>2 DEF Partly
    <3>2. QED
      BY <1>5, <3>1 DEF StreamEnds
  <2>3. QED
    BY <2>1, <2>2
<1>7. ASSUME NEW i \in DOMAIN s.readers
      PROVE  ReaderWaits(u, i) /\ ReaderHears(u, i) /\ Exists(u.table, u.readers[i].closed)
  <2>1. /\ s.readers[i].stream \in Readables /\ s.readers[i].closed \in Promises
        /\ ReaderWaits(s, i) /\ ReaderHears(s, i) /\ Exists(s.table, s.readers[i].closed)
    BY ReaderTypes DEF Partly
  <2>2. /\ u.readers[i].stream = s.readers[i].stream /\ u.readers[i].closed = s.readers[i].closed
        /\ u.readers[i].pending = IF s.readers[i].stream = r THEN <<>> ELSE s.readers[i].pending
        /\ s.readers[i].stream = r => ~Is(u.table, s.readers[i].closed, "pending")
    BY <1>2, <1>3 DEF Ended
  <2>3. /\ Exists(u.table, s.readers[i].closed)
        /\ ~Is(s.table, s.readers[i].closed, "pending") => ~Is(u.table, s.readers[i].closed, "pending")
    BY <1>5, <2>1 DEF Later, Exists
  <2>4. s.readers[i].stream # r => u.readables[s.readers[i].stream] = s.readables[s.readers[i].stream]
    BY <1>2, <1>5, <2>1
  <2>5. ReaderWaits(u, i)
    BY <2>1, <2>2, <2>4 DEF ReaderWaits
  <2>6. ReaderHears(u, i)
    BY <2>1, <2>2, <2>3, <2>4 DEF ReaderHears
  <2>7. QED
    BY <2>2, <2>3, <2>5, <2>6
<1>8. Served(u)
  BY <1>5, <1>6, <1>7 DEF Served
<1>9. QED
  BY <1>5, <1>8 DEF u, v

LEMMA CloseIfDrainedServes ==
  ASSUME NEW s \in States, NEW r \in Readables, Partly(s, {r})
  PROVE  Served(CloseIfDrained(s, r)) /\ CloseIfDrained(s, r) \in States
<1>1. LET u == EndReaders([s EXCEPT !.readables[r].status = "closed"], r, FALSE) IN
      Served(u) /\ u \in States
  BY EndServes
<1>2. ~s.readables[r].closing \/ s.readables[r].queue # <<>> => Served(s)
  BY StillOpen
<1>3. QED
  BY <1>1, <1>2 DEF CloseIfDrained

LEMMA ErrorStreamServes ==
  ASSUME NEW s \in States, NEW r \in Readables, Served(s)
  PROVE  Served(ErrorStream(s, r)) /\ ErrorStream(s, r) \in States
<1>1. Partly(s, {r})
  BY PartlyServed
<1>2. LET u == EndReaders([s EXCEPT !.readables[r].status = "errored"], r, TRUE) IN
      Served(u) /\ u \in States
  BY <1>1, EndServes
<1>3. QED
  BY <1>2 DEF ErrorStream

LEMMA CloseStreamServes ==
  ASSUME NEW s \in States, NEW r \in Readables, Served(s)
  PROVE  Served(CloseStream(s, r)) /\ CloseStream(s, r) \in States
<1> DEFINE u == [s EXCEPT !.readables[r].closing = TRUE]
           v == CloseIfDrained(u, r)
<1>1. OnlyReadable(s, u, r) /\ u.readables[r] = [s.readables[r] EXCEPT !.closing = TRUE]
  BY ClosingIs
<1>2. CloseStream(s, r) = WakePipe(v, r)
  BY DEF CloseStream
<1> HIDE DEF u
<1>3. s.readables[r] \in ReadableStates /\ Partly(s, {r}) /\ StreamChunks(s.readables[r])
  BY StreamTypes, PartlyServed DEF Served
<1>4. /\ u.readables[r].taken = s.readables[r].taken /\ u.readables[r].queue = s.readables[r].queue
      /\ u.readables[r].sent = s.readables[r].sent /\ u.readables[r].dropped = s.readables[r].dropped
      /\ u.readables[r].status = s.readables[r].status
  BY <1>1, <1>3 DEF ReadableStates
<1>5. StreamChunks(u.readables[r])
  BY <1>3, <1>4, ChunksStay
<1>6. Partly(u, {r})
  BY <1>1, <1>3, <1>4, <1>5, ReadableServed
<1>7. u \in States
  BY <1>1 DEF OnlyReadable
<1>8. Served(v) /\ v \in States
  BY <1>6, <1>7, CloseIfDrainedServes
<1> HIDE DEF v
<1>9. Beside(v, WakePipe(v, r)) /\ WakePipe(v, r) \in States
  BY <1>8, WakePipeBeside
<1>10. Served(WakePipe(v, r))
  BY <1>8, <1>9, BesideServed
<1>11. QED
  BY <1>2, <1>9, <1>10

LEMMA CancelServes ==
  ASSUME NEW s \in States, NEW r \in Readables, Served(s)
  PROVE  Served(Cancel(s, r)) /\ Cancel(s, r) \in States
<1> DEFINE u == [s EXCEPT !.readables[r].queue = <<>>, !.readables[r].closing = TRUE,
                          !.readables[r].dropped = TRUE]
<1>1. /\ OnlyReadable(s, u, r)
      /\ u.readables[r] = [s.readables[r] EXCEPT !.queue = <<>>, !.closing = TRUE, !.dropped = TRUE]
  BY DroppedIs
<1>2. Cancel(s, r) = CloseIfDrained(u, r)
  BY DEF Cancel
<1> HIDE DEF u
<1>3. s.readables[r] \in ReadableStates /\ Partly(s, {r}) /\ StreamChunks(s.readables[r])
  BY StreamTypes, PartlyServed DEF Served
<1>4. /\ u.readables[r].taken = s.readables[r].taken /\ u.readables[r].queue = <<>>
      /\ u.readables[r].sent = s.readables[r].sent /\ u.readables[r].dropped
      /\ u.readables[r].status = s.readables[r].status
  BY <1>1, <1>3 DEF ReadableStates
<1>5. StreamChunks(u.readables[r])
  BY <1>3, <1>4, ChunksDrop
<1>6. Partly(u, {r})
  BY <1>1, <1>3, <1>4, <1>5, ReadableServed
<1>7. u \in States
  BY <1>1 DEF OnlyReadable
<1>8. QED
  BY <1>2, <1>6, <1>7, CloseIfDrainedServes

LEMMA HandedServes ==
  ASSUME NEW s \in States, NEW r \in Readables, NEW i \in DOMAIN s.readers, Served(s),
         s.readers[i].stream = r, s.readers[i].pending # <<>>, ~s.readables[r].closing,
         NEW u, Handed(s, u, r, i)
  PROVE  Served(u) /\ u \in States
<1>1. s.readables[r] \in ReadableStates /\ StreamChunks(s.readables[r])
      /\ s.readers[i] \in ReaderStates
  BY StreamTypes, ReaderTypes DEF Served
<1>2. s.readables[r].queue = <<>> /\ s.readables[r].status = "readable"
  BY DEF Served, ReaderWaits
<1>3. /\ u \in States /\ u.table = s.table /\ u.pumped = s.pumped
      /\ \A q \in Readables : q # r => u.readables[q] = s.readables[q]
      /\ u.readers = [s.readers EXCEPT ![i] = [s.readers[i] EXCEPT !.pending = Tail(@)]]
  BY StateTypes DEF Handed
<1>4. /\ u.readables[r].queue = <<>> /\ u.readables[r].status = "readable"
      /\ u.readables[r].closing = FALSE /\ u.readables[r].dropped = s.readables[r].dropped
      /\ u.readables[r].sent = s.readables[r].sent + 1
      /\ u.readables[r].taken = Append(s.readables[r].taken, s.readables[r].sent + 1)
  BY <1>1, <1>2 DEF Handed, ReadableStates
<1>5. StreamChunks(u.readables[r])
  <2> DEFINE w == s.readables[r].taken
             q == s.readables[r].queue
             n == s.readables[r].sent + 1
  <2>1. w \in Seq(Nat) /\ q \in Seq(Nat) /\ n \in Nat /\ q = <<>>
    BY <1>2, StreamTypes
  <2>2. u.readables[r].taken \o u.readables[r].queue = Append(w, n) \o q
    BY <1>2, <1>4
  <2> HIDE DEF w, q, n
  <2>3. Append(w, n) \o q = Append(w \o q, n)
    BY <2>1, Moved
  <2>4. u.readables[r].taken \o u.readables[r].queue =
          Append(s.readables[r].taken \o s.readables[r].queue, s.readables[r].sent + 1)
    BY <2>2, <2>3 DEF w, q, n
  <2>5. QED
    BY <1>1, <1>4, <2>4, ChunksGrow
<1>6. \A q \in Readables : StreamChunks(u.readables[q]) /\ StreamEnds(u, q)
  <2> TAKE q \in Readables
  <2>1. CASE q = r
    BY <1>4, <1>5, <2>1 DEF StreamEnds
  <2>2. CASE q # r
    <3>1. StreamChunks(s.readables[q]) /\ StreamEnds(s, q) /\ u.readables[q] = s.readables[q]
      BY <1>3, <2>2 DEF Served
    <3>2. QED
      BY <1>3, <3>1 DEF StreamEnds
  <2>3. QED
    BY <2>1, <2>2
<1>7. DOMAIN u.readers = DOMAIN s.readers
  BY <1>3
<1>8. ASSUME NEW j \in DOMAIN s.readers
      PROVE  /\ u.readers[j].stream = s.readers[j].stream /\ u.readers[j].closed = s.readers[j].closed
             /\ u.readables[s.readers[j].stream].status = s.readables[s.readers[j].stream].status
             /\ u.readers[j].pending # <<>> =>
                  /\ s.readables[s.readers[j].stream].status = "readable"
                  /\ u.readables[s.readers[j].stream].queue = <<>>
  <2>1. CASE j = i
    <3>1. u.readers[i] = [s.readers[i] EXCEPT !.pending = Tail(@)]
      BY <1>3
    <3>2. u.readers[i].stream = r /\ u.readers[i].closed = s.readers[i].closed
      BY <1>1, <3>1 DEF ReaderStates
    <3>3. QED
      BY <1>2, <1>4, <2>1, <3>2
  <2>2. CASE j # i
    <3>1. u.readers[j] = s.readers[j] /\ s.readers[j].stream \in Readables /\ ReaderWaits(s, j)
      BY <1>3, <2>2, ReaderTypes DEF Served
    <3>2. CASE s.readers[j].stream = r
      BY <1>2, <1>4, <3>1, <3>2
    <3>3. CASE s.readers[j].stream # r
      BY <1>3, <3>1, <3>3 DEF ReaderWaits
    <3>4. QED
      BY <3>2, <3>3
  <2>3. QED
    BY <2>1, <2>2
<1>9. \A j \in DOMAIN u.readers :
        ReaderWaits(u, j) /\ ReaderHears(u, j) /\ Exists(u.table, u.readers[j].closed)
  <2>1. Later(s.table, u.table) /\ Partly(s, {})
    BY <1>3, LaterSame, PartlyServed
  <2>2. QED
    BY <1>7, <1>8, <2>1, ReadersServed
<1>10. QED
  BY <1>3, <1>6, <1>9 DEF Served

LEMMA EnqueueChunkServes ==
  ASSUME NEW s \in States, NEW r \in Readables, Served(s), ~Refuses(s, r)
  PROVE  Served(EnqueueChunk(s, r)) /\ EnqueueChunk(s, r) \in States
<1> DEFINE n == s.readables[r].sent + 1
           i == CHOOSE j \in Waiting(s, r) : \A k \in Waiting(s, r) : j <= k
           a == [[s EXCEPT !.readables[r].sent = n] EXCEPT !.readables[r].queue = Append(@, n)]
           b == [[s EXCEPT !.readables[r].sent = n] EXCEPT !.readers[i].pending = Tail(@),
                                                           !.readables[r].taken = Append(@, n)]
           p == Head(s.readers[i].pending)
           x == IF Waiting(s, r) = {} THEN a ELSE Answer(b, p, FALSE)
<1>1. EnqueueChunk(s, r) = WakePipe(x, r)
  BY DEF EnqueueChunk
<1>2. Queued(s, a, r)
  BY QueuedIs
<1>3. ~s.readables[r].closing
  BY DEF Refuses
<1>4. CASE Waiting(s, r) = {}
  <2>0. x = a
    BY <1>4
  <2> HIDE DEF a, b, p, x
  <2>1. s.readables[r] \in ReadableStates /\ Partly(s, {r}) /\ StreamChunks(s.readables[r])
    BY StreamTypes, PartlyServed DEF Served
  <2>2. /\ a.readables[r].taken = s.readables[r].taken
        /\ a.readables[r].queue = Append(s.readables[r].queue, s.readables[r].sent + 1)
        /\ a.readables[r].sent = s.readables[r].sent + 1
        /\ a.readables[r].dropped = s.readables[r].dropped
        /\ a.readables[r].status = s.readables[r].status
        /\ a.readables[r].closing = s.readables[r].closing
    BY <1>2, <2>1 DEF Queued, ReadableStates
  <2>3. StreamChunks(a.readables[r])
    <3> DEFINE w == s.readables[r].taken
               q == s.readables[r].queue
    <3>1. w \in Seq(Nat) /\ q \in Seq(Nat) /\ n \in Nat
      BY StreamTypes
    <3>2. a.readables[r].taken \o a.readables[r].queue = w \o Append(q, n)
      BY <2>2
    <3> HIDE DEF w, q, n
    <3>3. w \o Append(q, n) = Append(w \o q, n)
      BY <3>1, Moved
    <3>4. a.readables[r].taken \o a.readables[r].queue =
            Append(s.readables[r].taken \o s.readables[r].queue, s.readables[r].sent + 1)
      BY <3>2, <3>3 DEF w, q, n
    <3>5. QED
      BY <2>1, <2>2, <3>4, ChunksGrow
  <2>4. OnlyReadable(s, a, r)
    BY <1>2 DEF Queued
  <2>5. Partly(a, {r})
    BY <1>4, <2>1, <2>2, <2>3, <2>4, ReadableServed
  <2>6. Served(a) /\ a \in States
    BY <1>3, <2>2, <2>4, <2>5, StillOpen DEF OnlyReadable
  <2>7. Beside(a, WakePipe(a, r)) /\ WakePipe(a, r) \in States
    BY <2>6, WakePipeBeside
  <2>8. QED
    BY <1>1, <2>0, <2>6, <2>7, BesideServed
<1>5. CASE Waiting(s, r) # {}
  <2>0. i = CHOOSE j \in Waiting(s, r) : \A k \in Waiting(s, r) : j <= k
    OBVIOUS
  <2>1. x = Answer(b, p, FALSE)
    BY <1>5
  <2> HIDE DEF i
  <2>2. /\ i \in DOMAIN s.readers /\ s.readers[i].stream = r /\ s.readers[i].pending # <<>>
        /\ p \in Promises
    BY <1>5, <2>0, FirstWaiting
  <2>3. Handed(s, b, r, i)
    BY <2>2, HandedIs
  <2> HIDE DEF a, b, p, x
  <2>4. Served(b) /\ b \in States
    BY <1>3, <2>2, <2>3, HandedServes
  <2>5. Served(x) /\ x \in States
    BY <2>1, <2>2, <2>4, AnswerBeside, BesideServed
  <2>6. Beside(x, WakePipe(x, r)) /\ WakePipe(x, r) \in States
    BY <2>5, WakePipeBeside
  <2>7. QED
    BY <1>1, <2>5, <2>6, BesideServed
<1>6. QED
  BY <1>4, <1>5

\* A chunk is taken from the head of the queue.
LEMMA TakeServes ==
  ASSUME NEW s \in States, NEW r \in Readables, Served(s), s.readables[r].queue # <<>>
  PROVE  Partly(TakeChunk(s, r), {r}) /\ TakeChunk(s, r) \in States
<1> DEFINE u == TakeChunk(s, r)
<1>1. Took(s, u, r)
  BY TakeChunkIs
<1> HIDE DEF u
<1>2. s.readables[r] \in ReadableStates /\ Partly(s, {r}) /\ StreamChunks(s.readables[r])
  BY StreamTypes, PartlyServed DEF Served
<1>3. OnlyReadable(s, u, r)
      /\ u.readables[r] = [s.readables[r] EXCEPT !.queue = Tail(@),
                                                 !.taken = Append(@, Head(s.readables[r].queue))]
  BY <1>1 DEF Took
<1>4. /\ u.readables[r].taken = Append(s.readables[r].taken, Head(s.readables[r].queue))
      /\ u.readables[r].queue = Tail(s.readables[r].queue)
      /\ u.readables[r].sent = s.readables[r].sent /\ u.readables[r].dropped = s.readables[r].dropped
      /\ u.readables[r].status = s.readables[r].status
  BY <1>2, <1>3 DEF ReadableStates
<1>5. u.readables[r].taken \o u.readables[r].queue = s.readables[r].taken \o s.readables[r].queue
  <2> DEFINE w == s.readables[r].taken
             q == s.readables[r].queue
  <2>1. w \in Seq(Nat) /\ q \in Seq(Nat) /\ 0 \in Nat /\ q # <<>>
    BY StreamTypes
  <2>2. u.readables[r].taken \o u.readables[r].queue = Append(w, Head(q)) \o Tail(q)
    BY <1>4
  <2> HIDE DEF w, q
  <2>3. Append(w, Head(q)) \o Tail(q) = w \o q
    BY <2>1, Moved
  <2>4. QED
    BY <2>2, <2>3 DEF w, q
<1>6. StreamChunks(u.readables[r])
  BY <1>2, <1>4, <1>5, ChunksStay
<1>7. Partly(u, {r})
  BY <1>2, <1>3, <1>4, <1>6, ReadableServed
<1>8. QED
  BY <1>3, <1>7 DEF OnlyReadable, u

\* A read that has to wait.
LEMMA WaitServes ==
  ASSUME NEW s \in States, NEW i \in DOMAIN s.readers, Served(s), NEW p \in Promises,
         s.readables[s.readers[i].stream].status = "readable",
         s.readables[s.readers[i].stream].queue = <<>>
  PROVE  LET u == [s EXCEPT !.readers[i].pending = Append(@, p)] IN Served(u) /\ u \in States
<1> DEFINE reader == [s.readers[i] EXCEPT !.pending = Append(@, p)]
           u == [s EXCEPT !.readers[i].pending = Append(@, p)]
<1>1. s.readers[i] \in ReaderStates /\ s.readers \in Seq(ReaderStates)
      /\ s.readers[i].pending \in Seq(Promises)
  BY ReaderTypes, StateTypes
<1>2. reader \in ReaderStates /\ reader.stream = s.readers[i].stream /\ reader.closed = s.readers[i].closed
  <2>1. Append(s.readers[i].pending, p) \in Seq(Promises)
    BY <1>1
  <2>2. QED
    BY <1>1, <2>1 DEF ReaderStates
<1>3. u = [s EXCEPT !.readers = [s.readers EXCEPT ![i] = reader]]
  BY DEF States
<1> HIDE DEF reader, u
<1> DEFINE R == [s.readers EXCEPT ![i] = reader]
<1>4. R \in Seq(ReaderStates) /\ DOMAIN R = DOMAIN s.readers /\ R[i] = reader
      /\ \A j \in DOMAIN s.readers : j # i => R[j] = s.readers[j]
  BY <1>1, <1>2
<1> HIDE DEF R
<1>5. u \in States /\ u.table = s.table /\ u.readables = s.readables /\ u.readers = R
      /\ u.pumped = s.pumped
  BY <1>3, <1>4 DEF States, R
<1>6. \A q \in Readables : StreamChunks(u.readables[q]) /\ StreamEnds(u, q)
  BY <1>5 DEF Served, StreamEnds
<1>7. ASSUME NEW j \in DOMAIN s.readers
      PROVE  /\ u.readers[j].stream = s.readers[j].stream /\ u.readers[j].closed = s.readers[j].closed
             /\ u.readables[s.readers[j].stream].status = s.readables[s.readers[j].stream].status
             /\ u.readers[j].pending # <<>> =>
                  /\ s.readables[s.readers[j].stream].status = "readable"
                  /\ u.readables[s.readers[j].stream].queue = <<>>
  <2>1. CASE j = i
    BY <1>2, <1>4, <1>5, <2>1
  <2>2. CASE j # i
    BY <1>4, <1>5, <2>2 DEF Served, ReaderWaits
  <2>3. QED
    BY <2>1, <2>2
<1>8. \A j \in DOMAIN u.readers :
        ReaderWaits(u, j) /\ ReaderHears(u, j) /\ Exists(u.table, u.readers[j].closed)
  <2>1. Later(s.table, u.table) /\ Partly(s, {}) /\ DOMAIN u.readers = DOMAIN s.readers
    BY <1>4, <1>5, LaterSame, PartlyServed
  <2>2. QED
    BY <1>7, <2>1, ReadersServed
<1>9. Served(u)
  BY <1>6, <1>8 DEF Served
<1>10. QED
  BY <1>5, <1>9 DEF u

LEMMA ReadServes ==
  ASSUME NEW s \in States, NEW i \in DOMAIN s.readers, Served(s), HasRoom(s.table)
  PROVE  Served(Read(s, i))
<1> DEFINE r == s.readers[i].stream
           p == NextPromise(s)
           asked == Given(s)
<1>1. r \in Readables
  BY ReaderTypes
<1>2. Created(s, asked)
  BY GivenIs
<1>3. Read(s, i) = IF s.readables[r].queue # <<>> THEN CloseIfDrained(Answer(TakeChunk(asked, r), p, FALSE), r)
                   ELSE IF s.readables[r].status # "readable" THEN Answer(asked, p, s.readables[r].status = "errored")
                   ELSE SchedulePull([asked EXCEPT !.readers[i].pending = Append(@, p)], r)
  BY DEF Read
<1> HIDE DEF asked, p
<1>4. Served(asked) /\ asked \in States /\ p \in Promises
      /\ asked.readables = s.readables /\ asked.readers = s.readers
  <2>1. Beside(s, asked)
    BY <1>2, CreatedBeside
  <2>2. QED
    BY <1>2, <2>1, BesideServed DEF Created, OnlyTable, p
<1> HIDE DEF r
<1>5. CASE s.readables[r].queue # <<>>
  <2> DEFINE u == TakeChunk(asked, r)
             v == Answer(u, p, FALSE)
  <2>1. Partly(u, {r}) /\ u \in States
    BY <1>1, <1>4, <1>5, TakeServes
  <2> HIDE DEF u
  <2>2. Partly(v, {r}) /\ v \in States
    BY <1>4, <2>1, AnswerBeside, BesidePartly
  <2> HIDE DEF v
  <2>3. Served(CloseIfDrained(v, r))
    BY <1>1, <2>2, CloseIfDrainedServes
  <2>4. QED
    BY <1>3, <1>5, <2>3 DEF u, v
<1>6. CASE s.readables[r].queue = <<>> /\ s.readables[r].status # "readable"
  <2>1. (s.readables[r].status = "errored") \in BOOLEAN
    OBVIOUS
  <2>2. Beside(asked, Answer(asked, p, s.readables[r].status = "errored"))
    BY <1>4, <2>1, AnswerBeside
  <2>3. QED
    BY <1>3, <1>4, <1>6, <2>2, BesideServed
<1>7. CASE s.readables[r].queue = <<>> /\ s.readables[r].status = "readable"
  <2> DEFINE u == [asked EXCEPT !.readers[i].pending = Append(@, p)]
  <2>1. i \in DOMAIN asked.readers /\ asked.readables[asked.readers[i].stream].status = "readable"
        /\ asked.readables[asked.readers[i].stream].queue = <<>>
    BY <1>4, <1>7 DEF r
  <2>2. Served(u) /\ u \in States
    BY <1>4, <2>1, WaitServes
  <2> HIDE DEF u
  <2>3. Beside(u, SchedulePull(u, r))
    BY <1>1, <2>2, SchedulePullBeside
  <2>4. QED
    BY <1>3, <1>7, <2>2, <2>3, BesideServed DEF u
<1>8. QED
  BY <1>5, <1>6, <1>7

\* A new reader, whose closed promise is settled at once if the stream is closed.
LEMMA JoinedServes ==
  ASSUME NEW s \in States, NEW r \in Readables, Served(s), NEW u \in States,
         NEW p \in Promises, Exists(u.table, p),
         u.readers = Append(s.readers, [stream |-> r, closed |-> p, pending |-> <<>>]),
         \A q \in Readables : SameChunks(s.readables[q], u.readables[q]),
         u.pumped = s.pumped, Later(s.table, u.table),
         s.readables[r].status = "closed" => ~Is(u.table, p, "pending")
  PROVE  Served(u)
<1> DEFINE reader == [stream |-> r, closed |-> p, pending |-> <<>>]
           n == Len(s.readers)
<1>1. reader.stream = r /\ reader.closed = p /\ reader.pending = <<>> /\ reader \in ReaderStates
  <2>1. <<>> \in Seq(Promises)
    OBVIOUS
  <2>2. QED
    BY <2>1 DEF ReaderStates
<1>2. s.readers \in Seq(ReaderStates) /\ u.readers = Append(s.readers, reader)
  BY StateTypes
<1> HIDE DEF reader
<1>3. n \in Nat /\ DOMAIN s.readers = 1..n /\ DOMAIN u.readers = 1..(n + 1)
      /\ u.readers[n + 1] = reader /\ \A j \in 1..n : u.readers[j] = s.readers[j]
  BY <1>1, <1>2
<1>4. \A q \in Readables : StreamChunks(u.readables[q]) /\ StreamEnds(u, q)
  BY DEF Served, SameChunks, StreamChunks, StreamEnds
<1>5. ASSUME NEW j \in DOMAIN u.readers
      PROVE  ReaderWaits(u, j) /\ ReaderHears(u, j) /\ Exists(u.table, u.readers[j].closed)
  <2>1. CASE j \in DOMAIN s.readers
    <3>1. /\ u.readers[j] = s.readers[j] /\ s.readers[j].stream \in Readables
          /\ s.readers[j].closed \in Promises
          /\ ReaderWaits(s, j) /\ ReaderHears(s, j) /\ Exists(s.table, s.readers[j].closed)
      BY <1>3, <2>1, ReaderTypes DEF Served
    <3>2. /\ Exists(u.table, s.readers[j].closed)
          /\ ~Is(s.table, s.readers[j].closed, "pending") => ~Is(u.table, s.readers[j].closed, "pending")
      BY <3>1 DEF Later, Exists
    <3>3. SameChunks(s.readables[s.readers[j].stream], u.readables[s.readers[j].stream])
      BY <3>1
    <3>4. QED
      BY <3>1, <3>2, <3>3 DEF ReaderWaits, ReaderHears, SameChunks
  <2>2. CASE j \notin DOMAIN s.readers
    <3>1. u.readers[j] = reader
      BY <1>3, <2>2
    <3>2. u.readables[r].status = s.readables[r].status
      BY DEF SameChunks
    <3>3. QED
      BY <1>1, <3>1, <3>2 DEF ReaderWaits, ReaderHears
  <2>3. QED
    BY <2>1, <2>2
<1>6. QED
  BY <1>4, <1>5 DEF Served

LEMMA NewReaderServes ==
  ASSUME NEW s \in States, NEW r \in Readables, Served(s), HasRoom(s.table)
  PROVE  Served(NewReader(s, r))
<1> DEFINE p == NextPromise(s)
           reader == [stream |-> r, closed |-> p, pending |-> <<>>]
           asked == Given(s)
           added == [asked EXCEPT !.readers = Append(@, reader), !.readables[r].locked = TRUE]
           stream == [s.readables[r] EXCEPT !.locked = TRUE]
<1>1. NewReader(s, r) = IF s.readables[r].status = "closed" THEN Answer(added, p, FALSE) ELSE added
  BY DEF NewReader
<1>2. Created(s, asked)
  BY GivenIs
<1>3. s.readables \in [Readables -> ReadableStates] /\ s.readables[r] \in ReadableStates
  BY StateTypes
<1> HIDE DEF asked
<1>4. asked \in States /\ p \in Promises /\ Later(s.table, asked.table) /\ Exists(asked.table, p)
      /\ asked.readables = s.readables /\ asked.readers = s.readers /\ asked.pumped = s.pumped
  <2>1. Beside(s, asked)
    BY <1>2, CreatedBeside
  <2>2. s.table.state \in [Promises -> PromiseStates]
    BY StateTypes, TableTypes
  <2>3. asked.table.state[p] = "pending"
    BY <1>2, <2>2 DEF Created
  <2>4. QED
    BY <1>2, <2>1, <2>3 DEF Created, OnlyTable, Beside, Exists, Is
<1> HIDE DEF p
<1>5. reader \in ReaderStates
  <2>1. <<>> \in Seq(Promises)
    OBVIOUS
  <2>2. QED
    BY <1>4, <2>1 DEF ReaderStates
<1>6. stream \in ReadableStates /\ SameChunks(s.readables[r], stream)
  BY <1>3 DEF ReadableStates, SameChunks
<1> DEFINE R == Append(s.readers, reader)
           S == [s.readables EXCEPT ![r] = stream]
<1>7. added = [asked EXCEPT !.readers = R, !.readables = S]
  BY <1>3, <1>4 DEF States
<1>8. R \in Seq(ReaderStates)
  <2>1. s.readers \in Seq(ReaderStates)
    BY StateTypes
  <2> HIDE DEF reader
  <2>2. QED
    BY <1>5, <2>1
<1>9. S \in [Readables -> ReadableStates] /\ \A q \in Readables : SameChunks(s.readables[q], S[q])
  <2> HIDE DEF stream
  <2>1. S \in [Readables -> ReadableStates] /\ S[r] = stream
        /\ \A q \in Readables : q # r => S[q] = s.readables[q]
    BY <1>3, <1>6
  <2>2. QED
    BY <1>6, <2>1 DEF SameChunks
<1>r. R = Append(s.readers, [stream |-> r, closed |-> p, pending |-> <<>>])
  OBVIOUS
<1> HIDE DEF added, R, S
<1>10. added \in States /\ added.table = asked.table /\ added.readers = R /\ added.readables = S
       /\ added.pumped = s.pumped
  BY <1>4, <1>7, <1>8, <1>9 DEF States
<1>11. CASE s.readables[r].status # "closed"
  <2>1. Served(added)
    BY <1>4, <1>9, <1>10, <1>11, <1>r, JoinedServes
  <2>2. QED
    BY <1>1, <1>11, <2>1
<1>12. CASE s.readables[r].status = "closed"
  <2> DEFINE u == Answer(added, p, FALSE)
  <2>1. OnlyTable(added, u) /\ u.table = Settle(added.table, p, FALSE)
    BY <1>4, <1>10, AnswerIs
  <2>2. Beside(added, u) /\ u \in States
    BY <1>4, <1>10, AnswerBeside
  <2> HIDE DEF u
  <2>3. ~Is(u.table, p, "pending")
    BY <1>4, <1>10, <2>1, StateTypes, SettleEnds
  <2>4. Later(s.table, u.table) /\ Exists(u.table, p)
    BY <1>4, <1>10, <2>2 DEF Beside, Later, Exists
  <2>5. u.readers = R /\ u.readables = S /\ u.pumped = s.pumped
    BY <1>10, <2>1 DEF OnlyTable
  <2>6. Served(u)
    BY <1>4, <1>9, <1>r, <2>2, <2>3, <2>4, <2>5, JoinedServes
  <2>7. QED
    BY <1>1, <1>12, <2>6 DEF u
<1>13. QED
  BY <1>11, <1>12

-----------------------------------------------------------------------------
(* The pipe, finish_close and the readers. *)

LEMMA PumpedServes ==
  ASSUME NEW s \in States, Served(s), s.readables["source"].queue # <<>>, NEW u, Pumped(s, u)
  PROVE  Served(u)
<1> DEFINE source == s.readables["source"]
           pipe == [source.pipe EXCEPT !.writing = TRUE]
<1>1. /\ u \in States /\ u.table = s.table /\ u.readers = s.readers
      /\ u.pumped = Append(s.pumped, Head(source.queue))
      /\ u.readables = [s.readables EXCEPT !["source"] = u.readables["source"]]
      /\ u.readables["source"] = [source EXCEPT !.queue = Tail(@), !.taken = Append(@, Head(source.queue)),
                                                !.pipe = pipe]
  BY DEF Pumped
<1>2. source \in ReadableStates /\ StreamChunks(source) /\ "source" \in Readables
      /\ source.taken \in Seq(Nat) /\ source.queue \in Seq(Nat) /\ s.pumped \in Seq(Nat)
  BY StreamTypes, StateTypes DEF Served, Readables
<1> HIDE DEF source, pipe
<1>3. /\ u.readables["source"].taken = Append(source.taken, Head(source.queue))
      /\ u.readables["source"].queue = Tail(source.queue)
      /\ u.readables["source"].sent = source.sent /\ u.readables["source"].dropped = source.dropped
      /\ u.readables["source"].status = source.status
  BY <1>1, <1>2 DEF ReadableStates
<1>4. StreamChunks(u.readables["source"])
  <2> DEFINE w == source.taken
             q == source.queue
  <2>1. w \in Seq(Nat) /\ q \in Seq(Nat) /\ 0 \in Nat /\ q # <<>>
    BY <1>2 DEF source
  <2>2. u.readables["source"].taken \o u.readables["source"].queue = Append(w, Head(q)) \o Tail(q)
    BY <1>3
  <2> HIDE DEF w, q
  <2>3. Append(w, Head(q)) \o Tail(q) = w \o q
    BY <2>1, Moved
  <2>4. u.readables["source"].taken \o u.readables["source"].queue = source.taken \o source.queue
    BY <2>2, <2>3 DEF w, q
  <2>5. QED
    BY <1>2, <1>3, <2>4, ChunksStay
<1>5. u.pumped # <<>>
  <2> DEFINE w == s.pumped
             n == Head(source.queue)
  <2>1. w \in Seq(Nat) /\ u.pumped = Append(w, n)
    BY <1>1, <1>2
  <2> HIDE DEF w, n
  <2>2. Append(w, n) # <<>>
    BY <2>1
  <2>3. QED
    BY <2>1, <2>2
<1>6. \A q \in Readables : q # "source" => u.readables[q] = s.readables[q]
  BY <1>1, StateTypes
<1>7. \A q \in Readables : StreamChunks(u.readables[q]) /\ StreamEnds(u, q)
  BY <1>4, <1>5, <1>6 DEF Served, StreamEnds
<1>8. ASSUME NEW j \in DOMAIN s.readers
      PROVE  /\ u.readables[s.readers[j].stream].status = s.readables[s.readers[j].stream].status
             /\ u.readers[j].pending # <<>> =>
                  /\ s.readables[s.readers[j].stream].status = "readable"
                  /\ u.readables[s.readers[j].stream].queue = <<>>
  <2>1. s.readers[j].stream \in Readables /\ ReaderWaits(s, j)
    BY ReaderTypes DEF Served
  <2>2. CASE s.readers[j].stream = "source"
    BY <1>1, <1>3, <2>1, <2>2 DEF ReaderWaits, source
  <2>3. CASE s.readers[j].stream # "source"
    BY <1>1, <1>6, <2>1, <2>3 DEF ReaderWaits
  <2>4. QED
    BY <2>2, <2>3
<1>9. \A j \in DOMAIN u.readers :
        ReaderWaits(u, j) /\ ReaderHears(u, j) /\ Exists(u.table, u.readers[j].closed)
  <2>1. Later(s.table, u.table) /\ Partly(s, {})
    BY <1>1, LaterSame, PartlyServed
  <2>2. \A j \in DOMAIN s.readers :
           /\ u.readers[j].stream = s.readers[j].stream /\ u.readers[j].closed = s.readers[j].closed
           /\ u.readables[s.readers[j].stream].status = s.readables[s.readers[j].stream].status
           /\ u.readers[j].pending # <<>> =>
                /\ s.readables[s.readers[j].stream].status = "readable"
                /\ u.readables[s.readers[j].stream].queue = <<>>
    BY <1>1, <1>8
  <2>3. QED
    BY <1>1, <2>1, <2>2, ReadersServed
<1>10. QED
  BY <1>7, <1>9 DEF Served

LEMMA PumpServes ==
  ASSUME NEW s \in States, NEW run, PipeInv(s, run), NEW r \in Readables, HasRoom(s.table), Served(s)
  PROVE  Served(Pump(s, r))
<1> DEFINE stream == s.readables[r]
<1>1. CASE stream.pipe = Nothing \/ (stream.pipe # Nothing /\ stream.pipe.writing)
  BY <1>1 DEF Pump
<1>2. CASE stream.pipe # Nothing /\ ~stream.pipe.writing
  <2>1. r = "source"
    BY <1>2 DEF PipeInv, PipeStands, Readables
  <2>2. CASE stream.queue # <<>>
    <3> DEFINE u == PumpChunk(s, "source")
    <3>1. Pump(s, r) = u
      BY <1>2, <2>1, <2>2 DEF Pump
    <3>2. PICK k, w : /\ Created(s, k) /\ Pumped(k, w) /\ OnlyTable(w, u)
                      /\ \A q \in Promises : ~Is(w.table, q, "pending") => ~Is(u.table, q, "pending")
                      /\ \A q \in Promises : ~Is(w.table, q, "absent") => ~Is(u.table, q, "absent")
      BY <1>2, <2>1, <2>2, PumpChunkSteady
    <3> HIDE DEF u
    <3>3. Beside(s, k) /\ k \in States /\ k.readables = s.readables
      BY <3>2, CreatedBeside DEF Created, OnlyTable
    <3>4. Served(k)
      BY <3>3, BesideServed
    <3>5. k.readables["source"].queue # <<>>
      BY <2>1, <2>2, <3>3
    <3>6. Served(w) /\ w \in States
      BY <3>2, <3>3, <3>4, <3>5, PumpedServes DEF Pumped
    <3>7. Beside(w, u)
      <4>1. Later(w.table, u.table)
        BY <3>2 DEF Later
      <4>2. QED
        BY <3>2, <4>1, OnlyTableBeside
    <3>8. QED
      BY <3>1, <3>6, <3>7, BesideServed
  <2>3. CASE stream.queue = <<>> /\ stream.status = "errored"
    <3>1. Pump(s, r) = EndPipe(s, "source", TRUE)
      BY <1>2, <2>1, <2>3 DEF Pump
    <3>2. QED
      BY <1>2, <2>1, <3>1, EndPipeBeside, BesideServed
  <2>4. CASE stream.queue = <<>> /\ stream.status # "errored" /\ stream.closing /\ ~stream.pipe.closing
    <3>1. Pump(s, r) = PumpClose(s, "source")
      BY <1>2, <2>1, <2>4 DEF Pump
    <3>2. QED
      BY <1>2, <2>1, <3>1, PumpCloseBeside, BesideServed
  <2>5. CASE stream.queue = <<>> /\ stream.status # "errored" /\ ~(stream.closing /\ ~stream.pipe.closing)
    BY <1>2, <2>5 DEF Pump
  <2>6. QED
    BY <2>2, <2>3, <2>4, <2>5
<1>3. QED
  BY <1>1, <1>2

LEMMA FinishCloseServes ==
  ASSUME NEW s \in States, NEW run, PipeInv(s, run), NEW p \in Promises, NEW rejected \in BOOLEAN,
         Served(s)
  PROVE  Served(FinishClose(s, p, rejected))
<1> DEFINE source == s.writable.source
           left == [s EXCEPT !.writable.source = Nothing]
           done == [left EXCEPT !.writable.status = "closed"]
           told == AnswerAll(done, s.writers, FALSE)
           closed == FinishPipeWrite(told, source, FALSE)
           broken == ErrorWritable(left)
           heard == FinishPipeWrite(broken, source, TRUE)
<1>1. FinishClose(s, p, rejected) =
        IF rejected THEN Answer(heard, p, TRUE)
        ELSE IF OutputRefuses(s) THEN Answer(ErrorWritable(closed), p, TRUE)
        ELSE Answer(IF program.transform THEN CloseStream(closed, "output") ELSE closed, p, FALSE)
  BY DEF FinishClose
<1>2. source \in Readables \cup {Nothing} /\ s.writers \in Seq(Promises) /\ "output" \in Readables
      /\ s.readables["output"].pipe = Nothing
  BY WritableTypes, StateTypes DEF Readables, PipeInv, PipeStands
<1>3. OnlyWritable(s, left)
  BY SourceIs
<1> HIDE DEF left, source
<1>4. Served(left) /\ left \in States /\ left.readables = s.readables
  BY <1>3, OnlyWritableBeside, BesideServed DEF OnlyWritable
<1>5. OnlyWritable(left, done)
  BY <1>4, WritableStatusIs
<1> HIDE DEF done
<1>6. Served(done) /\ done \in States /\ done.readables = s.readables
  BY <1>4, <1>5, OnlyWritableBeside, BesideServed DEF OnlyWritable
<1>7. Served(told) /\ told \in States /\ told.readables = s.readables
  <2>1. OnlyTable(done, told)
    BY <1>2, <1>6, AnswerAllIs
  <2>2. Beside(done, told)
    BY <1>2, <1>6, AnswerAllBeside
  <2>3. QED
    BY <1>6, <2>1, <2>2, BesideServed DEF OnlyTable
<1> HIDE DEF told
<1>8. Served(closed) /\ closed \in States
  <2>1. Beside(told, closed) /\ closed \in States
    BY <1>2, <1>7, FinishPipeWriteBeside
  <2>2. QED
    BY <1>7, <2>1, BesideServed
<1> HIDE DEF closed
<1>9. Served(broken) /\ broken \in States /\ broken.readables = s.readables
  <2>1. Beside(left, broken) /\ broken \in States
    BY <1>4, ErrorWritableBeside
  <2>2. broken.readables = left.readables
    BY <1>4, ErrorWritableBeside
  <2>3. QED
    BY <1>4, <2>1, <2>2, BesideServed
<1> HIDE DEF broken
<1>10. Served(heard) /\ heard \in States
  <2>1. Beside(broken, heard) /\ heard \in States
    BY <1>2, <1>9, FinishPipeWriteBeside
  <2>2. QED
    BY <1>9, <2>1, BesideServed
<1> HIDE DEF heard
<1>11. \A u : \A b \in BOOLEAN : Served(u) /\ u \in States => Served(Answer(u, p, b))
  BY AnswerBeside, BesideServed
<1>12. CASE rejected
  BY <1>1, <1>10, <1>11, <1>12
<1>13. CASE ~rejected /\ OutputRefuses(s)
  <2>1. Served(ErrorWritable(closed)) /\ ErrorWritable(closed) \in States
    BY <1>8, ErrorWritableBeside, BesideServed
  <2>2. QED
    BY <1>1, <1>11, <1>13, <2>1
<1>14. CASE ~rejected /\ ~OutputRefuses(s)
  <2>1. Served(CloseStream(closed, "output")) /\ CloseStream(closed, "output") \in States
    BY <1>2, <1>8, CloseStreamServes
  <2>2. QED
    BY <1>1, <1>8, <1>11, <1>14, <2>1
<1>15. QED
  BY <1>12, <1>13, <1>14

-----------------------------------------------------------------------------
(* The steps, and the readers. *)

LEMMA NewWriterBeside ==
  ASSUME NEW s \in States, NEW run, PipeInv(s, run), HasRoom(s.table)
  PROVE  Beside(s, NewWriter(s))
<1> DEFINE u == NewWriter(s)
<1>1. /\ \E g : Created(s, g) /\ u.table = g.table
      /\ u.readables = s.readables /\ u.readers = s.readers /\ u.pumped = s.pumped
  BY NewWriterSteady
<1> HIDE DEF u
<1>2. Later(s.table, u.table)
  BY <1>1, CreatedBeside DEF Beside
<1>3. QED
  BY <1>1, <1>2 DEF Beside, SameChunks, u

LEMMA FlagBeside ==
  ASSUME NEW s \in States, NEW r \in Readables
  PROVE  /\ Beside(s, [s EXCEPT !.readables[r].locked = FALSE])
         /\ Beside(s, [s EXCEPT !.readables[r].pulling = FALSE])
<1> DEFINE u == [s EXCEPT !.readables[r].locked = FALSE]
           v == [s EXCEPT !.readables[r].pulling = FALSE]
<1>1. /\ OnlyReadable(s, u, r) /\ u.readables[r] = [s.readables[r] EXCEPT !.locked = FALSE]
      /\ OnlyReadable(s, v, r) /\ v.readables[r] = [s.readables[r] EXCEPT !.pulling = FALSE]
  BY FlagIs
<1> HIDE DEF u, v
<1>2. s.readables[r] \in ReadableStates
  BY StreamTypes
<1>3. SameChunks(s.readables[r], u.readables[r]) /\ SameChunks(s.readables[r], v.readables[r])
  BY <1>1, <1>2 DEF ReadableStates, SameChunks
<1>4. QED
  BY <1>1, <1>3, OnlyReadableBeside DEF u, v

LEMMA OffBeside ==
  ASSUME NEW s, NEW u, Off(s, u)
  PROVE  Beside(s, u)
BY LaterSame, OnlyTableBeside DEF Off

LEMMA BegunBeside ==
  ASSUME NEW s, NEW u, NEW job, Begun(s, u, job)
  PROVE  Beside(s, u)
BY LaterSame DEF Begun, Beside, SameChunks

LEMMA ReadableCallServes ==
  ASSUME TypeOK, PipeInv(state, running), Served(state), ReadableCall
  PROVE  Served(state')
<1>1. state \in States /\ Streams \subseteq Readables
      /\ \A i \in DOMAIN state.readers : state.readers[i].stream \in Readables
  BY TypesNow
<1>2. \A name : Calls(name) => HasRoom(state.table)
  BY DEF Calls, Room
<1>3. \A u : Does(u) => state' = u
  BY DEF Does
<1>4. CASE GetReader
  <2>1. PICK r \in Streams : Calls("getReader") /\ Does(NewReader(state, r))
    BY <1>4 DEF GetReader
  <2>2. Served(NewReader(state, r))
    BY <1>1, <1>2, <2>1, NewReaderServes
  <2>3. QED
    BY <1>3, <2>1, <2>2
<1>5. CASE ReleaseReader
  <2>1. PICK i \in DOMAIN state.readers :
          Does([state EXCEPT !.readables[state.readers[i].stream].locked = FALSE])
    BY <1>5 DEF ReleaseReader
  <2>2. Beside(state, [state EXCEPT !.readables[state.readers[i].stream].locked = FALSE])
    BY <1>1, FlagBeside
  <2>3. Served([state EXCEPT !.readables[state.readers[i].stream].locked = FALSE])
    BY <1>1, <2>2, BesideServed
  <2>4. QED
    BY <1>3, <2>1, <2>3
<1>6. CASE CallRead
  <2>1. PICK i \in DOMAIN state.readers : Calls("read") /\ Does(Read(state, i))
    BY <1>6 DEF CallRead
  <2>2. Served(Read(state, i))
    BY <1>1, <1>2, <2>1, ReadServes
  <2>3. QED
    BY <1>3, <2>1, <2>2
<1>7. CASE CallEnqueue
  <2>1. PICK r \in Streams : ~Refuses(state, r) /\ Does(EnqueueChunk(state, r))
    BY <1>7 DEF CallEnqueue
  <2>2. Served(EnqueueChunk(state, r))
    BY <1>1, <2>1, EnqueueChunkServes
  <2>3. QED
    BY <1>3, <2>1, <2>2
<1>8. CASE CallClose
  <2>1. PICK r \in Streams : Does(CloseStream(state, r))
    BY <1>8 DEF CallClose
  <2>2. Served(CloseStream(state, r))
    BY <1>1, CloseStreamServes
  <2>3. QED
    BY <1>3, <2>1, <2>2
<1>9. CASE CallError
  <2>1. PICK r \in Streams : Does(ErrorStream(state, r))
    BY <1>9 DEF CallError
  <2>2. Served(ErrorStream(state, r))
    BY <1>1, ErrorStreamServes
  <2>3. QED
    BY <1>3, <2>1, <2>2
<1>10. CASE CallCancel
  <2>1. PICK r \in Streams : Does(Cancel(state, r))
    BY <1>10 DEF CallCancel
  <2>2. Served(Cancel(state, r))
    BY <1>1, CancelServes
  <2>3. QED
    BY <1>3, <2>1, <2>2
<1>11. CASE PipeTo
  <2>1. HasRoom(state.table) /\ Does(StartPipe(state, "source"))
    BY <1>2, <1>11 DEF PipeTo
  <2>2. Served(StartPipe(state, "source"))
    BY <1>1, <2>1, StartPipeBeside, BesideServed
  <2>3. QED
    BY <1>3, <2>1, <2>2
<1>12. QED
  BY <1>4, <1>5, <1>6, <1>7, <1>8, <1>9, <1>10, <1>11 DEF ReadableCall

LEMMA WritableCallServes ==
  ASSUME TypeOK, PipeInv(state, running), Served(state), WritableCall
  PROVE  Served(state')
<1>1. state \in States
  BY TypesNow
<1>2. \A name : Calls(name) => HasRoom(state.table)
  BY DEF Calls, Room
<1>3. \A u : Beside(state, u) /\ Does(u) => Served(state')
  BY <1>1, BesideServed DEF Does
<1> DEFINE p == NextPromise(state)
           g == Given(state)
<1>4. HasRoom(state.table) => Beside(state, g) /\ g \in States /\ p \in Promises
  <2> SUFFICES ASSUME HasRoom(state.table)
               PROVE  Beside(state, g) /\ g \in States /\ p \in Promises
    OBVIOUS
  <2>1. Created(state, g)
    BY <1>1, GivenIs
  <2> HIDE DEF g
  <2>2. QED
    BY <1>1, <2>1, CreatedBeside DEF Created, OnlyTable
<1> HIDE DEF g, p
<1>5. CASE GetWriter
  <2>1. HasRoom(state.table) /\ Does(NewWriter(state))
    BY <1>2, <1>5 DEF GetWriter
  <2>2. QED
    BY <1>1, <1>3, <2>1, NewWriterBeside
<1>6. CASE ReleaseWriter
  <2> DEFINE u == [state EXCEPT !.writable.locked = FALSE]
  <2>1. Does(u)
    BY <1>6 DEF ReleaseWriter
  <2>2. OnlyWritable(state, u)
    BY <1>1, WritableFlagIs
  <2> HIDE DEF u
  <2>3. QED
    BY <1>3, <2>1, <2>2, OnlyWritableBeside
<1>7. CASE CallWrite
  <2>1. HasRoom(state.table) /\ Does(StartWrite(g, p, <<>>))
    BY <1>2, <1>7 DEF CallWrite, g, p
  <2>2. <<>> \in Seq(Nat)
    OBVIOUS
  <2>3. Beside(g, StartWrite(g, p, <<>>))
    BY <1>4, <2>1, <2>2, StartWriteBeside
  <2>4. Beside(state, StartWrite(g, p, <<>>))
    BY <1>4, <2>1, <2>3, BesideTrans
  <2>5. QED
    BY <1>3, <2>1, <2>4
<1>8. CASE CloseWriter
  <2>1. HasRoom(state.table) /\ Does(StartClose(g, p))
    BY <1>2, <1>8 DEF CloseWriter, g, p
  <2>2. Beside(g, StartClose(g, p))
    BY <1>4, <2>1, StartCloseBeside
  <2>3. Beside(state, StartClose(g, p))
    BY <1>4, <2>1, <2>2, BesideTrans
  <2>4. QED
    BY <1>3, <2>1, <2>3
<1>9. CASE Abort
  <2> DEFINE u == [state EXCEPT !.writable.status = "errored"]
  <2>1. Does(u)
    BY <1>9 DEF Abort
  <2>2. OnlyWritable(state, u)
    BY <1>1, WritableStatusIs
  <2> HIDE DEF u
  <2>3. QED
    BY <1>3, <2>1, <2>2, OnlyWritableBeside
<1>10. CASE ErrorSink
  <2>1. Does(ErrorWritable(state))
    BY <1>10 DEF ErrorSink
  <2>2. QED
    BY <1>1, <1>3, <2>1, ErrorWritableBeside
<1>11. QED
  BY <1>5, <1>6, <1>7, <1>8, <1>9, <1>10 DEF WritableCall

LEMMA RunTaskServes ==
  ASSUME TypeOK, PipeInv(state, running), Served(state), RunPull \/ RunPump \/ RunWrite \/ RunClose
  PROVE  Served(state')
<1> DEFINE job == Head(state.table.microtasks)
           rest == RestOf(state)
<1>1. state \in States /\ Job = job /\ Rest = rest
  BY TypesNow DEF Job, Rest, RestOf
<1>2. state.table.microtasks # <<>>
  BY <1>1 DEF RunPull, RunPump, RunWrite, RunClose, Begin
<1>3. Off(state, rest) /\ job \in Tasks \cup ReactionJobs
  BY <1>1, <1>2, RestIs
<1>4. /\ job.kind \in {"pull", "pump"} => job.stream \in Readables
      /\ job.kind \in {"write", "closeWritable"} => job.promise \in Promises
  BY <1>3, JobTypes
<1>5. \A u : Ran(u) \/ Invoke(u) => state' = u
  BY DEF Ran, Does, Invoke
<1>6. job.kind # "write" => PipeInv(rest, running)
  <2>1. job.kind # "write" => ~IsWrite(job)
    BY DEF IsWrite
  <2>2. QED
    BY <1>1, <1>2, <1>3, <2>1, RestSteady DEF Steady
<1> HIDE DEF job, rest
<1>7. Served(rest) /\ rest \in States
  <2>1. Beside(state, rest)
    BY <1>3, OffBeside
  <2>2. QED
    BY <1>1, <1>3, <2>1, BesideServed DEF Off, OnlyTable
<1>8. CASE RunPull
  <2>1. job.kind = "pull" /\ Invoke([rest EXCEPT !.readables[job.stream].pulling = FALSE])
    BY <1>1, <1>8 DEF RunPull, Begin
  <2>2. Beside(rest, [rest EXCEPT !.readables[job.stream].pulling = FALSE])
    BY <1>4, <1>7, <2>1, FlagBeside
  <2>3. Served([rest EXCEPT !.readables[job.stream].pulling = FALSE])
    BY <1>7, <2>2, BesideServed
  <2>4. QED
    BY <1>5, <2>1, <2>3
<1>9. CASE RunPump
  <2>1. job.kind = "pump" /\ Ran(Pump(rest, job.stream)) /\ HasRoom(state.table)
    BY <1>1, <1>9 DEF RunPump, Begin, Room
  <2>2. HasRoom(rest.table)
    <3>1. rest.table.state = state.table.state
      BY <1>3 DEF Off
    <3>2. QED
      BY <2>1, <3>1 DEF HasRoom, Exists, Is
  <2>3. Served(Pump(rest, job.stream))
    BY <1>4, <1>6, <1>7, <2>1, <2>2, PumpServes
  <2>4. QED
    BY <1>5, <2>1, <2>3
<1>10. CASE RunWrite
  <2> DEFINE begun == [rest EXCEPT !.written = @ \o job.chunk]
             p == job.promise
  <2>1. job.kind = "write"
    BY <1>1, <1>10 DEF RunWrite, Begin
  <2>2. Begun(state, begun, job) /\ p \in Promises
    BY <1>1, <1>2, <2>1, BegunIs DEF job, rest
  <2>3. IF program.callbacks THEN Invoke(begun)
        ELSE Ran(IF ~program.transform THEN Resolve(begun, p, Value)
                 ELSE IF Refuses(begun, "output") THEN Resolve(begun, p, Throw)
                 ELSE Resolve(EnqueueChunk(begun, "output"), p, Value))
    BY <1>1, <1>10 DEF RunWrite
  <2> HIDE DEF begun, p
  <2>4. Served(begun) /\ begun \in States
    <3>1. Beside(state, begun)
      BY <2>2, BegunBeside
    <3>2. QED
      BY <1>1, <2>2, <3>1, BesideServed DEF Begun
  <2>5. \A u : Served(u) /\ u \in States => Served(Resolve(u, p, Value)) /\ Served(Resolve(u, p, Throw))
    <3> SUFFICES ASSUME NEW u \in States, Served(u)
                 PROVE  Served(Resolve(u, p, Value)) /\ Served(Resolve(u, p, Throw))
      OBVIOUS
    <3>1. Served(Answer(u, p, FALSE)) /\ Served(Answer(u, p, TRUE))
      BY <2>2, AnswerBeside, BesideServed
    <3>2. QED
      BY <2>2, <3>1, ResolveIs
  <2>6. CASE program.callbacks
    BY <1>5, <2>3, <2>4, <2>6
  <2>7. CASE ~program.callbacks
    <3> DEFINE e == EnqueueChunk(begun, "output")
    <3>1. ~Refuses(begun, "output") => Served(e) /\ e \in States
      BY <2>4, EnqueueChunkServes DEF Readables
    <3> HIDE DEF e
    <3>2. QED
      BY <1>5, <2>3, <2>4, <2>5, <2>7, <3>1 DEF e
  <2>8. QED
    BY <2>6, <2>7
<1>11. CASE RunClose
  <2>1. /\ job.kind = "closeWritable"
        /\ IF program.callbacks THEN Invoke(rest) ELSE Ran(FinishClose(rest, job.promise, FALSE))
    BY <1>1, <1>11 DEF RunClose, Begin
  <2>2. Served(FinishClose(rest, job.promise, FALSE))
    BY <1>4, <1>6, <1>7, <2>1, FinishCloseServes
  <2>3. QED
    BY <1>5, <1>7, <2>1, <2>2
<1>12. QED
  BY <1>8, <1>9, <1>10, <1>11

LEMMA ReturnServes ==
  ASSUME TypeOK, PipeInv(state, running), Served(state), PullReturns \/ SinkReturns
  PROVE  Served(state')
<1>1. state \in States /\ running \in Tasks \cup {Nothing}
  BY TypesNow
<1>2. running # Nothing /\ running \in Tasks
  BY <1>1 DEF PullReturns, SinkReturns
<1>3. CASE PullReturns
  <2>1. running.stream \in Readables /\ state' \in {ErrorStream(state, running.stream), state}
    BY <1>2, <1>3, JobTypes DEF PullReturns
  <2>2. Served(ErrorStream(state, running.stream))
    BY <1>1, <2>1, ErrorStreamServes
  <2>3. QED
    BY <2>1, <2>2
<1>4. CASE SinkReturns
  <2> DEFINE p == running.promise
             sink == NextPromise(state)
             k == Kept(state)
             owing == [k EXCEPT !.sinks = @ \cup {sink}]
             u == [owing EXCEPT !.table = Subscribe(owing.table, sink, [kind |-> "finishClose", promise |-> p])]
  <2>1. running.kind \in {"write", "closeWritable"} /\ HasRoom(state.table)
    BY <1>4 DEF SinkReturns, Room
  <2>2. p \in Promises /\ Runs(running, p)
    BY <1>2, <2>1, JobTypes DEF Runs
  <2>3. Claimable(state, p)
    BY <2>2, ClaimedClaimable
  <2>4. \/ \E result \in {Value, Throw} : state' = Resolve(state, p, result)
        \/ state' = Resolve(owing, p, sink)
        \/ \E rejected \in BOOLEAN : state' = FinishClose(state, p, rejected)
        \/ state' = u
    <3>1. [owing EXCEPT !.table = Subscribe(@, sink, [kind |-> "finishClose", promise |-> p])] = u
      <4> HIDE DEF owing, sink, p
      <4>1. QED
        OBVIOUS
    <3> HIDE DEF u
    <3>2. QED
      BY <1>4, <3>1 DEF SinkReturns
  <2>5. /\ Is(owing.table, sink, "pending") /\ sink \in Promises /\ ~Claimable(state, sink)
        /\ Created(state, k) /\ Owed(k, owing)
    BY <1>1, <2>1, OwingSteady
  <2> HIDE DEF owing, sink, k
  <2>6. Served(owing) /\ owing \in States /\ p # sink
    <3>1. Beside(state, k) /\ Beside(k, owing)
      BY <1>1, <2>5, CreatedBeside, OwedBeside
    <3>2. Beside(state, owing)
      BY <3>1, BesideTrans
    <3>3. QED
      BY <1>1, <2>3, <2>5, <3>2, BesideServed DEF Owed
  <2> HIDE DEF p
  <2>7. CASE \E result \in {Value, Throw} : state' = Resolve(state, p, result)
    <3>1. state' \in {Answer(state, p, FALSE), Answer(state, p, TRUE)}
      BY <1>1, <2>2, <2>7, ResolveIs
    <3>2. Served(Answer(state, p, FALSE)) /\ Served(Answer(state, p, TRUE))
      BY <1>1, <2>2, AnswerBeside, BesideServed
    <3>3. QED
      BY <3>1, <3>2
  <2>8. CASE state' = Resolve(owing, p, sink)
    <3> DEFINE x == PassThrough(p)
               v == [owing EXCEPT !.table = Subscribe(owing.table, sink, x)]
    <3>1. state' \in {owing, v}
      BY <2>2, <2>5, <2>6, <2>8, ResolveSinkIs
    <3>2. x \in Reactions
      BY <2>2, ReactionTypes
    <3> HIDE DEF x
    <3>3. Served(v)
      BY <2>5, <2>6, <3>2, SubscribeBeside, BesideServed
    <3>4. QED
      BY <2>6, <3>1, <3>3
  <2>9. CASE \E rejected \in BOOLEAN : state' = FinishClose(state, p, rejected)
    <3>1. PICK rejected \in BOOLEAN : state' = FinishClose(state, p, rejected)
      BY <2>9
    <3>2. Served(FinishClose(state, p, rejected))
      BY <1>1, <2>2, FinishCloseServes
    <3>3. QED
      BY <3>1, <3>2
  <2>10. CASE state' = u
    <3> DEFINE x == [kind |-> "finishClose", promise |-> p]
    <3>1. x \in Reactions
      BY <2>2, ReactionTypes
    <3>2. u = [owing EXCEPT !.table = Subscribe(owing.table, sink, x)]
      OBVIOUS
    <3> HIDE DEF x, u
    <3>3. Served(u)
      BY <2>5, <2>6, <3>1, <3>2, SubscribeBeside, BesideServed
    <3>4. QED
      BY <2>10, <3>3
  <2>11. QED
    BY <2>4, <2>7, <2>8, <2>9, <2>10
<1>5. QED
  BY <1>3, <1>4

LEMMA ReactionServes ==
  ASSUME TypeOK, PipeInv(state, running), Served(state), RunReaction \/ SettleSink
  PROVE  Served(state')
<1>1. state \in States
  BY TypesNow
<1>2. CASE RunReaction
  <2> DEFINE job == Head(state.table.microtasks)
             rest == RestOf(state)
             x == job.reaction
  <2>1. Job = job /\ Rest = rest /\ state.table.microtasks # <<>> /\ job.kind = "reaction"
    BY <1>2 DEF Job, Rest, RestOf, RunReaction, Begin
  <2>2. Off(state, rest) /\ job \in Tasks \cup ReactionJobs
    BY <1>1, <2>1, RestIs
  <2>3. job \in ReactionJobs
    BY <2>1, <2>2, JobTypes
  <2>4. x \in Reactions /\ job.rejected \in BOOLEAN
        /\ x.kind \in {"handler", "pumped", "finishClose"}
        /\ (x.kind = "handler" => x.target \in Promises)
        /\ (x.kind = "pumped" => x.stream \in Readables)
        /\ (x.kind = "finishClose" => x.promise \in Promises)
    BY <2>3, JobTypes, ReactionTypes
  <2>5. ~IsWrite(job)
    BY <2>1 DEF IsWrite
  <2>6. PipeInv(rest, running)
    BY <1>1, <2>1, <2>2, <2>5, RestSteady DEF Steady
  <2>7. \/ x.kind = "handler" /\ state' = [rest EXCEPT !.table = Alone(rest.table, job)]
        \/ x.kind = "pumped" /\ state' = FinishPipeWrite(rest, x.stream, job.rejected)
        \/ x.kind = "finishClose" /\ state' = FinishClose(rest, x.promise, job.rejected)
    BY <1>2, <2>1, <2>4 DEF RunReaction, Ran, Does
  <2> HIDE DEF rest, job, x
  <2>8. Served(rest) /\ rest \in States
    <3>1. Beside(state, rest)
      BY <2>2, OffBeside
    <3>2. QED
      BY <1>1, <2>2, <3>1, BesideServed DEF Off, OnlyTable
  <2>9. CASE x.kind = "handler" /\ state' = [rest EXCEPT !.table = Alone(rest.table, job)]
    <3>1. Alone(rest.table, job) = Settle(rest.table, x.target, job.rejected)
      BY <2>4, <2>9 DEF Alone, x
    <3>2. state' = Answer(rest, x.target, job.rejected)
      BY <2>9, <3>1 DEF Answer
    <3>3. Served(Answer(rest, x.target, job.rejected))
      BY <2>4, <2>8, <2>9, AnswerBeside, BesideServed
    <3>4. QED
      BY <3>2, <3>3
  <2>10. CASE x.kind = "pumped" /\ state' = FinishPipeWrite(rest, x.stream, job.rejected)
    <3>1. rest.readables["output"].pipe = Nothing
      BY <2>6 DEF PipeInv, PipeStands
    <3>2. Beside(rest, FinishPipeWrite(rest, x.stream, job.rejected))
      BY <2>4, <2>8, <2>10, <3>1, FinishPipeWriteBeside
    <3>3. Served(FinishPipeWrite(rest, x.stream, job.rejected))
      BY <2>8, <3>2, BesideServed
    <3>4. QED
      BY <2>10, <3>3
  <2>11. CASE x.kind = "finishClose" /\ state' = FinishClose(rest, x.promise, job.rejected)
    <3>1. Served(FinishClose(rest, x.promise, job.rejected))
      BY <2>4, <2>6, <2>8, <2>11, FinishCloseServes
    <3>2. QED
      BY <2>11, <3>1
  <2>12. QED
    BY <2>7, <2>9, <2>10, <2>11
<1>3. CASE SettleSink
  <2>1. PICK p \in state.sinks, rejected \in BOOLEAN : Ran(Answer(state, p, rejected))
    BY <1>3 DEF SettleSink
  <2>2. p \in Promises
    BY <1>1, StateTypes
  <2>3. Served(Answer(state, p, rejected))
    BY <1>1, <2>2, AnswerBeside, BesideServed
  <2>4. QED
    BY <2>1, <2>3 DEF Ran, Does
<1>4. QED
  BY <1>2, <1>3

LEMMA ServedStep ==
  ASSUME TypeOK, PipeInv(state, running), Served(state), StreamsNext
  PROVE  Served(state')
<1>1. CASE Call
  BY <1>1, ReadableCallServes, WritableCallServes DEF Call
<1>2. CASE LoopStep
  <2>1. CASE Report
    BY <2>1 DEF Report
  <2>2. QED
    BY <1>2, <2>1, RunTaskServes, ReturnServes, ReactionServes DEF LoopStep
<1>3. CASE SettleSink
  BY <1>3, ReactionServes
<1>4. QED
  BY <1>1, <1>2, <1>3 DEF StreamsNext

LEMMA NobodyWaits == Served(AllStreams)
<1> DEFINE s == AllStreams
<1>1. s.readers = <<>> /\ \A r \in Readables : s.readables[r] = NewReadable
  BY EmptyTables
<1> HIDE DEF s
<1>2. \A r \in Readables : StreamEnds(s, r)
  BY <1>1 DEF StreamEnds, NewReadable
<1>3. StreamChunks(NewReadable)
  <2> DEFINE c == NewReadable.taken \o NewReadable.queue
  <2>1. NewReadable.sent = 0 /\ NewReadable.taken = <<>> /\ NewReadable.queue = <<>>
    BY DEF NewReadable
  <2>2. c = <<>>
    BY <2>1
  <2> HIDE DEF c
  <2>3. DOMAIN c = {} /\ Len(c) = 0
    BY <2>2
  <2>4. QED
    BY <2>1, <2>3 DEF StreamChunks, c
<1>4. \A i \in DOMAIN s.readers : FALSE
  BY <1>1
<1>5. QED
  BY <1>1, <1>2, <1>3, <1>4 DEF Served, s

LEMMA Invariant == StreamsSpec => []IInv
<1>1. StreamsInit => Served(state)
  BY NobodyWaits DEF StreamsInit
<1>2. TypeOK /\ PipeInv(state, running) /\ Served(state) /\ [StreamsNext]_vars => Served(state)'
  <2> SUFFICES ASSUME TypeOK, PipeInv(state, running), Served(state), [StreamsNext]_vars
               PROVE  Served(state)'
    OBVIOUS
  <2>1. CASE StreamsNext
    BY <2>1, ServedStep
  <2>2. CASE UNCHANGED vars
    BY <2>2 DEF vars
  <2>3. QED
    BY <2>1, <2>2
<1>3. IInv <=> TypeOK /\ PipeInv(state, running) /\ Served(state)
  BY DEF IInv
<1>4. QED
  BY <1>1, <1>2, <1>3, PipeInvariant, PTL DEF StreamsSpec

\* Readers and the pipe get every chunk of a stream once and in the order in which
\* it was enqueued, whether a chunk goes to a read that waits, to the queue, to a
\* later read or to the pipe; only cancel loses chunks (enqueue, read, pump).
THEOREM ChunksStayInOrder == StreamsSpec => []ChunksInOrder
<1>1. IInv => ChunksInOrder
  BY DEF IInv, Served, StreamChunks, ChunksInOrder
<1>2. QED
  BY <1>1, Invariant, PTL

\* No reader waits on a stream that holds a chunk, has ended or has failed, be it
\* released or not, and closing a stream settles the closed promise of all of its
\* readers, also of those that come later (close_if_drained, enqueue, read).
THEOREM WaitersStayServed == StreamsSpec => []WaitersAreServed
<1>1. IInv => WaitersAreServed
  <2> SUFFICES ASSUME IInv, NEW i \in DOMAIN state.readers
               PROVE  LET reader == state.readers[i]
                          stream == state.readables[reader.stream] IN
                      /\ reader.pending # <<>> =>
                           /\ stream.status = "readable" /\ stream.queue = <<>>
                           /\ stream.closing => state.pumped # <<>>
                      /\ stream.status = "closed" => ~Is(state.table, reader.closed, "pending")
    BY DEF WaitersAreServed
  <2>1. state.readers[i].stream \in Readables
    BY ReaderTypes DEF IInv, TypeOK
  <2>2. ReaderWaits(state, i) /\ ReaderHears(state, i) /\ StreamEnds(state, state.readers[i].stream)
    BY <2>1 DEF IInv, Served
  <2>3. QED
    BY <2>2 DEF ReaderWaits, ReaderHears, StreamEnds
<1>2. QED
  BY <1>1, Invariant, PTL

=============================================================================
