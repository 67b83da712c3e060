-------------------------- MODULE CombinatorProofs --------------------------
(***************************************************************************)
(* Proofs about EventLoop and AsyncGenerator for any program, number of    *)
(* promises and calls, continued: Promise.all, allSettled and any settle   *)
(* when and as their elements call for, and the reactions of a promise     *)
(* run in the order of their registration, ReactionQueue.                  *)
(***************************************************************************)
EXTENDS AsyncGeneratorProofs, SequenceTheorems

-----------------------------------------------------------------------------
(* The jobs of one promise in the queue: QueuedOf goes through the queue   *)
(* from its front. The lemmas say what happens to it when a job is added,  *)
(* when the first one is taken, and when a promise is settled.             *)

IsOf(job, p) == job.kind = "reaction" /\ job.of = p
Picked(jobs, p, f, n) ==
  IF n = 0 THEN <<>> ELSE IF IsOf(jobs[n], p) THEN Append(f[n - 1], jobs[n].reaction) ELSE f[n - 1]
Filters(jobs, p, f) == \A n \in 0..Len(jobs) : f[n] = Picked(jobs, p, f, n)

\* What has been picked from the first n jobs exists for every n.
LEMMA QueuedIs ==
  ASSUME NEW jobs, Len(jobs) \in Nat, NEW p
  PROVE  \E f : Filters(jobs, p, f) /\ QueuedOf(jobs, p) = f[Len(jobs)]
<1> DEFINE N == Len(jobs)
           At(f, n) == Picked(jobs, p, f, n)
           S == {n \in Nat : \E f : f = [k \in 0..n |-> At(f, k)]}
<1>1. 0 \in S
  <2>1. [k \in 0..0 |-> <<>>] = [j \in 0..0 |-> At([k \in 0..0 |-> <<>>], j)]
    BY DEF Picked
  <2> HIDE DEF At
  <2>2. QED
    BY <2>1
<1>2. \A n \in 0..(N - 1) : n \in S => n + 1 \in S
  <2> SUFFICES ASSUME NEW n \in Nat, NEW f, f = [k \in 0..n |-> At(f, k)] PROVE n + 1 \in S
    OBVIOUS
  <2> DEFINE g == [k \in 0..(n + 1) |-> IF k <= n THEN f[k] ELSE At(f, n + 1)]
  <2>1. \A k \in 0..(n + 1) : g[k] = At(g, k)
    <3> SUFFICES ASSUME NEW k \in 0..(n + 1) PROVE g[k] = At(g, k)
      OBVIOUS
    <3>1. k # 0 => k - 1 \in 0..n /\ g[k - 1] = f[k - 1]
      OBVIOUS
    <3>2. At(g, k) = At(f, k)
      BY <3>1 DEF Picked
    <3>3. k <= n => g[k] = f[k] /\ f[k] = At(f, k)
      <4> HIDE DEF At
      <4> QED OBVIOUS
    <3>4. ~(k <= n) => k = n + 1 /\ g[k] = At(f, n + 1)
      <4> HIDE DEF At
      <4> QED OBVIOUS
    <3> HIDE DEF At, g
    <3>5. QED
      BY <3>2, <3>3, <3>4
  <2>2. g = [k \in 0..(n + 1) |-> At(g, k)]
    <3>1. DOMAIN g = 0..(n + 1)
      OBVIOUS
    <3>2. g = [k \in 0..(n + 1) |-> g[k]]
      OBVIOUS
    <3> HIDE DEF g, At
    <3>3. QED
      BY <2>1, <3>2
  <2>3. n + 1 \in Nat
    OBVIOUS
  <2> HIDE DEF g, At
  <2>4. QED
    BY <2>2, <2>3, Zenon
<1>3. N \in S
  <2> HIDE DEF S, N
  <2>1. N \in Nat
    BY DEF N
  <2>2. 0..N \subseteq S
    BY <1>1, <1>2, <2>1, UpTo
  <2>3. QED
    BY <2>1, <2>2
<1> DEFINE P(f) == f = [k \in 0..N |-> At(f, k)]
           first == CHOOSE f : P(f)
<1>4. P(first)
  BY <1>3
<1>5. QueuedOf(jobs, p) = first[N]
  BY DEF QueuedOf, Picked, IsOf
<1> HIDE DEF first
<1>6. \A n \in 0..N : first[n] = At(first, n)
  <2> HIDE DEF At
  <2> QED BY <1>4
<1>7. Filters(jobs, p, first)
  BY <1>6 DEF Filters
<1>8. QED
  BY <1>5, <1>7

\* What has been picked is determined by the jobs.
LEMMA QueuedUnique ==
  ASSUME NEW jobs, Len(jobs) \in Nat, NEW p, NEW g, Filters(jobs, p, g)
  PROVE  QueuedOf(jobs, p) = g[Len(jobs)]
<1>1. PICK f : Filters(jobs, p, f) /\ QueuedOf(jobs, p) = f[Len(jobs)]
  BY QueuedIs
<1> DEFINE N == Len(jobs)
           S == {n \in 0..N : f[n] = g[n]}
<1>2. 0 \in S
  <2>1. 0 \in 0..N
    OBVIOUS
  <2>2. f[0] = <<>> /\ g[0] = <<>>
    BY <1>1, <2>1 DEF Filters, Picked
  <2>3. QED
    BY <2>1, <2>2
<1>3. \A n \in 0..(N - 1) : n \in S => n + 1 \in S
  <2> SUFFICES ASSUME NEW n \in 0..(N - 1), f[n] = g[n] PROVE f[n + 1] = g[n + 1]
    OBVIOUS
  <2>1. n + 1 \in 0..N /\ n + 1 # 0 /\ n + 1 - 1 = n
    OBVIOUS
  <2>2. f[n + 1] = Picked(jobs, p, f, n + 1) /\ g[n + 1] = Picked(jobs, p, g, n + 1)
    BY <1>1, <2>1 DEF Filters
  <2>3. QED
    BY <2>1, <2>2 DEF Picked
<1>4. N \in S
  <2> HIDE DEF S, N
  <2>1. N \in Nat
    BY DEF N
  <2>2. 0..N \subseteq S
    BY <1>2, <1>3, <2>1, UpTo
  <2>3. QED
    BY <2>1, <2>2
<1>5. QED
  BY <1>1, <1>4

\* What is picked from the queue are reactions.
LEMMA QueuedTypes ==
  ASSUME NEW jobs \in Seq(Jobs), NEW p \in Promises, NEW f, Filters(jobs, p, f)
  PROVE  /\ \A n \in 0..Len(jobs) : f[n] \in Seq(Reactions)
         /\ QueuedOf(jobs, p) \in Seq(Reactions)
<1> DEFINE N == Len(jobs)
           S == {n \in 0..N : f[n] \in Seq(Reactions)}
<1>0. N \in Nat /\ \A n \in 1..N : jobs[n] \in Jobs
  OBVIOUS
<1>1. 0 \in S
  <2>1. 0 \in 0..N /\ f[0] = <<>>
    BY <1>0 DEF Filters, Picked
  <2>2. <<>> \in Seq(Reactions)
    OBVIOUS
  <2>3. QED
    BY <2>1, <2>2, Zenon
<1>2. \A n \in 0..(N - 1) : n \in S => n + 1 \in S
  <2> SUFFICES ASSUME NEW n \in 0..(N - 1), f[n] \in Seq(Reactions) PROVE n + 1 \in S
    OBVIOUS
  <2>1. n + 1 \in 0..N /\ n + 1 # 0 /\ n + 1 - 1 = n /\ n + 1 \in 1..N
    BY <1>0
  <2>2. f[n + 1] = IF IsOf(jobs[n + 1], p) THEN Append(f[n], jobs[n + 1].reaction) ELSE f[n]
    BY <2>1 DEF Filters, Picked
  <2>3. IsOf(jobs[n + 1], p) => jobs[n + 1].reaction \in Reactions
    BY <1>0, <2>1, JobTypes DEF IsOf
  <2>4. f[n + 1] \in Seq(Reactions)
    BY <2>2, <2>3
  <2>5. QED
    BY <2>1, <2>4
<1>3. 0..N \subseteq S
  <2> HIDE DEF S, N
  <2>1. QED
    BY <1>0, <1>1, <1>2, UpTo
<1>4. QueuedOf(jobs, p) = f[N]
  BY <1>0, QueuedUnique
<1>5. QED
  BY <1>0, <1>3, <1>4

LEMMA QueuedType ==
  ASSUME NEW jobs \in Seq(Jobs), NEW p \in Promises
  PROVE  QueuedOf(jobs, p) \in Seq(Reactions)
<1>1. Len(jobs) \in Nat
  OBVIOUS
<1>2. PICK f : Filters(jobs, p, f)
  BY <1>1, QueuedIs
<1>3. QED
  BY <1>2, QueuedTypes

\* An empty queue has no job of anybody.
LEMMA QueuedNone ==
  ASSUME NEW p
  PROVE  QueuedOf(<<>>, p) = <<>>
<1>1. Len(<<>>) = 0 /\ 0 \in Nat
  OBVIOUS
<1>2. PICK f : Filters(<<>>, p, f) /\ QueuedOf(<<>>, p) = f[Len(<<>>)]
  BY <1>1, QueuedIs
<1>3. QED
  BY <1>1, <1>2 DEF Filters, Picked

\* A job that is added to the queue comes last.
LEMMA QueuedAppend ==
  ASSUME NEW jobs \in Seq(Jobs), NEW job \in Jobs, NEW p \in Promises
  PROVE  QueuedOf(Append(jobs, job), p) =
           IF IsOf(job, p) THEN Append(QueuedOf(jobs, p), job.reaction) ELSE QueuedOf(jobs, p)
<1> DEFINE more == Append(jobs, job)
           N == Len(jobs)
<1>1. /\ N \in Nat /\ Len(more) = N + 1 /\ more[N + 1] = job
      /\ \A n \in 1..N : more[n] = jobs[n]
  OBVIOUS
<1> HIDE DEF more, N
<1>2. PICK g : Filters(more, p, g) /\ QueuedOf(more, p) = g[N + 1]
  BY <1>1, QueuedIs
<1>3. Filters(jobs, p, g)
  <2> SUFFICES ASSUME NEW n \in 0..N PROVE g[n] = Picked(jobs, p, g, n)
    BY DEF Filters, N
  <2>1. n \in 0..(N + 1) /\ (n # 0 => n \in 1..N)
    BY <1>1
  <2>2. g[n] = Picked(more, p, g, n)
    BY <1>1, <1>2, <2>1 DEF Filters
  <2>3. QED
    BY <1>1, <2>1, <2>2 DEF Picked
<1>4. QueuedOf(jobs, p) = g[N]
  BY <1>1, <1>3, QueuedUnique DEF N
<1>5. g[N + 1] = Picked(more, p, g, N + 1)
  BY <1>1, <1>2 DEF Filters
<1>6. QED
  BY <1>1, <1>2, <1>4, <1>5 DEF Picked, more

\* The next job.
LEMMA PickedNext ==
  ASSUME NEW jobs, NEW p, NEW f, NEW n \in Nat
  PROVE  Picked(jobs, p, f, n + 1) =
           IF IsOf(jobs[n + 1], p) THEN Append(f[n], jobs[n + 1].reaction) ELSE f[n]
<1>1. n + 1 # 0 /\ n + 1 - 1 = n
  OBVIOUS
<1>2. QED
  BY <1>1 DEF Picked

\* Appending to the second of two sequences appends to both.
LEMMA AppendToConcat ==
  ASSUME NEW a \in Seq(Reactions), NEW b \in Seq(Reactions), NEW y \in Reactions
  PROVE  Append(a \o b, y) = a \o Append(b, y)
<1>1. a \o b \in Seq(Reactions) /\ <<y>> \in Seq(Reactions)
  OBVIOUS
<1>2. Append(a \o b, y) = (a \o b) \o <<y>> /\ Append(b, y) = b \o <<y>>
  BY <1>1, AppendIsConcat
<1>3. (a \o b) \o <<y>> = a \o (b \o <<y>>)
  BY <1>1, ConcatAssociative
<1>4. QED
  BY <1>2, <1>3

\* The queue without its first job.
LEMMA QueuedTail ==
  ASSUME NEW jobs \in Seq(Jobs), jobs # <<>>, NEW p \in Promises
  PROVE  /\ IsOf(Head(jobs), p) =>
              QueuedOf(jobs, p) = <<Head(jobs).reaction>> \o QueuedOf(Tail(jobs), p)
         /\ ~IsOf(Head(jobs), p) => QueuedOf(Tail(jobs), p) = QueuedOf(jobs, p)
<1> DEFINE N == Len(jobs)
           rest == Tail(jobs)
           x == Head(jobs).reaction
           first == IF IsOf(Head(jobs), p) THEN <<x>> ELSE <<>>
<1>1. /\ N \in Nat /\ N > 0 /\ Head(jobs) = jobs[1] /\ jobs[1] \in Jobs
      /\ rest \in Seq(Jobs) /\ Len(rest) = N - 1 /\ \A n \in 1..(N - 1) : rest[n] = jobs[n + 1]
  OBVIOUS
<1>2. first \in Seq(Reactions)
  <2>1. IsOf(Head(jobs), p) => x \in Reactions
    BY <1>1, JobTypes DEF IsOf
  <2>2. QED
    BY <2>1
<1> HIDE DEF rest, N, x, first
<1>3. PICK f : Filters(jobs, p, f) /\ QueuedOf(jobs, p) = f[N]
  BY <1>1, QueuedIs DEF N
<1>4. PICK g : Filters(rest, p, g) /\ QueuedOf(rest, p) = g[N - 1]
  BY <1>1, QueuedIs
<1>5. \A n \in 0..(N - 1) : g[n] \in Seq(Reactions)
  BY <1>1, <1>4, QueuedTypes
<1> DEFINE S == {n \in 0..(N - 1) : f[n + 1] = first \o g[n]}
<1>6. 0 \in S
  <2>1. 0 \in 0..N /\ 1 \in 0..N /\ 0 \in 0..(N - 1)
    BY <1>1
  <2>2. f[0] = <<>> /\ g[0] = <<>>
    BY <1>1, <1>3, <1>4, <2>1 DEF Filters, Picked, N
  <2>3. f[1] = IF IsOf(jobs[1], p) THEN Append(f[0], jobs[1].reaction) ELSE f[0]
    BY <1>1, <1>3, <2>1 DEF Filters, Picked, N
  <2>4. IsOf(Head(jobs), p) => x \in Reactions
    BY <1>1, JobTypes DEF IsOf, x
  <2>5. f[1] = first
    BY <1>1, <2>2, <2>3, <2>4 DEF first, x
  <2>6. first \o <<>> = first
    BY <1>2
  <2>7. f[0 + 1] = first \o g[0]
    BY <2>2, <2>5, <2>6
  <2>8. QED
    BY <2>1, <2>7
<1>7. \A n \in 0..(N - 2) : n \in S => n + 1 \in S
  <2> SUFFICES ASSUME NEW n \in 0..(N - 2), f[n + 1] = first \o g[n] PROVE n + 1 \in S
    OBVIOUS
  <2> DEFINE job == jobs[n + 2]
  <2>1. /\ n \in 0..(N - 1) /\ n + 1 \in 0..(N - 1) /\ n + 1 \in 1..(N - 1) /\ n + 2 \in 0..N /\ n + 2 \in 1..N
        /\ n + 1 - 1 = n /\ n + 2 - 1 = n + 1 /\ n + 1 # 0 /\ n + 2 # 0 /\ n + 1 + 1 = n + 2
    BY <1>1
  <2>2. rest[n + 1] = job /\ job \in Jobs
    BY <1>1, <2>1 DEF N
  <2>3. f[n + 2] = IF IsOf(job, p) THEN Append(f[n + 1], job.reaction) ELSE f[n + 1]
    <3>1. f[n + 2] = Picked(jobs, p, f, n + 2)
      BY <1>3, <2>1 DEF Filters, N
    <3>2. PICK m \in Nat : m = n + 1 /\ m + 1 = n + 2
      BY <1>1
    <3>3. Picked(jobs, p, f, n + 2) = IF IsOf(jobs[n + 2], p) THEN Append(f[n + 1], jobs[n + 2].reaction) ELSE f[n + 1]
      <4>1. Picked(jobs, p, f, m + 1) = IF IsOf(jobs[m + 1], p) THEN Append(f[m], jobs[m + 1].reaction) ELSE f[m]
        BY PickedNext
      <4>2. QED
        BY <3>2, <4>1
    <3>4. QED
      BY <3>1, <3>3, Zenon
  <2>4. g[n + 1] = IF IsOf(job, p) THEN Append(g[n], job.reaction) ELSE g[n]
    BY <1>1, <1>4, <2>1, <2>2 DEF Filters, Picked
  <2>5. IsOf(job, p) => job.reaction \in Reactions
    BY <2>2, JobTypes DEF IsOf
  <2> HIDE DEF job
  <2>6. g[n] \in Seq(Reactions)
    BY <1>5, <2>1
  <2>7. \A a, b \in Seq(Reactions), y \in Reactions : Append(a \o b, y) = a \o Append(b, y)
    BY AppendToConcat
  <2>8. f[n + 2] = first \o g[n + 1]
    <3>1. CASE IsOf(job, p)
      BY <1>2, <2>3, <2>4, <2>5, <2>6, <2>7, <3>1
    <3>2. CASE ~IsOf(job, p)
      BY <2>3, <2>4, <3>2
    <3>3. QED
      BY <3>1, <3>2
  <2>9. QED
    BY <2>1, <2>8
<1>8. f[N] = first \o g[N - 1]
  <2>1. N - 1 \in Nat /\ N - 1 - 1 = N - 2 /\ N - 1 + 1 = N /\ N - 1 \in 0..(N - 1)
    BY <1>1
  <2>2. 0..(N - 1) \subseteq S
    <3> HIDE DEF S
    <3>1. \A n \in 0..(N - 1 - 1) : n \in S => n + 1 \in S
      BY <1>7, <2>1
    <3>2. QED
      BY <1>6, <2>1, <3>1, UpTo
  <2>3. QED
    BY <2>1, <2>2
<1>9. IsOf(Head(jobs), p) => QueuedOf(jobs, p) = <<x>> \o QueuedOf(rest, p)
  BY <1>3, <1>4, <1>8 DEF first
<1>10. <<>> \o QueuedOf(rest, p) = QueuedOf(rest, p)
  <2>1. QueuedOf(rest, p) \in Seq(Reactions)
    BY <1>1, QueuedType
  <2>2. QED
    BY <2>1
<1>11. ~IsOf(Head(jobs), p) => QueuedOf(jobs, p) = QueuedOf(rest, p)
  BY <1>3, <1>4, <1>8, <1>10 DEF first
<1>12. QED
  BY <1>9, <1>11 DEF x, rest

\* The jobs of the reactions that waited for a promise come last, in their order.
Batch(jobs, more, q, waiting, rejected) ==
  /\ Len(more) = Len(jobs) + Len(waiting)
  /\ \A i \in DOMAIN jobs : more[i] = jobs[i]
  /\ \A i \in DOMAIN waiting : more[Len(jobs) + i] = Reaction(q, waiting[i], rejected)

\* A promise that settles adds its reactions to its own jobs, and no others.
LEMMA QueuedBatch ==
  ASSUME NEW jobs \in Seq(Jobs), NEW more \in Seq(Jobs), NEW q \in Promises, NEW p \in Promises,
         NEW waiting \in Seq(Reactions), NEW rejected \in BOOLEAN,
         Batch(jobs, more, q, waiting, rejected)
  PROVE  QueuedOf(more, p) = IF p = q THEN QueuedOf(jobs, p) \o waiting ELSE QueuedOf(jobs, p)
<1> DEFINE N == Len(jobs)
           M == Len(waiting)
           Q == QueuedOf(jobs, p)
           Added(k) == IF p = q THEN Q \o SubSeq(waiting, 1, k) ELSE Q
<1>0. /\ Len(more) = N + M
      /\ \A i \in DOMAIN jobs : more[i] = jobs[i]
      /\ \A i \in DOMAIN waiting : more[N + i] = Reaction(q, waiting[i], rejected)
  BY DEF Batch
<1>1. /\ N \in Nat /\ M \in Nat /\ DOMAIN jobs = 1..N /\ DOMAIN waiting = 1..M
      /\ Len(more) = N + M /\ Q \in Seq(Reactions) /\ N + M \in Nat
  BY <1>0, QueuedType
<1>2. PICK g : Filters(more, p, g) /\ QueuedOf(more, p) = g[N + M]
  BY <1>1, QueuedIs
<1>3. g[N] = Q
  <2>1. Filters(jobs, p, g)
    <3> SUFFICES ASSUME NEW n \in 0..N PROVE g[n] = Picked(jobs, p, g, n)
      BY DEF Filters
    <3>1. n \in 0..(N + M) /\ (n # 0 => n \in 1..N)
      BY <1>1
    <3>2. g[n] = Picked(more, p, g, n)
      BY <1>1, <1>2, <3>1 DEF Filters
    <3>3. QED
      BY <1>0, <1>1, <3>1, <3>2 DEF Picked
  <2>2. QED
    BY <1>1, <2>1, QueuedUnique
<1> DEFINE S == {k \in 0..M : g[N + k] = Added(k)}
<1> HIDE DEF N, M, Q
<1>4. 0 \in S
  <2>1. SubSeq(waiting, 1, 0) = <<>> /\ Q \o <<>> = Q
    BY <1>1
  <2>2. g[N + 0] = Added(0) /\ 0 \in 0..M
    <3>1. N + 0 = N /\ 0 \in 0..M
      BY <1>1
    <3>2. QED
      BY <1>3, <2>1, <3>1
  <2>3. QED
    BY <2>2
<1>5. \A k \in 0..(M - 1) : k \in S => k + 1 \in S
  <2> SUFFICES ASSUME NEW k \in 0..(M - 1), g[N + k] = Added(k) PROVE k + 1 \in S
    OBVIOUS
  <2>1. /\ k + 1 \in 1..M /\ k + 1 \in 0..M /\ N + (k + 1) \in 0..(N + M)
        /\ N + (k + 1) # 0 /\ N + (k + 1) - 1 = N + k
    BY <1>1
  <2>2. more[N + (k + 1)] = Reaction(q, waiting[k + 1], rejected)
    BY <1>0, <1>1, <2>1 DEF N
  <2>3. g[N + (k + 1)] = Picked(more, p, g, N + (k + 1))
    BY <1>1, <1>2, <2>1 DEF Filters
  <2>4. g[N + (k + 1)] = IF p = q THEN Append(g[N + k], waiting[k + 1]) ELSE g[N + k]
    <3>1. /\ more[N + (k + 1)].kind = "reaction" /\ more[N + (k + 1)].of = q
          /\ more[N + (k + 1)].reaction = waiting[k + 1]
      BY <2>2 DEF Reaction
    <3>2. g[N + (k + 1)] = IF IsOf(more[N + (k + 1)], p) THEN Append(g[N + k], more[N + (k + 1)].reaction)
                           ELSE g[N + k]
      <4>1. N + k \in Nat /\ N + k + 1 = N + (k + 1)
        BY <1>1
      <4>2. QED
        BY <2>3, <4>1, PickedNext
    <3>3. QED
      BY <3>1, <3>2 DEF IsOf
  <2>5. /\ SubSeq(waiting, 1, k) \in Seq(Reactions) /\ waiting[k + 1] \in Reactions
        /\ SubSeq(waiting, 1, k + 1) = Append(SubSeq(waiting, 1, k), waiting[k + 1])
    <3>1. \A i \in 1..k : waiting[i] \in Reactions
      BY <1>1, <2>1 DEF M
    <3>2. SubSeq(waiting, 1, k) \in Seq(Reactions)
      BY <2>1, <3>1, SubSeqProperties
    <3>3. 1 \in 1..Len(waiting) /\ k + 1 \in 1..Len(waiting) /\ waiting[k + 1] \in Reactions
      BY <1>1, <2>1 DEF M
    <3>4. SubSeq(waiting, 1, k + 1) = SubSeq(waiting, 1, k + 1 - 1) \o <<waiting[k + 1]>>
      BY <3>3, SubSeqRecursiveSecond
    <3>5. k + 1 - 1 = k
      BY <1>1
    <3>6. QED
      BY <3>2, <3>3, <3>4, <3>5, AppendIsConcat
  <2>6. \A a, b \in Seq(Reactions), y \in Reactions : Append(a \o b, y) = a \o Append(b, y)
    BY AppendToConcat
  <2>7. Append(Q \o SubSeq(waiting, 1, k), waiting[k + 1]) = Q \o SubSeq(waiting, 1, k + 1)
    BY ZenonT(90), <1>1, <2>5, <2>6
  <2>8. g[N + (k + 1)] = Added(k + 1)
    BY <2>4, <2>7
  <2>9. QED
    BY <2>1, <2>8
<1>6. M \in S
  <2> HIDE DEF S
  <2>1. 0..M \subseteq S
    BY <1>1, <1>4, <1>5, UpTo
  <2>2. QED
    BY <1>1, <2>1
<1>7. SubSeq(waiting, 1, M) = waiting
  BY <1>1 DEF M
<1>8. QED
  BY <1>2, <1>6, <1>7 DEF Q

-----------------------------------------------------------------------------
(* Tables that grow: the reactions of a promise are added to at their end, *)
(* none of them is an element of a combinator, and the combinators stay.   *)

\* The queue of a promise: what waits for it follows what is queued.
LEMMA ReactionsType ==
  ASSUME NEW t \in Tables, NEW p \in Promises
  PROVE  ReactionsOf(t, p) \in Seq(Reactions)
<1>1. t.microtasks \in Seq(Jobs) /\ t.reactions[p] \in Seq(Reactions)
  BY TableTypes
<1>2. QueuedOf(t.microtasks, p) \in Seq(Reactions)
  BY <1>1, QueuedType
<1>3. QED
  BY <1>1, <1>2 DEF ReactionsOf

\* A queued reaction of a promise knows how the promise was settled.
Honest(t) ==
  \A i \in DOMAIN t.microtasks : t.microtasks[i].kind = "reaction" =>
    Is(t, t.microtasks[i].of, IF t.microtasks[i].rejected THEN "rejected" ELSE "fulfilled")

\* Who may settle promise p, but for the combinators.
Strays(t, p) ==
  \/ \E q \in Promises : \E k \in DOMAIN t.reactions[q] : ReactionAims(t.reactions[q][k], p)
  \/ \E i \in DOMAIN t.microtasks : JobAims(t.microtasks[i], p)
NewIn(t, u, p) == Is(t, p, "absent") /\ Exists(u, p)

Longer(r, s) == \E w \in Seq(Reactions) : s = r \o w /\ \A k \in DOMAIN w : w[k].kind # "element"
Grows(t, u, X) ==
  /\ u \in Tables /\ u.combinators = t.combinators /\ Goes(t, u, X) /\ (Honest(t) => Honest(u))
  /\ \A p \in Promises : Strays(u, p) => Strays(t, p) \/ p \in X \/ NewIn(t, u, p)
  /\ \A p \in Promises : Longer(ReactionsOf(t, p), ReactionsOf(u, p))

\* Additions at the end compose.
LEMMA LongerSame ==
  ASSUME NEW r \in Seq(Reactions)
  PROVE  Longer(r, r)
<1>1. <<>> \in Seq(Reactions) /\ r = r \o <<>> /\ \A k \in DOMAIN <<>> : <<>>[k].kind # "element"
  OBVIOUS
<1>2. QED
  BY <1>1 DEF Longer

LEMMA LongerTrans ==
  ASSUME NEW r \in Seq(Reactions), NEW s, NEW z, Longer(r, s), Longer(s, z)
  PROVE  Longer(r, z)
<1>1. PICK v \in Seq(Reactions) : s = r \o v /\ \A k \in DOMAIN v : v[k].kind # "element"
  BY DEF Longer
<1>2. PICK w \in Seq(Reactions) : z = s \o w /\ \A k \in DOMAIN w : w[k].kind # "element"
  BY DEF Longer
<1>3. v \o w \in Seq(Reactions) /\ z = r \o (v \o w)
  BY <1>1, <1>2, ConcatAssociative
<1>4. \A k \in DOMAIN (v \o w) : (v \o w)[k].kind # "element"
  <2> SUFFICES ASSUME NEW k \in 1..(Len(v) + Len(w)) PROVE (v \o w)[k].kind # "element"
    BY <1>1, <1>2
  <2>1. CASE k <= Len(v)
    BY <1>1, <1>2, <2>1
  <2>2. CASE k > Len(v)
    <3>1. (v \o w)[k] = w[k - Len(v)] /\ k - Len(v) \in DOMAIN w
      BY <1>1, <1>2, <2>2
    <3>2. QED
      BY <1>2, <3>1
  <2>3. QED
    BY <2>1, <2>2
<1>5. QED
  BY <1>3, <1>4 DEF Longer

\* Steps that let the table grow compose.
LEMMA GrowsSame ==
  ASSUME NEW t \in Tables, NEW X
  PROVE  Grows(t, t, X)
<1>1. \A p \in Promises : Longer(ReactionsOf(t, p), ReactionsOf(t, p))
  BY ReactionsType, LongerSame
<1>2. QED
  BY <1>1 DEF Grows, Goes

LEMMA GrowsWider ==
  ASSUME NEW t, NEW u, NEW X, NEW Y, Grows(t, u, X), X \subseteq Y
  PROVE  Grows(t, u, Y)
BY DEF Grows, Goes

LEMMA GrowsTrans ==
  ASSUME NEW t \in Tables, NEW u, NEW v, NEW X, NEW Y,
         Grows(t, u, X), Grows(u, v, Y), \A p \in Y : p \in X \/ NewIn(t, u, p)
  PROVE  Grows(t, v, X)
<1>1. v \in Tables /\ v.combinators = t.combinators /\ (Honest(t) => Honest(v))
  BY DEF Grows
<1>2. Goes(t, v, X)
  BY DEF Grows, Goes, NewIn, Exists, Is
<1>3. \A p \in Promises : Strays(v, p) => Strays(t, p) \/ p \in X \/ NewIn(t, v, p)
  <2> SUFFICES ASSUME NEW p \in Promises, Strays(v, p) PROVE Strays(t, p) \/ p \in X \/ NewIn(t, v, p)
    OBVIOUS
  <2>1. Goes(t, u, X) /\ Goes(u, v, Y)
    BY DEF Grows
  <2>2. NewIn(t, u, p) => NewIn(t, v, p)
    BY <2>1 DEF NewIn, Goes
  <2>3. NewIn(u, v, p) => NewIn(t, v, p)
    BY <2>1 DEF NewIn, Goes, Exists
  <2>4. Strays(u, p) \/ p \in Y \/ NewIn(u, v, p)
    BY DEF Grows
  <2>5. Strays(u, p) => Strays(t, p) \/ p \in X \/ NewIn(t, u, p)
    BY DEF Grows
  <2>6. QED
    BY <2>2, <2>3, <2>4, <2>5
<1>4. \A p \in Promises : Longer(ReactionsOf(t, p), ReactionsOf(v, p))
  <2> TAKE p \in Promises
  <2>1. Longer(ReactionsOf(t, p), ReactionsOf(u, p)) /\ Longer(ReactionsOf(u, p), ReactionsOf(v, p))
    BY DEF Grows
  <2>2. QED
    BY <2>1, ReactionsType, LongerTrans
<1>5. QED
  BY <1>1, <1>2, <1>3, <1>4 DEF Grows

\* What follows the creation of a promise may settle and aim at it.
LEMMA CreateGrows ==
  ASSUME NEW t \in Tables, HasRoom(t)
  PROVE  Grows(t, Create(t), {})
<1> DEFINE u == Create(t)
           f == Fresh(t)
<1>1. /\ u \in Tables /\ u.reactions = t.reactions
      /\ u.microtasks = t.microtasks /\ u.handled = t.handled
      /\ u.unhandled = t.unhandled /\ u.combinators = t.combinators
      /\ u.state = [t.state EXCEPT ![f] = "pending"]
      /\ f \in Promises /\ t.state[f] = "absent"
  BY CreateIs
<1>2. t.state \in [Promises -> PromiseStates] /\ t.microtasks \in Seq(Jobs)
  BY TableTypes
<1> HIDE DEF u, f
<1>3. Goes(t, u, {})
  BY <1>1, <1>2 DEF Goes, Exists, Is
<1>4. Honest(t) => Honest(u)
  <2> SUFFICES ASSUME Honest(t), NEW i \in DOMAIN t.microtasks, t.microtasks[i].kind = "reaction"
               PROVE  Is(u, t.microtasks[i].of, IF t.microtasks[i].rejected THEN "rejected" ELSE "fulfilled")
    BY <1>1 DEF Honest
  <2>1. t.microtasks[i].of \in Promises
    BY <1>2, JobTypes
  <2>2. Is(t, t.microtasks[i].of, IF t.microtasks[i].rejected THEN "rejected" ELSE "fulfilled")
    BY DEF Honest
  <2>3. QED
    BY <1>1, <1>2, <2>1, <2>2 DEF Is
<1>5. \A p \in Promises : Strays(u, p) => Strays(t, p)
  BY <1>1 DEF Strays
<1>6. \A p \in Promises : ReactionsOf(u, p) = ReactionsOf(t, p)
  BY <1>1 DEF ReactionsOf
<1>7. \A p \in Promises : Longer(ReactionsOf(t, p), ReactionsOf(u, p))
  BY <1>6, ReactionsType, LongerSame
<1>8. QED
  BY <1>1, <1>3, <1>4, <1>5, <1>7 DEF Grows, u

\* What a step does to the promise it creates, it does to a new promise.
LEMMA GrowsFresh ==
  ASSUME NEW t \in Tables, HasRoom(t), NEW v, NEW X, Grows(Create(t), v, X \cup {Fresh(t)})
  PROVE  Grows(t, v, X)
<1>1. Grows(t, Create(t), {})
  BY CreateGrows
<1>2. Grows(t, Create(t), X)
  BY <1>1, GrowsWider
<1>3. NewIn(t, Create(t), Fresh(t))
  BY CreateIs, TableTypes DEF NewIn, Is, Exists
<1>4. \A p \in X \cup {Fresh(t)} : p \in X \/ NewIn(t, Create(t), p)
  BY <1>3
<1>5. QED
  BY <1>2, <1>4, GrowsTrans

\* Each operator of Promises lets the table grow: it settles at most what it
\* is given, and adds to queues at their end.
LEMMA MarkHandledGrows ==
  ASSUME NEW t \in Tables, NEW q \in Promises
  PROVE  Grows(t, MarkHandled(t, q), {})
<1> DEFINE u == MarkHandled(t, q)
<1>1. /\ u \in Tables /\ u.reactions = t.reactions
      /\ u.microtasks = t.microtasks /\ u.state = t.state
      /\ u.combinators = t.combinators
  BY MarkHandledIs
<1> HIDE DEF u
<1>2. Goes(t, u, {}) /\ (Honest(t) => Honest(u))
  BY <1>1 DEF Goes, Honest, Exists, Is
<1>3. \A p \in Promises : Strays(u, p) => Strays(t, p)
  BY <1>1 DEF Strays
<1>4. \A p \in Promises : ReactionsOf(u, p) = ReactionsOf(t, p)
  BY <1>1 DEF ReactionsOf
<1>5. \A p \in Promises : Longer(ReactionsOf(t, p), ReactionsOf(u, p))
  BY <1>4, ReactionsType, LongerSame
<1>6. QED
  BY <1>1, <1>2, <1>3, <1>5 DEF Grows, u

\* A job that is no reaction.
LEMMA EnqueueGrows ==
  ASSUME NEW t \in Tables, NEW job \in Jobs, job.kind # "reaction",
         NEW X, \A p \in Promises : JobAims(job, p) => p \in X
  PROVE  Grows(t, Enqueue(t, <<job>>), X)
<1> DEFINE u == Enqueue(t, <<job>>)
           n == Len(t.microtasks)
<1>1. /\ u \in Tables /\ u.reactions = t.reactions
      /\ u.state = t.state /\ u.combinators = t.combinators
      /\ u.microtasks = Append(t.microtasks, job)
  BY EnqueueIs
<1> HIDE DEF u
<1>2. t.microtasks \in Seq(Jobs) /\ n \in Nat
  BY TableTypes
<1>3. /\ DOMAIN t.microtasks = 1..n /\ DOMAIN u.microtasks = 1..(n + 1)
      /\ \A i \in 1..n : u.microtasks[i] = t.microtasks[i]
      /\ u.microtasks[n + 1] = job
  BY <1>1, <1>2
<1>4. \A i \in DOMAIN u.microtasks : i \in DOMAIN t.microtasks \/ i = n + 1
  BY <1>2, <1>3
<1> HIDE DEF n
<1>5. Goes(t, u, X)
  BY <1>1 DEF Goes, Exists, Is
<1>6. Honest(t) => Honest(u)
  BY <1>1, <1>3, <1>4 DEF Honest, Is
<1>7. \A p \in Promises : Strays(u, p) => Strays(t, p) \/ p \in X
  BY <1>1, <1>3, <1>4 DEF Strays
<1>8. \A p \in Promises : ReactionsOf(u, p) = ReactionsOf(t, p)
  <2> TAKE p \in Promises
  <2>1. QueuedOf(u.microtasks, p) = QueuedOf(t.microtasks, p)
    BY <1>1, <1>2, QueuedAppend DEF IsOf
  <2>2. QED
    BY <1>1, <2>1 DEF ReactionsOf
<1>9. \A p \in Promises : Longer(ReactionsOf(t, p), ReactionsOf(u, p))
  BY <1>8, ReactionsType, LongerSame
<1>10. QED
  BY <1>1, <1>5, <1>6, <1>7, <1>9 DEF Grows, u

Keeps(t, u) ==
  /\ u \in Tables /\ (Honest(t) => Honest(u))
  /\ \A q \in Promises : ReactionsOf(u, q) = ReactionsOf(t, q)
  /\ \A q \in Promises : Strays(u, q) => Strays(t, q)

\* settle_promise moves the reactions of a promise to the end of the queue, where
\* they come after its older ones.
LEMMA SettleKeeps ==
  ASSUME NEW t \in Tables, NEW p \in Promises, NEW rejected \in BOOLEAN
  PROVE  Keeps(t, Settle(t, p, rejected))
<1> DEFINE u == Settle(t, p, rejected)
           n == Len(t.microtasks)
           waiting == t.reactions[p]
<1>1. CASE ~Is(t, p, "pending")
  BY <1>1 DEF Settle, Keeps
<1>2. CASE Is(t, p, "pending")
  <2>1. Settled(t, u, p, rejected)
    BY <1>2, SettleIs
  <2> HIDE DEF u
  <2>2. /\ t.microtasks \in Seq(Jobs) /\ t.reactions \in [Promises -> Seq(Reactions)]
        /\ t.state \in [Promises -> PromiseStates] /\ waiting \in Seq(Reactions)
    BY TableTypes
  <2>3. /\ u \in Tables /\ u.state = [t.state EXCEPT ![p] = IF rejected THEN "rejected" ELSE "fulfilled"]
        /\ u.reactions = [t.reactions EXCEPT ![p] = <<>>]
        /\ Len(u.microtasks) = n + Len(waiting)
        /\ \A i \in DOMAIN t.microtasks : u.microtasks[i] = t.microtasks[i]
        /\ \A i \in DOMAIN waiting : u.microtasks[n + i] = Reaction(p, waiting[i], rejected)
    BY <2>1 DEF Settled
  <2>4. u.microtasks \in Seq(Jobs)
    BY <2>3, TableTypes
  <2> HIDE DEF waiting
  <2>5. /\ n \in Nat /\ DOMAIN t.microtasks = 1..n /\ DOMAIN waiting = 1..Len(waiting)
        /\ Len(waiting) \in Nat /\ DOMAIN u.microtasks = 1..(n + Len(waiting))
    <3>1. n \in Nat /\ DOMAIN t.microtasks = 1..n /\ DOMAIN waiting = 1..Len(waiting) /\ Len(waiting) \in Nat
      BY <2>2
    <3>2. DOMAIN u.microtasks = 1..Len(u.microtasks)
      BY <2>4
    <3>3. QED
      BY <2>3, <3>1, <3>2
  <2>50. \A q \in Promises : QueuedOf(u.microtasks, q) =
           IF q = p THEN QueuedOf(t.microtasks, q) \o waiting ELSE QueuedOf(t.microtasks, q)
    <3> TAKE q \in Promises
    <3>1. Batch(t.microtasks, u.microtasks, p, waiting, rejected)
      BY <2>3 DEF Batch
    <3>2. t.microtasks \in Seq(Jobs) /\ u.microtasks \in Seq(Jobs) /\ waiting \in Seq(Reactions) /\ p \in Promises
          /\ rejected \in BOOLEAN
      BY <2>2, <2>4
    <3>3. \A jobs \in Seq(Jobs), more \in Seq(Jobs), a \in Seq(Reactions) : Batch(jobs, more, p, a, rejected) =>
            QueuedOf(more, q) = IF q = p THEN QueuedOf(jobs, q) \o a ELSE QueuedOf(jobs, q)
      BY QueuedBatch
    <3>4. QED
      BY <3>1, <3>2, <3>3
  <2> HIDE DEF n
  <2>6. \A i \in DOMAIN u.microtasks :
          \/ i \in DOMAIN t.microtasks /\ u.microtasks[i] = t.microtasks[i]
          \/ \E k \in DOMAIN waiting : u.microtasks[i] = Reaction(p, waiting[k], rejected)
    <3> SUFFICES ASSUME NEW i \in DOMAIN u.microtasks, i \notin DOMAIN t.microtasks
                 PROVE  \E k \in DOMAIN waiting : u.microtasks[i] = Reaction(p, waiting[k], rejected)
      BY <2>3
    <3>1. PICK k \in Nat : i = n + k /\ k \in 1..Len(waiting)
      <4>1. i - n \in 1..Len(waiting) /\ i = n + (i - n)
        BY <2>5
      <4>2. QED
        BY <4>1
    <3>2. QED
      BY <2>3, <2>5, <3>1
  <2>7. \A q \in Promises : ReactionsOf(u, q) = ReactionsOf(t, q)
    <3> SUFFICES ASSUME NEW q \in Promises PROVE ReactionsOf(u, q) = ReactionsOf(t, q)
      OBVIOUS
    <3>1. QueuedOf(u.microtasks, q) =
            IF q = p THEN QueuedOf(t.microtasks, q) \o waiting ELSE QueuedOf(t.microtasks, q)
      BY <2>50
    <3>2. QueuedOf(t.microtasks, q) \in Seq(Reactions)
      BY <2>2, QueuedType
    <3>3. CASE q = p
      <4>0. waiting = t.reactions[p]
        BY DEF waiting
      <4>1. (QueuedOf(t.microtasks, q) \o waiting) \in Seq(Reactions)
        BY <2>2, <3>2
      <4>2. (QueuedOf(t.microtasks, q) \o waiting) \o <<>> = QueuedOf(t.microtasks, q) \o waiting
        BY <4>1
      <4>3. u.reactions[q] = <<>>
        BY <2>2, <2>3, <3>3
      <4>4. QED
        BY <3>1, <3>3, <4>0, <4>2, <4>3 DEF ReactionsOf
    <3>4. CASE q # p
      BY <2>2, <2>3, <3>1, <3>4 DEF ReactionsOf
    <3>5. QED
      BY <3>3, <3>4
  <2>8. \A i \in DOMAIN waiting : Reaction(p, waiting[i], rejected).reaction = waiting[i]
                                  /\ Reaction(p, waiting[i], rejected).kind = "reaction"
                                  /\ Reaction(p, waiting[i], rejected).of = p
                                  /\ Reaction(p, waiting[i], rejected).rejected = rejected
    BY DEF Reaction
  <2>9. \A q \in Promises : Strays(u, q) => Strays(t, q)
    <3> SUFFICES ASSUME NEW q \in Promises, Strays(u, q) PROVE Strays(t, q)
      OBVIOUS
    <3>1. CASE \E r \in Promises : \E k \in DOMAIN u.reactions[r] : ReactionAims(u.reactions[r][k], q)
      <4>1. PICK r \in Promises : \E k \in DOMAIN u.reactions[r] : ReactionAims(u.reactions[r][k], q)
        BY <3>1
      <4>2. r # p
        BY <2>2, <2>3, <4>1
      <4>3. u.reactions[r] = t.reactions[r]
        BY <2>2, <2>3, <4>2
      <4>4. QED
        BY <4>1, <4>3 DEF Strays
    <3>2. CASE \E i \in DOMAIN u.microtasks : JobAims(u.microtasks[i], q)
      <4>1. PICK i \in DOMAIN u.microtasks : JobAims(u.microtasks[i], q)
        BY <3>2
      <4>2. CASE i \in DOMAIN t.microtasks /\ u.microtasks[i] = t.microtasks[i]
        BY <4>1, <4>2 DEF Strays
      <4>3. CASE \E k \in DOMAIN waiting : u.microtasks[i] = Reaction(p, waiting[k], rejected)
        <5>1. PICK k \in DOMAIN waiting : u.microtasks[i] = Reaction(p, waiting[k], rejected)
          BY <4>3
        <5>2. ReactionAims(waiting[k], q)
          BY <2>8, <4>1, <5>1 DEF JobAims
        <5>3. QED
          BY <5>2 DEF Strays, waiting
      <4>4. QED
        BY <2>6, <4>2, <4>3
    <3>3. QED
      BY <3>1, <3>2 DEF Strays
  <2>10. Honest(t) => Honest(u)
    <3> SUFFICES ASSUME Honest(t), NEW i \in DOMAIN u.microtasks, u.microtasks[i].kind = "reaction"
                 PROVE  Is(u, u.microtasks[i].of, IF u.microtasks[i].rejected THEN "rejected" ELSE "fulfilled")
      BY DEF Honest
    <3>1. CASE i \in DOMAIN t.microtasks /\ u.microtasks[i] = t.microtasks[i]
      <4> DEFINE q == t.microtasks[i].of
      <4>1. q \in Promises
        BY <2>2, <3>1, JobTypes
      <4>2. Is(t, q, IF t.microtasks[i].rejected THEN "rejected" ELSE "fulfilled")
        BY <3>1 DEF Honest
      <4>3. q # p
        BY <1>2, <4>2 DEF Is
      <4>4. QED
        BY <2>2, <2>3, <3>1, <4>1, <4>2, <4>3 DEF Is
    <3>2. CASE \E k \in DOMAIN waiting : u.microtasks[i] = Reaction(p, waiting[k], rejected)
      BY <2>2, <2>3, <2>8, <3>2 DEF Is
    <3>3. QED
      BY <2>6, <3>1, <3>2
  <2>11. QED
    BY <2>3, <2>7, <2>9, <2>10 DEF Keeps, u
<1>3. QED
  BY <1>1, <1>2

LEMMA SettleGrows ==
  ASSUME NEW t \in Tables, NEW p \in Promises, NEW rejected \in BOOLEAN
  PROVE  Grows(t, Settle(t, p, rejected), {p})
<1> DEFINE u == Settle(t, p, rejected)
<1>1. Keeps(t, u)
  BY SettleKeeps
<1>2. Goes(t, u, {p}) /\ u.combinators = t.combinators
  <2>1. CASE Is(t, p, "pending")
    <3>1. Settled(t, u, p, rejected) /\ t.state \in [Promises -> PromiseStates]
      BY <2>1, SettleIs, TableTypes
    <3>2. QED
      BY <2>1, <3>1 DEF Settled, Goes, Exists, Is
  <2>2. CASE ~Is(t, p, "pending")
    BY <2>2 DEF Settle, Goes
  <2>3. QED
    BY <2>1, <2>2
<1> HIDE DEF u
<1>3. \A q \in Promises : Longer(ReactionsOf(t, q), ReactionsOf(u, q))
  BY <1>1, ReactionsType, LongerSame DEF Keeps
<1>4. QED
  BY <1>1, <1>2, <1>3 DEF Keeps, Grows, u

\* A new reaction comes after those its promise has: one that is settled has none
\* left that wait.
LEMMA SubscribeAdds ==
  ASSUME NEW t \in Tables, Listens(t), NEW p \in Promises, NEW x \in Reactions, Exists(t, p)
  PROVE  LET u == Subscribe(t, p, x) IN
         /\ ReactionsOf(u, p) = Append(ReactionsOf(t, p), x)
         /\ \A q \in Promises : q # p => ReactionsOf(u, q) = ReactionsOf(t, q)
         /\ Honest(t) => Honest(u)
         /\ \A q \in Promises : Strays(u, q) => Strays(t, q) \/ ReactionAims(x, q)
<1> DEFINE u == Subscribe(t, p, x)
           n == Len(t.microtasks)
           m == Len(t.reactions[p])
           Q == QueuedOf(t.microtasks, p)
           job == Reaction(p, x, Is(t, p, "rejected"))
<1>1. /\ u \in Tables /\ u.state = t.state
      /\ Is(t, p, "pending") =>
           u.microtasks = t.microtasks /\ u.reactions = [t.reactions EXCEPT ![p] = Append(@, x)]
      /\ ~Is(t, p, "pending") =>
           u.microtasks = Append(t.microtasks, job) /\ u.reactions = t.reactions
  BY SubscribeIs
<1> HIDE DEF u
<1>2. /\ t.microtasks \in Seq(Jobs) /\ n \in Nat /\ t.reactions \in [Promises -> Seq(Reactions)]
      /\ t.state \in [Promises -> PromiseStates] /\ Q \in Seq(Reactions)
      /\ t.reactions[p] \in Seq(Reactions) /\ m \in Nat
  BY TableTypes, QueuedType
<1>3. job.kind = "reaction" /\ job.of = p /\ job.reaction = x /\ job.rejected = Is(t, p, "rejected")
  BY DEF Reaction
<1>4. job \in Jobs
  BY JobTypes DEF Is
<1> HIDE DEF job, Q
<1>5. CASE Is(t, p, "pending")
  <2>1. u.microtasks = t.microtasks /\ u.reactions = [t.reactions EXCEPT ![p] = Append(@, x)]
    BY <1>1, <1>5
  <2>2. u.reactions[p] = Append(t.reactions[p], x) /\ \A q \in Promises : q # p => u.reactions[q] = t.reactions[q]
    BY <1>2, <2>1
  <2>3. ReactionsOf(u, p) = Append(ReactionsOf(t, p), x)
    <3>1. Append(Q \o t.reactions[p], x) = Q \o Append(t.reactions[p], x)
      BY <1>2, AppendToConcat
    <3>2. QED
      BY <2>1, <2>2, <3>1 DEF ReactionsOf, Q
  <2>4. \A q \in Promises : q # p => ReactionsOf(u, q) = ReactionsOf(t, q)
    BY <2>1, <2>2 DEF ReactionsOf
  <2>5. Honest(t) => Honest(u)
    BY <1>1, <2>1 DEF Honest, Is
  <2>6. \A q \in Promises : Strays(u, q) => Strays(t, q) \/ ReactionAims(x, q)
    <3> SUFFICES ASSUME NEW q \in Promises, Strays(u, q), ~ReactionAims(x, q) PROVE Strays(t, q)
      OBVIOUS
    <3>1. CASE \E i \in DOMAIN u.microtasks : JobAims(u.microtasks[i], q)
      BY <2>1, <3>1 DEF Strays
    <3>2. CASE \E r \in Promises : \E k \in DOMAIN u.reactions[r] : ReactionAims(u.reactions[r][k], q)
      <4>1. PICK r \in Promises : \E k \in DOMAIN u.reactions[r] : ReactionAims(u.reactions[r][k], q)
        BY <3>2
      <4>2. PICK k \in DOMAIN u.reactions[r] : ReactionAims(u.reactions[r][k], q)
        BY <4>1
      <4>3. CASE r = p
        <5>1. DOMAIN u.reactions[p] = 1..(m + 1) /\ DOMAIN t.reactions[p] = 1..m
              /\ u.reactions[p][m + 1] = x /\ \A i \in 1..m : u.reactions[p][i] = t.reactions[p][i]
          BY <1>2, <2>2
        <5>2. k # m + 1
          BY <4>2, <4>3, <5>1
        <5>3. k \in DOMAIN t.reactions[p]
          BY <1>2, <4>3, <5>1, <5>2
        <5>4. QED
          BY <4>2, <4>3, <5>1, <5>3 DEF Strays
      <4>4. CASE r # p
        BY <2>2, <4>2, <4>4 DEF Strays
      <4>5. QED
        BY <4>3, <4>4
    <3>3. QED
      BY <3>1, <3>2 DEF Strays
  <2>7. QED
    BY <2>3, <2>4, <2>5, <2>6 DEF u
<1>6. CASE ~Is(t, p, "pending")
  <2>1. u.microtasks = Append(t.microtasks, job) /\ u.reactions = t.reactions
    BY <1>1, <1>6
  <2>2. t.reactions[p] = <<>>
    BY <1>6 DEF Listens
  <2>3. \A q \in Promises : QueuedOf(u.microtasks, q) =
          IF IsOf(job, q) THEN Append(QueuedOf(t.microtasks, q), x) ELSE QueuedOf(t.microtasks, q)
    BY <1>2, <1>3, <1>4, <2>1, QueuedAppend
  <2>4. IsOf(job, p) /\ \A q \in Promises : q # p => ~IsOf(job, q)
    BY <1>3 DEF IsOf
  <2>5. ReactionsOf(u, p) = Append(ReactionsOf(t, p), x)
    <3>1. Q \o <<>> = Q /\ Append(Q, x) \o <<>> = Append(Q, x)
      BY <1>2
    <3>2. QED
      BY <2>1, <2>2, <2>3, <2>4, <3>1 DEF ReactionsOf, Q
  <2>6. \A q \in Promises : q # p => ReactionsOf(u, q) = ReactionsOf(t, q)
    BY <2>1, <2>3, <2>4 DEF ReactionsOf
  <2>7. /\ DOMAIN t.microtasks = 1..n /\ DOMAIN u.microtasks = 1..(n + 1)
        /\ \A i \in 1..n : u.microtasks[i] = t.microtasks[i]
        /\ u.microtasks[n + 1] = job
    BY <1>2, <1>4, <2>1
  <2>8. \A i \in DOMAIN u.microtasks : (i \in DOMAIN t.microtasks /\ u.microtasks[i] = t.microtasks[i])
                                       \/ u.microtasks[i] = job
    BY <1>2, <2>7
  <2>9. Honest(t) => Honest(u)
    <3>1. Is(t, p, IF job.rejected THEN "rejected" ELSE "fulfilled")
      BY <1>2, <1>3, <1>6 DEF Is, Exists, PromiseStates
    <3>2. QED
      BY ZenonT(90), <1>1, <1>3, <2>8, <3>1 DEF Honest, Is
  <2>10. \A q \in Promises : Strays(u, q) => Strays(t, q) \/ ReactionAims(x, q)
    BY <1>3, <2>1, <2>8 DEF Strays, JobAims
  <2>11. QED
    BY <2>5, <2>6, <2>9, <2>10 DEF u
<1>7. QED
  BY <1>5, <1>6

LEMMA SubscribeGrows ==
  ASSUME NEW t \in Tables, Listens(t), NEW p \in Promises, NEW x \in Reactions, Exists(t, p),
         x.kind # "element", NEW X, \A q \in Promises : ReactionAims(x, q) => q \in X
  PROVE  Grows(t, Subscribe(t, p, x), X)
<1> DEFINE u == Subscribe(t, p, x)
<1>1. /\ u \in Tables /\ u.state = t.state
      /\ u.handled = t.handled \cup {p} /\ u.unhandled = t.unhandled \ {p}
      /\ u.combinators = t.combinators
      /\ Is(t, p, "pending") =>
           u.microtasks = t.microtasks /\ u.reactions = [t.reactions EXCEPT ![p] = Append(@, x)]
      /\ ~Is(t, p, "pending") =>
           /\ u.microtasks = Append(t.microtasks, Reaction(p, x, Is(t, p, "rejected")))
           /\ u.reactions = t.reactions
  BY SubscribeIs
<1>2. /\ ReactionsOf(u, p) = Append(ReactionsOf(t, p), x)
      /\ \A q \in Promises : q # p => ReactionsOf(u, q) = ReactionsOf(t, q)
      /\ Honest(t) => Honest(u)
      /\ \A q \in Promises : Strays(u, q) => Strays(t, q) \/ ReactionAims(x, q)
  BY SubscribeAdds
<1> HIDE DEF u
<1>3. Goes(t, u, X)
  BY <1>1 DEF Goes, Exists, Is
<1>4. Longer(ReactionsOf(t, p), ReactionsOf(u, p))
  <2>1. ReactionsOf(t, p) \in Seq(Reactions)
    BY ReactionsType
  <2>2. <<x>> \in Seq(Reactions) /\ Append(ReactionsOf(t, p), x) = ReactionsOf(t, p) \o <<x>>
        /\ \A k \in DOMAIN <<x>> : <<x>>[k].kind # "element"
    BY <2>1, AppendIsConcat
  <2>3. QED
    BY <1>2, <2>2 DEF Longer
<1>5. \A q \in Promises : Longer(ReactionsOf(t, q), ReactionsOf(u, q))
  <2>1. \A q \in Promises : Longer(ReactionsOf(t, q), ReactionsOf(t, q))
    BY ReactionsType, LongerSame
  <2>2. QED
    BY <1>2, <1>4, <2>1
<1>6. QED
  BY <1>1, <1>2, <1>3, <1>5 DEF Grows, u

LEMMA ResolveGrows ==
  ASSUME NEW t \in Tables, Listens(t), NEW p \in Promises, NEW result \in Outcome(t)
  PROVE  Grows(t, ResolveInto(t, p, result), {p})
<1>1. CASE ~Is(t, p, "pending")
  <2>1. ResolveInto(t, p, result) = t
    BY <1>1 DEF ResolveInto
  <2>2. QED
    BY <2>1, GrowsSame
<1>2. CASE Is(t, p, "pending") /\ result = Value
  <2>1. ResolveInto(t, p, result) = Settle(t, p, FALSE)
    BY <1>2, LoopAssumption DEF ResolveInto
  <2>2. QED
    BY <2>1, SettleGrows
<1>3. CASE Is(t, p, "pending") /\ (result = Throw \/ result = p)
  <2>1. ResolveInto(t, p, result) = Settle(t, p, TRUE)
    BY <1>3, LoopAssumption DEF ResolveInto
  <2>2. QED
    BY <2>1, SettleGrows
<1>4. CASE Is(t, p, "pending") /\ result = Thenable
  <2>1. ResolveInto(t, p, result) = Enqueue(t, <<ThenableJob(p)>>)
    BY <1>4, LoopAssumption DEF ResolveInto
  <2>2. ThenableJob(p) \in Jobs /\ ThenableJob(p).kind # "reaction"
    BY JobTypes DEF ThenableJob
  <2>3. \A q \in Promises : JobAims(ThenableJob(p), q) => q \in {p}
    BY AimsOf
  <2>4. QED
    BY <2>1, <2>2, <2>3, EnqueueGrows
<1>5. CASE Is(t, p, "pending") /\ result \in Promises /\ result # p /\ Exists(t, result)
  <2>1. ResolveInto(t, p, result) =
          IF Is(t, result, "pending") THEN Subscribe(t, result, PassThrough(p))
          ELSE Settle(MarkHandled(t, result), p, Is(t, result, "rejected"))
    BY <1>5, LoopAssumption DEF ResolveInto
  <2>2. CASE Is(t, result, "pending")
    <3>1. PassThrough(p) \in Reactions /\ PassThrough(p).kind # "element"
          /\ \A q \in Promises : ReactionAims(PassThrough(p), q) => q \in {p}
      BY ReactionTypes, PlainReactions, AimsOf DEF Plain
    <3>2. QED
      BY <1>5, <2>1, <2>2, <3>1, SubscribeGrows
  <2>3. CASE ~Is(t, result, "pending")
    <3> DEFINE u == MarkHandled(t, result)
               v == Settle(u, p, Is(t, result, "rejected"))
    <3>1. Grows(t, u, {})
      BY <1>5, MarkHandledGrows
    <3>2. u \in Tables
      BY <3>1 DEF Grows
    <3> HIDE DEF u
    <3>3. Is(t, result, "rejected") \in BOOLEAN
      BY DEF Is
    <3>4. Grows(u, v, {p})
      BY <3>2, <3>3, SettleGrows
    <3> HIDE DEF v
    <3>5. Grows(t, u, {p})
      BY <3>1, GrowsWider
    <3>6. Grows(t, v, {p})
      BY <3>4, <3>5, GrowsTrans
    <3>7. QED
      BY <2>1, <2>3, <3>6 DEF u, v
  <2>4. QED
    BY <2>2, <2>3
<1>6. QED
  BY <1>1, <1>2, <1>3, <1>4, <1>5 DEF Outcome

\* A created promise exists, is pending, and is a new one.
LEMMA CreateExists ==
  ASSUME NEW t \in Tables, Sound(t), HasRoom(t)
  PROVE  /\ Create(t) \in Tables /\ Sound(Create(t)) /\ Fresh(t) \in Promises
         /\ Exists(Create(t), Fresh(t)) /\ \A p \in Promises : Exists(t, p) => Exists(Create(t), p)
         /\ Is(Create(t), Fresh(t), "pending") /\ Is(t, Fresh(t), "absent")
<1>1. Create(t) \in Tables /\ Sound(Create(t)) /\ Fresh(t) \in Promises /\ Is(Create(t), Fresh(t), "pending")
      /\ Is(t, Fresh(t), "absent")
  BY Created
<1>2. Create(t).state = [t.state EXCEPT ![Fresh(t)] = "pending"] /\ t.state \in [Promises -> PromiseStates]
  BY CreateIs, TableTypes
<1>3. QED
  BY <1>1, <1>2 DEF Exists, Is

LEMMA CreateSubscribeGrows ==
  ASSUME NEW t \in Tables, Sound(t), HasRoom(t), NEW p \in Promises, Exists(t, p) \/ p = Fresh(t),
         NEW x \in Reactions, x.kind # "element", \A q \in Promises : ReactionAims(x, q) => q = Fresh(t)
  PROVE  Grows(t, Subscribe(Create(t), p, x), {})
<1>1. Create(t) \in Tables /\ Sound(Create(t)) /\ Exists(Create(t), p)
  BY CreateExists
<1>2. Grows(Create(t), Subscribe(Create(t), p, x), {} \cup {Fresh(t)})
  BY <1>1, SubscribeGrows DEF Sound
<1>3. QED
  BY <1>2, GrowsFresh

LEMMA CreateResolveGrows ==
  ASSUME NEW t \in Tables, Sound(t), HasRoom(t), NEW result \in {Value, Thenable}
  PROVE  Grows(Create(t), ResolveInto(Create(t), Fresh(t), result), {Fresh(t)})
<1>1. Create(t) \in Tables /\ Sound(Create(t)) /\ Fresh(t) \in Promises
  BY Created
<1>2. result \in Outcome(Create(t))
  BY DEF Outcome
<1>3. QED
  BY <1>1, <1>2, ResolveGrows DEF Sound

\* No promise disappears.
LEMMA GoesExists ==
  ASSUME NEW t, NEW u, NEW X, Grows(t, u, X)
  PROVE  \A p \in Promises : Exists(t, p) => Exists(u, p)
BY DEF Grows, Goes

\* A callback returns a result to the promise that waits for it.
LEMMA CompletedGrows ==
  ASSUME NEW t \in Tables, Sound(t), NEW job \in Jobs, NEW result \in Outcome(t),
         job.kind = "thenable" \/ (job.kind = "reaction" /\ job.reaction.kind \in {"handler", "finally", "resume"}),
         job.kind = "reaction" /\ job.reaction.kind = "finally" /\ result \in {Value, Thenable} => HasRoom(t)
  PROVE  \E p \in Promises : Grows(t, Completed(t, job, result), {p}) /\ JobAims(job, p)
<1>0. Listens(t)
  BY DEF Sound
<1>1. CASE job.kind = "thenable"
  <2>1. job.target \in Promises /\ JobAims(job, job.target)
    BY <1>1, JobTypes DEF JobAims
  <2>2. Completed(t, job, result) = IF result = Throw THEN Settle(t, job.target, TRUE) ELSE t
    BY <1>1 DEF Completed
  <2>3. Grows(t, Settle(t, job.target, TRUE), {job.target}) /\ Grows(t, t, {job.target})
    BY <2>1, SettleGrows, GrowsSame
  <2>4. QED
    BY <2>1, <2>2, <2>3
<1>2. CASE job.kind = "reaction"
  <2> DEFINE p == job.reaction.target
  <2>1. /\ job.reaction \in Reactions /\ job.reaction.kind \in {"handler", "finally", "resume"}
        /\ job.rejected \in BOOLEAN
    BY <1>2, JobTypes
  <2>2. p \in Promises
    BY <2>1, ReactionTypes DEF Targets
  <2>3. JobAims(job, p)
    BY <1>2, <2>1 DEF JobAims, ReactionAims, Targets
  <2>4. CASE job.reaction.kind # "finally"
    <3>1. Completed(t, job, result) = ResolveInto(t, p, result)
      BY <1>2, <2>4 DEF Completed
    <3> HIDE DEF p
    <3>2. QED
      BY <1>0, <2>2, <2>3, <3>1, ResolveGrows
  <2>5. CASE job.reaction.kind = "finally"
    <3> DEFINE x == FinallyResult(p, job.rejected)
    <3>0. Completed(t, job, result) = AfterFinally(t, job, result)
      BY <1>2, <2>5 DEF Completed
    <3>1. x \in Reactions /\ Plain(x) /\ \A q \in Promises : ReactionAims(x, q) => q \in {p}
      BY <2>1, <2>2, ReactionTypes, PlainReactions, AimsOf
    <3>10. x.kind # "element"
      BY <3>1 DEF Plain
    <3>2. CASE result = Throw
      <4>1. AfterFinally(t, job, result) = Settle(t, p, TRUE)
        BY <3>2, LoopAssumption DEF AfterFinally
      <4> HIDE DEF p
      <4>2. QED
        BY <2>2, <2>3, <3>0, <4>1, SettleGrows
    <3>3. CASE result \in {Value, Thenable}
      <4> DEFINE u == Create(t)
                 f == Fresh(t)
                 v == ResolveInto(u, f, result)
                 w == Subscribe(v, f, x)
      <4>1. AfterFinally(t, job, result) = w
        BY <3>3, LoopAssumption DEF AfterFinally
      <4>2. HasRoom(t)
        BY <1>2, <2>5, <3>3
      <4>3. u \in Tables /\ Sound(u) /\ f \in Promises /\ Exists(u, f)
        BY <4>2, CreateExists
      <4>4. Grows(u, v, {f}) /\ Evolves(u, v, {f})
        BY <3>3, <4>2, CreateResolveGrows, CreateResolve
      <4> HIDE DEF u, f, v, x, p
      <4>5. v \in Tables /\ Listens(v) /\ Exists(v, f)
        BY <4>3, <4>4, GoesExists DEF Evolves, Changes, Sound
      <4>6. Grows(v, w, {p})
        BY <3>1, <3>10, <4>3, <4>5, SubscribeGrows
      <4> HIDE DEF w
      <4>7. Grows(u, v, {p} \cup {f}) /\ Grows(v, w, {p} \cup {f})
        BY <4>4, <4>6, GrowsWider
      <4>8. Grows(u, w, {p} \cup {f})
        BY <4>3, <4>7, GrowsTrans
      <4>9. Grows(t, w, {p})
        BY <4>2, <4>8, GrowsFresh DEF u, f
      <4>10. QED
        BY <2>2, <2>3, <3>0, <4>1, <4>9
    <3>4. CASE result \in Promises /\ Exists(t, result)
      <4>1. AfterFinally(t, job, result) = Subscribe(t, result, x)
        BY <3>4, LoopAssumption DEF AfterFinally
      <4> HIDE DEF p, x
      <4>2. Grows(t, Subscribe(t, result, x), {p})
        BY <1>0, <3>1, <3>10, <3>4, SubscribeGrows
      <4>3. QED
        BY <2>2, <2>3, <3>0, <4>1, <4>2
    <3>5. QED
      BY <3>2, <3>3, <3>4 DEF Outcome
  <2>6. QED
    BY <2>4, <2>5
<1>3. QED
  BY <1>1, <1>2

\* drain_completed answers what is queued.
LEMMA AnswerQueueGrows ==
  ASSUME NEW t \in Tables, queue \in Seq(Requests)
  PROVE  Grows(t, AnswerQueue(t), {p \in Promises : \E i \in DOMAIN queue : queue[i].promise = p})
<1> DEFINE X == {p \in Promises : \E i \in DOMAIN queue : queue[i].promise = p}
           N == Len(queue)
<1>1. N \in Nat /\ DOMAIN queue = 1..N /\ \A i \in 1..N : queue[i] \in Requests
  BY Positions
<1>2. PICK after : Answered(t, after)
  BY <1>1, AnswerQueueIs
<1>3. after[0] = t /\ AnswerQueue(t) = after[N]
      /\ \A n \in 1..N : after[n] = Answer(after[n - 1], queue[n], Thrown(queue[n]))
  BY <1>2 DEF Answered
<1> DEFINE S == {n \in 0..N : Grows(t, after[n], X)}
<1>4. 0 \in S
  BY <1>1, <1>3, GrowsSame
<1>5. \A n \in 0..(N - 1) : n \in S => n + 1 \in S
  <2> SUFFICES ASSUME NEW n \in 0..(N - 1), Grows(t, after[n], X) PROVE n + 1 \in S
    OBVIOUS
  <2>1. PICK m \in 1..N : m = n + 1 /\ m - 1 = n
    BY <1>1
  <2> DEFINE p == queue[m].promise
             u == after[n]
             v == Settle(u, p, Thrown(queue[m]))
  <2>2. p \in Promises /\ Thrown(queue[m]) \in BOOLEAN /\ p \in X
    BY <1>1, <2>1 DEF Requests, Thrown
  <2>3. after[m] = v
    BY <1>3, <2>1 DEF Answer
  <2>4. u \in Tables
    BY DEF Grows
  <2> HIDE DEF u, p, X
  <2>5. Grows(u, v, {p})
    BY <2>2, <2>4, SettleGrows
  <2>6. Grows(t, v, X)
    BY <2>2, <2>5, GrowsTrans DEF u
  <2> HIDE DEF v
  <2>7. QED
    BY <1>1, <2>1, <2>3, <2>6
<1>6. N \in S
  <2> HIDE DEF S, N
  <2>1. 0..N \subseteq S
    BY <1>1, <1>4, <1>5, UpTo
  <2>2. QED
    BY <1>1, <2>1
<1>7. QED
  BY <1>3, <1>6

-----------------------------------------------------------------------------
(* The elements of a combinator among the reactions of a table.            *)

Spots(r, c) == {k \in DOMAIN r : r[k] = Element(c)}
HasElement(t, p, c) == Spots(ReactionsOf(t, p), c) # {}
SameSpots(t, u, c) == \A p \in Promises : Spots(ReactionsOf(u, p), c) = Spots(ReactionsOf(t, p), c)

\* The elements of a combinator that are under way are those in some queue.
LEMMA ElementsAre ==
  ASSUME NEW t, NEW c
  PROVE  ElementsAt(t, c) = {e \in Promises \X Nat : e[2] \in Spots(ReactionsOf(t, e[1]), c)} \/ t \notin Tables
<1> SUFFICES ASSUME t \in Tables
             PROVE  ElementsAt(t, c) = {e \in Promises \X Nat : e[2] \in Spots(ReactionsOf(t, e[1]), c)}
  OBVIOUS
<1>1. \A p \in Promises : ReactionsOf(t, p) \in Seq(Reactions)
  BY ReactionsType
<1>2. \A p \in Promises : Spots(ReactionsOf(t, p), c) \in SUBSET Nat
  BY <1>1 DEF Spots
<1>3. ElementsAt(t, c) = UNION {{<<p, i>> : i \in Spots(ReactionsOf(t, p), c)} : p \in Promises}
  BY DEF ElementsAt, Spots
<1> HIDE DEF Spots
<1>4. \A e : e \in ElementsAt(t, c) <=> e \in {d \in Promises \X Nat : d[2] \in Spots(ReactionsOf(t, d[1]), c)}
  <2> TAKE e
  <2>1. e \in ElementsAt(t, c) <=> \E p \in Promises : \E i \in Spots(ReactionsOf(t, p), c) : e = <<p, i>>
    BY <1>3
  <2>2. QED
    BY <1>2, <2>1
<1>5. QED
  BY <1>4

LEMMA SameElements ==
  ASSUME NEW t \in Tables, NEW u \in Tables, NEW c, SameSpots(t, u, c)
  PROVE  ElementsAt(u, c) = ElementsAt(t, c) /\ \A p \in Promises : HasElement(u, p, c) <=> HasElement(t, p, c)
<1>1. \A p \in Promises : Spots(ReactionsOf(u, p), c) = Spots(ReactionsOf(t, p), c)
  BY DEF SameSpots
<1> HIDE DEF Spots
<1>2. ElementsAt(u, c) = {e \in Promises \X Nat : e[2] \in Spots(ReactionsOf(u, e[1]), c)}
      /\ ElementsAt(t, c) = {e \in Promises \X Nat : e[2] \in Spots(ReactionsOf(t, e[1]), c)}
  BY ElementsAre
<1>3. QED
  BY <1>1, <1>2 DEF HasElement

\* Reactions that come later and are not elements of the combinator change nothing for it.
LEMMA LongerSpots ==
  ASSUME NEW r \in Seq(Reactions), NEW w \in Seq(Reactions), NEW c, \A k \in DOMAIN w : w[k] # Element(c)
  PROVE  Spots(r \o w, c) = Spots(r, c)
<1>1. /\ DOMAIN r = 1..Len(r) /\ DOMAIN w = 1..Len(w) /\ DOMAIN (r \o w) = 1..(Len(r) + Len(w))
      /\ Len(r) \in Nat /\ Len(w) \in Nat
  OBVIOUS
<1>2. \A k \in DOMAIN (r \o w) :
        \/ k \in DOMAIN r /\ (r \o w)[k] = r[k]
        \/ k \notin DOMAIN r /\ (r \o w)[k] # Element(c)
  <2> TAKE k \in DOMAIN (r \o w)
  <2>1. CASE k <= Len(r)
    BY <1>1, <2>1
  <2>2. CASE ~(k <= Len(r))
    <3>1. (r \o w)[k] = w[k - Len(r)] /\ k - Len(r) \in DOMAIN w
      BY <1>1, <2>2
    <3>2. k \notin DOMAIN r
      BY <1>1, <2>2
    <3>3. QED
      BY <3>1, <3>2
  <2>3. QED
    BY <2>1, <2>2
<1>3. DOMAIN r \subseteq DOMAIN (r \o w)
  BY <1>1
<1>4. QED
  BY <1>2, <1>3 DEF Spots

\* A table that grows keeps every element where it was.
LEMMA GrowsSpots ==
  ASSUME NEW t \in Tables, NEW u, NEW X, Grows(t, u, X), NEW c
  PROVE  SameSpots(t, u, c)
<1> SUFFICES ASSUME NEW p \in Promises PROVE Spots(ReactionsOf(u, p), c) = Spots(ReactionsOf(t, p), c)
  BY DEF SameSpots
<1>1. ReactionsOf(t, p) \in Seq(Reactions)
  BY ReactionsType
<1>2. PICK w \in Seq(Reactions) : ReactionsOf(u, p) = ReactionsOf(t, p) \o w /\ \A k \in DOMAIN w : w[k].kind # "element"
  BY DEF Grows, Longer
<1>3. \A k \in DOMAIN w : w[k] # Element(c)
  BY <1>2 DEF Element
<1>4. QED
  BY <1>1, <1>2, <1>3, LongerSpots

-----------------------------------------------------------------------------
(* The first job is taken from the queue.                                  *)

\* The first job is an element of combinator c.
Takes(t, c) == Head(t.microtasks).kind = "reaction" /\ Head(t.microtasks).reaction = Element(c)

\* Nothing but the oldest reaction of its promise is gone.
LEMMA ShorterQueues ==
  ASSUME NEW t \in Tables, t.microtasks # <<>>, NEW p \in Promises
  PROVE  LET u == Shorter(t)
             job == Head(t.microtasks)
         IN /\ IsOf(job, p) => /\ ReactionsOf(t, p) = <<job.reaction>> \o ReactionsOf(u, p)
                               /\ job.reaction \in Reactions
            /\ ~IsOf(job, p) => ReactionsOf(u, p) = ReactionsOf(t, p)
<1> DEFINE u == Shorter(t)
           job == Head(t.microtasks)
           Q == QueuedOf(u.microtasks, p)
<1>1. t.microtasks \in Seq(Jobs) /\ t.reactions[p] \in Seq(Reactions) /\ job \in Jobs
  BY TableTypes
<1>2. u.reactions = t.reactions /\ u.microtasks = Tail(t.microtasks) /\ u \in Tables
  <2>1. u \in Tables /\ u.reactions = t.reactions
    BY ShorterIs
  <2>2. QED
    BY <2>1 DEF Shorter, Tables
<1>3. /\ IsOf(job, p) => QueuedOf(t.microtasks, p) = <<job.reaction>> \o Q
      /\ ~IsOf(job, p) => Q = QueuedOf(t.microtasks, p)
  BY <1>1, <1>2, QueuedTail
<1>4. Q \in Seq(Reactions)
  BY <1>2, TableTypes, QueuedType
<1>5. IsOf(job, p) => job.reaction \in Reactions
  BY <1>1, JobTypes DEF IsOf
<1> HIDE DEF u, job, Q
<1>6. ASSUME IsOf(job, p) PROVE ReactionsOf(t, p) = <<job.reaction>> \o ReactionsOf(u, p)
  <2>1. <<job.reaction>> \in Seq(Reactions)
    BY <1>5, <1>6
  <2>2. (<<job.reaction>> \o Q) \o t.reactions[p] = <<job.reaction>> \o (Q \o t.reactions[p])
    <3>1. \A a, b, d \in Seq(Reactions) : (a \o b) \o d = a \o (b \o d)
      BY ConcatAssociative
    <3>2. QED
      BY <1>1, <1>4, <2>1, <3>1
  <2>3. QED
    BY <1>2, <1>3, <1>6, <2>2 DEF ReactionsOf, Q
<1>7. ASSUME ~IsOf(job, p) PROVE ReactionsOf(u, p) = ReactionsOf(t, p)
  BY <1>2, <1>3, <1>7 DEF ReactionsOf, Q
<1>8. QED
  BY <1>5, <1>6, <1>7 DEF u, job

\* A sequence with one more at its front.
LEMMA ConsIs ==
  ASSUME NEW x \in Reactions, NEW r \in Seq(Reactions)
  PROVE  LET s == <<x>> \o r IN
         /\ s \in Seq(Reactions) /\ DOMAIN s = 1..(Len(r) + 1) /\ Len(r) \in Nat /\ DOMAIN r = 1..Len(r)
         /\ s[1] = x /\ \A k \in 1..Len(r) : s[k + 1] = r[k]
         /\ s # <<>> /\ Tail(s) = r
<1> DEFINE s == <<x>> \o r
<1>1. /\ s \in Seq(Reactions) /\ Len(s) = Len(r) + 1 /\ Len(r) \in Nat /\ DOMAIN r = 1..Len(r)
      /\ s[1] = x /\ \A k \in 1..Len(r) : s[k + 1] = r[k]
  OBVIOUS
<1> HIDE DEF s
<1>2. s # <<>>
  BY <1>1
<1>3. Tail(s) \in Seq(Reactions) /\ Len(Tail(s)) = Len(r) /\ \A k \in 1..Len(r) : Tail(s)[k] = r[k]
  BY <1>1, <1>2
<1>4. Tail(s) = r
  BY <1>1, <1>3
<1>5. QED
  BY <1>1, <1>2, <1>4 DEF s

LEMMA ConsSpots ==
  ASSUME NEW x \in Reactions, NEW r \in Seq(Reactions), NEW c
  PROVE  LET s == <<x>> \o r IN
         /\ \A k \in Nat : k + 1 \in Spots(s, c) <=> (k \in Spots(r, c) \/ (k = 0 /\ x = Element(c)))
         /\ \A k \in Spots(s, c) : k \in Nat /\ (k = 1 \/ k - 1 \in Spots(r, c))
         /\ \A k \in Spots(r, c) : k \in Nat /\ k > 0
<1> DEFINE s == <<x>> \o r
<1>1. /\ DOMAIN s = 1..(Len(r) + 1) /\ Len(r) \in Nat /\ DOMAIN r = 1..Len(r)
      /\ s[1] = x /\ \A k \in 1..Len(r) : s[k + 1] = r[k]
  BY ConsIs
<1> HIDE DEF s
<1>2. \A k \in Nat : k + 1 \in Spots(s, c) <=> (k \in Spots(r, c) \/ (k = 0 /\ x = Element(c)))
  <2> TAKE k \in Nat
  <2>1. CASE k = 0
    BY <1>1, <2>1 DEF Spots
  <2>2. CASE k # 0
    <3>1. k + 1 \in DOMAIN s <=> k \in DOMAIN r
      BY <1>1, <2>2
    <3>2. k \in DOMAIN r => s[k + 1] = r[k]
      BY <1>1
    <3>3. QED
      BY <2>2, <3>1, <3>2 DEF Spots
  <2>3. QED
    BY <2>1, <2>2
<1>3. \A k \in Spots(s, c) : k \in Nat /\ (k = 1 \/ k - 1 \in Spots(r, c))
  <2> SUFFICES ASSUME NEW k \in Spots(s, c), k # 1 PROVE k \in Nat /\ k - 1 \in Spots(r, c)
    BY <1>1 DEF Spots
  <2>1. k \in 1..(Len(r) + 1)
    BY <1>1 DEF Spots
  <2>2. PICK m \in Nat : m + 1 = k /\ m # 0 /\ m = k - 1
    BY <1>1, <2>1
  <2>3. QED
    BY <1>2, <2>1, <2>2
<1>4. \A k \in Spots(r, c) : k \in Nat /\ k > 0
  BY <1>1 DEF Spots
<1>5. QED
  BY <1>2, <1>3, <1>4 DEF s

\* Taking the first job takes one element of its combinator, if it is one, and no
\* element of any other.
LEMMA ShorterElements ==
  ASSUME NEW t \in Tables, t.microtasks # <<>>, NEW c
  PROVE  LET u == Shorter(t)
             job == Head(t.microtasks)
         IN /\ IsFiniteSet(ElementsAt(t, c)) =>
                 /\ IsFiniteSet(ElementsAt(u, c))
                 /\ Outstanding(t, c) = Outstanding(u, c) + (IF Takes(t, c) THEN 1 ELSE 0)
            /\ \A p \in Promises : HasElement(u, p, c) => HasElement(t, p, c)
            /\ \A p \in Promises : HasElement(t, p, c) => HasElement(u, p, c) \/ (Takes(t, c) /\ p = job.of)
            /\ Takes(t, c) => job.of \in Promises /\ HasElement(t, job.of, c)
<1> DEFINE u == Shorter(t)
           job == Head(t.microtasks)
           At(v, p) == Spots(ReactionsOf(v, p), c)
           E == ElementsAt(t, c)
           F == ElementsAt(u, c)
<1>1. u \in Tables /\ job \in Jobs
  BY ShorterIs
<1>2. \A p \in Promises : /\ IsOf(job, p) => /\ ReactionsOf(t, p) = <<job.reaction>> \o ReactionsOf(u, p)
                                             /\ job.reaction \in Reactions
                          /\ ~IsOf(job, p) => ReactionsOf(u, p) = ReactionsOf(t, p)
  BY ShorterQueues
<1>3. \A p \in Promises : ReactionsOf(u, p) \in Seq(Reactions)
  BY <1>1, ReactionsType
<1>4. /\ E = {e \in Promises \X Nat : e[2] \in At(t, e[1])}
      /\ F = {e \in Promises \X Nat : e[2] \in At(u, e[1])}
  BY <1>1, ElementsAre
<1>5. Takes(t, c) <=> job.kind = "reaction" /\ job.reaction = Element(c)
  BY DEF Takes
<1> HIDE DEF u, job, E, F
<1>6. \A p \in Promises : IsOf(job, p) =>
        /\ \A k \in Nat : k + 1 \in At(t, p) <=> (k \in At(u, p) \/ (k = 0 /\ job.reaction = Element(c)))
        /\ \A k \in At(t, p) : k \in Nat /\ (k = 1 \/ k - 1 \in At(u, p))
        /\ \A k \in At(u, p) : k \in Nat /\ k > 0
  <2> SUFFICES ASSUME NEW p \in Promises, IsOf(job, p)
               PROVE  /\ \A k \in Nat : k + 1 \in At(t, p) <=> (k \in At(u, p) \/ (k = 0 /\ job.reaction = Element(c)))
                      /\ \A k \in At(t, p) : k \in Nat /\ (k = 1 \/ k - 1 \in At(u, p))
                      /\ \A k \in At(u, p) : k \in Nat /\ k > 0
    OBVIOUS
  <2> DEFINE x == job.reaction
             r == ReactionsOf(u, p)
             s == <<x>> \o r
  <2>1. ReactionsOf(t, p) = s /\ x \in Reactions /\ r \in Seq(Reactions)
    BY <1>2, <1>3
  <2> HIDE DEF x, r
  <2>2. /\ \A k \in Nat : k + 1 \in Spots(s, c) <=> (k \in Spots(r, c) \/ (k = 0 /\ x = Element(c)))
        /\ \A k \in Spots(s, c) : k \in Nat /\ (k = 1 \/ k - 1 \in Spots(r, c))
        /\ \A k \in Spots(r, c) : k \in Nat /\ k > 0
    BY <2>1, ConsSpots
  <2>3. QED
    BY <2>1, <2>2 DEF x, r
<1>7. \A p \in Promises : ~IsOf(job, p) => At(u, p) = At(t, p)
  BY <1>2
<1> HIDE DEF At
<1>8. \A p \in Promises : IsOf(job, p) <=> job.kind = "reaction" /\ p = job.of
  BY DEF IsOf
<1>9. job.kind = "reaction" => job.of \in Promises
  BY <1>1, JobTypes
<1>10. \A p \in Promises : At(u, p) # {} => At(t, p) # {}
  <2> SUFFICES ASSUME NEW p \in Promises, NEW k \in At(u, p) PROVE At(t, p) # {}
    OBVIOUS
  <2>1. CASE IsOf(job, p)
    BY <1>6, <2>1
  <2>2. CASE ~IsOf(job, p)
    BY <1>7, <2>2
  <2>3. QED
    BY <2>1, <2>2
<1>11. \A p \in Promises : At(t, p) # {} => At(u, p) # {} \/ (Takes(t, c) /\ p = job.of)
  <2> SUFFICES ASSUME NEW p \in Promises, NEW k \in At(t, p), At(u, p) = {} PROVE Takes(t, c) /\ p = job.of
    OBVIOUS
  <2>1. IsOf(job, p)
    BY <1>7
  <2>2. k = 1
    BY <1>6, <2>1
  <2>3. 0 + 1 \in At(t, p)
    BY <2>2
  <2>4. job.reaction = Element(c)
    BY <1>6, <2>1, <2>3
  <2>5. QED
    BY <1>5, <1>8, <2>1, <2>4
<1>12. ASSUME Takes(t, c) PROVE job.of \in Promises /\ At(t, job.of) # {} /\ 1 \in At(t, job.of) /\ IsOf(job, job.of)
  <2>1. job.of \in Promises /\ IsOf(job, job.of) /\ job.reaction = Element(c)
    BY <1>5, <1>8, <1>9, <1>12
  <2>2. 0 + 1 \in At(t, job.of)
    BY <1>6, <2>1
  <2>3. QED
    BY <2>1, <2>2
<1>13. \A v : \A p : HasElement(v, p, c) <=> At(v, p) # {}
  BY DEF HasElement, At
<1>14. ASSUME IsFiniteSet(E)
       PROVE  IsFiniteSet(F) /\ Cardinality(E) = Cardinality(F) + (IF Takes(t, c) THEN 1 ELSE 0)
  <2>1. CASE job.kind # "reaction"
    <3>1. \A p \in Promises : At(u, p) = At(t, p)
      BY <1>7, <1>8, <2>1
    <3>2. E = F
      BY <1>4, <3>1
    <3>3. Cardinality(E) \in Nat
      BY <1>14, FS_CardinalityType
    <3>4. QED
      BY <1>5, <1>14, <2>1, <3>2, <3>3
  <2>2. CASE job.kind = "reaction"
    <3> DEFINE p == job.of
               first == <<p, 1>>
               G == E \ {first}
               g == [e \in G |-> IF e[1] = p THEN <<p, e[2] - 1>> ELSE e]
    <3>1. p \in Promises /\ IsOf(job, p) /\ \A q \in Promises : q # p => At(u, q) = At(t, q)
      BY <1>7, <1>8, <1>9, <2>2
    <3>2. /\ \A k \in Nat : k + 1 \in At(t, p) <=> (k \in At(u, p) \/ (k = 0 /\ job.reaction = Element(c)))
          /\ \A k \in At(t, p) : k \in Nat /\ (k = 1 \/ k - 1 \in At(u, p))
          /\ \A k \in At(u, p) : k \in Nat /\ k > 0
      BY <1>6, <3>1
    <3> HIDE DEF p
    <3>3. first \in E <=> Takes(t, c)
      <4>1. 1 \in At(t, p) <=> job.reaction = Element(c)
        <5>1. 0 + 1 \in At(t, p) <=> (0 \in At(u, p) \/ (0 = 0 /\ job.reaction = Element(c)))
          BY <3>2
        <5>2. 0 \notin At(u, p)
          BY <3>2
        <5>3. QED
          BY <5>1, <5>2
      <4>2. first \in E <=> 1 \in At(t, p)
        BY <1>4, <3>1
      <4>3. QED
        BY <1>5, <2>2, <4>1, <4>2
    <3>4. \A e \in G : e = <<e[1], e[2]>> /\ e[1] \in Promises /\ e[2] \in At(t, e[1]) /\ e[2] \in Nat
                     /\ (e[1] = p => e[2] # 1)
      BY <1>4
    <3>5. \A e : e \in F <=> e \in Promises \X Nat /\ e[2] \in At(u, e[1])
      BY <1>4
    <3>6. \A q \in Promises, k \in Nat : <<q, k>> \in G <=> k \in At(t, q) /\ (q = p => k # 1)
      BY <1>4
    <3> HIDE DEF G, first
    <3>7. \A e \in G : g[e] \in F
      <4> SUFFICES ASSUME NEW e \in G PROVE g[e] \in F
        OBVIOUS
      <4>1. CASE e[1] = p
        <5>1. e[2] - 1 \in At(u, p)
          BY <3>2, <3>4, <4>1
        <5>2. PICK k \in Nat : k = e[2] - 1 /\ k \in At(u, p)
          BY <3>2, <5>1
        <5>3. g[e] = <<p, k>>
          BY <4>1, <5>2
        <5>4. QED
          BY <3>1, <3>5, <5>2, <5>3
      <4>2. CASE e[1] # p
        <5>1. g[e] = e /\ e[2] \in At(u, e[1])
          BY <3>1, <3>4, <4>2
        <5>2. QED
          BY <3>4, <3>5, <5>1
      <4>3. QED
        BY <4>1, <4>2
    <3>8. \A d, e \in G : g[d] = g[e] => d = e
      <4> SUFFICES ASSUME NEW d \in G, NEW e \in G, g[d] = g[e] PROVE d = e
        OBVIOUS
      <4>1. d = <<d[1], d[2]>> /\ e = <<e[1], e[2]>> /\ d[2] \in Nat /\ e[2] \in Nat
        BY <3>4
      <4>2. /\ g[d] = IF d[1] = p THEN <<p, d[2] - 1>> ELSE d
            /\ g[e] = IF e[1] = p THEN <<p, e[2] - 1>> ELSE e
        OBVIOUS
      <4>20. \A a, b, x, y : <<a, b>> = <<x, y>> => a = x /\ b = y
        OBVIOUS
      <4> HIDE DEF g
      <4>3. CASE d[1] = p /\ e[1] = p
        <5>1. <<p, d[2] - 1>> = <<p, e[2] - 1>>
          BY <4>2, <4>3
        <5>2. d[2] - 1 = e[2] - 1
          BY <4>20, <5>1
        <5>3. d[2] = e[2]
          BY <4>1, <5>2
        <5>4. QED
          BY <4>1, <4>3, <5>3
      <4>4. CASE d[1] = p /\ e[1] # p
        <5>1. <<p, d[2] - 1>> = <<e[1], e[2]>>
          BY <4>1, <4>2, <4>4
        <5>2. QED
          BY <4>4, <4>20, <5>1
      <4>5. CASE d[1] # p /\ e[1] = p
        <5>1. <<p, e[2] - 1>> = <<d[1], d[2]>>
          BY <4>1, <4>2, <4>5
        <5>2. QED
          BY <4>5, <4>20, <5>1
      <4>6. CASE d[1] # p /\ e[1] # p
        BY <4>2, <4>6
      <4>7. QED
        BY <4>3, <4>4, <4>5, <4>6
    <3>9. \A f \in F : \E e \in G : g[e] = f
      <4> SUFFICES ASSUME NEW f \in F PROVE \E e \in G : g[e] = f
        OBVIOUS
      <4>1. f = <<f[1], f[2]>> /\ f[1] \in Promises /\ f[2] \in Nat /\ f[2] \in At(u, f[1])
        BY <3>5
      <4>2. CASE f[1] = p
        <5> DEFINE k == f[2]
                   e == <<p, k + 1>>
        <5>1. k \in Nat /\ k > 0 /\ k + 1 \in At(t, p) /\ k + 1 \in Nat /\ k + 1 # 1 /\ k + 1 - 1 = k
          BY <3>2, <4>1, <4>2
        <5>2. e \in G
          BY <3>1, <3>6, <5>1
        <5>3. g[e] = <<p, k>>
          BY <5>1, <5>2
        <5>4. QED
          BY <4>1, <4>2, <5>2, <5>3
      <4>3. CASE f[1] # p
        <5>1. f \in G
          BY <3>1, <3>6, <4>1, <4>3
        <5>2. g[f] = f
          BY <4>3, <5>1
        <5>3. QED
          BY <5>1, <5>2
      <4>4. QED
        BY <4>2, <4>3
    <3>10. g \in Bijection(G, F)
      <4>1. g \in [G -> F]
        BY <3>7
      <4> HIDE DEF g
      <4>2. QED
        BY <3>8, <3>9, <4>1 DEF Bijection, Injection, Surjection, IsInjective
    <3>11. ExistsBijection(G, F)
      BY <3>10 DEF ExistsBijection
    <3>12. IsFiniteSet(G) /\ Cardinality(G) = IF first \in E THEN Cardinality(E) - 1 ELSE Cardinality(E)
      BY <1>14, FS_RemoveElement DEF G
    <3>13. IsFiniteSet(F) /\ Cardinality(F) = Cardinality(G)
      BY <3>11, <3>12, FS_Bijection
    <3>14. Cardinality(E) \in Nat
      BY <1>14, FS_CardinalityType
    <3>15. QED
      BY <3>3, <3>12, <3>13, <3>14
  <2>3. QED
    BY <2>1, <2>2
<1>15. QED
  BY <1>10, <1>11, <1>12, <1>13, <1>14 DEF u, job, E, F, Outstanding

-----------------------------------------------------------------------------
(* Reaction x is attached to one promise after the other.                  *)

Suffixed(r, s, x) == \E w \in Seq(Reactions) : s = r \o w /\ \A k \in DOMAIN w : w[k] = x
Joins(t, u, x) ==
  /\ u \in Tables /\ u.combinators = t.combinators /\ Goes(t, u, {}) /\ (Honest(t) => Honest(u))
  /\ \A p \in Promises : Strays(u, p) => Strays(t, p) \/ ReactionAims(x, p)
  /\ \A p \in Promises : Suffixed(ReactionsOf(t, p), ReactionsOf(u, p), x)

\* Additions of x at the end compose.
LEMMA SuffixedSame ==
  ASSUME NEW r \in Seq(Reactions), NEW x
  PROVE  Suffixed(r, r, x)
<1>1. <<>> \in Seq(Reactions) /\ r = r \o <<>> /\ \A k \in DOMAIN <<>> : <<>>[k] = x
  OBVIOUS
<1>2. QED
  BY <1>1 DEF Suffixed

LEMMA SuffixedOne ==
  ASSUME NEW r \in Seq(Reactions), NEW x \in Reactions
  PROVE  Suffixed(r, Append(r, x), x)
<1>1. <<x>> \in Seq(Reactions) /\ Append(r, x) = r \o <<x>> /\ \A k \in DOMAIN <<x>> : <<x>>[k] = x
  BY AppendIsConcat
<1>2. QED
  BY <1>1 DEF Suffixed

LEMMA SuffixedTrans ==
  ASSUME NEW r \in Seq(Reactions), NEW s, NEW z, NEW x, Suffixed(r, s, x), Suffixed(s, z, x)
  PROVE  Suffixed(r, z, x)
<1>1. PICK v \in Seq(Reactions) : s = r \o v /\ \A k \in DOMAIN v : v[k] = x
  BY DEF Suffixed
<1>2. PICK w \in Seq(Reactions) : z = s \o w /\ \A k \in DOMAIN w : w[k] = x
  BY DEF Suffixed
<1>3. v \o w \in Seq(Reactions) /\ z = r \o (v \o w)
  BY <1>1, <1>2, ConcatAssociative
<1>4. \A k \in DOMAIN (v \o w) : (v \o w)[k] = x
  <2> SUFFICES ASSUME NEW k \in 1..(Len(v) + Len(w)) PROVE (v \o w)[k] = x
    BY <1>1, <1>2
  <2>1. CASE k <= Len(v)
    BY <1>1, <1>2, <2>1
  <2>2. CASE k > Len(v)
    <3>1. (v \o w)[k] = w[k - Len(v)] /\ k - Len(v) \in DOMAIN w
      BY <1>1, <1>2, <2>2
    <3>2. QED
      BY <1>2, <3>1
  <2>3. QED
    BY <2>1, <2>2
<1>5. QED
  BY <1>3, <1>4 DEF Suffixed

\* Tables in which x joins queues compose, and have grown.
LEMMA JoinsSame ==
  ASSUME NEW t \in Tables, NEW x
  PROVE  Joins(t, t, x)
<1>1. \A p \in Promises : Suffixed(ReactionsOf(t, p), ReactionsOf(t, p), x)
  BY ReactionsType, SuffixedSame
<1>2. QED
  BY <1>1 DEF Joins, Goes

LEMMA JoinsTrans ==
  ASSUME NEW t \in Tables, NEW u, NEW v, NEW x, Joins(t, u, x), Joins(u, v, x)
  PROVE  Joins(t, v, x)
<1>1. v \in Tables /\ v.combinators = t.combinators /\ (Honest(t) => Honest(v))
  BY DEF Joins
<1>2. Goes(t, v, {})
  BY DEF Joins, Goes, Exists, Is
<1>3. \A p \in Promises : Strays(v, p) => Strays(t, p) \/ ReactionAims(x, p)
  BY DEF Joins
<1>4. \A p \in Promises : Suffixed(ReactionsOf(t, p), ReactionsOf(v, p), x)
  <2> TAKE p \in Promises
  <2>1. Suffixed(ReactionsOf(t, p), ReactionsOf(u, p), x) /\ Suffixed(ReactionsOf(u, p), ReactionsOf(v, p), x)
    BY DEF Joins
  <2>2. QED
    BY <2>1, ReactionsType, SuffixedTrans
<1>5. QED
  BY <1>1, <1>2, <1>3, <1>4 DEF Joins

\* Reactions that are no elements of the combinator.
LEMMA JoinsSpots ==
  ASSUME NEW t \in Tables, NEW u, NEW x, Joins(t, u, x), NEW c, x # Element(c)
  PROVE  SameSpots(t, u, c)
<1> SUFFICES ASSUME NEW p \in Promises PROVE Spots(ReactionsOf(u, p), c) = Spots(ReactionsOf(t, p), c)
  BY DEF SameSpots
<1>1. ReactionsOf(t, p) \in Seq(Reactions)
  BY ReactionsType
<1>2. PICK w \in Seq(Reactions) : ReactionsOf(u, p) = ReactionsOf(t, p) \o w /\ \A k \in DOMAIN w : w[k] = x
  BY DEF Joins, Suffixed
<1>3. \A k \in DOMAIN w : w[k] # Element(c)
  BY <1>2
<1>4. QED
  BY <1>1, <1>2, <1>3, LongerSpots

LEMMA JoinsGrows ==
  ASSUME NEW t \in Tables, NEW u, NEW x, Joins(t, u, x), x.kind # "element",
         NEW X, \A q \in Promises : ReactionAims(x, q) => q \in X
  PROVE  Grows(t, u, X)
<1>1. \A p \in Promises : Longer(ReactionsOf(t, p), ReactionsOf(u, p))
  BY DEF Joins, Suffixed, Longer
<1>2. Goes(t, u, X)
  BY DEF Joins, Goes
<1>3. QED
  BY <1>1, <1>2 DEF Joins, Grows

\* What gets the reaction: the element, or the promise made for a value.
SourceFor(t, element) == IF IsPromise(element) THEN element ELSE Fresh(t)

\* attach_element adds one reaction to one promise.
LEMMA AttachJoins ==
  ASSUME NEW t \in Tables, Sound(t), NEW element \in Promises \cup {Value},
         element \in Promises => Exists(t, element), element = Value => HasRoom(t),
         NEW x \in Reactions, Names(t, x), x.kind # "generator"
  PROVE  LET u == Attach(t, element, x)
             s == SourceFor(t, element)
         IN /\ Joins(t, u, x) /\ s \in Promises /\ Exists(u, s)
            /\ ReactionsOf(u, s) = Append(ReactionsOf(t, s), x)
            /\ \A q \in Promises : q # s => ReactionsOf(u, q) = ReactionsOf(t, q)
            /\ SameExist(IF IsPromise(element) THEN t ELSE Create(t), u)
<1>1. \A v \in Tables, s \in Promises : Listens(v) /\ Exists(v, s) =>
        LET u == Subscribe(v, s, x) IN
        /\ Joins(v, u, x) /\ Exists(u, s) /\ SameExist(v, u)
        /\ ReactionsOf(u, s) = Append(ReactionsOf(v, s), x)
        /\ \A q \in Promises : q # s => ReactionsOf(u, q) = ReactionsOf(v, q)
  <2> SUFFICES ASSUME NEW v \in Tables, NEW s \in Promises, Listens(v), Exists(v, s)
               PROVE  LET u == Subscribe(v, s, x) IN
                      /\ Joins(v, u, x) /\ Exists(u, s) /\ SameExist(v, u)
                      /\ ReactionsOf(u, s) = Append(ReactionsOf(v, s), x)
                      /\ \A q \in Promises : q # s => ReactionsOf(u, q) = ReactionsOf(v, q)
    OBVIOUS
  <2> DEFINE u == Subscribe(v, s, x)
  <2>1. /\ u \in Tables /\ u.state = v.state
        /\ u.handled = v.handled \cup {s} /\ u.unhandled = v.unhandled \ {s}
        /\ u.combinators = v.combinators
        /\ Is(v, s, "pending") =>
             u.microtasks = v.microtasks /\ u.reactions = [v.reactions EXCEPT ![s] = Append(@, x)]
        /\ ~Is(v, s, "pending") =>
             /\ u.microtasks = Append(v.microtasks, Reaction(s, x, Is(v, s, "rejected")))
             /\ u.reactions = v.reactions
    BY SubscribeIs
  <2>2. /\ ReactionsOf(u, s) = Append(ReactionsOf(v, s), x)
        /\ \A q \in Promises : q # s => ReactionsOf(u, q) = ReactionsOf(v, q)
        /\ Honest(v) => Honest(u)
        /\ \A q \in Promises : Strays(u, q) => Strays(v, q) \/ ReactionAims(x, q)
    BY SubscribeAdds
  <2> HIDE DEF u
  <2>3. Goes(v, u, {}) /\ Exists(u, s) /\ SameExist(v, u)
    BY <2>1 DEF Goes, SameExist, Exists, Is
  <2>4. \A q \in Promises : Suffixed(ReactionsOf(v, q), ReactionsOf(u, q), x)
    <3>1. \A q \in Promises : ReactionsOf(v, q) \in Seq(Reactions)
      BY ReactionsType
    <3>2. \A q \in Promises : Suffixed(ReactionsOf(v, q), ReactionsOf(v, q), x)
      BY <3>1, SuffixedSame
    <3>3. Suffixed(ReactionsOf(v, s), Append(ReactionsOf(v, s), x), x)
      BY <3>1, SuffixedOne
    <3>4. QED
      BY <2>2, <3>2, <3>3
  <2>5. Joins(v, u, x)
    BY <2>1, <2>2, <2>3, <2>4 DEF Joins
  <2>6. QED
    BY <2>2, <2>3, <2>5 DEF u
<1>2. CASE element \in Promises
  <2>1. Attach(t, element, x) = Subscribe(t, element, x) /\ SourceFor(t, element) = element
        /\ (IF IsPromise(element) THEN t ELSE Create(t)) = t
    BY <1>2 DEF Attach, IsPromise, SourceFor
  <2>2. Listens(t) /\ Exists(t, element)
    BY <1>2 DEF Sound
  <2>3. QED
    BY <1>1, <1>2, <2>1, <2>2
<1>3. CASE element \notin Promises
  <2> DEFINE p == Fresh(t)
             u == Create(t)
             v == Settle(u, p, FALSE)
             w == Subscribe(v, p, x)
  <2>1. element = Value /\ HasRoom(t)
    BY <1>3
  <2>2. /\ u \in Tables /\ Sound(u) /\ p \in Promises /\ Exists(u, p)
        /\ Is(u, p, "pending") /\ Is(t, p, "absent") /\ \A q \in Promises : Exists(t, q) => Exists(u, q)
    BY <2>1, CreateExists
  <2>3. Attach(t, element, x) = w /\ SourceFor(t, element) = p /\ (IF IsPromise(element) THEN t ELSE Create(t)) = u
    <3>1. ResolveInto(u, p, Value) = v
      BY <2>2, LoopAssumption DEF ResolveInto
    <3>2. QED
      BY <1>3, <2>1, <3>1 DEF Attach, IsPromise, SourceFor
  <2>4. /\ u.combinators = t.combinators /\ u.reactions = t.reactions /\ u.microtasks = t.microtasks
        /\ u.state = [t.state EXCEPT ![p] = "pending"] /\ t.state \in [Promises -> PromiseStates]
    BY <2>1, CreateIs, TableTypes
  <2>5. Grows(t, u, {})
    BY <2>1, CreateGrows
  <2> HIDE DEF p, u
  <2>6. Evolves(u, v, {p}) /\ Keeps(u, v) /\ SameExist(u, v) /\ Settled(u, v, p, FALSE)
    BY <2>2, SettleEvolves, SettleKeeps, SettleExist, SettleIs
  <2>7. v \in Tables /\ Listens(v) /\ Exists(v, p)
    BY <2>2, <2>6 DEF Evolves, Changes, Sound, SameExist
  <2>8. /\ Joins(v, w, x) /\ Exists(w, p) /\ SameExist(v, w)
        /\ ReactionsOf(w, p) = Append(ReactionsOf(v, p), x)
        /\ \A q \in Promises : q # p => ReactionsOf(w, q) = ReactionsOf(v, q)
    BY <1>1, <2>2, <2>7
  <2> HIDE DEF v, w
  <2>9. \A q \in Promises : ReactionsOf(v, q) = ReactionsOf(t, q)
    BY <2>4, <2>6 DEF Keeps, ReactionsOf
  <2>10. Joins(t, v, x)
    <3>1. v.combinators = t.combinators
      BY <2>4, <2>6 DEF Settled
    <3>2. Goes(t, v, {})
      BY <2>2, <2>4, <2>6 DEF Settled, Goes, Exists, Is
    <3>3. Honest(t) => Honest(v)
      BY <2>5, <2>6 DEF Grows, Keeps
    <3>4. \A q \in Promises : Strays(v, q) => Strays(t, q)
      BY <2>4, <2>6 DEF Keeps, Strays
    <3>5. \A q \in Promises : Suffixed(ReactionsOf(t, q), ReactionsOf(v, q), x)
      BY <2>9, ReactionsType, SuffixedSame
    <3>6. QED
      BY <2>7, <3>1, <3>2, <3>3, <3>4, <3>5 DEF Joins
  <2>11. Joins(t, w, x)
    BY <2>8, <2>10, JoinsTrans
  <2>12. SameExist(u, w)
    BY <2>6, <2>8 DEF SameExist
  <2>13. QED
    BY <2>2, <2>3, <2>8, <2>9, <2>11, <2>12
<1>4. QED
  BY <1>2, <1>3

\* All elements are attached, by induction on their number.
Known(t, elements) == \A i \in DOMAIN elements : elements[i] \in Promises => Exists(t, elements[i])

\* Attaching a reaction to a list of promises lets it join their queues.
LEMMA AttachAllJoins ==
  ASSUME NEW t \in Tables, Sound(t), NEW elements \in Seq(Promises \cup {Value}), Known(t, elements),
         NEW x \in Reactions, Names(t, x), x.kind # "generator", NEW X,
         NEW after, Attached(t, x, elements, after), Between(t, elements, after, X)
  PROVE  \A n \in 0..Len(elements) :
           /\ Joins(t, after[n], x) /\ after[n] \in Tables /\ Sound(after[n]) /\ Names(after[n], x)
           /\ n < Len(elements) => /\ elements[n + 1] \in Promises => Exists(after[n], elements[n + 1])
                                   /\ elements[n + 1] = Value => HasRoom(after[n])
<1> DEFINE N == Len(elements)
           S == {n \in 0..N : Joins(t, after[n], x)}
<1>1. N \in Nat /\ DOMAIN elements = 1..N /\ \A i \in 1..N : elements[i] \in Promises \cup {Value}
  BY Positions
<1>2. after[0] = t /\ \A n \in 1..N : after[n] = Attach(after[n - 1], elements[n], x)
  BY DEF Attached
<1>3. \A n \in 0..N : /\ after[n] \in Tables /\ Sound(after[n]) /\ Names(after[n], x)
                      /\ n < N /\ elements[n + 1] = Value => HasRoom(after[n])
  <2> SUFFICES ASSUME NEW n \in 0..N
               PROVE  /\ after[n] \in Tables /\ Sound(after[n]) /\ Names(after[n], x)
                      /\ n < N /\ elements[n + 1] = Value => HasRoom(after[n])
    OBVIOUS
  <2>1. Evolves(t, after[n], X)
    BY DEF Between
  <2>2. after[n] \in Tables /\ Sound(after[n])
    BY <2>1 DEF Evolves, Changes
  <2>3. Names(after[n], x)
    BY <2>1, NamesStay
  <2>4. QED
    BY <2>2, <2>3 DEF Between
<1> HIDE DEF N
<1>4. \A n \in 0..N : n < N /\ Joins(t, after[n], x) => (elements[n + 1] \in Promises => Exists(after[n], elements[n + 1]))
  <2> SUFFICES ASSUME NEW n \in 0..N, n < N, Joins(t, after[n], x), elements[n + 1] \in Promises
               PROVE  Exists(after[n], elements[n + 1])
    OBVIOUS
  <2>1. PICK m \in 1..N : m = n + 1
    BY <1>1
  <2>2. Exists(t, elements[m])
    BY <1>1, <2>1 DEF Known
  <2>3. QED
    BY <2>1, <2>2 DEF Joins, Goes
<1>5. 0 \in S
  BY <1>1, <1>2, JoinsSame
<1>6. \A n \in 0..(N - 1) : n \in S => n + 1 \in S
  <2> SUFFICES ASSUME NEW n \in 0..(N - 1), Joins(t, after[n], x) PROVE n + 1 \in S
    OBVIOUS
  <2>1. PICK m \in 1..N : m = n + 1 /\ m - 1 = n /\ n \in 0..N /\ n < N
    BY <1>1
  <2> DEFINE u == after[n]
             e == elements[m]
  <2>2. u \in Tables /\ Sound(u) /\ Names(u, x) /\ e \in Promises \cup {Value}
        /\ (e = Value => HasRoom(u)) /\ (e \in Promises => Exists(u, e))
    BY <1>1, <1>3, <1>4, <2>1
  <2>3. after[m] = Attach(u, e, x)
    BY <1>2, <2>1
  <2> HIDE DEF u, e
  <2>4. Joins(u, Attach(u, e, x), x)
    BY <2>2, AttachJoins
  <2>5. Joins(t, Attach(u, e, x), x)
    BY <2>4, JoinsTrans DEF u
  <2>6. QED
    BY <2>1, <2>3, <2>5
<1>7. 0..N \subseteq S
  <2> HIDE DEF S
  <2>1. QED
    BY <1>1, <1>5, <1>6, UpTo
<1>8. QED
  BY <1>3, <1>4, <1>7 DEF N

\* The calls the program makes list promises that exist.
LEMMA ListsKnown ==
  ASSUME NEW elements \in Lists
  PROVE  Known(table, elements) /\ Len(elements) \in 0..2 /\ DOMAIN elements = 1..Len(elements)
<1> DEFINE E == Existing \cup {Value}
<1>1. \/ elements = <<>>
      \/ \E e \in E : elements = <<e>>
      \/ \E e \in E : elements = <<e, Value>>
      \/ \E e, f \in E : elements = <<e, f>>
  BY DEF Lists
<1>2. \A e \in E : e \in Promises => Exists(table, e)
  BY LoopAssumption DEF Existing
<1> HIDE DEF E
<1>3. Value \in E
  BY DEF E
<1>4. elements \in Seq(E) /\ Len(elements) \in 0..2
  <2>1. CASE elements = <<>>
    BY <2>1
  <2>2. ASSUME NEW e \in E, elements = <<e>> PROVE elements \in Seq(E) /\ Len(elements) \in 0..2
    BY <2>2
  <2>3. ASSUME NEW e \in E, NEW f \in E, elements = <<e, f>> PROVE elements \in Seq(E) /\ Len(elements) \in 0..2
    BY <2>3
  <2>4. QED
    BY <1>1, <1>3, <2>1, <2>2, <2>3
<1>5. DOMAIN elements = 1..Len(elements) /\ \A i \in 1..Len(elements) : elements[i] \in E
  BY <1>4
<1>6. QED
  BY <1>2, <1>4, <1>5 DEF Known

\* A list known before a promise is created is known after it.
LEMMA KnownLater ==
  ASSUME NEW t \in Tables, Sound(t), HasRoom(t), NEW elements, Known(t, elements)
  PROVE  Known(Create(t), elements)
BY CreateExists DEF Known

\* The room of a call, for its target and for the promises of its values.
LEMMA CallRoom ==
  ASSUME NEW t \in Tables, Sound(t), NEW elements \in Seq(Promises \cup {Value}), HasRoomFor(t, NewFor(elements))
  PROVE  LET n == Cardinality({i \in DOMAIN elements : elements[i] = Value}) IN
         n \in Nat /\ HasRoom(t) /\ HasRoomFor(Create(t), n)
<1> DEFINE n == Cardinality({i \in DOMAIN elements : elements[i] = Value})
<1>1. n \in Nat
  <2>1. DOMAIN elements = 1..Len(elements) /\ Len(elements) \in Nat
    BY Positions
  <2>2. IsFiniteSet(DOMAIN elements)
    BY <2>1, FS_Interval
  <2>3. QED
    BY <2>2, FS_Subset, FS_CardinalityType
<1>2. NewFor(elements) = n + 1
  BY <1>1 DEF NewFor
<1> HIDE DEF n
<1>3. HasRoom(t) /\ HasRoomFor(Create(t), n)
  <2>1. n + 1 \in Nat /\ n + 1 > 0 /\ (n + 1) - 1 = n
    BY <1>1
  <2>2. QED
    BY <1>2, <2>1, Rooms DEF Sound
<1>4. QED
  BY <1>1, <1>3 DEF n

\* race attaches a handler to every element, and counts none.
LEMMA RaceGrows ==
  ASSUME NEW t \in Tables, Sound(t), NEW elements \in Seq(Promises \cup {Value}), Known(t, elements),
         HasRoomFor(t, NewFor(elements))
  PROVE  Grows(t, Race(t, elements), {})
<1> DEFINE n == Cardinality({i \in DOMAIN elements : elements[i] = Value})
           u == Create(t)
           p == Fresh(t)
           x == PassThrough(p)
           v == AttachAll(u, elements, x)
<1>1. n \in Nat /\ HasRoom(t) /\ HasRoomFor(u, n)
  BY CallRoom
<1>2. u \in Tables /\ Sound(u) /\ p \in Promises /\ Known(u, elements)
  BY <1>1, Created, KnownLater
<1>3. Race(t, elements) = v
  BY DEF Race
<1>4. x \in Reactions /\ Names(u, x) /\ x.kind # "generator" /\ x.kind # "element"
      /\ \A q \in Promises : ReactionAims(x, q) => q \in {p}
  BY <1>2, ReactionTypes, PlainReactions, AimsOf DEF Plain, Names
<1> HIDE DEF u, p, x
<1>5. PICK after : Attached(u, x, elements, after) /\ Between(u, elements, after, {p})
  BY <1>1, <1>2, <1>4, AttachAllSteps
<1>6. Len(elements) \in Nat
  BY Positions
<1>7. Joins(u, v, x)
  <2>1. Joins(u, after[Len(elements)], x)
    BY <1>2, <1>4, <1>5, <1>6, AttachAllJoins
  <2>2. QED
    BY <1>5, <2>1 DEF Attached
<1> HIDE DEF v
<1>8. Grows(u, v, {p})
  BY <1>2, <1>4, <1>7, JoinsGrows
<1>9. Grows(Create(t), v, {} \cup {Fresh(t)})
  BY <1>8 DEF u, p
<1>10. QED
  BY <1>1, <1>3, <1>9, GrowsFresh

\* Promises are created one after the other: m is the next one.
Level(t, m) == m \in Nat /\ m > 0 /\ \A q \in Promises : Exists(t, q) <=> q < m

\* The promises of values are created one after the other.
LEMMA LevelFirst ==
  ASSUME NEW t \in Tables, InOrder(t), HasRoom(t)
  PROVE  Level(t, Fresh(t))
<1>1. Fresh(t) \in Promises /\ ~Exists(t, Fresh(t)) /\ \A q \in Promises : q < Fresh(t) => Exists(t, q)
  BY FreshPromise DEF Exists, Is
<1>2. ASSUME NEW q \in Promises, Exists(t, q) PROVE q < Fresh(t)
  <2>1. q # Fresh(t) /\ ~(Fresh(t) < q)
    BY <1>1, <1>2 DEF InOrder
  <2>2. q \in Int /\ Fresh(t) \in Int
    BY <1>1 DEF Promises
  <2>3. QED
    BY <2>1, <2>2
<1>3. Fresh(t) \in Nat /\ Fresh(t) > 0
  BY <1>1, PromisesAssumption DEF Promises
<1>4. QED
  BY <1>1, <1>2, <1>3 DEF Level

LEMMA LevelFresh ==
  ASSUME NEW t \in Tables, NEW m, Level(t, m), HasRoom(t)
  PROVE  Fresh(t) = m /\ Level(Create(t), m + 1)
<1>1. Fresh(t) \in Promises /\ ~Exists(t, Fresh(t)) /\ \A q \in Promises : q < Fresh(t) => Exists(t, q)
  BY FreshPromise DEF Exists, Is
<1>2. m \in Nat /\ m > 0 /\ \A q \in Promises : Exists(t, q) <=> q < m
  BY DEF Level
<1>3. Fresh(t) = m
  <2>1. ~(Fresh(t) < m)
    BY <1>1, <1>2
  <2>2. CASE m < Fresh(t)
    <3>1. m \in Promises
      BY <1>1, <1>2, <2>2, PromisesAssumption DEF Promises
    <3>2. Exists(t, m)
      BY <1>1, <2>2, <3>1
    <3>3. m < m
      BY <1>2, <3>1, <3>2
    <3>4. QED
      BY <1>2, <3>3
  <2>3. Fresh(t) \in Int /\ m \in Int
    BY <1>1, <1>2 DEF Promises
  <2>4. QED
    BY <2>1, <2>2, <2>3
<1>4. Create(t).state = [t.state EXCEPT ![m] = "pending"] /\ t.state \in [Promises -> PromiseStates] /\ m \in Promises
  BY <1>1, <1>3, CreateIs, TableTypes
<1>5. \A q \in Promises : Exists(Create(t), q) <=> q < m + 1
  <2> TAKE q \in Promises
  <2>1. q \in Int /\ m \in Int
    BY <1>2 DEF Promises
  <2>2. Exists(Create(t), q) <=> (Exists(t, q) \/ q = m)
    BY <1>4 DEF Exists, Is
  <2>3. QED
    BY <1>2, <2>1, <2>2
<1>6. QED
  BY <1>2, <1>3, <1>5 DEF Level

LEMMA LevelStays ==
  ASSUME NEW t, NEW u, NEW m, Level(t, m), SameExist(t, u)
  PROVE  Level(u, m)
BY DEF Level, SameExist

-----------------------------------------------------------------------------
(* A combinator attaches its elements.                                     *)

\* An element attached is under way at the end of the queue.
LEMMA AppendSpots ==
  ASSUME NEW r \in Seq(Reactions), NEW c \in Nat
  PROVE  /\ Spots(Append(r, Element(c)), c) = Spots(r, c) \cup {Len(r) + 1}
         /\ Len(r) + 1 \notin Spots(r, c) /\ Len(r) + 1 \in Nat
<1> DEFINE x == Element(c)
           s == Append(r, x)
<1>1. /\ Len(r) \in Nat /\ DOMAIN r = 1..Len(r) /\ DOMAIN s = 1..(Len(r) + 1)
      /\ s[Len(r) + 1] = x /\ \A k \in 1..Len(r) : s[k] = r[k]
  BY ReactionTypes
<1> HIDE DEF s, x
<1>2. Len(r) + 1 \notin DOMAIN r /\ Len(r) + 1 \in DOMAIN s /\ Len(r) + 1 \in Nat
      /\ \A k : k \in DOMAIN s <=> k \in DOMAIN r \/ k = Len(r) + 1
  BY <1>1
<1>3. \A k : k \in Spots(s, c) <=> k \in Spots(r, c) \/ k = Len(r) + 1
  BY <1>1, <1>2 DEF Spots, x
<1>4. QED
  BY <1>2, <1>3 DEF Spots, s, x

\* One attachment adds one element.
LEMMA OneMore ==
  ASSUME NEW t \in Tables, NEW u \in Tables, NEW c \in Nat, NEW s \in Promises,
         ReactionsOf(u, s) = Append(ReactionsOf(t, s), Element(c)),
         \A q \in Promises : q # s => ReactionsOf(u, q) = ReactionsOf(t, q),
         IsFiniteSet(ElementsAt(t, c))
  PROVE  /\ IsFiniteSet(ElementsAt(u, c)) /\ Outstanding(u, c) = Outstanding(t, c) + 1
         /\ \A p \in Promises : HasElement(u, p, c) <=> HasElement(t, p, c) \/ p = s
<1> DEFINE k == Len(ReactionsOf(t, s)) + 1
           At(v, p) == Spots(ReactionsOf(v, p), c)
<1>1. ReactionsOf(t, s) \in Seq(Reactions)
  BY ReactionsType
<1>2. At(u, s) = At(t, s) \cup {k} /\ k \notin At(t, s) /\ k \in Nat
  BY <1>1, AppendSpots
<1>3. \A q \in Promises : q # s => At(u, q) = At(t, q)
  OBVIOUS
<1>4. /\ ElementsAt(t, c) = {e \in Promises \X Nat : e[2] \in At(t, e[1])}
      /\ ElementsAt(u, c) = {e \in Promises \X Nat : e[2] \in At(u, e[1])}
  BY ElementsAre
<1>5. \A v : \A p : HasElement(v, p, c) <=> At(v, p) # {}
  BY DEF HasElement
<1> HIDE DEF k, At
<1>6. \A e \in Promises \X Nat : e[2] \in At(u, e[1]) <=> e[2] \in At(t, e[1]) \/ e = <<s, k>>
  <2> TAKE e \in Promises \X Nat
  <2>1. e = <<e[1], e[2]>> /\ e[1] \in Promises
    OBVIOUS
  <2>2. CASE e[1] = s
    BY <1>2, <2>1, <2>2
  <2>3. CASE e[1] # s
    BY <1>3, <2>1, <2>3
  <2>4. QED
    BY <2>2, <2>3
<1>7. <<s, k>> \in Promises \X Nat /\ <<s, k>> \notin ElementsAt(t, c)
  BY <1>2, <1>4
<1>8. ElementsAt(u, c) = ElementsAt(t, c) \cup {<<s, k>>}
  BY <1>4, <1>6, <1>7
<1>9. IsFiniteSet(ElementsAt(u, c)) /\ Cardinality(ElementsAt(u, c)) = Cardinality(ElementsAt(t, c)) + 1
  BY <1>7, <1>8, FS_AddElement
<1>10. \A p \in Promises : At(u, p) # {} <=> At(t, p) # {} \/ p = s
  BY <1>2, <1>3
<1>11. QED
  BY <1>5, <1>9, <1>10 DEF Outstanding

\* How many of the first n elements are values.
ValuesIn(elements, n) == Cardinality({j \in 1..n : ~IsPromise(elements[j])})

\* How many values a list has, counted from its front.
LEMMA ValuesAre ==
  ASSUME NEW elements \in Seq(Promises \cup {Value})
  PROVE  /\ ValuesIn(elements, 0) = 0
         /\ \A n \in Nat : ValuesIn(elements, n) \in Nat
         /\ \A n \in Nat : ValuesIn(elements, n + 1) = ValuesIn(elements, n) + Needs(elements[n + 1])
<1> DEFINE V(n) == {j \in 1..n : ~IsPromise(elements[j])}
<1>1. \A n \in Nat : IsFiniteSet(V(n)) /\ Cardinality(V(n)) \in Nat
  <2> TAKE n \in Nat
  <2>1. IsFiniteSet(1..n)
    BY FS_Interval
  <2>2. IsFiniteSet(V(n))
    BY <2>1, FS_Subset
  <2>3. QED
    BY <2>2, FS_CardinalityType
<1>2. V(0) = {}
  OBVIOUS
<1>3. \A n \in Nat : V(n + 1) = IF IsPromise(elements[n + 1]) THEN V(n) ELSE V(n) \cup {n + 1}
  OBVIOUS
<1>4. \A n \in Nat : n + 1 \notin V(n)
  OBVIOUS
<1>5. \A n : ValuesIn(elements, n) = Cardinality(V(n))
  BY DEF ValuesIn
<1> HIDE DEF V
<1>6. \A n \in Nat : Cardinality(V(n + 1)) = Cardinality(V(n)) + Needs(elements[n + 1])
  <2> TAKE n \in Nat
  <2>1. Cardinality(V(n) \cup {n + 1}) = Cardinality(V(n)) + 1
    BY <1>1, <1>4, FS_AddElement
  <2>2. PICK m : m = n + 1
    OBVIOUS
  <2>3. Cardinality(V(n)) \in Nat
    BY <1>1
  <2>4. V(m) = IF IsPromise(elements[m]) THEN V(n) ELSE V(n) \cup {m}
    BY <1>3, <2>2
  <2>5. CASE IsPromise(elements[m])
    <3>1. V(m) = V(n) /\ Needs(elements[m]) = 0
      BY <2>4, <2>5 DEF Needs
    <3>2. Cardinality(V(m)) = Cardinality(V(n)) + Needs(elements[m])
      BY <2>3, <3>1
    <3>3. QED
      BY <2>2, <3>2
  <2>6. CASE ~IsPromise(elements[m])
    <3>1. V(m) = V(n) \cup {m} /\ Needs(elements[m]) = 1
      BY <2>4, <2>6 DEF Needs
    <3>2. Cardinality(V(m)) = Cardinality(V(n)) + Needs(elements[m])
      BY <2>1, <2>2, <3>1
    <3>3. QED
      BY <2>2, <3>2
  <2>7. QED
    BY <2>5, <2>6
<1>7. QED
  BY <1>1, <1>2, <1>5, <1>6, FS_EmptySet

\* Each element has its source, and each source an element, when all are attached.
SourceAt(elements, f, i) == IF IsPromise(elements[i]) THEN elements[i] ELSE f + ValuesIn(elements, i)
AllAttached(t, c, elements, f, n) ==
  /\ Level(t, f + 1 + ValuesIn(elements, n))
  /\ IsFiniteSet(ElementsAt(t, c)) /\ Outstanding(t, c) = n
  /\ \A p \in Promises : HasElement(t, p, c) => \E i \in 1..n : SourceAt(elements, f, i) = p
  /\ \A i \in 1..n : LET p == SourceAt(elements, f, i) IN p \in Promises /\ Exists(t, p) /\ HasElement(t, p, c)

\* Every element of the list is under way once, at its own promise.
LEMMA ElementsAttached ==
  ASSUME NEW t \in Tables, Sound(t), NEW elements \in Seq(Promises \cup {Value}), Known(t, elements),
         NEW c \in Nat, Names(t, Element(c)), NEW f \in Nat, Level(t, f + 1),
         \A p \in Promises : ~HasElement(t, p, c), NEW X,
         NEW after, Attached(t, Element(c), elements, after), Between(t, elements, after, X)
  PROVE  AllAttached(after[Len(elements)], c, elements, f, Len(elements))
<1> DEFINE N == Len(elements)
           x == Element(c)
           K(n) == ValuesIn(elements, n)
           At(i) == SourceAt(elements, f, i)
           S == {n \in 0..N : AllAttached(after[n], c, elements, f, n)}
<1>1. N \in Nat /\ DOMAIN elements = 1..N /\ \A i \in 1..N : elements[i] \in Promises \cup {Value}
  BY Positions
<1>2. after[0] = t /\ \A n \in 1..N : after[n] = Attach(after[n - 1], elements[n], x)
  BY DEF Attached
<1>3. x \in Reactions /\ x.kind = "element"
  BY ReactionTypes DEF Element
<1>4. \A n \in 0..N :
        /\ after[n] \in Tables /\ Sound(after[n]) /\ Names(after[n], x)
        /\ n < N => /\ elements[n + 1] \in Promises => Exists(after[n], elements[n + 1])
                    /\ elements[n + 1] = Value => HasRoom(after[n])
  BY <1>3, AttachAllJoins
<1>5. K(0) = 0 /\ (\A n \in Nat : K(n) \in Nat) /\ \A n \in Nat : K(n + 1) = K(n) + Needs(elements[n + 1])
  BY ValuesAre
<1> HIDE DEF N, x, K
<1>6. 0 \in S
  <2>1. ElementsAt(t, c) = {}
    <3>1. ElementsAt(t, c) = {e \in Promises \X Nat : e[2] \in Spots(ReactionsOf(t, e[1]), c)}
      BY ElementsAre
    <3>2. \A p \in Promises : Spots(ReactionsOf(t, p), c) = {}
      BY DEF HasElement
    <3>3. QED
      BY <3>1, <3>2
  <2>2. IsFiniteSet(ElementsAt(t, c)) /\ Outstanding(t, c) = 0
    BY <2>1, FS_EmptySet DEF Outstanding
  <2>3. f + 1 + K(0) = f + 1 /\ 0 \in 0..N
    BY <1>1, <1>5
  <2>4. AllAttached(t, c, elements, f, 0)
    BY <2>2, <2>3 DEF AllAttached, K
  <2>5. QED
    BY <1>2, <2>3, <2>4
<1>7. \A n \in 0..(N - 1) : n \in S => n + 1 \in S
  <2> SUFFICES ASSUME NEW n \in 0..(N - 1), AllAttached(after[n], c, elements, f, n) PROVE n + 1 \in S
    OBVIOUS
  <2>1. PICK m \in 1..N : m = n + 1 /\ m - 1 = n /\ n \in 0..N /\ n < N /\ n \in Nat /\ m \in 0..N
    BY <1>1
  <2> DEFINE u == after[n]
             e == elements[m]
             s == SourceFor(u, e)
             w == Attach(u, e, x)
  <2>2. u \in Tables /\ Sound(u) /\ Names(u, x) /\ e \in Promises \cup {Value}
        /\ (e = Value => HasRoom(u)) /\ (e \in Promises => Exists(u, e))
    BY <1>1, <1>4, <2>1
  <2>3. after[m] = w
    BY <1>2, <2>1
  <2>4. /\ Level(u, f + 1 + K(n)) /\ IsFiniteSet(ElementsAt(u, c)) /\ Outstanding(u, c) = n
        /\ \A p \in Promises : HasElement(u, p, c) => \E i \in 1..n : At(i) = p
        /\ \A i \in 1..n : At(i) \in Promises /\ Exists(u, At(i)) /\ HasElement(u, At(i), c)
    BY DEF AllAttached, K
  <2>5. K(m) = K(n) + Needs(e) /\ K(n) \in Nat
    BY <1>5, <2>1
  <2> HIDE DEF u, e, w, s
  <2>6. /\ Joins(u, w, x) /\ s \in Promises /\ Exists(w, s)
        /\ ReactionsOf(w, s) = Append(ReactionsOf(u, s), x)
        /\ \A q \in Promises : q # s => ReactionsOf(w, q) = ReactionsOf(u, q)
        /\ SameExist(IF IsPromise(e) THEN u ELSE Create(u), w)
    BY <1>3, <2>2, AttachJoins DEF s, w
  <2>7. s = At(m) /\ Level(w, f + 1 + K(m))
    <3>1. CASE e \in Promises
      <4>1. s = e /\ At(m) = e
        BY <3>1 DEF s, SourceFor, IsPromise, SourceAt, e
      <4>2. SameExist(u, w) /\ K(m) = K(n)
        BY <2>5, <2>6, <3>1 DEF IsPromise, Needs
      <4>3. QED
        BY <2>4, <4>1, <4>2, LevelStays
    <3>2. CASE e \notin Promises
      <4>1. HasRoom(u) /\ SameExist(Create(u), w) /\ K(m) = K(n) + 1 /\ s = Fresh(u)
        BY <2>2, <2>5, <2>6, <3>2 DEF IsPromise, Needs, s, SourceFor
      <4>2. Fresh(u) = f + 1 + K(n) /\ Level(Create(u), f + 1 + K(n) + 1)
        BY <2>2, <2>4, <4>1, LevelFresh
      <4>3. f + 1 + K(n) + 1 = f + 1 + K(m) /\ f + 1 + K(n) = f + K(m)
        BY <2>5, <4>1
      <4>4. At(m) = f + K(m)
        BY <3>2 DEF SourceAt, IsPromise, e, K
      <4>5. QED
        BY <4>1, <4>2, <4>3, <4>4, LevelStays
    <3>3. QED
      BY <3>1, <3>2
  <2>8. /\ IsFiniteSet(ElementsAt(w, c)) /\ Outstanding(w, c) = Outstanding(u, c) + 1
        /\ \A p \in Promises : HasElement(w, p, c) <=> HasElement(u, p, c) \/ p = s
    <3>1. w \in Tables
      BY <2>6 DEF Joins
    <3>2. QED
      BY <2>2, <2>4, <2>6, <3>1, OneMore DEF x
  <2>9. \A p \in Promises : Exists(u, p) => Exists(w, p)
    BY <2>6 DEF Joins, Goes
  <2>10. \A i \in 1..m : i \in 1..n \/ i = m
    BY <2>1
  <2> HIDE DEF At
  <2>11. \A p \in Promises : HasElement(w, p, c) => \E i \in 1..m : At(i) = p
    <3> SUFFICES ASSUME NEW p \in Promises, HasElement(w, p, c) PROVE \E i \in 1..m : At(i) = p
      OBVIOUS
    <3>1. 1..n \subseteq 1..m /\ m \in 1..m
      BY <2>1
    <3>2. QED
      BY <2>4, <2>7, <2>8, <3>1
  <2>12. \A i \in 1..m : At(i) \in Promises /\ Exists(w, At(i)) /\ HasElement(w, At(i), c)
    BY <2>4, <2>6, <2>7, <2>8, <2>9, <2>10
  <2>13. AllAttached(w, c, elements, f, m)
    <3>1. Outstanding(w, c) = m
      BY <2>1, <2>4, <2>8
    <3>2. QED
      BY <2>7, <2>8, <2>11, <2>12, <3>1 DEF AllAttached, K, At
  <2>14. QED
    BY <2>1, <2>3, <2>13
<1>8. N \in S
  <2> HIDE DEF S
  <2>1. 0..N \subseteq S
    BY <1>1, <1>6, <1>7, UpTo
  <2>2. QED
    BY <1>1, <2>1
<1>9. QED
  BY <1>8 DEF N

-----------------------------------------------------------------------------
(* What the combinators owe. *)

Favours(t, kind, p) ==
  /\ kind = "all" => Is(t, p, "fulfilled")
  /\ kind = "any" => Is(t, p, "rejected")
  /\ ~Is(t, p, "pending")
IsSource(entry, p) == \E i \in DOMAIN entry.of : entry.of[i] = p

\* The outcome of the target is the one its sources call for.
Verdict(t, entry) ==
  /\ Is(t, entry.target, "fulfilled") =>
       /\ entry.kind = "any" => \E p \in Promises : IsSource(entry, p) /\ Is(t, p, "fulfilled")
       /\ entry.kind # "any" => \A p \in Promises : IsSource(entry, p) => Favours(t, entry.kind, p)
  /\ Is(t, entry.target, "rejected") =>
       /\ entry.kind = "all" => \E p \in Promises : IsSource(entry, p) /\ Is(t, p, "rejected")
       /\ entry.kind = "any" => \A p \in Promises : IsSource(entry, p) => Is(t, p, "rejected")
       /\ entry.kind \in {"all", "any"}

\* A combinator that is not settled waits for the elements it counts, and every
\* source that has none has been counted as one that decides nothing.
Tended(t, c) ==
  LET entry == t.combinators[c] IN
  /\ entry.target \in Promises /\ Exists(t, entry.target)
  /\ entry.settled <=> ~Is(t, entry.target, "pending")
  /\ ~entry.settled => /\ IsFiniteSet(ElementsAt(t, c)) /\ Outstanding(t, c) = entry.remaining
                       /\ entry.remaining > 0
  /\ \A p \in Promises : HasElement(t, p, c) => IsSource(entry, p)
  /\ \A p : IsSource(entry, p) =>
       /\ p \in Promises /\ Exists(t, p)
       /\ ~entry.settled => HasElement(t, p, c) \/ Favours(t, entry.kind, p)
  /\ Verdict(t, entry)

Apart(t) == \A c, d \in DOMAIN t.combinators : t.combinators[c].target = t.combinators[d].target => c = d
Answers(t) == Honest(t) /\ Apart(t) /\ \A c \in DOMAIN t.combinators : Tended(t, c)
IsTarget(t, p) == \E c \in DOMAIN t.combinators : t.combinators[c].target = p

\* A combinator goes on as it is while nobody settles its target and its elements
\* are as many as before.
LEMMA TendedOn ==
  ASSUME NEW t \in Tables, NEW u \in Tables, NEW c, u.combinators[c] = t.combinators[c], Tended(t, c),
         NEW X, Goes(t, u, X), t.combinators[c].target \notin X,
         ~t.combinators[c].settled =>
           /\ IsFiniteSet(ElementsAt(t, c)) =>
                IsFiniteSet(ElementsAt(u, c)) /\ Outstanding(u, c) = Outstanding(t, c)
           /\ \A p \in Promises : HasElement(t, p, c) => HasElement(u, p, c),
         \A p \in Promises : HasElement(u, p, c) => HasElement(t, p, c)
  PROVE  Tended(u, c)
<1> DEFINE e == t.combinators[c]
<1>1. /\ e.target \in Promises /\ Exists(t, e.target)
      /\ e.settled <=> ~Is(t, e.target, "pending")
      /\ ~e.settled => IsFiniteSet(ElementsAt(t, c)) /\ Outstanding(t, c) = e.remaining /\ e.remaining > 0
      /\ \A p \in Promises : HasElement(t, p, c) => IsSource(e, p)
      /\ \A p : IsSource(e, p) => /\ p \in Promises /\ Exists(t, p)
                                  /\ ~e.settled => HasElement(t, p, c) \/ Favours(t, e.kind, p)
      /\ Verdict(t, e)
  BY DEF Tended
<1>2. u.combinators[c] = e
  OBVIOUS
<1> HIDE DEF e
<1>3. u.state[e.target] = t.state[e.target] /\ Exists(u, e.target)
  BY <1>1 DEF Goes, Exists, Is, e
<1>4. \A p \in Promises : Exists(t, p) =>
        /\ Exists(u, p) /\ Is(t, p, "fulfilled") => Is(u, p, "fulfilled")
        /\ Is(t, p, "rejected") => Is(u, p, "rejected")
        /\ ~Is(t, p, "pending") => ~Is(u, p, "pending")
        /\ \A kind : Favours(t, kind, p) => Favours(u, kind, p)
  BY DEF Goes, Exists, Is, Favours
<1>5. \A p \in Promises : Exists(t, p) => Exists(u, p)
  BY DEF Goes
<1>6. \A p \in Promises : IsSource(e, p) =>
        /\ Is(t, p, "fulfilled") => Is(u, p, "fulfilled")
        /\ Is(t, p, "rejected") => Is(u, p, "rejected")
        /\ \A kind : Favours(t, kind, p) => Favours(u, kind, p)
  <2> SUFFICES ASSUME NEW p \in Promises, IsSource(e, p)
               PROVE  /\ Is(t, p, "fulfilled") => Is(u, p, "fulfilled")
                      /\ Is(t, p, "rejected") => Is(u, p, "rejected")
                      /\ \A kind : Favours(t, kind, p) => Favours(u, kind, p)
    OBVIOUS
  <2>1. Exists(t, p)
    BY <1>1
  <2>2. QED
    BY <2>1 DEF Goes, Exists, Is, Favours
<1>7. Verdict(u, e)
  BY <1>1, <1>3, <1>6 DEF Verdict, Is
<1>8. e.settled <=> ~Is(u, e.target, "pending")
  BY <1>1, <1>3 DEF Is
<1>9. ~e.settled => IsFiniteSet(ElementsAt(u, c)) /\ Outstanding(u, c) = e.remaining /\ e.remaining > 0
  BY <1>1 DEF e
<1>10. \A p \in Promises : HasElement(u, p, c) => IsSource(e, p)
  BY <1>1
<1>11. \A p : IsSource(e, p) => /\ p \in Promises /\ Exists(u, p)
                                /\ ~e.settled => HasElement(u, p, c) \/ Favours(u, e.kind, p)
  BY <1>1, <1>5, <1>6 DEF e
<1>12. QED
  BY <1>1, <1>2, <1>3, <1>7, <1>8, <1>9, <1>10, <1>11 DEF Tended

\* Nothing that the combinator counts has changed.
LEMMA TendedSame ==
  ASSUME NEW t \in Tables, NEW u \in Tables, NEW c, u.combinators[c] = t.combinators[c], Tended(t, c),
         NEW X, Goes(t, u, X), t.combinators[c].target \notin X, SameSpots(t, u, c)
  PROVE  Tended(u, c)
<1>1. ElementsAt(u, c) = ElementsAt(t, c) /\ \A p \in Promises : HasElement(u, p, c) <=> HasElement(t, p, c)
  BY SameElements
<1>2. Outstanding(u, c) = Outstanding(t, c)
  BY <1>1 DEF Outstanding
<1>3. ~t.combinators[c].settled =>
        /\ IsFiniteSet(ElementsAt(t, c)) =>
             IsFiniteSet(ElementsAt(u, c)) /\ Outstanding(u, c) = Outstanding(t, c)
        /\ \A p \in Promises : HasElement(t, p, c) => HasElement(u, p, c)
  BY <1>1, <1>2
<1>4. \A p \in Promises : HasElement(u, p, c) => HasElement(t, p, c)
  BY <1>1
<1>5. QED
  BY <1>3, <1>4, TendedOn

\* A table that grows.
LEMMA GrowsAnswers ==
  ASSUME NEW t \in Tables, Answers(t), NEW u, NEW X, Grows(t, u, X), \A p \in X : ~IsTarget(t, p)
  PROVE  Answers(u)
<1>1. u \in Tables /\ u.combinators = t.combinators /\ Goes(t, u, X) /\ Honest(u)
  BY DEF Grows, Answers
<1>2. \A c \in DOMAIN t.combinators : Tended(u, c)
  <2> SUFFICES ASSUME NEW c \in DOMAIN t.combinators PROVE Tended(u, c)
    OBVIOUS
  <2>1. SameSpots(t, u, c) /\ Tended(t, c) /\ t.combinators[c].target \notin X
    BY GrowsSpots DEF Answers, IsTarget
  <2>2. QED
    BY <1>1, <2>1, TendedSame
<1>3. QED
  BY <1>1, <1>2 DEF Answers, Apart

\* What is left of the table when the first job is taken.
LEMMA ShorterHonest ==
  ASSUME NEW t \in Tables, t.microtasks # <<>>
  PROVE  /\ Shorter(t) \in Tables /\ Shorter(t).combinators = t.combinators /\ Shorter(t).state = t.state
         /\ Honest(t) => Honest(Shorter(t))
         /\ \A p \in Promises : Strays(Shorter(t), p) => Strays(t, p)
         /\ \A p : JobAims(Head(t.microtasks), p) => Strays(t, p)
         /\ Head(t.microtasks) \in Jobs
         /\ Honest(t) /\ Head(t.microtasks).kind = "reaction" =>
              Is(t, Head(t.microtasks).of, IF Head(t.microtasks).rejected THEN "rejected" ELSE "fulfilled")
<1> DEFINE u == Shorter(t)
<1>1. /\ u \in Tables /\ u.state = t.state /\ u.reactions = t.reactions /\ u.combinators = t.combinators
      /\ \A i \in DOMAIN u.microtasks : i \in Nat /\ i + 1 \in DOMAIN t.microtasks
                                        /\ u.microtasks[i] = t.microtasks[i + 1]
      /\ 1 \in DOMAIN t.microtasks /\ t.microtasks[1] = Head(t.microtasks) /\ t.microtasks[1] \in Jobs
  BY ShorterIs
<1> HIDE DEF u
<1>2. \A i \in DOMAIN u.microtasks : \E j \in DOMAIN t.microtasks : u.microtasks[i] = t.microtasks[j]
  BY <1>1
<1>3. Honest(t) => Honest(u)
  BY <1>1, <1>2 DEF Honest, Is
<1>4. \A p \in Promises : Strays(u, p) => Strays(t, p)
  BY <1>1, <1>2 DEF Strays
<1>5. \A p : JobAims(Head(t.microtasks), p) => Strays(t, p)
  BY <1>1 DEF Strays
<1>6. Honest(t) /\ Head(t.microtasks).kind = "reaction" =>
        Is(t, Head(t.microtasks).of, IF Head(t.microtasks).rejected THEN "rejected" ELSE "fulfilled")
  BY <1>1 DEF Honest
<1>7. QED
  BY <1>1, <1>3, <1>4, <1>5, <1>6 DEF u

\* The job is no element of the combinator, or the combinator is settled.
LEMMA ShorterTended ==
  ASSUME NEW t \in Tables, t.microtasks # <<>>, NEW c, Tended(t, c), Takes(t, c) => t.combinators[c].settled
  PROVE  Tended(Shorter(t), c)
<1> DEFINE u == Shorter(t)
           job == Head(t.microtasks)
<1>1. u \in Tables /\ u.combinators = t.combinators /\ u.state = t.state
  BY ShorterHonest
<1>2. /\ IsFiniteSet(ElementsAt(t, c)) =>
           /\ IsFiniteSet(ElementsAt(u, c))
           /\ Outstanding(t, c) = Outstanding(u, c) + (IF Takes(t, c) THEN 1 ELSE 0)
      /\ \A p \in Promises : HasElement(u, p, c) => HasElement(t, p, c)
      /\ \A p \in Promises : HasElement(t, p, c) => HasElement(u, p, c) \/ (Takes(t, c) /\ p = job.of)
  BY ShorterElements
<1> HIDE DEF u
<1>3. Goes(t, u, {})
  BY <1>1 DEF Goes, Exists, Is
<1>4. ~t.combinators[c].settled =>
        /\ IsFiniteSet(ElementsAt(t, c)) =>
             IsFiniteSet(ElementsAt(u, c)) /\ Outstanding(u, c) = Outstanding(t, c)
        /\ \A p \in Promises : HasElement(t, p, c) => HasElement(u, p, c)
  <2> SUFFICES ASSUME ~t.combinators[c].settled
               PROVE  /\ IsFiniteSet(ElementsAt(t, c)) =>
                           IsFiniteSet(ElementsAt(u, c)) /\ Outstanding(u, c) = Outstanding(t, c)
                      /\ \A p \in Promises : HasElement(t, p, c) => HasElement(u, p, c)
    OBVIOUS
  <2>1. ~Takes(t, c)
    OBVIOUS
  <2>2. IsFiniteSet(ElementsAt(u, c)) => Outstanding(u, c) \in Nat
    BY FS_CardinalityType DEF Outstanding
  <2>3. QED
    BY <1>2, <2>1, <2>2
<1>5. Tended(u, c)
  BY <1>1, <1>2, <1>3, <1>4, TendedOn
<1>6. QED
  BY <1>5 DEF u

\* A job that is not an element a combinator waits for leaves the queue.
LEMMA ShorterAnswers ==
  ASSUME NEW t \in Tables, Answers(t), t.microtasks # <<>>, \A c \in DOMAIN t.combinators : ~Takes(t, c)
  PROVE  Answers(Shorter(t))
<1>1. Shorter(t).combinators = t.combinators /\ (Honest(t) => Honest(Shorter(t)))
  BY ShorterHonest
<1>2. \A c \in DOMAIN t.combinators : Tended(Shorter(t), c)
  BY ShorterTended DEF Answers
<1>3. QED
  BY <1>1, <1>2 DEF Answers, Apart

-----------------------------------------------------------------------------
(* A combinator is told of an element.                                     *)

Decides(entry, rejected) == (entry.kind = "all" /\ rejected) \/ (entry.kind = "any" /\ ~rejected)

\* Other combinators in a table change nothing else.
LEMMA WithCombinators ==
  ASSUME NEW t \in Tables, NEW C \in Seq(Combinators)
  PROVE  LET u == [t EXCEPT !.combinators = C] IN
         Keeps(t, u) /\ u.combinators = C /\ u.state = t.state
<1> DEFINE u == [t EXCEPT !.combinators = C]
<1>1. /\ u \in Tables /\ u.combinators = C /\ u.state = t.state /\ u.reactions = t.reactions
      /\ u.microtasks = t.microtasks
  BY DEF Tables
<1> HIDE DEF u
<1>2. Keeps(t, u)
  BY <1>1 DEF Keeps, Honest, ReactionsOf, Strays, Is
<1>3. QED
  BY <1>1, <1>2 DEF u

\* What settle_element does to combinator c, whose entry was e: it is left as it
\* was, it counts one element less, or it is settled with its target.
Told(t, u, c, rejected) ==
  LET e == t.combinators[c]
      f == u.combinators[c]
  IN
  /\ Keeps(t, u) /\ DOMAIN u.combinators = DOMAIN t.combinators
  /\ \A d \in DOMAIN t.combinators : d # c => u.combinators[d] = t.combinators[d]
  /\ f.kind = e.kind /\ f.target = e.target /\ f.of = e.of
  /\ e.settled => u = t
  /\ ~e.settled /\ Decides(e, rejected) =>
       /\ f.settled
       /\ u.state = [t.state EXCEPT ![e.target] = IF rejected THEN "rejected" ELSE "fulfilled"]
  /\ ~e.settled /\ ~Decides(e, rejected) /\ e.remaining > 1 =>
       ~f.settled /\ f.remaining = e.remaining - 1 /\ u.state = t.state
  /\ ~e.settled /\ ~Decides(e, rejected) /\ ~(e.remaining > 1) =>
       /\ f.settled
       /\ u.state = [t.state EXCEPT ![e.target] = IF e.kind = "any" THEN "rejected" ELSE "fulfilled"]

\* What settle_element does to the table, by the kind of the combinator.
LEMMA SettleElementIs ==
  ASSUME NEW t \in Tables, NEW c \in DOMAIN t.combinators, NEW rejected \in BOOLEAN,
         ~t.combinators[c].settled => Is(t, t.combinators[c].target, "pending")
  PROVE  Told(t, SettleElement(t, c, rejected), c, rejected)
<1> DEFINE e == t.combinators[c]
           p == e.target
           E1 == [e EXCEPT !.settled = TRUE]
           E2 == [e EXCEPT !.remaining = e.remaining - 1]
           E3 == [e EXCEPT !.remaining = 0, !.settled = TRUE]
           At(F) == [t.combinators EXCEPT ![c] = F]
           With(F) == [t EXCEPT !.combinators = At(F)]
<1>1. t.combinators \in Seq(Combinators) /\ e \in Combinators
  BY TableTypes
<1>2. e.remaining \in Nat /\ p \in Promises /\ e.settled \in BOOLEAN
      /\ DOMAIN e = {"kind", "target", "remaining", "settled", "of"}
  BY <1>1 DEF Combinators
<1>3. /\ E1 \in Combinators /\ E1.kind = e.kind /\ E1.target = p /\ E1.of = e.of /\ E1.settled
      /\ E3 \in Combinators /\ E3.kind = e.kind /\ E3.target = p /\ E3.of = e.of /\ E3.settled
  <2> HIDE DEF e
  <2>1. E1 \in Combinators /\ E1.kind = e.kind /\ E1.target = e.target /\ E1.of = e.of /\ E1.settled
    BY <1>1, <1>2 DEF Combinators
  <2>2. E3 \in Combinators /\ E3.kind = e.kind /\ E3.target = e.target /\ E3.of = e.of /\ E3.settled
    BY <1>1, <1>2 DEF Combinators
  <2>3. QED
    BY <2>1, <2>2
<1>4. e.remaining > 1 =>
        /\ E2 \in Combinators /\ E2.kind = e.kind /\ E2.target = p /\ E2.of = e.of /\ E2.settled = e.settled
        /\ E2.remaining = e.remaining - 1
  <2> SUFFICES ASSUME e.remaining > 1
               PROVE  /\ E2 \in Combinators /\ E2.kind = e.kind /\ E2.target = p /\ E2.of = e.of
                      /\ E2.settled = e.settled /\ E2.remaining = e.remaining - 1
    OBVIOUS
  <2> HIDE DEF e
  <2>1. e.remaining - 1 \in Nat
    BY <1>2
  <2>2. QED
    BY <1>1, <1>2, <2>1 DEF Combinators
<1>5. SettleElement(t, c, rejected) =
        IF e.settled THEN t
        ELSE IF Decides(e, rejected) THEN Settle(With(E1), p, rejected)
        ELSE IF e.remaining > 1 THEN With(E2)
        ELSE Settle(With(E3), p, e.kind = "any")
  <2>1. With(E1) = [t EXCEPT !.combinators[c].settled = TRUE]
    BY DEF Tables
  <2>2. With(E2) = [t EXCEPT !.combinators[c].remaining = @ - 1]
    BY DEF Tables
  <2>3. With(E3) = [t EXCEPT !.combinators[c].remaining = 0, !.combinators[c].settled = TRUE]
    BY DEF Tables
  <2>4. QED
    BY <2>1, <2>2, <2>3 DEF SettleElement, Decides
<1>6. \A F \in Combinators :
        /\ Keeps(t, With(F)) /\ With(F).combinators = At(F) /\ With(F).state = t.state
        /\ DOMAIN At(F) = DOMAIN t.combinators /\ At(F)[c] = F
        /\ \A d \in DOMAIN t.combinators : d # c => At(F)[d] = t.combinators[d]
  <2> SUFFICES ASSUME NEW F \in Combinators
               PROVE  /\ Keeps(t, With(F)) /\ With(F).combinators = At(F) /\ With(F).state = t.state
                      /\ DOMAIN At(F) = DOMAIN t.combinators /\ At(F)[c] = F
                      /\ \A d \in DOMAIN t.combinators : d # c => At(F)[d] = t.combinators[d]
    OBVIOUS
  <2>1. At(F) \in Seq(Combinators) /\ DOMAIN At(F) = DOMAIN t.combinators /\ At(F)[c] = F
        /\ \A d \in DOMAIN t.combinators : d # c => At(F)[d] = t.combinators[d]
    BY <1>1
  <2> HIDE DEF At
  <2>2. QED
    BY <2>1, WithCombinators
<1>7. \A F \in Combinators, r \in BOOLEAN : Is(t, p, "pending") =>
        LET v == Settle(With(F), p, r) IN
        /\ Keeps(t, v) /\ v.combinators = At(F)
        /\ v.state = [t.state EXCEPT ![p] = IF r THEN "rejected" ELSE "fulfilled"]
  <2> SUFFICES ASSUME NEW F \in Combinators, NEW r \in BOOLEAN, Is(t, p, "pending")
               PROVE  LET v == Settle(With(F), p, r) IN
                      /\ Keeps(t, v) /\ v.combinators = At(F)
                      /\ v.state = [t.state EXCEPT ![p] = IF r THEN "rejected" ELSE "fulfilled"]
    OBVIOUS
  <2> DEFINE u == With(F)
             v == Settle(u, p, r)
  <2>1. Keeps(t, u) /\ u.combinators = At(F) /\ u.state = t.state
    BY <1>6
  <2> HIDE DEF u, p
  <2>2. u \in Tables /\ Is(u, p, "pending")
    BY <2>1 DEF Keeps, Is
  <2>3. Settled(u, v, p, r) /\ Keeps(u, v)
    BY <1>2, <2>2, SettleIs, SettleKeeps
  <2> HIDE DEF v
  <2>4. Keeps(t, v)
    BY <2>1, <2>3 DEF Keeps
  <2>5. QED
    BY <2>1, <2>3, <2>4 DEF Settled, v, u
<1>8. Keeps(t, t)
  BY DEF Keeps
<1> DEFINE w == SettleElement(t, c, rejected)
<1>9. CASE e.settled
  BY <1>5, <1>8, <1>9 DEF Told
<1>10. CASE ~e.settled /\ Decides(e, rejected)
  <2>1. w = Settle(With(E1), p, rejected)
    BY <1>5, <1>10
  <2>2. /\ Keeps(t, w) /\ w.combinators = At(E1)
        /\ w.state = [t.state EXCEPT ![p] = IF rejected THEN "rejected" ELSE "fulfilled"]
    <3>1. E1 \in Combinators /\ Is(t, p, "pending")
      BY <1>3, <1>10
    <3> HIDE DEF E1, With, At, p, w
    <3>2. LET v == Settle(With(E1), p, rejected) IN
          /\ Keeps(t, v) /\ v.combinators = At(E1)
          /\ v.state = [t.state EXCEPT ![p] = IF rejected THEN "rejected" ELSE "fulfilled"]
      BY <1>7, <3>1
    <3>3. QED
      BY <2>1, <3>2
  <2>3. /\ DOMAIN At(E1) = DOMAIN t.combinators /\ At(E1)[c] = E1
        /\ \A d \in DOMAIN t.combinators : d # c => At(E1)[d] = t.combinators[d]
    BY <1>3, <1>6
  <2> HIDE DEF w, At, With, E1
  <2>4. QED
    BY <1>3, <1>10, <2>2, <2>3 DEF Told, w
<1>11. CASE ~e.settled /\ ~Decides(e, rejected) /\ e.remaining > 1
  <2>1. w = With(E2)
    BY <1>5, <1>11
  <2>2. Keeps(t, w) /\ w.combinators = At(E2) /\ w.state = t.state
    BY <1>4, <1>6, <1>11, <2>1
  <2>3. /\ DOMAIN At(E2) = DOMAIN t.combinators /\ At(E2)[c] = E2
        /\ \A d \in DOMAIN t.combinators : d # c => At(E2)[d] = t.combinators[d]
    BY <1>4, <1>6, <1>11
  <2> HIDE DEF w, At, With, E2
  <2>4. QED
    BY <1>4, <1>11, <2>2, <2>3 DEF Told, w
<1>12. CASE ~e.settled /\ ~Decides(e, rejected) /\ ~(e.remaining > 1)
  <2>1. w = Settle(With(E3), p, e.kind = "any") /\ (e.kind = "any") \in BOOLEAN
    BY <1>5, <1>12
  <2>2. /\ Keeps(t, w) /\ w.combinators = At(E3)
        /\ w.state = [t.state EXCEPT ![p] = IF e.kind = "any" THEN "rejected" ELSE "fulfilled"]
    BY <1>3, <1>7, <1>12, <2>1
  <2>3. /\ DOMAIN At(E3) = DOMAIN t.combinators /\ At(E3)[c] = E3
        /\ \A d \in DOMAIN t.combinators : d # c => At(E3)[d] = t.combinators[d]
    BY <1>3, <1>6
  <2> HIDE DEF w, At, With, E3
  <2>4. QED
    BY <1>3, <1>12, <2>2, <2>3 DEF Told, w
<1>13. QED
  BY <1>9, <1>10, <1>11, <1>12

\* The combinator that is told of an element.
LEMMA ToldTended ==
  ASSUME NEW t \in Tables, t.microtasks # <<>>, Honest(t), NEW c \in DOMAIN t.combinators, Tended(t, c), Takes(t, c),
         NEW w, Told(Shorter(t), w, c, Head(t.microtasks).rejected)
  PROVE  Tended(w, c)
<1> DEFINE u == Shorter(t)
           job == Head(t.microtasks)
           s == job.of
           rejected == job.rejected
           e == t.combinators[c]
           f == w.combinators[c]
           g == e.target
<1>1. /\ u \in Tables /\ u.combinators = t.combinators /\ u.state = t.state /\ job \in Jobs
      /\ job.kind = "reaction" => Is(t, s, IF rejected THEN "rejected" ELSE "fulfilled")
  BY ShorterHonest
<1>2. /\ IsFiniteSet(ElementsAt(t, c)) =>
           /\ IsFiniteSet(ElementsAt(u, c))
           /\ Outstanding(t, c) = Outstanding(u, c) + (IF Takes(t, c) THEN 1 ELSE 0)
      /\ \A p \in Promises : HasElement(u, p, c) => HasElement(t, p, c)
      /\ \A p \in Promises : HasElement(t, p, c) => HasElement(u, p, c) \/ (Takes(t, c) /\ p = s)
      /\ Takes(t, c) => s \in Promises /\ HasElement(t, s, c)
  BY ShorterElements
<1>3. job.kind = "reaction" /\ s \in Promises /\ HasElement(t, s, c)
      /\ Is(t, s, IF rejected THEN "rejected" ELSE "fulfilled")
  BY <1>1, <1>2 DEF Takes
<1>4. rejected \in BOOLEAN
  BY <1>1, <1>3, JobTypes
<1>5. e \in Combinators
  BY TableTypes
<1>6. e.kind \in {"all", "allSettled", "any"} /\ e.remaining \in Nat /\ e.settled \in BOOLEAN /\ g \in Promises
  BY <1>5 DEF Combinators
<1>7. t.state \in [Promises -> PromiseStates]
  BY TableTypes
<1>8. /\ Exists(t, g) /\ (e.settled <=> ~Is(t, g, "pending"))
      /\ ~e.settled => IsFiniteSet(ElementsAt(t, c)) /\ Outstanding(t, c) = e.remaining /\ e.remaining > 0
      /\ \A p \in Promises : HasElement(t, p, c) => IsSource(e, p)
      /\ \A p : IsSource(e, p) => /\ p \in Promises /\ Exists(t, p)
                                  /\ ~e.settled => HasElement(t, p, c) \/ Favours(t, e.kind, p)
      /\ Verdict(t, e)
  BY DEF Tended
<1>9. Told(u, w, c, rejected)
  OBVIOUS
<1>10. /\ w \in Tables /\ \A q \in Promises : ReactionsOf(w, q) = ReactionsOf(u, q)
       /\ f.kind = e.kind /\ f.target = g /\ f.of = e.of
       /\ e.settled => w = u
       /\ ~e.settled /\ Decides(e, rejected) =>
            /\ f.settled
            /\ w.state = [t.state EXCEPT ![g] = IF rejected THEN "rejected" ELSE "fulfilled"]
       /\ ~e.settled /\ ~Decides(e, rejected) /\ e.remaining > 1 =>
            ~f.settled /\ f.remaining = e.remaining - 1 /\ w.state = t.state
       /\ ~e.settled /\ ~Decides(e, rejected) /\ ~(e.remaining > 1) =>
            /\ f.settled
            /\ w.state = [t.state EXCEPT ![g] = IF e.kind = "any" THEN "rejected" ELSE "fulfilled"]
  BY <1>1, <1>9 DEF Told, Keeps
<1>11. ElementsAt(w, c) = ElementsAt(u, c) /\ \A p \in Promises : HasElement(w, p, c) <=> HasElement(u, p, c)
  <2>1. SameSpots(u, w, c)
    BY <1>10 DEF SameSpots
  <2>2. QED
    BY <1>1, <1>10, <2>1, SameElements
<1>12. CASE e.settled
  <2>1. Tended(u, c)
    BY <1>12, ShorterTended
  <2>2. QED
    BY <1>10, <1>12, <2>1
<1> HIDE DEF u, job, s, rejected, e, f, g
<1>13. \A p : IsSource(f, p) <=> IsSource(e, p)
  BY <1>10 DEF IsSource
<1>14. CASE ~e.settled
  <2>1. Is(t, g, "pending") /\ s # g /\ IsSource(e, s)
    BY <1>3, <1>8, <1>14 DEF Is
  <2>2. \A p \in Promises : p # g => \A state \in PromiseStates : Is(t, p, state) <=> Is(w, p, state)
    BY <1>7, <1>10, <1>14 DEF Is
  <2>3. Exists(w, g) /\ \A p \in Promises : Exists(t, p) => Exists(w, p)
    <3>1. \A p \in Promises : Exists(t, p) => Exists(w, p)
      BY <1>6, <1>7, <1>10, <1>14 DEF Is, Exists
    <3>2. QED
      BY <1>6, <1>8, <3>1
  <2>4. \A p \in Promises : HasElement(w, p, c) => IsSource(f, p)
    BY <1>2, <1>8, <1>11, <1>13
  <2>5. \A p : IsSource(f, p) => p \in Promises /\ Exists(w, p)
    BY <1>8, <1>13, <2>3
  <2>6. \A p \in Promises : ~Is(t, p, "pending") => p # g /\ \A kind : Favours(t, kind, p) => Favours(w, kind, p)
    BY <2>1, <2>2 DEF Favours, PromiseStates, Is
  <2>7. ~Decides(e, rejected) => Favours(t, e.kind, s)
    BY <1>3, <1>4, <1>6 DEF Decides, Favours, Is
  <2>8. IsFiniteSet(ElementsAt(w, c)) /\ Outstanding(w, c) + 1 = e.remaining /\ Outstanding(w, c) \in Nat
    <3>1. IsFiniteSet(ElementsAt(t, c)) /\ Outstanding(t, c) = e.remaining
      BY <1>8, <1>14
    <3>2. IsFiniteSet(ElementsAt(u, c)) /\ Outstanding(t, c) = Outstanding(u, c) + 1
      BY <1>2, <3>1
    <3>3. Outstanding(w, c) = Outstanding(u, c)
      BY <1>11 DEF Outstanding
    <3>4. Outstanding(u, c) \in Nat
      BY <3>2, FS_CardinalityType DEF Outstanding
    <3>5. QED
      BY <1>11, <3>1, <3>2, <3>3, <3>4
  <2>9. CASE Decides(e, rejected)
    <3>1. f.settled /\ w.state = [t.state EXCEPT ![g] = IF rejected THEN "rejected" ELSE "fulfilled"]
      BY <1>10, <1>14, <2>9
    <3>2. w.state[g] = IF rejected THEN "rejected" ELSE "fulfilled"
      BY <1>6, <1>7, <3>1
    <3>3. Is(w, s, IF rejected THEN "rejected" ELSE "fulfilled")
      BY <1>3, <1>4, <1>7, <2>1, <3>1 DEF Is
    <3>4. Verdict(w, f)
      BY <1>3, <1>4, <1>10, <1>13, <2>1, <2>9, <3>2, <3>3 DEF Verdict, Decides, Is
    <3>5. f.settled <=> ~Is(w, f.target, "pending")
      BY <1>4, <1>10, <3>1, <3>2 DEF Is
    <3>6. QED
      BY <1>6, <1>10, <2>3, <2>4, <2>5, <3>1, <3>4, <3>5 DEF Tended, f
  <2>10. CASE ~Decides(e, rejected) /\ e.remaining > 1
    <3>1. ~f.settled /\ f.remaining = e.remaining - 1 /\ w.state = t.state
      BY <1>10, <1>14, <2>10
    <3>2. Verdict(w, f)
      BY <1>10, <2>1, <3>1 DEF Verdict, Is
    <3>3. f.settled <=> ~Is(w, f.target, "pending")
      BY <1>10, <2>1, <3>1 DEF Is
    <3>4. Outstanding(w, c) = f.remaining /\ f.remaining > 0
      BY <1>6, <2>8, <2>10, <3>1
    <3>5. \A p : IsSource(f, p) => HasElement(w, p, c) \/ Favours(w, f.kind, p)
      <4> SUFFICES ASSUME NEW p, IsSource(f, p), ~HasElement(w, p, c) PROVE Favours(w, f.kind, p)
        OBVIOUS
      <4>1. p \in Promises /\ (HasElement(t, p, c) \/ Favours(t, e.kind, p))
        BY <1>8, <1>13, <1>14
      <4>2. HasElement(t, p, c) => p = s
        BY <1>2, <1>11, <4>1
      <4>3. Favours(t, e.kind, p)
        BY <2>7, <2>10, <4>1, <4>2
      <4>4. QED
        BY <1>10, <3>1, <4>3 DEF Favours, Is
    <3>6. QED
      BY <1>6, <1>10, <2>3, <2>4, <2>5, <2>8, <3>2, <3>3, <3>4, <3>5 DEF Tended, f
  <2>11. CASE ~Decides(e, rejected) /\ ~(e.remaining > 1)
    <3>1. f.settled /\ w.state = [t.state EXCEPT ![g] = IF e.kind = "any" THEN "rejected" ELSE "fulfilled"]
      BY <1>10, <1>14, <2>11
    <3>2. w.state[g] = IF e.kind = "any" THEN "rejected" ELSE "fulfilled"
      BY <1>6, <1>7, <3>1
    <3>3. ElementsAt(w, c) = {}
      <4>1. Outstanding(w, c) = 0
        BY <1>6, <2>8, <2>11
      <4>2. QED
        BY <2>8, <4>1, FS_EmptySet DEF Outstanding
    <3>4. \A p \in Promises : ~HasElement(w, p, c)
      <4> SUFFICES ASSUME NEW p \in Promises, HasElement(w, p, c) PROVE FALSE
        OBVIOUS
      <4>1. PICK k : k \in Spots(ReactionsOf(w, p), c)
        BY DEF HasElement
      <4>2. k \in Nat
        BY <1>10, <4>1, ReactionsType DEF Spots
      <4>3. ElementsAt(w, c) = {d \in Promises \X Nat : d[2] \in Spots(ReactionsOf(w, d[1]), c)}
        BY <1>10, ElementsAre
      <4>4. <<p, k>> \in ElementsAt(w, c)
        BY <4>1, <4>2, <4>3
      <4>5. QED
        BY <3>3, <4>4
    <3>5. \A p : IsSource(f, p) => p \in Promises /\ Favours(w, f.kind, p)
      <4> SUFFICES ASSUME NEW p, IsSource(f, p) PROVE p \in Promises /\ Favours(w, f.kind, p)
        OBVIOUS
      <4>1. p \in Promises /\ (HasElement(t, p, c) \/ Favours(t, e.kind, p))
        BY <1>8, <1>13, <1>14
      <4>2. HasElement(t, p, c) => p = s
        BY <1>2, <1>11, <3>4, <4>1
      <4>3. Favours(t, e.kind, p)
        BY <2>7, <2>11, <4>1, <4>2
      <4>4. QED
        BY <1>10, <2>6, <4>1, <4>3 DEF Favours
    <3>6. Verdict(w, f)
      BY <1>10, <3>2, <3>5 DEF Verdict, Favours, Is
    <3>7. f.settled <=> ~Is(w, f.target, "pending")
      BY <1>10, <3>1, <3>2 DEF Is
    <3>8. QED
      BY <1>6, <1>10, <2>3, <2>4, <2>5, <3>1, <3>6, <3>7 DEF Tended, f
  <2>12. QED
    BY <2>9, <2>10, <2>11
<1>15. QED
  BY <1>6, <1>12, <1>14

\* The others go on.
LEMMA ToldAnswers ==
  ASSUME NEW t \in Tables, Answers(t), t.microtasks # <<>>, NEW c \in DOMAIN t.combinators, Takes(t, c)
  PROVE  LET w == SettleElement(Shorter(t), c, Head(t.microtasks).rejected) IN
         /\ Answers(w) /\ Keeps(Shorter(t), w)
         /\ \A p : IsTarget(w, p) => IsTarget(t, p)
         /\ Goes(t, w, {t.combinators[c].target})
<1> DEFINE u == Shorter(t)
           job == Head(t.microtasks)
           w == SettleElement(u, c, job.rejected)
           g == t.combinators[c].target
<1>1. /\ u \in Tables /\ u.combinators = t.combinators /\ u.state = t.state /\ job \in Jobs
      /\ Honest(t) => Honest(u)
  BY ShorterHonest
<1>2. job.rejected \in BOOLEAN
  BY <1>1, JobTypes DEF Takes
<1>3. Tended(t, c) /\ g \in Promises /\ (t.combinators[c].settled <=> ~Is(t, g, "pending"))
  BY DEF Answers, Tended
<1> HIDE DEF u
<1>4. Told(u, w, c, job.rejected)
  BY <1>1, <1>2, <1>3, SettleElementIs DEF Is
<1> HIDE DEF w
<1>5. Tended(w, c)
  BY <1>3, <1>4, ToldTended DEF u, Answers
<1>6. /\ Keeps(u, w) /\ DOMAIN w.combinators = DOMAIN t.combinators
      /\ \A d \in DOMAIN t.combinators : d # c => w.combinators[d] = t.combinators[d]
      /\ w.combinators[c].target = g
  BY <1>1, <1>4 DEF Told
<1>7. w \in Tables /\ Honest(w)
  BY <1>1, <1>6 DEF Keeps, Answers
<1>8. Goes(u, w, {g}) /\ Goes(t, w, {g})
  <2>1. t.state \in [Promises -> PromiseStates]
    BY TableTypes
  <2>2. w.state = t.state \/ \E s \in {"rejected", "fulfilled"} : Is(t, g, "pending") /\ w.state = [t.state EXCEPT ![g] = s]
    BY <1>1, <1>2, <1>3, <1>4 DEF Told
  <2>3. QED
    BY <1>1, <2>1, <2>2 DEF Goes, Exists, Is
<1>9. \A d \in DOMAIN t.combinators : d # c => Tended(w, d)
  <2> SUFFICES ASSUME NEW d \in DOMAIN t.combinators, d # c PROVE Tended(w, d)
    OBVIOUS
  <2>1. ~Takes(t, d)
    <3>1. Element(c) # Element(d)
      <4>1. Element(c).combinator = c /\ Element(d).combinator = d
        BY DEF Element
      <4>2. QED
        BY <4>1
    <3>2. QED
      BY <3>1 DEF Takes
  <2>2. Tended(u, d)
    BY <2>1, ShorterTended DEF u, Answers
  <2>3. SameSpots(u, w, d)
    BY <1>6 DEF Keeps, SameSpots
  <2>4. u.combinators[d].target \notin {g} /\ w.combinators[d] = u.combinators[d]
    BY <1>1, <1>6 DEF Answers, Apart
  <2>5. QED
    BY <1>1, <1>7, <1>8, <2>2, <2>3, <2>4, TendedSame
<1>10. Apart(w)
  BY <1>6 DEF Apart, Answers
<1>11. Answers(w)
  BY <1>5, <1>6, <1>7, <1>9, <1>10 DEF Answers
<1>12. \A p : IsTarget(w, p) => IsTarget(t, p)
  BY <1>6 DEF IsTarget
<1>13. QED
  BY <1>6, <1>8, <1>11, <1>12 DEF w, u

\* run_reaction without a callable handler, when nothing else aims at the targets
\* of combinators.
LEMMA AloneAnswers ==
  ASSUME NEW t \in Tables, Sound(t), Answers(t), t.microtasks # <<>>, RunsAlone(Head(t.microtasks)),
         \A p \in Promises : Strays(t, p) => ~IsTarget(t, p)
  PROVE  LET w == Alone(Shorter(t), Head(t.microtasks)) IN
         /\ Answers(w) /\ Keeps(Shorter(t), w)
         /\ \A p : IsTarget(w, p) => IsTarget(t, p)
         /\ \E X : Goes(t, w, X)
<1> DEFINE u == Shorter(t)
           job == Head(t.microtasks)
           x == job.reaction
<1>1. /\ u \in Tables /\ u.combinators = t.combinators /\ u.state = t.state /\ job \in Jobs
      /\ \A p : JobAims(job, p) => Strays(t, p)
  BY ShorterHonest
<1>2. job.kind = "reaction" /\ x \in Reactions /\ job.rejected \in BOOLEAN
  BY <1>1, JobTypes DEF RunsAlone
<1>3. CASE x.kind = "element"
  <2> DEFINE c == x.combinator
  <2>1. x = Element(c)
    <3>1. x \in [kind : {"element"}, combinator : Nat]
      BY <1>2, <1>3 DEF Reactions
    <3>2. QED
      BY <3>1 DEF Element
  <2>2. c \in DOMAIN t.combinators
    <3>1. 1 \in DOMAIN t.microtasks /\ t.microtasks[1] = job
      BY ShorterIs
    <3>2. Names(t, x)
      BY <1>2, <3>1 DEF Sound, ElementsExist
    <3>3. QED
      BY <1>3, <3>2 DEF Names
  <2>3. Takes(t, c)
    BY <1>2, <2>1 DEF Takes
  <2>4. Alone(u, job) = SettleElement(u, c, job.rejected)
    BY <1>3 DEF Alone
  <2> HIDE DEF c
  <2>5. LET w == SettleElement(u, c, job.rejected) IN
        /\ Answers(w) /\ Keeps(u, w)
        /\ \A p : IsTarget(w, p) => IsTarget(t, p)
        /\ Goes(t, w, {t.combinators[c].target})
    BY <2>2, <2>3, ToldAnswers
  <2>6. QED
    BY <2>4, <2>5
<1>4. CASE x.kind # "element"
  <2> DEFINE p == x.target
             r == job.rejected \/ (x.kind = "finallyResult" /\ x.rejected)
             w == Settle(u, p, r)
  <2>1. x.kind \in Targets
    BY <1>2, <1>4 DEF RunsAlone, Targets
  <2>2. p \in Promises /\ JobAims(job, p)
    BY <1>2, <2>1, ReactionTypes DEF JobAims, ReactionAims
  <2>3. Alone(u, job) = w
    BY <1>4 DEF Alone
  <2>4. \A c \in DOMAIN t.combinators : ~Takes(t, c)
    BY <1>4 DEF Takes, Element
  <2>5. Answers(u)
    BY <2>4, ShorterAnswers
  <2>6. ~IsTarget(u, p)
    BY <1>1, <2>2 DEF IsTarget
  <2>7. r \in BOOLEAN
    BY <1>2
  <2> HIDE DEF p, r, u
  <2>8. Grows(u, w, {p}) /\ Keeps(u, w)
    BY <1>1, <2>2, <2>7, SettleGrows, SettleKeeps
  <2> HIDE DEF w
  <2>9. Answers(w)
    BY <1>1, <2>5, <2>6, <2>8, GrowsAnswers
  <2>10. w.combinators = t.combinators
    BY <1>1, <2>8 DEF Grows
  <2>11. Goes(t, w, {p})
    BY <1>1, <2>8 DEF Grows, Goes, Exists, Is
  <2>12. QED
    BY <2>3, <2>8, <2>9, <2>10, <2>11 DEF IsTarget, u
<1>5. QED
  BY <1>3, <1>4

-----------------------------------------------------------------------------
(* A combinator is called.                                                 *)

\* What is queued for a promise is in any set that its jobs' reactions are in.
LEMMA QueuedIn ==
  ASSUME NEW jobs \in Seq(Jobs), NEW p \in Promises, NEW R,
         \A i \in DOMAIN jobs : IsOf(jobs[i], p) => jobs[i].reaction \in R
  PROVE  QueuedOf(jobs, p) \in Seq(R)
<1> DEFINE N == Len(jobs)
<1>0. N \in Nat /\ DOMAIN jobs = 1..N
  OBVIOUS
<1>1. PICK f : Filters(jobs, p, f) /\ QueuedOf(jobs, p) = f[N]
  BY <1>0, QueuedIs
<1> DEFINE S == {n \in 0..N : f[n] \in Seq(R)}
<1>2. 0 \in S
  <2>1. 0 \in 0..N /\ f[0] = <<>>
    BY <1>0, <1>1 DEF Filters, Picked
  <2>2. <<>> \in Seq(R)
    OBVIOUS
  <2>3. QED
    BY <2>1, <2>2, Zenon
<1>3. \A n \in 0..(N - 1) : n \in S => n + 1 \in S
  <2> SUFFICES ASSUME NEW n \in 0..(N - 1), f[n] \in Seq(R) PROVE n + 1 \in S
    OBVIOUS
  <2>1. n + 1 \in 0..N /\ n + 1 # 0 /\ n + 1 - 1 = n /\ n + 1 \in 1..N
    BY <1>0
  <2>2. f[n + 1] = IF IsOf(jobs[n + 1], p) THEN Append(f[n], jobs[n + 1].reaction) ELSE f[n]
    BY <1>1, <2>1 DEF Filters, Picked
  <2>3. IsOf(jobs[n + 1], p) => jobs[n + 1].reaction \in R
    BY <1>0, <2>1
  <2>4. f[n + 1] \in Seq(R)
    BY <2>2, <2>3
  <2>5. QED
    BY <2>1, <2>4
<1>4. 0..N \subseteq S
  <2> HIDE DEF S, N
  <2>1. QED
    BY <1>0, <1>2, <1>3, UpTo
<1>5. QED
  BY <1>0, <1>1, <1>4

\* A combinator that does not exist yet has no elements.
LEMMA NoElements ==
  ASSUME NEW t \in Tables, ElementsExist(t), NEW c, c \notin DOMAIN t.combinators, NEW p \in Promises
  PROVE  ~HasElement(t, p, c)
<1> DEFINE R == {x \in Reactions : Names(t, x)}
           a == QueuedOf(t.microtasks, p)
           b == t.reactions[p]
<1>1. t.microtasks \in Seq(Jobs) /\ b \in Seq(Reactions)
  BY TableTypes
<1>2. a \in Seq(R)
  <2>1. \A i \in DOMAIN t.microtasks : IsOf(t.microtasks[i], p) => t.microtasks[i].reaction \in R
    <3> SUFFICES ASSUME NEW i \in DOMAIN t.microtasks, IsOf(t.microtasks[i], p)
                 PROVE  t.microtasks[i].reaction \in R
      OBVIOUS
    <3>1. t.microtasks[i] \in Jobs /\ t.microtasks[i].kind = "reaction"
      BY <1>1 DEF IsOf
    <3>2. QED
      BY <3>1, JobTypes DEF ElementsExist
  <2> HIDE DEF R
  <2>2. QED
    BY <1>1, <2>1, QueuedIn
<1>3. b \in Seq(R)
  <2>1. \A k \in 1..Len(b) : b[k] \in R
    BY <1>1 DEF ElementsExist
  <2> HIDE DEF R, b
  <2>2. QED
    BY <1>1, <2>1
<1> HIDE DEF R, a, b
<1>4. a \o b \in Seq(R)
  BY <1>2, <1>3
<1>5. ReactionsOf(t, p) = a \o b
  BY DEF ReactionsOf, a, b
<1>6. Element(c) \notin R
  BY DEF R, Names, Element
<1>7. QED
  BY <1>4, <1>5, <1>6 DEF HasElement, Spots

\* A table whose queues only get longer.
Lengthens(t, u) == \A p \in Promises : \E w \in Seq(Reactions) : ReactionsOf(u, p) = ReactionsOf(t, p) \o w

\* What a call of all, allSettled or any does.
Combines(t, u) ==
  /\ u \in Tables /\ Answers(u) /\ Goes(t, u, {}) /\ Lengthens(t, u)
  /\ \A p \in Promises : IsTarget(u, p) => /\ IsTarget(t, p) \/ NewIn(t, u, p)
                                           /\ Strays(u, p) => Strays(t, p)

\* A promise to be created is no target.
LEMMA NewTarget ==
  ASSUME NEW t \in Tables, Answers(t), NEW p \in Promises, Is(t, p, "absent")
  PROVE  ~IsTarget(t, p)
BY DEF Answers, Tended, Exists, IsTarget

\* An empty list settles at once.
LEMMA EmptyCombines ==
  ASSUME NEW t \in Tables, Sound(t), HasRoom(t), Answers(t), NEW rejected \in BOOLEAN
  PROVE  Combines(t, Settle(Create(t), Fresh(t), rejected))
<1> DEFINE u == Create(t)
           p == Fresh(t)
           w == Settle(u, p, rejected)
<1>1. u \in Tables /\ p \in Promises
  BY Created
<1> HIDE DEF u, p
<1>2. Grows(u, w, {p})
  BY <1>1, SettleGrows
<1> HIDE DEF w
<1>3. Grows(t, w, {})
  <2>1. Grows(Create(t), w, {} \cup {Fresh(t)})
    BY <1>2 DEF u, p
  <2>2. QED
    BY <2>1, GrowsFresh
<1>4. w \in Tables /\ Goes(t, w, {}) /\ w.combinators = t.combinators
  BY <1>3 DEF Grows
<1>5. Answers(w)
  BY <1>3, GrowsAnswers
<1>6. Lengthens(t, w)
  BY <1>3 DEF Lengthens, Grows, Longer
<1>7. \A q \in Promises : IsTarget(w, q) => IsTarget(t, q) /\ (Strays(w, q) => Strays(t, q))
  <2> SUFFICES ASSUME NEW q \in Promises, IsTarget(w, q) PROVE IsTarget(t, q) /\ (Strays(w, q) => Strays(t, q))
    OBVIOUS
  <2>1. IsTarget(t, q)
    BY <1>4 DEF IsTarget
  <2>2. ~NewIn(t, w, q)
    BY <2>1, NewTarget DEF NewIn
  <2>3. QED
    BY <1>3, <2>1, <2>2 DEF Grows
<1>8. QED
  BY <1>4, <1>5, <1>6, <1>7 DEF Combines, w, u, p

\* The table after the combinator has been added, before its elements are attached.
LEMMA OpenedIs ==
  ASSUME NEW t \in Tables, Sound(t), HasRoom(t), Answers(t), NEW entry \in Combinators, entry.target = Fresh(t)
  PROVE  LET v == [Create(t) EXCEPT !.combinators = Append(t.combinators, entry)]
             c == Len(t.combinators) + 1
         IN /\ v \in Tables /\ Sound(v) /\ v.combinators = Append(t.combinators, entry) /\ SameExist(Create(t), v)
            /\ v.state = [t.state EXCEPT ![Fresh(t)] = "pending"]
            /\ c \in Nat /\ c \in DOMAIN v.combinators /\ c \notin DOMAIN t.combinators
            /\ v.combinators[c] = entry
            /\ DOMAIN v.combinators = DOMAIN t.combinators \cup {c}
            /\ \A d \in DOMAIN t.combinators : v.combinators[d] = t.combinators[d]
            /\ Keeps(Create(t), v) /\ Keeps(t, v) /\ Goes(t, v, {}) /\ NewIn(t, v, Fresh(t))
            /\ Level(v, Fresh(t) + 1)
            /\ \A p \in Promises : ~HasElement(v, p, c)
<1> DEFINE u == Create(t)
           f == Fresh(t)
           C == Append(t.combinators, entry)
           v == [u EXCEPT !.combinators = C]
           c == Len(t.combinators) + 1
<1>1. u \in Tables /\ Sound(u) /\ f \in Promises /\ Is(t, f, "absent") /\ u.combinators = t.combinators
      /\ u.state = [t.state EXCEPT ![f] = "pending"] /\ u.reactions = t.reactions
      /\ u.microtasks = t.microtasks
  BY Created, CreateIs
<1>2. t.combinators \in Seq(Combinators) /\ t.state \in [Promises -> PromiseStates]
  BY TableTypes
<1>3. /\ C \in Seq(Combinators) /\ Len(C) = Len(t.combinators) + 1 /\ Len(t.combinators) \in Nat
      /\ DOMAIN C = 1..(Len(t.combinators) + 1) /\ DOMAIN t.combinators = 1..Len(t.combinators)
      /\ C[Len(t.combinators) + 1] = entry
      /\ \A d \in 1..Len(t.combinators) : C[d] = t.combinators[d]
  BY <1>2
<1>4. /\ c \in Nat /\ c \in DOMAIN C /\ c \notin DOMAIN t.combinators /\ C[c] = entry
      /\ DOMAIN C = DOMAIN t.combinators \cup {c} /\ Len(t.combinators) <= Len(C)
      /\ \A d \in DOMAIN t.combinators : C[d] = t.combinators[d]
  BY <1>3
<1> HIDE DEF C, c, u, f
<1>5. \A d \in DOMAIN C :
        C[d].target \in {f} \/ (d \in DOMAIN u.combinators /\ C[d].target = u.combinators[d].target)
  <2> SUFFICES ASSUME NEW d \in DOMAIN C
               PROVE  C[d].target \in {f} \/ (d \in DOMAIN u.combinators /\ C[d].target = u.combinators[d].target)
    OBVIOUS
  <2>1. CASE d = c
    BY <1>4, <2>1 DEF f
  <2>2. CASE d \in DOMAIN t.combinators
    BY <1>1, <1>4, <2>2
  <2>3. QED
    BY <1>4, <2>1, <2>2
<1>6. Evolves(u, v, {f})
  BY <1>1, <1>3, <1>4, <1>5, CombinatorsEvolve
<1>7. Keeps(u, v) /\ v.combinators = C /\ v.state = u.state
  BY <1>1, <1>3, WithCombinators
<1> HIDE DEF v
<1>8. v \in Tables /\ Sound(v) /\ SameExist(u, v)
  BY <1>6, <1>7 DEF Evolves, Changes, SameExist, Exists, Is
<1>9. Goes(t, v, {}) /\ NewIn(t, v, f)
  BY <1>1, <1>2, <1>7 DEF Goes, NewIn, Exists, Is
<1>10. Keeps(t, v)
  <2>1. Grows(t, Create(t), {})
    BY CreateGrows
  <2>2. Honest(t) => Honest(u)
    BY <2>1 DEF Grows, u
  <2>3. QED
    BY <1>1, <1>7, <2>2 DEF Keeps, ReactionsOf, Strays
<1>11. Level(v, f + 1)
  <2>1. Level(t, Fresh(t))
    BY LevelFirst DEF Sound
  <2>2. Level(Create(t), Fresh(t) + 1)
    BY <2>1, LevelFresh
  <2>3. QED
    BY <1>8, <2>2, LevelStays DEF u, f
<1>12. \A p \in Promises : ~HasElement(v, p, c)
  <2> SUFFICES ASSUME NEW p \in Promises PROVE ~HasElement(v, p, c)
    OBVIOUS
  <2>1. ~HasElement(t, p, c)
    BY <1>4, NoElements DEF Sound
  <2>2. ReactionsOf(v, p) = ReactionsOf(t, p)
    BY <1>10 DEF Keeps
  <2>3. QED
    BY <2>1, <2>2 DEF HasElement
<1>13. QED
  BY <1>1, <1>4, <1>7, <1>8, <1>9, <1>10, <1>11, <1>12 DEF v, u, f, C, c

\* The new combinator waits for all its elements.
LEMMA NewTended ==
  ASSUME NEW t \in Tables, Fresh(t) \in Promises, NEW elements \in Seq(Promises \cup {Value}), elements # <<>>,
         NEW w, NEW c, NEW entry, w.combinators[c] = entry, entry.target = Fresh(t), ~entry.settled,
         entry.remaining = Len(elements), entry.of = SourcesOf(t, elements),
         Is(w, Fresh(t), "pending"), AllAttached(w, c, elements, Fresh(t), Len(elements))
  PROVE  Tended(w, c)
<1> DEFINE f == Fresh(t)
           N == Len(elements)
           At(i) == SourceAt(elements, f, i)
<1>1. N \in Nat /\ DOMAIN elements = 1..N /\ N > 0
  <2>1. N \in Nat /\ DOMAIN elements = 1..N
    BY Positions
  <2>2. N # 0
    OBVIOUS
  <2>3. QED
    BY <2>1, <2>2
<1>2. DOMAIN entry.of = 1..N /\ \A i \in 1..N : entry.of[i] = At(i)
  BY <1>1 DEF SourcesOf, SourceAt, ValuesIn
<1>3. /\ IsFiniteSet(ElementsAt(w, c)) /\ Outstanding(w, c) = N
      /\ \A p \in Promises : HasElement(w, p, c) => \E i \in 1..N : At(i) = p
      /\ \A i \in 1..N : At(i) \in Promises /\ Exists(w, At(i)) /\ HasElement(w, At(i), c)
  BY DEF AllAttached
<1> HIDE DEF At, f, N
<1>4. \A p : IsSource(entry, p) <=> \E i \in 1..N : At(i) = p
  BY <1>2 DEF IsSource
<1>5. Verdict(w, entry) /\ Exists(w, entry.target) /\ entry.target \in Promises
      /\ (entry.settled <=> ~Is(w, entry.target, "pending"))
  BY DEF Verdict, Exists, Is
<1>6. entry.remaining = N
  BY DEF N
<1>7. QED
  BY <1>1, <1>3, <1>4, <1>5, <1>6 DEF Tended

\* A new combinator counts what it attached, or is settled at once.
LEMMA CombineAnswers ==
  ASSUME NEW t \in Tables, Sound(t), Answers(t), NEW elements \in Seq(Promises \cup {Value}), Known(t, elements),
         NEW kind \in {"all", "allSettled", "any"}, HasRoomFor(t, NewFor(elements))
  PROVE  Combines(t, Combine(t, kind, elements))
<1> DEFINE n == Cardinality({i \in DOMAIN elements : elements[i] = Value})
           u == Create(t)
           f == Fresh(t)
           entry == [kind |-> kind, target |-> f, remaining |-> Len(elements),
                     settled |-> FALSE, of |-> SourcesOf(t, elements)]
           C == Append(t.combinators, entry)
           v == [u EXCEPT !.combinators = C]
           c == Len(t.combinators) + 1
           x == Element(c)
           w == Combine(t, kind, elements)
<1>1. n \in Nat /\ HasRoom(t) /\ HasRoomFor(u, n)
  BY CallRoom
<1>2. CASE elements = <<>>
  <2>1. w = Settle(u, f, kind = "any") /\ (kind = "any") \in BOOLEAN
    BY <1>2 DEF Combine
  <2>2. QED
    BY <1>1, <2>1, EmptyCombines
<1>3. CASE elements # <<>>
  <2>1. u \in Tables /\ f \in Promises /\ Is(t, f, "absent") /\ u.combinators = t.combinators /\ Known(u, elements)
    BY <1>1, Created, CreateIs, KnownLater
  <2>2. w = AttachAll(v, elements, x)
    <3>1. v = [u EXCEPT !.combinators = Append(@, entry)]
      BY <2>1 DEF Tables
    <3> HIDE DEF u, f, v
    <3>2. QED
      BY <1>3, <3>1 DEF Combine, u, f
  <2>3. entry \in Combinators /\ entry.target = f /\ ~entry.settled /\ entry.remaining = Len(elements)
        /\ entry.of = SourcesOf(t, elements)
    <3>1. Len(elements) \in Nat
      BY Positions
    <3>2. SourcesOf(t, elements) \in Seq(Nat)
      BY <2>1, SourceTypes
    <3>3. QED
      BY <2>1, <3>1, <3>2 DEF Combinators
  <2> HIDE DEF w, x, n, entry
  <2>4. /\ v \in Tables /\ Sound(v) /\ v.combinators = C /\ SameExist(u, v)
        /\ v.state = [t.state EXCEPT ![f] = "pending"]
        /\ c \in Nat /\ c \in DOMAIN v.combinators /\ c \notin DOMAIN t.combinators
        /\ v.combinators[c] = entry
        /\ DOMAIN v.combinators = DOMAIN t.combinators \cup {c}
        /\ \A d \in DOMAIN t.combinators : v.combinators[d] = t.combinators[d]
        /\ Keeps(u, v) /\ Keeps(t, v) /\ Goes(t, v, {}) /\ NewIn(t, v, f)
        /\ Level(v, f + 1)
        /\ \A p \in Promises : ~HasElement(v, p, c)
    BY <1>1, <2>3, OpenedIs
  <2> HIDE DEF v, c, u, f
  <2>5. x \in Reactions /\ x.kind # "generator" /\ Names(v, x) /\ \A q \in Promises : ~ReactionAims(x, q)
    BY <2>4, ReactionTypes, AimsOf DEF x, Names, Element
  <2>6. HasRoomFor(v, n) /\ Known(v, elements)
    <3>1. HasRoomFor(v, n)
      BY <1>1, <2>4, RoomStays
    <3>2. Known(v, elements)
      BY <2>1, <2>4 DEF Known, SameExist
    <3>3. QED
      BY <3>1, <3>2
  <2>7. PICK after : Attached(v, x, elements, after) /\ Between(v, elements, after, {})
    BY <2>4, <2>5, <2>6, AttachAllSteps DEF n
  <2>8. w = after[Len(elements)] /\ Len(elements) \in Nat
    BY <2>2, <2>7, Positions DEF Attached
  <2>9. Joins(v, w, x)
    BY <2>4, <2>5, <2>6, <2>7, <2>8, AttachAllJoins
  <2>10. AllAttached(w, c, elements, f, Len(elements))
    <3>1. Attached(v, Element(c), elements, after) /\ Names(v, Element(c))
      BY <2>5, <2>7 DEF x
    <3>2. f \in Nat
      BY <2>1 DEF Promises
    <3>3. QED
      BY <2>4, <2>6, <2>7, <2>8, <3>1, <3>2, ElementsAttached
  <2>11. /\ w \in Tables /\ w.combinators = v.combinators /\ Goes(v, w, {}) /\ (Honest(v) => Honest(w))
         /\ \A p \in Promises : Strays(w, p) => Strays(v, p)
    BY <2>5, <2>9 DEF Joins
  <2>12. Is(w, f, "pending")
    <3>1. Is(v, f, "pending")
      BY <2>1, <2>4, TableTypes DEF Is
    <3>2. QED
      BY <2>1, <2>11, <3>1 DEF Goes, Is
  <2>13. Tended(w, c)
    BY <1>3, <2>1, <2>3, <2>4, <2>10, <2>11, <2>12, NewTended DEF f
  <2>14. Goes(t, w, {})
    BY <2>4, <2>11 DEF Goes, Exists, Is
  <2>15. \A d \in DOMAIN t.combinators : Tended(w, d)
    <3> SUFFICES ASSUME NEW d \in DOMAIN t.combinators PROVE Tended(w, d)
      OBVIOUS
    <3>1. x # Element(d)
      BY <2>4 DEF x, Element
    <3>2. SameSpots(v, w, d)
      BY <2>4, <2>9, <3>1, JoinsSpots
    <3>3. SameSpots(t, w, d)
      BY <2>4, <3>2 DEF SameSpots, Keeps
    <3>4. w.combinators[d] = t.combinators[d] /\ Tended(t, d) /\ t.combinators[d].target \notin {}
      BY <2>4, <2>11 DEF Answers
    <3>5. QED
      BY <2>11, <2>14, <3>3, <3>4, TendedSame
  <2>16. \A d \in DOMAIN t.combinators : w.combinators[d] = t.combinators[d] /\ t.combinators[d].target # f
    <3>1. ~IsTarget(t, f)
      BY <2>1, NewTarget
    <3>2. QED
      BY <2>4, <2>11, <3>1 DEF IsTarget
  <2>17. w.combinators[c].target = f /\ DOMAIN w.combinators = DOMAIN t.combinators \cup {c}
    BY <2>3, <2>4, <2>11
  <2>18. Apart(w)
    <3> SUFFICES ASSUME NEW d \in DOMAIN w.combinators, NEW e \in DOMAIN w.combinators,
                        w.combinators[d].target = w.combinators[e].target
                 PROVE  d = e
      BY DEF Apart
    <3>1. CASE d = c /\ e # c
      BY <2>16, <2>17, <3>1
    <3>2. CASE d # c /\ e = c
      BY <2>16, <2>17, <3>2
    <3>3. CASE d # c /\ e # c
      BY <2>16, <2>17, <3>3 DEF Answers, Apart
    <3>4. QED
      BY <3>1, <3>2, <3>3
  <2>19. Honest(w)
    BY <2>4, <2>11 DEF Keeps, Answers
  <2>20. Answers(w)
    BY <2>13, <2>15, <2>17, <2>18, <2>19 DEF Answers
  <2>21. Lengthens(t, w)
    BY <2>4, <2>9 DEF Lengthens, Joins, Suffixed, Keeps
  <2>22. \A p \in Promises : IsTarget(w, p) => /\ IsTarget(t, p) \/ NewIn(t, w, p)
                                               /\ Strays(w, p) => Strays(t, p)
    <3> SUFFICES ASSUME NEW p \in Promises, IsTarget(w, p)
                 PROVE  (IsTarget(t, p) \/ NewIn(t, w, p)) /\ (Strays(w, p) => Strays(t, p))
      OBVIOUS
    <3>1. Strays(w, p) => Strays(t, p)
      BY <2>4, <2>11 DEF Keeps
    <3>2. IsTarget(t, p) \/ p = f
      BY <2>16, <2>17 DEF IsTarget
    <3>3. NewIn(t, w, f)
      BY <2>1, <2>12 DEF NewIn, Exists, Is
    <3>4. QED
      BY <3>1, <3>2, <3>3
  <2>23. QED
    BY <2>11, <2>14, <2>20, <2>21, <2>22 DEF Combines, w
<1>4. QED
  BY <1>2, <1>3

-----------------------------------------------------------------------------
(* What the steps of the program do to the table.                          *)

\* Who may settle promise p, but for the combinators.
Loose == {p \in Promises : Strays(table, p) \/ p \in resolvable \/ StackAims(stack, p) \/ Own(p)}
Keeping == \A p \in Promises : p \in resolvable' \/ StackAims(stack', p) => p \in Loose \/ New(p)

\* The table grows; a combinator is called; a job leaves the queue for its
\* callback; a job settles what passes through.
Growing == Grows(table, table', Loose) /\ Keeping
Combining ==
  /\ \E elements \in Lists, kind \in {"all", "allSettled", "any"} :
       HasRoomFor(table, NewFor(elements)) /\ table' = Combine(table, kind, elements)
  /\ UNCHANGED <<resolvable, stack>>
Taking ==
  /\ table.microtasks # <<>> /\ ~RunsAlone(Head(table.microtasks))
  /\ table' = Shorter(table) /\ Keeping
Settling ==
  /\ table.microtasks # <<>> /\ RunsAlone(Head(table.microtasks))
  /\ table' = Alone(Shorter(table), Head(table.microtasks))
  /\ UNCHANGED <<resolvable, stack>>
Steps == Growing \/ Combining \/ Taking \/ Settling

\* No promise becomes anybody's to settle but new ones.
LEMMA NoneGained ==
  ASSUME \A p \in Promises : p \in resolvable' => p \in resolvable \/ New(p),
         \A p \in Promises : StackAims(stack', p) => StackAims(stack, p)
  PROVE  Keeping
BY DEF Keeping, Loose

\* A step of the loop that leaves the promises alone.
LEMMA StillSteps ==
  ASSUME IInv, UNCHANGED <<table, resolvable>>, \A p : StackAims(stack', p) => StackAims(stack, p)
  PROVE  Steps
<1>1. Keeping
  BY NoneGained
<1>2. Grows(table, table', Loose)
  BY LoopTypes, GrowsSame
<1>3. QED
  BY <1>1, <1>2 DEF Steps, Growing

\* A step that settles and aims at loose promises only.
LEMMA LooseSteps ==
  ASSUME IInv, NEW t, NEW X, Grows(table, t, X), X \subseteq Loose, table' = t,
         \A p \in Promises : p \in resolvable' => p \in resolvable \/ New(p),
         \A p \in Promises : StackAims(stack', p) => StackAims(stack, p)
  PROVE  Steps
<1>1. Keeping
  BY NoneGained
<1>2. Grows(table, table', Loose)
  BY GrowsWider
<1>3. QED
  BY <1>1, <1>2 DEF Steps, Growing

\* A call of the program that changes promises.
LEMMA PromisedSteps ==
  ASSUME IInv, NEW t, NEW X, Grows(table, t, X), X \subseteq Loose, Promised(t), UNCHANGED resolvable
  PROVE  Steps
<1>1. table' = t /\ stack' = stack
  BY DEF Promised
<1>2. QED
  BY <1>1, LooseSteps

\* The calls of the program.
LEMMA CallSteps ==
  ASSUME IInv, Call
  PROVE  Steps
<1> USE DEF Calls
<1>0. table \in Tables /\ Sound(table) /\ Listens(table) /\ resolvable \subseteq Promises /\ stack \in Seq(Frames)
  BY LoopTypes DEF Sound
<1>1. CASE NewPromise
  <2>1. Grows(table, Create(table), {}) /\ table' = Create(table) /\ stack' = stack
    BY <1>0, <1>1, CreateGrows DEF NewPromise, Promised
  <2>2. New(Fresh(table)) /\ Fresh(table) \in Promises
    BY <1>0, <1>1, Created DEF New, Exists, Is, NewPromise, Promised
  <2>3. resolvable' = resolvable \cup {Fresh(table)}
    BY <1>1 DEF NewPromise
  <2>4. QED
    BY <2>1, <2>2, <2>3, LooseSteps
<1>2. CASE Resolve
  <2>1. PICK p \in resolvable, result \in Results :
          Promised(ResolveInto(table, p, result)) /\ UNCHANGED resolvable
    BY <1>2 DEF Resolve
  <2>2. result \in Outcome(table)
    BY DEF Results, Existing, Outcome
  <2>3. Grows(table, ResolveInto(table, p, result), {p})
    BY <1>0, <2>2, ResolveGrows
  <2>4. {p} \subseteq Loose
    BY <1>0 DEF Loose
  <2>5. QED
    BY <2>1, <2>3, <2>4, PromisedSteps
<1>3. CASE Reject
  <2>1. PICK p \in resolvable : Promised(Settle(table, p, TRUE)) /\ UNCHANGED resolvable
    BY <1>3 DEF Reject
  <2>2. Grows(table, Settle(table, p, TRUE), {p})
    BY <1>0, SettleGrows
  <2>3. {p} \subseteq Loose
    BY <1>0 DEF Loose
  <2> DEFINE t == Settle(table, p, TRUE)
  <2>4. Grows(table, t, {p}) /\ Promised(t) /\ UNCHANGED resolvable
    BY <2>1, <2>2
  <2> HIDE DEF t
  <2>5. QED
    BY <2>3, <2>4, PromisedSteps
<1>4. CASE CallThen
  <2>1. PICK p \in Promises, f \in BOOLEAN :
          HasRoom(table) /\ Exists(table, p) /\ Promised(Then(table, p, f, ~f)) /\ UNCHANGED resolvable
    BY <1>4 DEF CallThen
  <2> DEFINE x == Handler(f, ~f, Fresh(table))
  <2>2. x \in Reactions /\ Plain(x) /\ \A q \in Promises : ReactionAims(x, q) => q = Fresh(table)
    BY <1>0, <2>1, Created, ReactionTypes, PlainReactions, AimsOf
  <2>3. Then(table, p, f, ~f) = Subscribe(Create(table), p, x)
    BY DEF Then
  <2> HIDE DEF x
  <2>4. Grows(table, Then(table, p, f, ~f), {})
    BY <1>0, <2>1, <2>2, <2>3, CreateSubscribeGrows DEF Plain
  <2>5. QED
    BY <2>1, <2>4, PromisedSteps
<1>5. CASE CallFinally
  <2>1. PICK p \in Promises :
          HasRoom(table) /\ Exists(table, p) /\ Promised(ThenFinally(table, p)) /\ UNCHANGED resolvable
    BY <1>5 DEF CallFinally
  <2> DEFINE x == Finally(Fresh(table))
  <2>2. x \in Reactions /\ Plain(x) /\ \A q \in Promises : ReactionAims(x, q) => q = Fresh(table)
    BY <1>0, <2>1, Created, ReactionTypes, PlainReactions, AimsOf
  <2>3. ThenFinally(table, p) = Subscribe(Create(table), p, x)
    BY DEF ThenFinally
  <2> HIDE DEF x
  <2>4. Grows(table, ThenFinally(table, p), {})
    BY <1>0, <2>1, <2>2, <2>3, CreateSubscribeGrows DEF Plain
  <2>5. QED
    BY <2>1, <2>4, PromisedSteps
<1>6. CASE CallCombinator
  <2>1. PICK elements \in Lists, kind \in {"all", "allSettled", "any", "race"} :
          /\ HasRoomFor(table, NewFor(elements))
          /\ table' = IF kind = "race" THEN Race(table, elements) ELSE Combine(table, kind, elements)
    BY <1>6 DEF CallCombinator
  <2>2. UNCHANGED <<resolvable, stack>>
    BY <1>6 DEF CallCombinator
  <2>3. CASE kind = "race"
    <3>1. elements \in Seq(Promises \cup {Value}) /\ Known(table, elements)
      BY <1>0, ListTypes, ListsKnown
    <3>2. Grows(table, Race(table, elements), {})
      BY <1>0, <2>1, <3>1, RaceGrows
    <3>3. QED
      BY <2>1, <2>2, <2>3, <3>2, LooseSteps
  <2>4. CASE kind # "race"
    BY <2>1, <2>2, <2>4 DEF Steps, Combining
  <2>5. QED
    BY <2>3, <2>4
<1>7. CASE CallAsync
  <2>1. PICK p \in Promises :
          /\ HasRoom(table) /\ Exists(table, p)
          /\ Promised(Subscribe(Create(table), p, AsyncResume(Fresh(table)))) /\ UNCHANGED resolvable
    BY <1>7 DEF CallAsync
  <2> DEFINE x == AsyncResume(Fresh(table))
  <2>2. x \in Reactions /\ Plain(x) /\ \A q \in Promises : ReactionAims(x, q) => q = Fresh(table)
    BY <1>0, <2>1, Created, ReactionTypes, PlainReactions, AimsOf
  <2>3. Promised(Subscribe(Create(table), p, x))
    BY <2>1
  <2> HIDE DEF x
  <2>4. Grows(table, Subscribe(Create(table), p, x), {})
    BY <1>0, <2>1, <2>2, CreateSubscribeGrows DEF Plain
  <2>5. QED
    BY <2>1, <2>3, <2>4, PromisedSteps
<1>8. CASE QueueMicrotask
  <2>1. Promised(Enqueue(table, <<Callback>>)) /\ UNCHANGED resolvable
    BY <1>8 DEF QueueMicrotask
  <2>2. Callback \in Jobs /\ Callback.kind # "reaction"
    BY JobTypes DEF Callback
  <2>3. \A q \in Promises : JobAims(Callback, q) => q \in {}
    BY AimsOf
  <2>4. Grows(table, Enqueue(table, <<Callback>>), {})
    BY <1>0, <2>2, <2>3, EnqueueGrows
  <2>5. QED
    BY <2>1, <2>4, PromisedSteps
<1>9. CASE NextTick \/ SetImmediate \/ SetTimer \/ Clear \/ StartExternal \/ Exit
  <2>1. UNCHANGED <<table, resolvable, stack>>
    BY <1>9 DEF NextTick, SetImmediate, SetTimer, Clear, StartExternal, Exit, Queued
  <2>2. QED
    BY <2>1, StillSteps
<1>10. CASE NestedDrain
  <2> DEFINE f == Drain(FALSE)
  <2>1. /\ InJs /\ stack' = Append(stack, f) /\ UNCHANGED <<table, resolvable>>
    BY <1>10 DEF NestedDrain, Push
  <2>2. f \in Frames /\ f.run = "drain" /\ f.check = FALSE
    BY FrameTypes
  <2>3. ~IsBody(f) /\ ~IsScript(f) /\ ~IsTick(f) /\ RunsHandler(f)
    BY <2>2 DEF IsBody, IsScript, IsTick, RunsHandler
  <2> HIDE DEF f
  <2>4. \A p : StackAims(stack', p) => StackAims(stack, p)
    BY <2>1, <2>2, <2>3, Enters
  <2>5. QED
    BY <2>1, <2>4, StillSteps
<1>11. QED
  BY <1>1, <1>2, <1>3, <1>4, <1>5, <1>6, <1>7, <1>8, <1>9, <1>10 DEF Call

-----------------------------------------------------------------------------
(* What the steps of a drain, of a callback that returns and of the loop do *)
(* to the table.                                                           *)

\* The next job and who it aims at.
LEMMA NextIs ==
  ASSUME IInv, table.microtasks # <<>>
  PROVE  /\ NextJob \in Jobs /\ NextJob = Head(table.microtasks) /\ Dequeued = Shorter(table)
         /\ \A p \in Promises : JobAims(NextJob, p) => p \in Loose
<1>1. table \in Tables
  BY LoopTypes
<1>2. 1 \in DOMAIN table.microtasks /\ table.microtasks[1] = NextJob /\ NextJob \in Jobs
  BY <1>1, ShorterIs DEF NextJob
<1>3. \A p \in Promises : JobAims(NextJob, p) => p \in Loose
  BY <1>2 DEF Loose, Strays
<1>4. QED
  BY <1>2, <1>3 DEF NextJob, Dequeued, Shorter

\* A microtask is one of the four steps: a job with a callback is taken, the
\* others settle something.
LEMMA RunMicrotaskSteps ==
  ASSUME IInv, RunMicrotask
  PROVE  Steps
<1> DEFINE job == NextJob
           f == Js(job)
<1>1. InDrain /\ table.microtasks # <<>>
  BY DEF RunMicrotask, Checked
<1>2. job \in Jobs /\ job = Head(table.microtasks) /\ Dequeued = Shorter(table)
      /\ \A p \in Promises : JobAims(job, p) => p \in Loose
  BY <1>1, NextIs
<1>3. CASE Silent(job) /\ job.kind # "thenable"
  <2>1. /\ table' = Alone(Shorter(table), job)
        /\ UNCHANGED <<stack, resolvable>>
    BY <1>2, <1>3 DEF RunMicrotask
  <2>2. RunsAlone(job)
    BY <1>3 DEF Silent
  <2>3. QED
    BY <1>1, <1>2, <2>1, <2>2 DEF Steps, Settling
<1>4. CASE Silent(job) /\ job.kind = "thenable"
  <2>1. table' = Shorter(table) /\ UNCHANGED <<stack, resolvable>>
    BY <1>2, <1>4 DEF RunMicrotask
  <2>2. ~RunsAlone(job)
    BY <1>4 DEF RunsAlone
  <2>3. Keeping
    BY <2>1, NoneGained
  <2>4. QED
    BY <1>1, <1>2, <2>1, <2>2, <2>3 DEF Steps, Taking
<1>5. CASE ~Silent(job)
  <2>1. /\ table' = Shorter(table) /\ stack' = Append(stack, f)
        /\ resolvable' = IF job.kind = "thenable" THEN resolvable \cup {job.target} ELSE resolvable
        /\ job.kind = "reaction" => job.reaction.kind # "generator"
    BY <1>2, <1>5 DEF RunMicrotask, Push
  <2>2. ~RunsAlone(job)
    BY <1>5 DEF Silent
  <2>3. f \in Frames /\ f.run = "js" /\ f.job = job
    BY <1>2, FrameTypes
  <2>4. \A p : StackAims(stack', p) => StackAims(stack, p) \/ JobAims(job, p)
    <3>1. job.kind \in {"callback", "thenable", "reaction"}
      BY <1>2, JobTypes
    <3>2. ~IsBody(f) /\ ~IsScript(f)
      BY <2>3, <3>1 DEF IsBody, IsScript
    <3>3. RunsHandler(f)
      <4>1. ASSUME job.kind = "reaction" PROVE job.reaction.kind \in {"handler", "finally", "resume"}
        <5>1. job.reaction \in Reactions
          BY <1>2, <4>1, JobTypes
        <5>2. job.reaction.kind \in Targets \cup {"element", "generator"}
          BY <5>1, ReactionTypes
        <5>3. job.reaction.kind \notin {"finallyResult", "element", "generator"}
          BY <1>5, <2>1, <4>1 DEF Silent, RunsAlone
        <5>4. QED
          BY <5>2, <5>3 DEF Targets
      <4>2. QED
        BY <2>3, <4>1 DEF RunsHandler
    <3>4. Top.run = "drain"
      BY <1>1 DEF InDrain
    <3> HIDE DEF f
    <3>5. QED
      BY <1>1, <2>1, <2>3, <3>2, <3>3, <3>4, Enters
  <2>5. Keeping
    <3> SUFFICES ASSUME NEW p \in Promises, p \in resolvable' \/ StackAims(stack', p) PROVE p \in Loose
      BY DEF Keeping
    <3>1. CASE p \in resolvable'
      <4>1. p \in resolvable \/ (job.kind = "thenable" /\ p = job.target)
        BY <2>1, <3>1
      <4>2. QED
        BY <1>2, <4>1 DEF Loose, JobAims
    <3>2. CASE StackAims(stack', p)
      BY <1>2, <2>4, <3>2 DEF Loose
    <3>3. QED
      BY <3>1, <3>2
  <2>6. QED
    BY <1>1, <1>2, <2>1, <2>2, <2>5 DEF Steps, Taking
<1>6. QED
  BY <1>3, <1>4, <1>5

\* A report leaves the promises alone.
LEMMA ReportSteps ==
  ASSUME IInv, Report
  PROVE  Steps
<1>1. InDrain /\ Top.run = "drain" /\ stack' = Below /\ table' = [table EXCEPT !.unhandled = {}]
      /\ resolvable' = resolvable
  BY DEF Report, DrainReturns, InDrain, programVars
<1>2. \A p : StackAims(stack', p) => StackAims(stack, p)
  BY <1>1, TopLeaves DEF IsBody
<1>3. table \in Tables
  BY LoopTypes
<1>4. /\ table' \in Tables /\ table'.state = table.state /\ table'.reactions = table.reactions
      /\ table'.microtasks = table.microtasks /\ table'.combinators = table.combinators
  BY <1>1, <1>3 DEF Tables
<1>5. Goes(table, table', {}) /\ (Honest(table) => Honest(table'))
  BY <1>4 DEF Goes, Exists, Is, Honest
<1>6. \A p \in Promises : Strays(table', p) => Strays(table, p)
  BY <1>4 DEF Strays
<1>7. \A p \in Promises : Longer(ReactionsOf(table, p), ReactionsOf(table', p))
  <2>1. \A p \in Promises : ReactionsOf(table', p) = ReactionsOf(table, p)
    BY <1>4 DEF ReactionsOf
  <2>2. QED
    BY <1>3, <2>1, ReactionsType, LongerSame
<1>8. Grows(table, table', {})
  BY <1>4, <1>5, <1>6, <1>7 DEF Grows
<1>9. QED
  BY <1>1, <1>2, <1>8, LooseSteps

\* The steps of a drain.
LEMMA DrainSteps ==
  ASSUME IInv, DrainStep
  PROVE  Steps
<1>1. CASE Report
  BY <1>1, ReportSteps
<1>2. CASE DrainEnds
  <2>1. InDrain /\ Top.run = "drain" /\ stack' = Below /\ UNCHANGED <<table, resolvable>>
    BY <1>2 DEF DrainEnds, DrainReturns, InDrain, programVars
  <2>2. \A p : StackAims(stack', p) => StackAims(stack, p)
    BY <2>1, TopLeaves DEF IsBody
  <2>3. QED
    BY <2>1, <2>2, StillSteps
<1>3. CASE RunTick
  <2> DEFINE f == Js(Callback)
  <2>1. InDrain /\ Top.run = "drain" /\ stack' = Append(stack, f) /\ UNCHANGED <<table, resolvable>>
    BY <1>3 DEF RunTick, Checked, InDrain, Push, programVars
  <2>2. f \in Frames /\ f.run = "js" /\ f.job = Callback
    BY FrameTypes, JobTypes
  <2>3. Callback.kind = "callback"
    BY DEF Callback
  <2> HIDE DEF f
  <2>4. ~IsBody(f) /\ ~IsScript(f) /\ RunsHandler(f)
    BY <2>2, <2>3 DEF IsBody, IsScript, RunsHandler
  <2>5. \A p : ~JobAims(f.job, p)
    BY <2>2, <2>3 DEF JobAims
  <2>6. \A p : StackAims(stack', p) => StackAims(stack, p)
    BY <2>1, <2>2, <2>4, <2>5, Enters
  <2>7. QED
    BY <2>1, <2>6, StillSteps
<1>4. CASE RunMicrotask
  BY <1>4, RunMicrotaskSteps
<1>5. CASE RunImmediate
  <2> DEFINE job == Macro(Head(immediates), FALSE, 0)
  <2>1. InDrain /\ immediates # <<>> /\ Start(job) /\ UNCHANGED <<table, resolvable>>
    BY <1>5 DEF RunImmediate, Checked, programVars
  <2>2. Head(immediates) \in Resources
    BY <2>1, LoopTypes
  <2>3. job \in Callers /\ job.kind = "macro"
    BY <2>2, LoopAssumption DEF Callers, Macro
  <2> HIDE DEF job
  <2>4. \A p : StackAims(stack', p) => StackAims(stack, p)
    BY <2>1, <2>3, StartKeeps
  <2>5. QED
    BY <2>1, <2>4, StillSteps
<1>6. CASE RunTimer
  <2> DEFINE timer == Head(timers)
             job == Macro(timer.id, timer.repeat, LatestOf(timer.rem))
  <2>1. InDrain /\ immediates = <<>> /\ MacrotaskReady /\ Start(job) /\ UNCHANGED <<table, resolvable, cancelled>>
    BY <1>6 DEF RunTimer, Checked, programVars
  <2>2. timers \in Seq(Timers) /\ timers # <<>> /\ TimerReady(timers[1])
    BY <2>1, LoopTypes DEF MacrotaskReady
  <2>3. timer \in Timers /\ timer = timers[1]
    BY <2>2
  <2> HIDE DEF timer
  <2>4. timer.id \in Resources /\ timer.repeat \in BOOLEAN /\ timer.rem \in -MaxLateness..1
    BY <2>3 DEF Timers
  <2>5. job.kind = "macro" /\ job.id = timer.id
    BY DEF Macro
  <2>6. job.id \notin cancelled => job \in Callers
    <3> SUFFICES ASSUME job.id \notin cancelled PROVE job \in Callers
      OBVIOUS
    <3>1. timer.rem <= 0
      BY <2>2, <2>3, <2>5 DEF TimerReady
    <3>2. LatestOf(timer.rem) \in -MaxLateness..0
      BY <2>4, <3>1, LoopAssumption DEF LatestOf
    <3>3. QED
      BY <2>4, <3>2 DEF Callers, Macro
  <2> HIDE DEF job
  <2>7. \A p : StackAims(stack', p) => StackAims(stack, p)
    BY <2>1, <2>5, <2>6, StartKeeps
  <2>8. QED
    BY <2>1, <2>7, StillSteps
<1>7. QED
  BY <1>1, <1>2, <1>3, <1>4, <1>5, <1>6 DEF DrainStep

\* A callback that is not a job, the body or a drain leaves the stack.
LEMMA ReturnSteps ==
  ASSUME IInv, Return
  PROVE  Steps
<1>0. table \in Tables /\ Sound(table) /\ Listens(table)
  BY LoopTypes DEF Sound
<1>1. ASSUME stack' = <<>>, UNCHANGED <<table, resolvable>> PROVE Steps
  <2>1. \A p : ~StackAims(stack', p)
    BY <1>1 DEF StackAims
  <2>2. QED
    BY <1>1, <2>1, StillSteps
<1>2. CASE ScriptReturns
  BY <1>1, <1>2 DEF ScriptReturns, programVars
<1>3. CASE MacroReturns
  <2>1. InJs /\ Top.job.kind = "macro" /\ stack' = Below /\ UNCHANGED <<table, resolvable>>
    BY <1>3 DEF MacroReturns, Pop, programVars
  <2>2. \A p : StackAims(stack', p) => StackAims(stack, p)
    BY <2>1, TopLeaves DEF IsBody
  <2>3. QED
    BY <2>1, <2>2, StillSteps
<1>4. ASSUME InJs, NEW p \in Promises, StackAims(stack, p), Grows(table, table', {p}), ~IsBody(Top), stack' = Below,
             UNCHANGED resolvable
      PROVE  Steps
  <2>1. \A q : StackAims(stack', q) => StackAims(stack, q)
    BY <1>4, TopLeaves
  <2>2. {p} \subseteq Loose
    BY <1>4 DEF Loose
  <2>3. QED
    BY <1>4, <2>1, <2>2, LooseSteps
<1>5. ASSUME InJs, NEW p \in Promises, JobAims(Top.job, p), Top.job.kind \in {"reaction", "thenable"}
      PROVE  StackAims(stack, p) /\ ~IsBody(Top)
  <2>1. Depth \in DOMAIN stack /\ Top = stack[Depth] /\ Top.run = "js"
    BY <1>5, StackTypes DEF InJs
  <2>2. QED
    BY <1>5, <2>1 DEF StackAims, IsBody
<1>6. CASE AwaitAgain
  <2>1. PICK p \in Promises :
        /\ InJs /\ Top.job.kind = "reaction" /\ Top.job.reaction.kind = "resume" /\ Exists(table, p)
        /\ table' = Subscribe(table, p, Top.job.reaction) /\ stack' = Below /\ UNCHANGED resolvable
    BY <1>6 DEF AwaitAgain, Pop
  <2> DEFINE x == Top.job.reaction
  <2>2. Top.job \in Jobs
    BY <2>1, ReturnTypes, FrameTypes
  <2>3. x \in Reactions /\ x.kind = "resume"
    BY <2>1, <2>2, JobTypes
  <2>4. x.target \in Promises
    BY <2>3, ReactionTypes DEF Targets
  <2>5. JobAims(Top.job, x.target) /\ \A q \in Promises : ReactionAims(x, q) => q \in {x.target}
    BY <2>1, <2>3 DEF JobAims, ReactionAims, Targets
  <2>6. StackAims(stack, x.target) /\ ~IsBody(Top)
    BY <1>5, <2>1, <2>4, <2>5
  <2> HIDE DEF x
  <2>7. Grows(table, Subscribe(table, p, x), {x.target})
    BY <1>0, <2>1, <2>3, <2>5, SubscribeGrows
  <2>8. Grows(table, table', {x.target})
    BY <2>1, <2>7 DEF x
  <2>9. QED
    BY <1>4, <2>1, <2>4, <2>6, <2>8
<1>7. ASSUME InJs, NEW result \in Outcomes(Top.job), PollReturns(result) PROVE Steps
  BY <1>1, <1>7 DEF PollReturns, programVars
<1>8. ASSUME InJs, NEW result \in Outcomes(Top.job), CallbackReturns(result) PROVE Steps
  <2>1. Top.job.kind = "callback" /\ UNCHANGED <<table, resolvable>>
    BY <1>8 DEF CallbackReturns, programVars
  <2>2. Depth > 1 /\ ~IsBody(Top) /\ Depth \in Nat /\ Top.run = "js"
    BY <1>8, <2>1, ReturnTypes DEF IsBody
  <2>3. Stands(stack) /\ Depth \in DOMAIN stack /\ Top = stack[Depth] /\ DOMAIN stack = 1..Depth
    BY <1>8, StackTypes
  <2>4. PICK k \in 0..Depth : stack' = SubSeq(stack, 1, k) /\ k \in {Depth - 1, Depth - 2}
    <3>1. stack' = SubSeq(stack, 1, Depth - 2) \/ stack' = SubSeq(stack, 1, Depth - 1)
      BY <1>8 DEF CallbackReturns, Pop, Below
    <3>2. Depth - 2 \in 0..Depth /\ Depth - 1 \in 0..Depth
      BY <2>2
    <3>3. QED
      BY <3>1, <3>2
  <2>5. stack[Depth - 1].run = "drain"
    BY <2>1, <2>2, <2>3 DEF Stands, IsTick
  <2>6. \A i \in 1..Depth : i > k => ~IsBody(stack[i])
    <3> SUFFICES ASSUME NEW i \in 1..Depth, i > k PROVE ~IsBody(stack[i])
      OBVIOUS
    <3>1. i = Depth \/ i = Depth - 1
      BY <2>2, <2>4
    <3>2. QED
      BY <2>2, <2>3, <2>5, <3>1 DEF IsBody
  <2>7. \A p : StackAims(stack', p) => StackAims(stack, p)
    BY <1>8, <2>4, <2>6, Leaves
  <2>8. QED
    BY <2>1, <2>7, StillSteps
<1>9. ASSUME InJs, NEW result \in Outcomes(Top.job), ReactionReturns(result) PROVE Steps
  <2> DEFINE job == Top.job
  <2>1. /\ job.kind \in {"reaction", "thenable"} /\ Allowed(job, result) /\ stack' = Below
        /\ table' = Completed(table, job, result) /\ UNCHANGED resolvable
    BY <1>9 DEF ReactionReturns, Pop, programVars
  <2>2. job \in Jobs
    BY <1>9, <2>1, ReturnTypes, FrameTypes
  <2>3. job.kind = "reaction" => job.reaction.kind \in {"handler", "finally", "resume"}
    BY <1>9, ReturnTypes DEF RunsHandler
  <2>4. result \in Outcome(table)
    BY <1>9 DEF Outcomes, Outcome, Results, Existing
  <2>5. job.kind = "reaction" /\ job.reaction.kind = "finally" /\ result \in {Value, Thenable} => HasRoom(table)
    BY <2>1 DEF Allowed
  <2>6. (job.kind = "thenable" \/ (job.kind = "reaction" /\ job.reaction.kind \in {"handler", "finally", "resume"}))
    BY <2>1, <2>3
  <2> HIDE DEF job
  <2>7. PICK p \in Promises : Grows(table, Completed(table, job, result), {p}) /\ JobAims(job, p)
    BY <1>0, <2>2, <2>4, <2>5, <2>6, CompletedGrows
  <2>8. StackAims(stack, p) /\ ~IsBody(Top)
    BY <1>5, <1>9, <2>1, <2>7 DEF job
  <2>9. QED
    BY <1>4, <1>9, <2>1, <2>7, <2>8
<1>10. QED
  BY <1>2, <1>3, <1>6, <1>7, <1>8, <1>9 DEF Return

\* The loop turns, sleeps and polls.
LEMMA LoopSteps ==
  ASSUME IInv, LoopStep
  PROVE  Steps
<1>1. ASSUME NEW f \in {Drain(TRUE), PollFrame}, stack' = <<f>>, UNCHANGED <<table, resolvable>> PROVE Steps
  <2>1. \A p : ~StackAims(stack', p)
    BY <1>1, FirstFrame
  <2>2. QED
    BY <1>1, <2>1, StillSteps
<1>2. ASSUME UNCHANGED <<table, resolvable, stack>> PROVE Steps
  BY <1>2, StillSteps
<1>3. ASSUME NEW time \in 0..1, Turn(time) PROVE Steps
  BY <1>1, <1>3 DEF Turn, programVars
<1>4. CASE Sleep
  BY <1>2, <1>4 DEF Sleep, programVars
<1>5. CASE Poll
  BY <1>1, <1>2, <1>5 DEF Poll
<1>6. QED
  BY <1>3, <1>4, <1>5 DEF LoopStep

-----------------------------------------------------------------------------
(* What the steps of the generator do to the table.                        *)

\* A promise is settled that was created just before, or that is the
\* generator's own.
LEMMA CreateSettleGrows ==
  ASSUME NEW t \in Tables, HasRoom(t), Sound(t), NEW p \in Promises, NEW rejected \in BOOLEAN
  PROVE  /\ Grows(t, Settle(Create(t), p, rejected), {p})
         /\ p = Fresh(t) => Grows(t, Settle(Create(t), p, rejected), {})
<1>1. Create(t) \in Tables /\ Grows(t, Create(t), {})
  BY Created, CreateGrows
<1> DEFINE v == Settle(Create(t), p, rejected)
<1>2. Grows(Create(t), v, {p})
  BY <1>1, SettleGrows
<1> HIDE DEF v
<1>3. Grows(t, v, {p})
  <2>1. Grows(t, Create(t), {p})
    BY <1>1, GrowsWider
  <2>2. QED
    BY <1>2, <2>1, GrowsTrans
<1>4. p = Fresh(t) => Grows(t, v, {})
  <2> SUFFICES ASSUME p = Fresh(t) PROVE Grows(t, v, {})
    OBVIOUS
  <2>1. Grows(Create(t), v, {} \cup {Fresh(t)})
    BY <1>2
  <2>2. QED
    BY <2>1, GrowsFresh
<1>5. QED
  BY <1>3, <1>4 DEF v

\* A request of the generator settles what is its own.
LEMMA AskSteps ==
  ASSUME IInv, Ask
  PROVE  Steps
<1>0. table \in Tables /\ Sound(table)
  BY LoopTypes
<1>1. PICK kind \in {"next", "return", "throw"} :
        /\ AskBy(kind)
        /\ LET request == Request(kind, Fresh(table)) IN
           CASE status = "executing" -> AskRunning(request)
             [] status = "completed" -> AskCompleted(request)
             [] status = "start" -> AskStart(request)
             [] status = "yield" -> AskSuspended(request)
  BY DEF Ask, AskBy
<1> DEFINE p == Fresh(table)
           r == Request(kind, p)
<1>2. /\ r.promise = p /\ p \in Promises /\ InJs /\ HasRoom(table) /\ resolvable' = resolvable
      /\ Thrown(r) \in BOOLEAN
  BY <1>1, AskFacts DEF AskBy, Thrown
<1>3. Grows(table, Create(table), {}) /\ Grows(table, Settle(Create(table), p, Thrown(r)), {})
  BY <1>0, <1>2, CreateGrows, CreateSettleGrows
<1>4. Answer(Create(table), r, Thrown(r)) = Settle(Create(table), p, Thrown(r))
  BY <1>2 DEF Answer
<1>5. \/ table' = Create(table)
      \/ table' = Settle(Create(table), p, Thrown(r))
      \/ status = "yield" /\ table' = Settle(Create(table), resume, Thrown(r))
  <2>1. status \in {"start", "yield", "executing", "completed"}
    BY DEF IInv, TypeOK
  <2>2. QED
    BY <1>1, <1>4, <2>1 DEF AskRunning, AskCompleted, AskStart, AskSuspended
<1>6. \A q : StackAims(stack', q) => StackAims(stack, q)
  <2>1. stack' = stack \/ stack' = Append(stack, Body("next"))
    <3>1. status \in {"start", "yield", "executing", "completed"}
      BY DEF IInv, TypeOK
    <3>2. QED
      BY <1>1, <3>1 DEF AskRunning, AskCompleted, AskStart, AskSuspended
  <2>2. CASE stack' = Append(stack, Body("next"))
    BY <1>2, <2>2, BodyEnters
  <2>3. QED
    BY <2>1, <2>2
<1>7. CASE table' = Create(table) \/ table' = Settle(Create(table), p, Thrown(r))
  BY <1>2, <1>3, <1>6, <1>7, LooseSteps
<1>8. CASE status = "yield" /\ table' = Settle(Create(table), resume, Thrown(r))
  <2>1. resume \in Promises
    BY <1>8, RequestTypes DEF IInv, TypeOK
  <2>2. Grows(table, Settle(Create(table), resume, Thrown(r)), {resume})
    BY <1>0, <1>2, <2>1, CreateSettleGrows
  <2>3. {resume} \subseteq Loose
    BY <2>1 DEF Loose, Own
  <2> HIDE DEF r
  <2>4. QED
    BY <1>2, <1>6, <1>8, <2>2, <2>3, LooseSteps
<1>9. QED
  BY <1>5, <1>7, <1>8

\* The body of the generator takes its job.
LEMMA ResumeBodySteps ==
  ASSUME IInv, ResumeBody
  PROVE  Steps
<1>1. /\ InDrain /\ table.microtasks # <<>> /\ NextJob.kind = "reaction" /\ NextJob.reaction.kind = "generator"
      /\ table' = Dequeued /\ stack' = Append(stack, Body(Mode(NextJob))) /\ resolvable' = resolvable
  BY DEF ResumeBody, Checked, Push, programVars
<1>2. Mode(NextJob) \in {"next", "return", "throw"}
  BY DEF Mode
<1>3. Keeping
  <2>1. \A q : StackAims(stack', q) => StackAims(stack, q)
    BY <1>1, <1>2, BodyEnters
  <2>2. QED
    BY <1>1, <2>1, NoneGained
<1>4. NextJob = Head(table.microtasks) /\ Dequeued = Shorter(table)
  BY <1>1, NextIs
<1>5. ~RunsAlone(NextJob)
  BY <1>1 DEF RunsAlone
<1>6. QED
  BY <1>1, <1>3, <1>4, <1>5 DEF Steps, Taking

\* What the generator waits with.
LEMMA ResumptionIs == Resumption \in Reactions /\ Resumption.kind # "element" /\ \A q : ~ReactionAims(Resumption, q)
BY DEF Resumption, Reactions, ReactionAims, Targets

\* The body awaits, yields or completes.
LEMMA BodySteps ==
  ASSUME IInv, BodyStep
  PROVE  Steps
<1>1. InBody /\ stack' = Below /\ resolvable' = resolvable
  BY DEF BodyStep, Await, Yield, Complete, Pop, programVars
<1>2. /\ \A q : StackAims(stack', q) => StackAims(stack, q)
      /\ active \in Requests /\ active.promise \in Promises /\ queue \in Seq(Requests)
      /\ Open = <<active>> \o queue
  BY <1>1, BodyLeaves
<1>3. table \in Tables /\ Sound(table)
  BY LoopTypes
<1>4. \A q \in Promises : q = active.promise \/ (\E i \in DOMAIN queue : queue[i].promise = q) => q \in Loose
  <2>1. \A q : Has(Open, q) <=> q = active.promise \/ Has(queue, q)
    BY <1>2, FrontHas
  <2>2. QED
    BY <2>1 DEF Has, Loose, Own
<1>5. CASE Await
  <2>1. PICK p \in Promises : Exists(table, p) /\ table' = Subscribe(table, p, Resumption)
    BY <1>5 DEF Await
  <2>2. Grows(table, Subscribe(table, p, Resumption), {})
    BY <1>3, <2>1, ResumptionIs, SubscribeGrows DEF Sound
  <2>3. QED
    BY <1>1, <1>2, <2>1, <2>2, LooseSteps
<1>6. CASE Yield
  <2> DEFINE a == active.promise
             u == AnswerActive
             p == Fresh(u)
  <2>1. /\ HasRoom(u)
        /\ \/ table' = Subscribe(Waiting, p, Resumption)
           \/ queue # <<>> /\ table' = Subscribe(Settle(Waiting, p, Thrown(Head(queue))), p, Resumption)
    BY <1>6 DEF Yield, AnswerActive, Waiting
  <2>2. Grows(table, u, {a}) /\ u \in Tables /\ Sound(u)
    <3>1. u = Settle(table, a, FALSE)
      BY DEF AnswerActive, Answer
    <3>2. QED
      BY <1>2, <1>3, <3>1, SettleGrows, SettleEvolves DEF Evolves, Changes
  <2>3. Waiting = Create(u)
    BY DEF Waiting
  <2> HIDE DEF u
  <2>4. p \in Promises
    BY <2>1, <2>2, CreateExists
  <2>5. Grows(u, Subscribe(Create(u), p, Resumption), {})
    BY <2>1, <2>2, <2>4, ResumptionIs, CreateSubscribeGrows
  <2>6. ASSUME NEW rejected \in BOOLEAN PROVE Grows(u, Subscribe(Settle(Create(u), p, rejected), p, Resumption), {})
    <3> DEFINE v == Settle(Create(u), p, rejected)
    <3>1. Grows(u, v, {})
      BY <2>1, <2>2, <2>4, CreateSettleGrows
    <3>2. v \in Tables /\ Sound(v) /\ Exists(v, p)
      <4>1. Create(u) \in Tables /\ Sound(Create(u)) /\ Exists(Create(u), p)
        BY <2>1, <2>2, CreateExists
      <4>2. Evolves(Create(u), v, {p})
        BY <2>4, <4>1, SettleEvolves
      <4>3. QED
        BY <2>4, <4>1, <4>2 DEF Evolves, Changes, Goes
    <3> HIDE DEF v
    <3>3. Grows(v, Subscribe(v, p, Resumption), {})
      BY <2>4, <3>2, ResumptionIs, SubscribeGrows DEF Sound
    <3>4. Grows(u, Subscribe(v, p, Resumption), {})
      BY <2>2, <3>1, <3>3, GrowsTrans
    <3>5. QED
      BY <3>4 DEF v
  <2>7. \E w : Grows(u, w, {}) /\ table' = w
    <3>1. Thrown(Head(queue)) \in BOOLEAN
      BY DEF Thrown
    <3>2. QED
      BY <2>1, <2>3, <2>5, <2>6, <3>1
  <2>8. PICK w : Grows(u, w, {}) /\ table' = w
    BY <2>7
  <2>9. Grows(table, w, {a})
    BY <1>3, <2>2, <2>8, GrowsTrans
  <2>10. {a} \subseteq Loose
    BY <1>2, <1>4
  <2>11. QED
    BY <1>1, <1>2, <2>8, <2>9, <2>10, LooseSteps
<1>7. ASSUME NEW rejected \in BOOLEAN, Complete(rejected) PROVE Steps
  <2> DEFINE a == active.promise
             u == Settle(table, a, rejected)
             X == {q \in Promises : \E i \in DOMAIN queue : queue[i].promise = q}
  <2>1. table' = AnswerQueue(u)
    BY <1>7 DEF Complete, Answer
  <2>2. Grows(table, u, {a}) /\ u \in Tables
    BY <1>2, <1>3, SettleGrows DEF Grows
  <2> HIDE DEF u
  <2>3. Grows(u, AnswerQueue(u), X)
    BY <1>2, <2>2, AnswerQueueGrows
  <2>4. {a} \subseteq Loose /\ X \subseteq Loose
    BY <1>2, <1>4
  <2> HIDE DEF X, a
  <2>5. Grows(table, u, Loose) /\ Grows(u, AnswerQueue(u), Loose)
    BY <2>2, <2>3, <2>4, GrowsWider
  <2>6. Grows(table, AnswerQueue(u), Loose)
    BY <1>3, <2>5, GrowsTrans
  <2>7. QED
    BY <1>1, <1>2, <2>1, <2>6, LooseSteps
<1>8. QED
  BY <1>5, <1>6, <1>7 DEF BodyStep

\* Every step.
LEMMA NextSteps ==
  ASSUME IInv, [Next]_vars
  PROVE  Steps
<1>1. CASE LoopNext
  BY <1>1, CallSteps, ReturnSteps, DrainSteps, LoopSteps DEF LoopNext
<1>2. CASE UNCHANGED vars
  <2>1. UNCHANGED <<table, resolvable, stack>>
    BY <1>2 DEF vars, loopVars
  <2>2. QED
    BY <2>1, StillSteps
<1>3. QED
  BY <1>1, <1>2, AskSteps, ResumeBodySteps, BodySteps DEF Next

-----------------------------------------------------------------------------
(* The combinators through a run.                                          *)

\* Only a combinator settles its target.
Hidden ==
  \A p \in Promises : IsTarget(table, p) =>
    ~Strays(table, p) /\ p \notin resolvable /\ ~StackAims(stack, p)
CombInv == Answers(table) /\ Hidden

\* A target is not the generator's either.
LEMMA TargetsHide ==
  ASSUME IInv, CombInv
  PROVE  /\ \A p \in Loose : ~IsTarget(table, p)
         /\ \A p \in Promises : Is(table, p, "absent") =>
              ~IsTarget(table, p) /\ p \notin resolvable /\ ~StackAims(stack, p) /\ ~Strays(table, p)
<1>1. \A p \in Promises : IsTarget(table, p) \/ Strays(table, p) => Aimed(table, p)
  BY DEF IsTarget, Strays, Aimed
<1>2. \A p \in Promises : Own(p) \/ Is(table, p, "absent") => ~Claimed(table, resolvable, stack, p)
  BY DEF IInv, OwnIsOwn
<1>3. QED
  BY <1>1, <1>2 DEF CombInv, Hidden, Loose, Claimed

\* Targets stay hidden from whoever did not aim at them.
LEMMA HiddenStays ==
  ASSUME IInv, CombInv, Keeping,
         \A p \in Promises : IsTarget(table', p) => IsTarget(table, p),
         \A p \in Promises : Strays(table', p) => Strays(table, p) \/ p \in Loose \/ New(p)
  PROVE  Hidden'
<1> SUFFICES ASSUME NEW p \in Promises, IsTarget(table', p),
                    Strays(table', p) \/ p \in resolvable' \/ StackAims(stack', p)
             PROVE  FALSE
  BY DEF Hidden
<1>1. IsTarget(table, p)
  OBVIOUS
<1>2. p \in Loose \/ New(p)
  BY DEF Keeping, Loose
<1>3. QED
  BY <1>1, <1>2, TargetsHide DEF New

\* The four steps keep what combinators owe.
LEMMA CombinatorsStay ==
  ASSUME IInv, CombInv, Steps
  PROVE  CombInv'
<1>0. table \in Tables /\ Sound(table) /\ Answers(table) /\ resolvable \subseteq Promises
  BY LoopTypes DEF CombInv
<1>1. CASE Growing
  <2>1. Answers(table')
    BY <1>0, <1>1, TargetsHide, GrowsAnswers DEF Growing
  <2>2. \A p \in Promises : IsTarget(table', p) => IsTarget(table, p)
    BY <1>1 DEF Growing, Grows, IsTarget
  <2>3. \A p \in Promises : Strays(table', p) => Strays(table, p) \/ p \in Loose \/ New(p)
    BY <1>1 DEF Growing, Grows, New, NewIn
  <2>4. Hidden'
    BY <1>1, <2>2, <2>3, HiddenStays DEF Growing
  <2>5. QED
    BY <2>1, <2>4 DEF CombInv
<1>2. CASE Taking
  <2>1. table.microtasks # <<>> /\ ~RunsAlone(Head(table.microtasks)) /\ table' = Shorter(table) /\ Keeping
    BY <1>2 DEF Taking
  <2>2. \A c \in DOMAIN table.combinators : ~Takes(table, c)
    BY <2>1 DEF Takes, Element, RunsAlone
  <2>3. Answers(table')
    BY <1>0, <2>1, <2>2, ShorterAnswers
  <2>4. /\ table'.combinators = table.combinators
        /\ \A p \in Promises : Strays(table', p) => Strays(table, p)
    BY <1>0, <2>1, ShorterHonest
  <2>5. Hidden'
    BY <2>1, <2>4, HiddenStays DEF IsTarget
  <2>6. QED
    BY <2>3, <2>5 DEF CombInv
<1>3. CASE Settling
  <2> DEFINE w == Alone(Shorter(table), Head(table.microtasks))
  <2>1. table.microtasks # <<>> /\ RunsAlone(Head(table.microtasks)) /\ table' = w
        /\ UNCHANGED <<resolvable, stack>>
    BY <1>3 DEF Settling
  <2>2. \A p \in Promises : Strays(table, p) => ~IsTarget(table, p)
    BY DEF CombInv, Hidden
  <2>3. /\ Answers(w) /\ Keeps(Shorter(table), w)
        /\ \A p : IsTarget(w, p) => IsTarget(table, p)
    BY <1>0, <2>1, <2>2, AloneAnswers
  <2> HIDE DEF w
  <2>4. \A p \in Promises : Strays(table', p) => Strays(table, p)
    BY <1>0, <2>1, <2>3, ShorterHonest DEF Keeps
  <2>5. Keeping
    BY <2>1 DEF Keeping, Loose
  <2>6. Hidden'
    BY <2>1, <2>3, <2>4, <2>5, HiddenStays
  <2>7. QED
    BY <2>1, <2>3, <2>6 DEF CombInv
<1>4. CASE Combining
  <2>1. PICK elements \in Lists, kind \in {"all", "allSettled", "any"} :
          HasRoomFor(table, NewFor(elements)) /\ table' = Combine(table, kind, elements)
    BY <1>4 DEF Combining
  <2>2. UNCHANGED <<resolvable, stack>>
    BY <1>4 DEF Combining
  <2>3. elements \in Seq(Promises \cup {Value}) /\ Known(table, elements)
    BY <1>0, ListTypes, ListsKnown
  <2>4. Combines(table, Combine(table, kind, elements))
    BY <1>0, <2>1, <2>3, CombineAnswers
  <2>5. /\ Answers(table')
        /\ \A p \in Promises : IsTarget(table', p) => /\ IsTarget(table, p) \/ Is(table, p, "absent")
                                                      /\ Strays(table', p) => Strays(table, p)
    BY <2>1, <2>4 DEF Combines, NewIn
  <2>6. Hidden'
    <3> SUFFICES ASSUME NEW p \in Promises, IsTarget(table', p)
                 PROVE  ~Strays(table', p) /\ p \notin resolvable' /\ ~StackAims(stack', p)
      BY DEF Hidden
    <3>1. ~Strays(table, p) /\ p \notin resolvable /\ ~StackAims(stack, p)
      BY <2>5, TargetsHide DEF CombInv, Hidden
    <3>2. QED
      BY <2>2, <2>5, <3>1
  <2>7. QED
    BY <2>5, <2>6 DEF CombInv
<1>5. QED
  BY <1>1, <1>2, <1>3, <1>4 DEF Steps

\* There is no combinator at the start.
LEMMA CombinatorsStart ==
  ASSUME Init
  PROVE  CombInv
<1>1. table = NoPromises /\ resolvable = {} /\ stack = <<Script>>
  BY DEF Init, LoopInit
<1>2. table.combinators = <<>> /\ table.microtasks = <<>>
  BY <1>1 DEF NoPromises
<1>3. Answers(table) /\ \A p : ~IsTarget(table, p)
  BY <1>2 DEF Answers, Honest, Apart, IsTarget
<1>4. QED
  BY <1>3 DEF CombInv, Hidden

\* What combinators owe holds throughout.
LEMMA CombinatorsInvariant == Spec => [](IInv /\ CombInv)
<1>1. Init => IInv /\ CombInv
  BY InvInit, CombinatorsStart
<1>2. IInv /\ CombInv /\ [Next]_vars => (IInv /\ CombInv)'
  BY InvNext, NextSteps, CombinatorsStay
<1>3. QED
  BY <1>1, <1>2, PTL DEF Spec

-----------------------------------------------------------------------------
(* The theorems about combinators and queues.                              *)

\* What all, allSettled and any owe the program, for any number of promises,
\* calls and combinators: their target is pending exactly while reactions of
\* elements they still count are under way, and its outcome is the one that its
\* elements' promises call for (run and settle_element, promise/combinator.rs).
THEOREM CombinatorsAreExact == Spec => []CombinatorsAnswer
<1>1. IInv /\ CombInv => CombinatorsAnswer
  <2> SUFFICES ASSUME IInv, CombInv, NEW c \in DOMAIN table.combinators
               PROVE  LET entry == table.combinators[c]
                          sources == {entry.of[i] : i \in DOMAIN entry.of}
                          Every(outcome) == \A p \in sources : Is(table, p, outcome)
                          Some(outcome) == \E p \in sources : Is(table, p, outcome)
                          Target(outcome) == Is(table, entry.target, outcome)
                      IN /\ entry.settled = ~Target("pending")
                         /\ ~entry.settled => Outstanding(table, c) = entry.remaining /\ entry.remaining > 0
                         /\ Target("fulfilled") =>
                              CASE entry.kind = "all" -> Every("fulfilled")
                                [] entry.kind = "any" -> Some("fulfilled")
                                [] OTHER -> ~Some("pending")
                         /\ Target("rejected") =>
                              CASE entry.kind = "all" -> Some("rejected")
                                [] entry.kind = "any" -> Every("rejected")
                                [] OTHER -> FALSE
    BY DEF CombinatorsAnswer
  <2> DEFINE entry == table.combinators[c]
             sources == {entry.of[i] : i \in DOMAIN entry.of}
  <2>1. entry \in Combinators
    BY LoopTypes, TableTypes
  <2>2. entry.kind \in {"all", "allSettled", "any"} /\ entry.settled \in BOOLEAN
    BY <2>1 DEF Combinators
  <2>3. Tended(table, c)
    BY DEF CombInv, Answers
  <2>4. /\ entry.settled <=> ~Is(table, entry.target, "pending")
        /\ ~entry.settled => Outstanding(table, c) = entry.remaining /\ entry.remaining > 0
        /\ \A p : IsSource(entry, p) => p \in Promises
        /\ Verdict(table, entry)
    BY <2>3 DEF Tended
  <2>5. \A p : p \in sources <=> IsSource(entry, p)
    BY DEF IsSource
  <2> HIDE DEF entry, sources
  <2>6. entry.settled = ~Is(table, entry.target, "pending")
    BY <2>2, <2>4, Zenon
  <2>7. Is(table, entry.target, "fulfilled") =>
          CASE entry.kind = "all" -> \A p \in sources : Is(table, p, "fulfilled")
            [] entry.kind = "any" -> \E p \in sources : Is(table, p, "fulfilled")
            [] OTHER -> ~\E p \in sources : Is(table, p, "pending")
    <3> SUFFICES ASSUME Is(table, entry.target, "fulfilled")
                 PROVE  CASE entry.kind = "all" -> \A p \in sources : Is(table, p, "fulfilled")
                          [] entry.kind = "any" -> \E p \in sources : Is(table, p, "fulfilled")
                          [] OTHER -> ~\E p \in sources : Is(table, p, "pending")
      OBVIOUS
    <3>1. CASE entry.kind = "all"
      BY <2>4, <2>5, <3>1 DEF Verdict, Favours
    <3>2. CASE entry.kind = "any"
      BY <2>4, <2>5, <3>2 DEF Verdict
    <3>3. CASE entry.kind = "allSettled"
      BY <2>4, <2>5, <3>3 DEF Verdict, Favours
    <3>4. QED
      BY <2>2, <3>1, <3>2, <3>3
  <2>8. Is(table, entry.target, "rejected") =>
          CASE entry.kind = "all" -> \E p \in sources : Is(table, p, "rejected")
            [] entry.kind = "any" -> \A p \in sources : Is(table, p, "rejected")
            [] OTHER -> FALSE
    <3> SUFFICES ASSUME Is(table, entry.target, "rejected")
                 PROVE  CASE entry.kind = "all" -> \E p \in sources : Is(table, p, "rejected")
                          [] entry.kind = "any" -> \A p \in sources : Is(table, p, "rejected")
                          [] OTHER -> FALSE
      OBVIOUS
    <3>1. CASE entry.kind = "all"
      BY <2>4, <2>5, <3>1 DEF Verdict
    <3>2. CASE entry.kind = "any"
      BY <2>4, <2>5, <3>2 DEF Verdict
    <3>3. CASE entry.kind = "allSettled"
      BY <2>4, <3>3 DEF Verdict
    <3>4. QED
      BY <2>2, <3>1, <3>2, <3>3
  <2>9. QED
    BY <2>4, <2>6, <2>7, <2>8 DEF entry, sources
<1>2. QED
  BY <1>1, CombinatorsInvariant, PTL

\* One step of the queue of reactions of a promise, s before and z after it.
Stepping(s, z, done) ==
  \/ z = s
  \/ Len(z) > Len(s) /\ SubSeq(z, 1, Len(s)) = s
  \/ done /\ s # <<>> /\ z = Tail(s)

\* A queue that is added to.
LEMMA AddedSteps ==
  ASSUME NEW s \in Seq(Reactions), NEW w \in Seq(Reactions), NEW done
  PROVE  Stepping(s, s \o w, done)
<1>1. CASE w = <<>>
  <2>1. s \o w = s
    BY <1>1
  <2>2. QED
    BY <2>1 DEF Stepping
<1>2. CASE w # <<>>
  <2>1. Len(s \o w) > Len(s)
    BY <1>2
  <2>2. SubSeq(s \o w, 1, Len(s)) = s
    OBVIOUS
  <2>3. QED
    BY <2>1, <2>2 DEF Stepping
<1>3. QED
  BY <1>1, <1>2

\* A promise that is settled stays settled.
LEMMA SettledStays ==
  ASSUME NEW t, NEW u, NEW X, Goes(t, u, X), NEW p \in Promises, t.state[p] \in {"fulfilled", "rejected"}
  PROVE  u.state[p] \in {"fulfilled", "rejected"}
BY DEF Goes, Is

\* The oldest reaction leaves its queue, when its promise is settled.
LEMMA ShorterSteps ==
  ASSUME NEW t \in Tables, Honest(t), t.microtasks # <<>>, NEW p \in Promises
  PROVE  Stepping(ReactionsOf(t, p), ReactionsOf(Shorter(t), p), t.state[p] \in {"fulfilled", "rejected"})
<1> DEFINE job == Head(t.microtasks)
           r == ReactionsOf(Shorter(t), p)
<1>1. CASE IsOf(job, p)
  <2>1. ReactionsOf(t, p) = <<job.reaction>> \o r /\ job.reaction \in Reactions
    BY <1>1, ShorterQueues
  <2>2. r \in Seq(Reactions)
    BY ShorterHonest, ReactionsType
  <2>3. ReactionsOf(t, p) # <<>> /\ Tail(ReactionsOf(t, p)) = r
    BY <2>1, <2>2, ConsIs
  <2>4. Is(t, p, IF job.rejected THEN "rejected" ELSE "fulfilled")
    BY <1>1, ShorterHonest DEF IsOf
  <2>5. QED
    BY <2>3, <2>4 DEF Stepping, Is
<1>2. CASE ~IsOf(job, p)
  BY <1>2, ShorterQueues DEF Stepping
<1>3. QED
  BY <1>1, <1>2

\* Every step serves the queues in their order.
LEMMA QueuesStep ==
  ASSUME IInv, CombInv, Steps
  PROVE  /\ \A p \in Promises : Stepping(ReactionsOf(table, p), ReactionsOf(table', p),
                                         table.state[p] \in {"fulfilled", "rejected"})
         /\ \E X : Goes(table, table', X)
<1>0. table \in Tables /\ Sound(table) /\ Answers(table) /\ Honest(table)
  BY LoopTypes DEF CombInv, Answers
<1>1. ASSUME Lengthens(table, table')
      PROVE  \A p \in Promises : Stepping(ReactionsOf(table, p), ReactionsOf(table', p),
                                          table.state[p] \in {"fulfilled", "rejected"})
  BY <1>0, <1>1, ReactionsType, AddedSteps DEF Lengthens
<1>2. CASE Growing
  <2>1. Lengthens(table, table') /\ Goes(table, table', Loose)
    BY <1>2 DEF Growing, Grows, Longer, Lengthens
  <2>2. QED
    BY <1>1, <2>1
<1>3. CASE Taking
  <2>1. table.microtasks # <<>> /\ table' = Shorter(table)
    BY <1>3 DEF Taking
  <2>2. Goes(table, table', {})
    BY <1>0, <2>1, ShorterHonest DEF Goes, Exists, Is
  <2>3. QED
    BY <1>0, <2>1, <2>2, ShorterSteps
<1>4. CASE Settling
  <2> DEFINE w == Alone(Shorter(table), Head(table.microtasks))
  <2>1. table.microtasks # <<>> /\ RunsAlone(Head(table.microtasks)) /\ table' = w
    BY <1>4 DEF Settling
  <2>2. \A p \in Promises : Strays(table, p) => ~IsTarget(table, p)
    BY DEF CombInv, Hidden
  <2>3. Keeps(Shorter(table), w) /\ \E X : Goes(table, w, X)
    BY <1>0, <2>1, <2>2, AloneAnswers
  <2> HIDE DEF w
  <2>4. \A p \in Promises : ReactionsOf(w, p) = ReactionsOf(Shorter(table), p)
    BY <2>3 DEF Keeps
  <2>5. QED
    BY <1>0, <2>1, <2>3, <2>4, ShorterSteps
<1>5. CASE Combining
  <2>1. PICK elements \in Lists, kind \in {"all", "allSettled", "any"} :
          HasRoomFor(table, NewFor(elements)) /\ table' = Combine(table, kind, elements)
    BY <1>5 DEF Combining
  <2>2. elements \in Seq(Promises \cup {Value}) /\ Known(table, elements)
    BY <1>0, ListTypes, ListsKnown
  <2>3. Combines(table, Combine(table, kind, elements))
    BY <1>0, <2>1, <2>2, CombineAnswers
  <2>4. Lengthens(table, table') /\ Goes(table, table', {})
    BY <2>1, <2>3 DEF Combines
  <2>5. QED
    BY <1>1, <2>4
<1>6. QED
  BY <1>2, <1>3, <1>4, <1>5 DEF Steps

\* What ReactionQueue sees of the table.
QueuesNow == [p \in Promises |-> ReactionsOf(table, p)]
SettledNow == {p \in Promises : table.state[p] \in {"fulfilled", "rejected"}}

\* The loop implements the queues of ReactionQueue: the reactions of a promise run
\* one by one in the order of their registration, each once, and only after the
\* promise is settled, whichever of schedule_reaction and settle_promise queued
\* them (promise.rs).
THEOREM QueuesAreServed == Spec => ReactionsRunInOrder
<1>1. Init => Queues!Init
  <2> SUFFICES ASSUME Init PROVE Queues!Init
    OBVIOUS
  <2>1. table = NoPromises
    BY DEF Init, LoopInit
  <2>2. \A p \in Promises : table.state[p] = "absent" /\ table.reactions[p] = <<>>
    BY <2>1 DEF NoPromises
  <2>3. \A p \in Promises : ReactionsOf(table, p) = <<>>
    <3> SUFFICES ASSUME NEW p \in Promises PROVE ReactionsOf(table, p) = <<>>
      OBVIOUS
    <3>1. QueuedOf(table.microtasks, p) = <<>>
      BY <2>1, QueuedNone DEF NoPromises
    <3>2. <<>> \o <<>> = <<>>
      OBVIOUS
    <3>3. QED
      BY <2>2, <3>1, <3>2 DEF ReactionsOf
  <2>4. QED
    BY <2>2, <2>3 DEF Queues!Init
<1>2. IInv /\ CombInv /\ [Next]_vars => [Queues!Next]_<<QueuesNow, SettledNow>>
  <2> SUFFICES ASSUME IInv, CombInv, [Next]_vars PROVE Queues!Next
    OBVIOUS
  <2>1. /\ \A p \in Promises : Stepping(ReactionsOf(table, p), ReactionsOf(table', p),
                                        table.state[p] \in {"fulfilled", "rejected"})
        /\ \E X : Goes(table, table', X)
    BY NextSteps, QueuesStep
  <2>2. SettledNow \subseteq SettledNow'
    BY <2>1, SettledStays DEF SettledNow
  <2>3. \A p \in Promises : QueuesNow'[p] = QueuesNow[p] \/ Queues!Arrives(p) \/ Queues!Runs(p)
    BY <2>1 DEF Stepping, Queues!Arrives, Queues!Runs, QueuesNow
  <2>4. QED
    BY <2>2, <2>3 DEF Queues!Next, QueuesNow, SettledNow
<1>3. QED
  BY <1>1, <1>2, CombinatorsInvariant, PTL DEF Spec, ReactionsRunInOrder, Queues!Spec, QueuesNow, SettledNow

=============================================================================
