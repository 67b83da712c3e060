------------------------- MODULE AsyncGeneratorProofs -------------------------
(***************************************************************************)
(* Proofs about EventLoop and AsyncGenerator for any program, number of    *)
(* promises and calls: rejections, the body of a generator, its requests,  *)
(* and the end of the loop.                                                *)
(***************************************************************************)
EXTENDS AsyncGenerator, FiniteSetTheorems, WellFoundedInduction, TLAPS

-----------------------------------------------------------------------------
(* The inductive invariant.                                                *)

\* The table: only a pending promise has reactions, whoever is listened to has
\* been marked so and is not listed for a report, elements name combinators,
\* and promises are created in order.
Listens(t) ==
  /\ \A p \in Promises : t.reactions[p] # <<>> => Is(t, p, "pending") /\ p \in t.handled
  /\ \A i \in DOMAIN t.microtasks : t.microtasks[i].kind = "reaction" => t.microtasks[i].of \in t.handled
  /\ t.unhandled \cap t.handled = {}

Names(t, reaction) == reaction.kind = "element" => reaction.combinator \in DOMAIN t.combinators
ElementsExist(t) ==
  /\ \A p \in Promises : \A k \in DOMAIN t.reactions[p] : Names(t, t.reactions[p][k])
  /\ \A i \in DOMAIN t.microtasks :
       t.microtasks[i].kind = "reaction" => Names(t, t.microtasks[i].reaction)

InOrder(t) == \A p, q \in Promises : q < p /\ Exists(t, p) => Exists(t, q)
Sound(t) == Listens(t) /\ ElementsExist(t) /\ InOrder(t)
Exact(t) == t.unhandled = {p \in Promises : Is(t, p, "rejected")} \ t.handled

\* Who may settle promise p: a reaction, a job or a combinator that aims at it,
\* a callback on the stack, the program.
Targets == {"handler", "finally", "finallyResult", "resume"}
ReactionAims(reaction, p) == reaction.kind \in Targets /\ reaction.target = p
JobAims(job, p) ==
  \/ job.kind = "thenable" /\ job.target = p
  \/ job.kind = "reaction" /\ ReactionAims(job.reaction, p)
Aimed(t, p) ==
  \/ \E q \in Promises : \E k \in DOMAIN t.reactions[q] : ReactionAims(t.reactions[q][k], p)
  \/ \E i \in DOMAIN t.microtasks : JobAims(t.microtasks[i], p)
  \/ \E c \in DOMAIN t.combinators : t.combinators[c].target = p
StackAims(frames, p) == \E i \in DOMAIN frames : frames[i].run = "js" /\ JobAims(frames[i].job, p)
Claimed(t, program, frames, p) == Aimed(t, p) \/ p \in program \/ StackAims(frames, p)

\* The promises of the generator: nobody else settles them.
Own(p) == p = resume \/ \E i \in DOMAIN Open : Open[i].promise = p
OwnIsOwn ==
  /\ \A p \in Promises : Own(p) => Is(table, p, "pending")
  /\ \A p \in Promises : Own(p) \/ Is(table, p, "absent") => ~Claimed(table, resolvable, stack, p)
  /\ \A i, j \in DOMAIN Open : Open[i].promise = Open[j].promise => i = j

\* The places of the body in the table.
Rests(t, p, k) == k \in DOMAIN t.reactions[p] /\ t.reactions[p][k].kind = "generator"
IsQueued(t, i) == i \in DOMAIN t.microtasks /\ IsResumption(t.microtasks[i])
RestsAt(t, p) == \E k \in Nat : Rests(t, p, k)
Waits(t) == \E i \in Nat : IsQueued(t, i)
Somewhere(t) == Waits(t) \/ \E p \in Promises : RestsAt(t, p)
AtMostOnce(t) ==
  /\ \A p, q \in Promises : RestsAt(t, p) /\ RestsAt(t, q) => p = q
  /\ \A p \in Promises : \A k, l \in Nat : Rests(t, p, k) /\ Rests(t, p, l) => k = l
  /\ \A i, j \in Nat : IsQueued(t, i) /\ IsQueued(t, j) => i = j
  /\ \A p \in Promises : ~(Waits(t) /\ RestsAt(t, p))
Runs(frames) == \E i \in DOMAIN frames : IsBody(frames[i])
RunsOnce(frames) == \A i, j \in DOMAIN frames : IsBody(frames[i]) /\ IsBody(frames[j]) => i = j

BodyStands ==
  /\ AtMostOnce(table) /\ RunsOnce(stack) /\ ~(Runs(stack) /\ Somewhere(table))
  /\ Runs(stack) \/ Somewhere(table) <=> status \in {"executing", "yield"}
  /\ status = "yield" => RestsAt(table, resume)
  /\ queue # <<>> => status = "executing"

\* The stack: the script, a poll or the drain that reports is at the bottom and
\* nowhere else, and the callback of a tick returns to a drain.
IsScript(frame) == frame.run = "js" /\ frame.job.kind \in {"script", "poll"}
IsTick(frame) == frame.run = "js" /\ frame.job.kind = "callback"
RunsHandler(frame) ==
  frame.run = "js" /\ frame.job.kind = "reaction" =>
    frame.job.reaction.kind \in {"handler", "finally", "resume"}
Stands(frames) ==
  /\ \A i \in DOMAIN frames : frames[i].run = "drain" => frames[i].check = (i = 1)
  /\ \A i \in DOMAIN frames : frames[i].run = "js" => (IsScript(frames[i]) <=> i = 1)
  /\ \A i \in DOMAIN frames : IsTick(frames[i]) => frames[i - 1].run = "drain"
  /\ \A i \in DOMAIN frames : RunsHandler(frames[i])

\* The loop decides only when the outer drain has reported, and ends with
\* nothing left.
LoopStands ==
  /\ phase = "decide" => exit = "none" /\ table.unhandled = {}
  /\ phase = "ended" /\ exit = "none" =>
       QueuesEmpty /\ external = 0 /\ table.unhandled = {}

IInv ==
  /\ TypeOK /\ Sound(table) /\ (exit # "rejection" => Exact(table))
  /\ OwnIsOwn /\ BodyStands /\ Stands(stack) /\ LoopStands
-----------------------------------------------------------------------------
(* Numbers. *)

LEMMA Smallest ==
  ASSUME NEW T \in SUBSET Nat, T # {}
  PROVE  \E x \in T : \A y \in T : ~(y < x)
<1>1. IsWellFoundedOn(OpToRel(<, Nat), Nat)
  BY NatLessThanWellFounded, Zenon
<1>2. \E x \in T : \A y \in T : ~(<<y, x>> \in OpToRel(<, Nat))
  BY <1>1, WFMin, Zenon
<1>3. QED
  BY <1>2 DEF OpToRel

LEMMA LeastNat ==
  ASSUME NEW T \in SUBSET Nat, T # {}
  PROVE  \E x \in T : \A y \in T : x <= y
<1>1. PICK x \in T : \A y \in T : ~(y < x)
  BY Smallest
<1>2. \A y \in T : x <= y
  BY <1>1
<1>3. QED
  BY <1>2

LEMMA NatInSet ==
  ASSUME NEW S, 0 \in S, \A n \in Nat : n \in S => n + 1 \in S
  PROVE  Nat \subseteq S
<1> SUFFICES ASSUME Nat \ S # {} PROVE FALSE
  OBVIOUS
<1>1. PICK x \in Nat \ S : \A y \in Nat \ S : ~(y < x)
  BY Smallest
<1>2. x # 0 /\ x - 1 \in Nat /\ x - 1 < x
  BY <1>1
<1>3. QED
  BY <1>1, <1>2

LEMMA UpTo ==
  ASSUME NEW n \in Nat, NEW S, 0 \in S, \A k \in 0..(n - 1) : k \in S => k + 1 \in S
  PROVE  0..n \subseteq S
<1> DEFINE A == S \cup {k \in Nat : k > n}
<1>1. 0 \in A
  OBVIOUS
<1>2. \A k \in Nat : k \in A => k + 1 \in A
  OBVIOUS
<1>3. Nat \subseteq A
  <2> HIDE DEF A
  <2>1. QED
    BY <1>1, <1>2, NatInSet
<1>4. QED
  BY <1>3

-----------------------------------------------------------------------------
(* The promise table. *)

\* The next promise is one that does not exist yet.
LEMMA FreshPromise ==
  ASSUME NEW t \in Tables, HasRoom(t)
  PROVE  /\ Fresh(t) \in Promises /\ t.state[Fresh(t)] = "absent"
         /\ \A q \in Promises : q < Fresh(t) => Exists(t, q)
<1> DEFINE free == {p \in Promises : ~Exists(t, p)}
<1>1. free # {} /\ free \in SUBSET Nat
  BY DEF HasRoom, Promises
<1>2. PICK p \in free : \A q \in free : p <= q
  BY <1>1, LeastNat
<1>3. \E r \in Promises : ~Exists(t, r) /\ \A q \in Promises : q < r => Exists(t, q)
  <2>1. \A q \in Promises : q < p => Exists(t, q)
    BY <1>2, PromisesAssumption DEF Promises
  <2>2. QED
    BY <1>2, <2>1
<1>4. QED
  BY <1>3 DEF Fresh, Exists, Is


-----------------------------------------------------------------------------
(* What the operators do to the table. *)

\* Reactions, jobs and the fields of a table are typed as the code builds them.
LEMMA ReactionTypes ==
  /\ \A p \in Promises, f, r \in BOOLEAN : Handler(f, r, p) \in Reactions
  /\ \A p \in Promises : PassThrough(p) \in Reactions
  /\ \A p \in Promises : Finally(p) \in Reactions /\ AsyncResume(p) \in Reactions
  /\ \A p \in Promises, r \in BOOLEAN : FinallyResult(p, r) \in Reactions
  /\ \A c \in Nat : Element(c) \in Reactions
  /\ Resumption \in Reactions
  /\ \A x \in Reactions : x.kind \in Targets \cup {"element", "generator"}
  /\ \A x \in Reactions : x.kind \in Targets => x.target \in Promises
  /\ \A x \in Reactions : x.kind = "finallyResult" => x.rejected \in BOOLEAN
  /\ \A x \in Reactions : x.kind = "handler" => x.f \in BOOLEAN /\ x.r \in BOOLEAN
BY DEF Reactions, PassThrough, Handler, Finally, AsyncResume, FinallyResult, Element, Resumption, Targets

LEMMA JobTypes ==
  /\ \A p \in Promises, x \in Reactions, rejected \in BOOLEAN : Reaction(p, x, rejected) \in Jobs
  /\ \A p \in Promises : ThenableJob(p) \in Jobs
  /\ Callback \in Jobs
  /\ \A x \in Jobs : x.kind \in {"callback", "thenable", "reaction"}
  /\ \A x \in Jobs : x.kind = "thenable" => x.target \in Promises
  /\ \A x \in Jobs : x.kind = "reaction" =>
       x.of \in Promises /\ x.reaction \in Reactions /\ x.rejected \in BOOLEAN
BY DEF Jobs, Reaction, ThenableJob, Callback

LEMMA TableTypes ==
  ASSUME NEW t \in Tables
  PROVE  /\ t.state \in [Promises -> PromiseStates] /\ t.handled \in SUBSET Promises
         /\ t.reactions \in [Promises -> Seq(Reactions)]
         /\ t.microtasks \in Seq(Jobs)
         /\ t.unhandled \in SUBSET Promises /\ t.combinators \in Seq(Combinators)
BY DEF Tables

\* What enqueueing, creating, hearing, settling and subscribing leave behind.
LEMMA EnqueueIs ==
  ASSUME NEW t \in Tables, NEW job \in Jobs
  PROVE  /\ Enqueue(t, <<job>>) \in Tables
         /\ Enqueue(t, <<job>>).state = t.state
         /\ Enqueue(t, <<job>>).reactions = t.reactions
         /\ Enqueue(t, <<job>>).handled = t.handled
         /\ Enqueue(t, <<job>>).unhandled = t.unhandled
         /\ Enqueue(t, <<job>>).combinators = t.combinators
         /\ Enqueue(t, <<job>>).microtasks = Append(t.microtasks, job)
<1>1. <<job>> \in Seq(Jobs) /\ t.microtasks \in Seq(Jobs)
  BY DEF Tables
<1>2. t.microtasks \o <<job>> = Append(t.microtasks, job)
  BY <1>1
<1>3. t.microtasks \o <<job>> \in Seq(Jobs)
  BY <1>1
<1>4. QED
  BY <1>2, <1>3 DEF Enqueue, Tables

LEMMA CreateIs ==
  ASSUME NEW t \in Tables, HasRoom(t)
  PROVE  /\ Create(t) \in Tables /\ Create(t).reactions = t.reactions
         /\ Create(t).microtasks = t.microtasks /\ Create(t).handled = t.handled
         /\ Create(t).unhandled = t.unhandled /\ Create(t).combinators = t.combinators
         /\ Create(t).state = [t.state EXCEPT ![Fresh(t)] = "pending"]
         /\ Fresh(t) \in Promises /\ t.state[Fresh(t)] = "absent"
         /\ \A q \in Promises : q < Fresh(t) => Exists(t, q)
<1>1. Fresh(t) \in Promises /\ t.state[Fresh(t)] = "absent" /\ \A q \in Promises : q < Fresh(t) => Exists(t, q)
  BY FreshPromise
<1>2. QED
  BY <1>1 DEF Create, Tables, PromiseStates

LEMMA MarkHandledIs ==
  ASSUME NEW t \in Tables, NEW p \in Promises
  PROVE  /\ MarkHandled(t, p) \in Tables /\ MarkHandled(t, p).reactions = t.reactions
         /\ MarkHandled(t, p).microtasks = t.microtasks /\ MarkHandled(t, p).state = t.state
         /\ MarkHandled(t, p).combinators = t.combinators
         /\ MarkHandled(t, p).handled = t.handled \cup {p}
         /\ MarkHandled(t, p).unhandled = t.unhandled \ {p}
BY DEF MarkHandled, Tables

\* u is t with promise p settled.
Settled(t, u, p, rejected) ==
  /\ u \in Tables
  /\ u.state = [t.state EXCEPT ![p] = IF rejected THEN "rejected" ELSE "fulfilled"]
  /\ u.reactions = [t.reactions EXCEPT ![p] = <<>>]
  /\ u.handled = t.handled /\ u.combinators = t.combinators
  /\ u.unhandled = IF rejected THEN t.unhandled \cup ({p} \ t.handled) ELSE t.unhandled
  /\ Len(u.microtasks) = Len(t.microtasks) + Len(t.reactions[p])
  /\ \A i \in DOMAIN t.microtasks : u.microtasks[i] = t.microtasks[i]
  /\ \A i \in DOMAIN t.reactions[p] :
       u.microtasks[Len(t.microtasks) + i] = Reaction(p, t.reactions[p][i], rejected)

LEMMA SettleIs ==
  ASSUME NEW t \in Tables, NEW p \in Promises, NEW rejected \in BOOLEAN,
         Is(t, p, "pending")
  PROVE  Settled(t, Settle(t, p, rejected), p, rejected)
<1> DEFINE u == Settle(t, p, rejected)
<1> DEFINE waiting == t.reactions[p]
           jobs == [i \in DOMAIN waiting |-> Reaction(p, waiting[i], rejected)]
           M == t.microtasks
<1>1. /\ waiting \in Seq(Reactions) /\ M \in Seq(Jobs)
      /\ t.state \in [Promises -> PromiseStates] /\ t.handled \in SUBSET Promises
      /\ t.reactions \in [Promises -> Seq(Reactions)] /\ t.unhandled \in SUBSET Promises
  BY TableTypes
<1>2. jobs \in Seq(Jobs) /\ Len(jobs) = Len(waiting)
      /\ \A i \in DOMAIN waiting : jobs[i] = Reaction(p, waiting[i], rejected)
  <2>1. \A i \in 1..Len(waiting) : Reaction(p, waiting[i], rejected) \in Jobs
    BY <1>1, JobTypes
  <2>2. DOMAIN waiting = 1..Len(waiting) /\ Len(waiting) \in Nat
    BY <1>1
  <2> HIDE DEF waiting
  <2>3. QED
    BY <2>1, <2>2
<1>3. u = [t EXCEPT !.microtasks = M \o jobs,
                    !.state = [t.state EXCEPT ![p] = IF rejected THEN "rejected" ELSE "fulfilled"],
                    !.reactions = [t.reactions EXCEPT ![p] = <<>>],
                    !.unhandled = IF rejected THEN t.unhandled \cup ({p} \ t.handled) ELSE t.unhandled]
  BY DEF Settle, Enqueue, Tables
<1> HIDE DEF jobs, waiting, M, u
<1>4. M \o jobs \in Seq(Jobs) /\ Len(M \o jobs) = Len(M) + Len(jobs)
      /\ (\A i \in DOMAIN M : (M \o jobs)[i] = M[i])
      /\ (\A i \in DOMAIN jobs : (M \o jobs)[Len(M) + i] = jobs[i])
  <2>1. \A S, a, b : a \in Seq(S) /\ b \in Seq(S) =>
          a \o b \in Seq(S) /\ Len(a \o b) = Len(a) + Len(b)
    OBVIOUS
  <2>2. \A S, a, b : a \in Seq(S) /\ b \in Seq(S) =>
          (\A i \in DOMAIN a : (a \o b)[i] = a[i])
    OBVIOUS
  <2>3. \A S, a, b : a \in Seq(S) /\ b \in Seq(S) =>
          (\A i \in DOMAIN b : (a \o b)[Len(a) + i] = b[i])
    OBVIOUS
  <2>4. M \in Seq(Jobs) /\ jobs \in Seq(Jobs)
    BY <1>1, <1>2
  <2>5. QED
    BY ONLY <2>1, <2>2, <2>3, <2>4
<1>5. [t.reactions EXCEPT ![p] = <<>>] \in [Promises -> Seq(Reactions)]
      /\ [t.state EXCEPT ![p] = IF rejected THEN "rejected" ELSE "fulfilled"] \in [Promises -> PromiseStates]
      /\ (IF rejected THEN t.unhandled \cup ({p} \ t.handled) ELSE t.unhandled) \in SUBSET Promises
  BY <1>1 DEF PromiseStates
<1>61. u \in Tables
  BY <1>3, <1>4, <1>5 DEF Tables
<1>60. DOMAIN t = {"state", "handled", "reactions", "microtasks", "unhandled", "combinators"}
  BY DEF Tables
<1>62. u.microtasks = M \o jobs
  BY <1>3, <1>60
<1>63. u.state = [t.state EXCEPT ![p] = IF rejected THEN "rejected" ELSE "fulfilled"]
  BY <1>3, <1>60
<1>64. u.reactions = [t.reactions EXCEPT ![p] = <<>>]
  BY <1>3, <1>60
<1>65. u.unhandled = IF rejected THEN t.unhandled \cup ({p} \ t.handled) ELSE t.unhandled
  BY <1>3, <1>60
<1>66. u.handled = t.handled /\ u.combinators = t.combinators
  BY <1>3, <1>60
<1>7. DOMAIN jobs = DOMAIN waiting
  BY DEF jobs
<1>8. /\ Len(u.microtasks) = Len(t.microtasks) + Len(t.reactions[p])
      /\ \A i \in DOMAIN t.microtasks : u.microtasks[i] = t.microtasks[i]
      /\ \A i \in DOMAIN t.reactions[p] :
           u.microtasks[Len(t.microtasks) + i] = Reaction(p, t.reactions[p][i], rejected)
  BY <1>2, <1>4, <1>62, <1>7 DEF M, waiting
<1>9. Settled(t, u, p, rejected)
  BY <1>61, <1>63, <1>64, <1>65, <1>66, <1>8 DEF Settled
<1>10. QED
  BY <1>9 DEF u

LEMMA SubscribeIs ==
  ASSUME NEW t \in Tables, NEW p \in Promises, NEW x \in Reactions
  PROVE  /\ Subscribe(t, p, x) \in Tables /\ Subscribe(t, p, x).state = t.state
         /\ Subscribe(t, p, x).handled = t.handled \cup {p}
         /\ Subscribe(t, p, x).unhandled = t.unhandled \ {p}
         /\ Subscribe(t, p, x).combinators = t.combinators
         /\ Is(t, p, "pending") =>
              /\ Subscribe(t, p, x).microtasks = t.microtasks
              /\ Subscribe(t, p, x).reactions = [t.reactions EXCEPT ![p] = Append(@, x)]
         /\ ~Is(t, p, "pending") =>
              /\ Subscribe(t, p, x).microtasks = Append(t.microtasks, Reaction(p, x, Is(t, p, "rejected")))
              /\ Subscribe(t, p, x).reactions = t.reactions
<1> DEFINE heard == MarkHandled(t, p)
<1>1. /\ heard \in Tables /\ heard.reactions = t.reactions
      /\ heard.microtasks = t.microtasks /\ heard.state = t.state
      /\ heard.handled = t.handled \cup {p} /\ heard.unhandled = t.unhandled \ {p}
      /\ heard.combinators = t.combinators
  BY MarkHandledIs
<1> HIDE DEF heard
<1>2. CASE Is(t, p, "pending")
  <2>1. Subscribe(t, p, x) =
          [heard EXCEPT !.reactions = [heard.reactions EXCEPT ![p] = Append(heard.reactions[p], x)]]
    BY <1>2 DEF Subscribe, heard
  <2>2. heard.reactions \in [Promises -> Seq(Reactions)]
    BY <1>1, TableTypes
  <2>3. Append(heard.reactions[p], x) \in Seq(Reactions)
    BY <2>2
  <2>4. [heard.reactions EXCEPT ![p] = Append(heard.reactions[p], x)] \in [Promises -> Seq(Reactions)]
    BY <2>2, <2>3
  <2>5. Subscribe(t, p, x) \in Tables
    BY <1>1, <2>1, <2>4 DEF Tables
  <2>6. DOMAIN heard = {"state", "handled", "reactions", "microtasks", "unhandled", "combinators"}
    BY <1>1 DEF Tables
  <2>7. QED
    BY <1>1, <1>2, <2>1, <2>5, <2>6
<1>3. CASE ~Is(t, p, "pending")
  <2>1. Subscribe(t, p, x) = Enqueue(heard, <<Reaction(p, x, Is(t, p, "rejected"))>>)
    BY <1>3 DEF Subscribe, heard
  <2> DEFINE job == Reaction(p, x, Is(t, p, "rejected"))
  <2>2. job \in Jobs
    BY JobTypes DEF Is
  <2> HIDE DEF job
  <2>4. /\ Enqueue(heard, <<job>>) \in Tables
        /\ Enqueue(heard, <<job>>).state = heard.state
        /\ Enqueue(heard, <<job>>).reactions = heard.reactions
        /\ Enqueue(heard, <<job>>).handled = heard.handled
        /\ Enqueue(heard, <<job>>).unhandled = heard.unhandled
        /\ Enqueue(heard, <<job>>).combinators = heard.combinators
        /\ Enqueue(heard, <<job>>).microtasks = Append(heard.microtasks, job)
    BY <1>1, <2>2, EnqueueIs
  <2>5. Subscribe(t, p, x) = Enqueue(heard, <<job>>)
    BY <2>1 DEF job
  <2>6. Subscribe(t, p, x).microtasks = Append(t.microtasks, Reaction(p, x, Is(t, p, "rejected")))
    BY <1>1, <2>4, <2>5 DEF job
  <2>7. QED
    BY <1>1, <1>3, <2>4, <2>5, <2>6
<1>4. QED
  BY <1>2, <1>3

-----------------------------------------------------------------------------
(* How a table may change: promises in X may be settled and aimed at, new  *)
(* ones as well; and the body of the generator rests where it was, unless  *)
(* what it waits for has been settled.                                     *)

Aims(t, u, X) ==
  \A p \in Promises : Aimed(u, p) => Aimed(t, p) \/ p \in X \/ (Is(t, p, "absent") /\ Exists(u, p))
Goes(t, u, X) ==
  \A p \in Promises :
    /\ u.state[p] = t.state[p] \/ Is(t, p, "absent") \/ (Is(t, p, "pending") /\ p \in X)
    /\ Exists(t, p) => Exists(u, p)
Changes(t, u, X) ==
  /\ u \in Tables /\ Sound(u) /\ (Exact(t) => Exact(u))
  /\ Goes(t, u, X) /\ Aims(t, u, X) /\ Len(t.combinators) <= Len(u.combinators)
Bodies(t, u) ==
  /\ AtMostOnce(t) => AtMostOnce(u)
  /\ Somewhere(u) <=> Somewhere(t)
  /\ \A p \in Promises : RestsAt(t, p) /\ u.state[p] = t.state[p] => RestsAt(u, p)

Evolves(t, u, X) == Changes(t, u, X) /\ Bodies(t, u)
Alike(t, u) ==
  /\ \A p \in Promises, k \in Nat : Rests(u, p, k) <=> Rests(t, p, k)
  /\ \A i \in Nat : IsQueued(u, i) <=> IsQueued(t, i)

\* A table with the same resumptions has the body at the same places.
LEMMA AlikeBodies ==
  ASSUME NEW t, NEW u, Alike(t, u)
  PROVE  Bodies(t, u)
<1>1. \A p \in Promises : RestsAt(u, p) <=> RestsAt(t, p)
  BY DEF Alike, RestsAt
<1>2. Waits(u) <=> Waits(t)
  BY DEF Alike, Waits
<1>3. Somewhere(u) <=> Somewhere(t)
  BY <1>1, <1>2 DEF Somewhere
<1>4. AtMostOnce(t) => AtMostOnce(u)
  BY <1>1, <1>2 DEF AtMostOnce, Alike
<1>5. QED
  BY <1>1, <1>3, <1>4 DEF Bodies

\* Only a promise that is pending is waited for.
LEMMA RestsPending ==
  ASSUME NEW t \in Tables, Listens(t), NEW p \in Promises, RestsAt(t, p)
  PROVE  Is(t, p, "pending")
<1>1. PICK k \in Nat : k \in DOMAIN t.reactions[p]
  BY DEF RestsAt, Rests
<1>2. t.reactions[p] # <<>>
  BY <1>1
<1>3. QED
  BY <1>2 DEF Listens

\* Changes follow one another.
LEMMA ChangesTrans ==
  ASSUME NEW t \in Tables, NEW u, NEW v, NEW X, NEW Y,
         Changes(t, u, X), Changes(u, v, Y), \A p \in Y : p \in X \/ (Is(t, p, "absent") /\ Exists(u, p))
  PROVE  Changes(t, v, X)
<1>1. u \in Tables /\ Sound(u) /\ v \in Tables /\ Sound(v) /\ (Exact(t) => Exact(v))
  BY DEF Changes
<1>2. Goes(t, v, X)
  BY DEF Changes, Goes, Exists, Is
<1>3. Aims(t, v, X)
  <2> SUFFICES ASSUME NEW p \in Promises, Aimed(v, p)
               PROVE  Aimed(t, p) \/ p \in X \/ (Is(t, p, "absent") /\ Exists(v, p))
    BY DEF Aims
  <2>1. Exists(u, p) => Exists(v, p)
    BY DEF Changes, Goes
  <2>2. Exists(t, p) => Exists(u, p)
    BY DEF Changes, Goes
  <2>3. Exists(t, p) \/ Is(t, p, "absent")
    BY DEF Exists
  <2>4. Is(u, p, "absent") => Is(t, p, "absent")
    BY <2>2, <2>3 DEF Exists
  <2>5. Aimed(u, p) \/ p \in Y \/ (Is(u, p, "absent") /\ Exists(v, p))
    BY DEF Changes, Aims
  <2>6. Aimed(u, p) => Aimed(t, p) \/ p \in X \/ (Is(t, p, "absent") /\ Exists(u, p))
    BY DEF Changes, Aims
  <2>7. CASE p \in Y
    BY <2>1, <2>7
  <2>8. QED
    BY <2>1, <2>4, <2>5, <2>6, <2>7
<1>4. Len(t.combinators) <= Len(v.combinators)
  <2>1. Len(t.combinators) \in Nat /\ Len(u.combinators) \in Nat /\ Len(v.combinators) \in Nat
    BY <1>1, TableTypes
  <2>2. QED
    BY <2>1 DEF Changes
<1>5. QED
  BY <1>1, <1>2, <1>3, <1>4 DEF Changes

LEMMA EvolvesTrans ==
  ASSUME NEW t \in Tables, Sound(t), NEW u, NEW v, NEW X, NEW Y,
         Evolves(t, u, X), Evolves(u, v, Y), \A p \in Y : p \in X \/ (Is(t, p, "absent") /\ Exists(u, p))
  PROVE  Evolves(t, v, X)
<1>1. Changes(t, v, X)
  BY ChangesTrans DEF Evolves
<1>2. Bodies(t, v)
  <2>1. (AtMostOnce(t) => AtMostOnce(v)) /\ (Somewhere(v) <=> Somewhere(t))
    BY DEF Evolves, Bodies
  <2>2. ASSUME NEW p \in Promises, RestsAt(t, p), v.state[p] = t.state[p]
        PROVE  RestsAt(v, p)
    <3>1. Is(t, p, "pending") /\ Exists(t, p)
      BY <2>2, RestsPending DEF Sound, Exists, Is
    <3>2. u.state[p] = t.state[p]
      BY <2>2, <3>1 DEF Evolves, Changes, Goes, Exists, Is
    <3>3. QED
      BY <2>2, <3>2 DEF Evolves, Bodies
  <2>3. QED
    BY <2>1, <2>2 DEF Bodies
<1>3. QED
  BY <1>1, <1>2 DEF Evolves

\* A table evolves into itself, by creating a promise, hearing one, or enqueueing.
LEMMA EvolvesSame ==
  ASSUME NEW t \in Tables, Sound(t), NEW X
  PROVE  Evolves(t, t, X)
<1>1. Alike(t, t)
  BY DEF Alike
<1>2. Len(t.combinators) <= Len(t.combinators)
  BY TableTypes
<1>3. QED
  BY <1>1, <1>2, AlikeBodies DEF Evolves, Changes, Goes, Aims

LEMMA EvolvesWider ==
  ASSUME NEW t, NEW u, NEW X, NEW Y, Evolves(t, u, X), X \subseteq Y
  PROVE  Evolves(t, u, Y)
BY DEF Evolves, Changes, Goes, Aims

LEMMA CreateEvolves ==
  ASSUME NEW t \in Tables, Sound(t), HasRoom(t)
  PROVE  Evolves(t, Create(t), {})
<1> DEFINE u == Create(t)
           p == Fresh(t)
<1>1. /\ u \in Tables /\ u.reactions = t.reactions
      /\ u.microtasks = t.microtasks /\ u.handled = t.handled
      /\ u.unhandled = t.unhandled /\ u.combinators = t.combinators
      /\ u.state = [t.state EXCEPT ![p] = "pending"]
      /\ p \in Promises /\ t.state[p] = "absent"
      /\ \A q \in Promises : q < p => Exists(t, q)
  BY CreateIs
<1> HIDE DEF u, p
<1>2. t.state \in [Promises -> PromiseStates]
  BY TableTypes
<1>3. u.state[p] = "pending" /\ \A q \in Promises : q # p => u.state[q] = t.state[q]
  BY <1>1, <1>2
<1>4. \A q \in Promises : Exists(u, q) <=> Exists(t, q) \/ q = p
  BY <1>1, <1>3 DEF Exists, Is
<1>5. Listens(u)
  BY <1>1, <1>3 DEF Sound, Listens, Is
<1>6. ElementsExist(u)
  BY <1>1 DEF Sound, ElementsExist, Names
<1>7. InOrder(u)
  BY <1>1, <1>4 DEF Sound, InOrder
<1>8. Exact(t) => Exact(u)
  BY <1>1, <1>3 DEF Exact, Is
<1>9. Goes(t, u, {})
  BY <1>1, <1>3 DEF Goes, Exists, Is
<1>10. Aims(t, u, {})
  BY <1>1 DEF Aims, Aimed
<1>11. Alike(t, u)
  BY <1>1 DEF Alike, Rests, IsQueued
<1>12. Len(t.combinators) <= Len(u.combinators)
  BY <1>1, TableTypes
<1>13. QED
  BY <1>1, <1>5, <1>6, <1>7, <1>8, <1>9, <1>10, <1>11, <1>12, AlikeBodies DEF Evolves, Changes, Sound, u

LEMMA MarkHandledEvolves ==
  ASSUME NEW t \in Tables, Sound(t), NEW p \in Promises
  PROVE  Evolves(t, MarkHandled(t, p), {})
<1> DEFINE u == MarkHandled(t, p)
<1>1. /\ u \in Tables /\ u.reactions = t.reactions
      /\ u.microtasks = t.microtasks /\ u.state = t.state
      /\ u.combinators = t.combinators
      /\ u.handled = t.handled \cup {p}
      /\ u.unhandled = t.unhandled \ {p}
  BY MarkHandledIs
<1> HIDE DEF u
<1>5. Listens(u)
  BY <1>1 DEF Sound, Listens, Is
<1>6. ElementsExist(u)
  BY <1>1 DEF Sound, ElementsExist, Names
<1>7. InOrder(u)
  BY <1>1 DEF Sound, InOrder, Exists, Is
<1>8. Exact(t) => Exact(u)
  BY <1>1 DEF Exact, Is
<1>9. Goes(t, u, {})
  BY <1>1 DEF Goes, Exists, Is
<1>10. Aims(t, u, {})
  BY <1>1 DEF Aims, Aimed
<1>11. Alike(t, u)
  BY <1>1 DEF Alike, Rests, IsQueued
<1>12. Len(t.combinators) <= Len(u.combinators)
  BY <1>1, TableTypes
<1>13. QED
  BY <1>1, <1>5, <1>6, <1>7, <1>8, <1>9, <1>10, <1>11, <1>12, AlikeBodies DEF Evolves, Changes, Sound, u

\* A job that names no combinator and is not the generator's.
LEMMA EnqueueEvolves ==
  ASSUME NEW t \in Tables, Sound(t), NEW job \in Jobs, job.kind # "reaction",
         NEW X, \A p \in Promises : JobAims(job, p) => p \in X
  PROVE  Evolves(t, Enqueue(t, <<job>>), X)
<1> DEFINE u == Enqueue(t, <<job>>)
           n == Len(t.microtasks)
<1>1. /\ u \in Tables /\ u.reactions = t.reactions
      /\ u.state = t.state /\ u.combinators = t.combinators
      /\ u.handled = t.handled /\ u.unhandled = t.unhandled
      /\ u.microtasks = Append(t.microtasks, job)
  BY EnqueueIs
<1> HIDE DEF u
<1>2. t.microtasks \in Seq(Jobs) /\ n \in Nat
  BY TableTypes
<1>3. /\ DOMAIN t.microtasks = 1..n /\ DOMAIN u.microtasks = 1..(n + 1)
      /\ \A i \in 1..n : u.microtasks[i] = t.microtasks[i]
      /\ u.microtasks[n + 1] = job
  BY <1>1, <1>2
<1>4. \A i \in DOMAIN u.microtasks : i \in DOMAIN t.microtasks \/ i = n + 1
  BY <1>2, <1>3
<1> HIDE DEF n
<1>5. Listens(u)
  BY <1>1, <1>3, <1>4 DEF Sound, Listens, Is
<1>6. ElementsExist(u)
  BY <1>1, <1>3, <1>4 DEF Sound, ElementsExist, Names
<1>7. InOrder(u)
  BY <1>1 DEF Sound, InOrder, Exists, Is
<1>8. Exact(t) => Exact(u)
  BY <1>1 DEF Exact, Is
<1>9. Goes(t, u, X)
  BY <1>1 DEF Goes, Exists, Is
<1>10. Aims(t, u, X)
  BY <1>1, <1>3, <1>4 DEF Aims, Aimed
<1>11. Alike(t, u)
  BY <1>1, <1>2, <1>3, <1>4 DEF Alike, Rests, IsQueued, IsResumption
<1>12. Len(t.combinators) <= Len(u.combinators)
  BY <1>1, TableTypes
<1>13. QED
  BY <1>1, <1>5, <1>6, <1>7, <1>8, <1>9, <1>10, <1>11, <1>12, AlikeBodies DEF Evolves, Changes, Sound, u

\* A subscription settles nobody; its reaction aims at what it names.
LEMMA SubscribeChanges ==
  ASSUME NEW t \in Tables, Sound(t), NEW p \in Promises, NEW x \in Reactions, Names(t, x),
         NEW X, \A q \in Promises : ReactionAims(x, q) => q \in X
  PROVE  Changes(t, Subscribe(t, p, x), X)
<1> DEFINE u == Subscribe(t, p, x)
           n == Len(t.microtasks)
           job == Reaction(p, x, Is(t, p, "rejected"))
<1>1. /\ u \in Tables /\ u.state = t.state
      /\ u.handled = t.handled \cup {p} /\ u.unhandled = t.unhandled \ {p}
      /\ u.combinators = t.combinators
      /\ Is(t, p, "pending") =>
           u.microtasks = t.microtasks /\ u.reactions = [t.reactions EXCEPT ![p] = Append(@, x)]
      /\ ~Is(t, p, "pending") =>
           u.microtasks = Append(t.microtasks, job) /\ u.reactions = t.reactions
  BY SubscribeIs
<1> HIDE DEF u
<1>2. t.microtasks \in Seq(Jobs) /\ n \in Nat /\ t.reactions \in [Promises -> Seq(Reactions)]
  BY TableTypes
<1>3. job.kind = "reaction" /\ job.of = p /\ job.reaction = x
  BY DEF Reaction
<1> HIDE DEF job
<1>4. \A i \in DOMAIN u.microtasks :
        \/ i \in DOMAIN t.microtasks /\ u.microtasks[i] = t.microtasks[i]
        \/ u.microtasks[i] = job
  <2>1. CASE Is(t, p, "pending")
    BY <1>1, <2>1
  <2>2. CASE ~Is(t, p, "pending")
    <3>1. u.microtasks = Append(t.microtasks, job)
      BY <1>1, <2>2
    <3>2. /\ DOMAIN t.microtasks = 1..n /\ DOMAIN u.microtasks = 1..(n + 1)
          /\ u.microtasks[n + 1] = job /\ \A i \in 1..n : u.microtasks[i] = t.microtasks[i]
      BY <1>2, <3>1
    <3> HIDE DEF n
    <3>3. \A i \in 1..(n + 1) : i \in 1..n \/ i = n + 1
      BY <1>2
    <3>4. QED
      BY <3>2, <3>3
  <2>3. QED
    BY <2>1, <2>2
<1>5. \A q \in Promises : \A k \in DOMAIN u.reactions[q] :
        \/ k \in DOMAIN t.reactions[q] /\ u.reactions[q][k] = t.reactions[q][k]
        \/ u.reactions[q][k] = x
  <2>1. CASE Is(t, p, "pending")
    <3>1. u.reactions = [t.reactions EXCEPT ![p] = Append(t.reactions[p], x)]
      BY <1>1, <2>1
    <3>2. SUFFICES ASSUME NEW q \in Promises, NEW k \in DOMAIN u.reactions[q], u.reactions[q][k] # x
                   PROVE  k \in DOMAIN t.reactions[q] /\ u.reactions[q][k] = t.reactions[q][k]
      OBVIOUS
    <3>3. CASE q = p
      <4>1. u.reactions[q] = Append(t.reactions[q], x) /\ t.reactions[q] \in Seq(Reactions)
        BY <1>2, <3>1, <3>3
      <4>2. QED
        BY <3>2, <4>1
    <3>4. CASE q # p
      BY <1>2, <3>1, <3>4
    <3>5. QED
      BY <3>3, <3>4
  <2>2. CASE ~Is(t, p, "pending")
    BY <1>1, <2>2
  <2>3. QED
    BY <2>1, <2>2
<1>6. Listens(u)
  <2>1. \A q \in Promises : u.reactions[q] # <<>> => Is(u, q, "pending") /\ q \in u.handled
    <3>1. CASE Is(t, p, "pending")
      <4>1. \A q \in Promises : q # p => u.reactions[q] = t.reactions[q]
        BY <1>1, <1>2, <3>1
      <4>2. QED
        BY <1>1, <3>1, <4>1 DEF Sound, Listens, Is
    <3>2. CASE ~Is(t, p, "pending")
      BY <1>1, <3>2 DEF Sound, Listens, Is
    <3>3. QED
      BY <3>1, <3>2
  <2>2. \A i \in DOMAIN u.microtasks : u.microtasks[i].kind = "reaction" => u.microtasks[i].of \in u.handled
    BY <1>1, <1>3, <1>4 DEF Sound, Listens
  <2>3. u.unhandled \cap u.handled = {}
    BY <1>1 DEF Sound, Listens
  <2>4. QED
    BY <2>1, <2>2, <2>3 DEF Listens
<1>7. ElementsExist(u)
  BY <1>1, <1>3, <1>4, <1>5 DEF Sound, ElementsExist, Names
<1>8. InOrder(u)
  BY <1>1 DEF Sound, InOrder, Exists, Is
<1>9. Exact(t) => Exact(u)
  BY <1>1 DEF Exact, Is
<1>10. Goes(t, u, X)
  BY <1>1 DEF Goes, Exists, Is
<1>11. Aims(t, u, X)
  <2> SUFFICES ASSUME NEW q \in Promises, Aimed(u, q), q \notin X PROVE Aimed(t, q)
    BY DEF Aims
  <2>1. ~ReactionAims(x, q) /\ ~JobAims(job, q)
    BY <1>3 DEF JobAims
  <2>2. CASE \E r \in Promises : \E k \in DOMAIN u.reactions[r] : ReactionAims(u.reactions[r][k], q)
    BY <1>5, <2>1, <2>2 DEF Aimed
  <2>3. CASE \E i \in DOMAIN u.microtasks : JobAims(u.microtasks[i], q)
    BY <1>4, <2>1, <2>3 DEF Aimed
  <2>4. CASE \E c \in DOMAIN u.combinators : u.combinators[c].target = q
    BY <1>1, <2>4 DEF Aimed
  <2>5. QED
    BY <2>2, <2>3, <2>4 DEF Aimed
<1>12. Len(t.combinators) <= Len(u.combinators)
  BY <1>1, TableTypes
<1>13. QED
  BY <1>1, <1>6, <1>7, <1>8, <1>9, <1>10, <1>11, <1>12 DEF Changes, Sound, u

\* Where the generator's reactions are after a subscription.
LEMMA SubscribePlaces ==
  ASSUME NEW t \in Tables, NEW p \in Promises, NEW x \in Reactions
  PROVE  LET u == Subscribe(t, p, x)
             n == Len(t.microtasks)
             m == Len(t.reactions[p]) IN
         /\ n \in Nat /\ m \in Nat
         /\ \A q \in Promises, k \in Nat : Rests(t, q, k) => Rests(u, q, k)
         /\ \A i \in Nat : IsQueued(t, i) => IsQueued(u, i)
         /\ \A q \in Promises, k \in Nat : Rests(u, q, k) =>
              \/ Rests(t, q, k)
              \/ q = p /\ k = m + 1 /\ x.kind = "generator" /\ Is(t, p, "pending")
         /\ \A i \in Nat : IsQueued(u, i) =>
              \/ IsQueued(t, i)
              \/ i = n + 1 /\ x.kind = "generator" /\ ~Is(t, p, "pending")
         /\ x.kind = "generator" /\ Is(t, p, "pending") => Rests(u, p, m + 1)
         /\ x.kind = "generator" /\ ~Is(t, p, "pending") => IsQueued(u, n + 1)
<1> DEFINE u == Subscribe(t, p, x)
           n == Len(t.microtasks)
           m == Len(t.reactions[p])
           job == Reaction(p, x, Is(t, p, "rejected"))
<1>1. /\ Is(t, p, "pending") =>
           u.microtasks = t.microtasks /\ u.reactions = [t.reactions EXCEPT ![p] = Append(@, x)]
      /\ ~Is(t, p, "pending") =>
           u.microtasks = Append(t.microtasks, job) /\ u.reactions = t.reactions
  BY SubscribeIs
<1> HIDE DEF u
<1>2. t.microtasks \in Seq(Jobs) /\ n \in Nat /\ t.reactions \in [Promises -> Seq(Reactions)] /\ m \in Nat
      /\ t.reactions[p] \in Seq(Reactions)
  BY TableTypes
<1>3. job.kind = "reaction" /\ job.reaction = x
  BY DEF Reaction
<1> HIDE DEF job
<1>4. CASE Is(t, p, "pending")
  <2>1. \A q \in Promises : q # p => u.reactions[q] = t.reactions[q]
    BY <1>1, <1>2, <1>4
  <2>2. u.reactions[p] = Append(t.reactions[p], x)
    BY <1>1, <1>2, <1>4
  <2>3. DOMAIN u.reactions[p] = 1..(m + 1) /\ DOMAIN t.reactions[p] = 1..m
        /\ u.reactions[p][m + 1] = x /\ \A k \in 1..m : u.reactions[p][k] = t.reactions[p][k]
    BY <1>2, <2>2
  <2>4. u.microtasks = t.microtasks
    BY <1>1, <1>4
  <2>5. \A i \in Nat : IsQueued(u, i) <=> IsQueued(t, i)
    BY <2>4 DEF IsQueued
  <2> HIDE DEF m
  <2>6. \A k \in Nat : Rests(u, p, k) <=> Rests(t, p, k) \/ (k = m + 1 /\ x.kind = "generator")
    BY <1>2, <2>3 DEF Rests
  <2>7. \A q \in Promises, k \in Nat : q # p => (Rests(u, q, k) <=> Rests(t, q, k))
    BY <2>1 DEF Rests
  <2>8. /\ n \in Nat /\ m \in Nat
        /\ \A q \in Promises, k \in Nat : Rests(t, q, k) => Rests(u, q, k)
        /\ \A i \in Nat : IsQueued(t, i) => IsQueued(u, i)
        /\ \A q \in Promises, k \in Nat : Rests(u, q, k) =>
              Rests(t, q, k) \/ (q = p /\ k = m + 1 /\ x.kind = "generator" /\ Is(t, p, "pending"))
    BY <1>2, <1>4, <2>5, <2>6, <2>7
  <2>9. \A i \in Nat : IsQueued(u, i) => IsQueued(t, i)
    BY <2>5
  <2>10. x.kind = "generator" => Rests(u, p, m + 1)
    BY <1>2, <2>6
  <2>11. QED
    BY <1>4, <2>8, <2>9, <2>10 DEF u, m
<1>5. CASE ~Is(t, p, "pending")
  <2>1. u.reactions = t.reactions /\ u.microtasks = Append(t.microtasks, job)
    BY <1>1, <1>5
  <2>2. DOMAIN t.microtasks = 1..n /\ DOMAIN u.microtasks = 1..(n + 1)
        /\ u.microtasks[n + 1] = job /\ \A i \in 1..n : u.microtasks[i] = t.microtasks[i]
    BY <1>2, <2>1
  <2>3. \A q \in Promises, k \in Nat : Rests(u, q, k) <=> Rests(t, q, k)
    BY <2>1 DEF Rests
  <2> HIDE DEF n
  <2>4. \A i \in Nat : IsQueued(u, i) <=> IsQueued(t, i) \/ (i = n + 1 /\ x.kind = "generator")
    BY <1>2, <1>3, <2>2 DEF IsQueued, IsResumption
  <2>5. x.kind = "generator" => IsQueued(u, n + 1)
    BY <1>2, <2>4
  <2>6. QED
    BY <1>2, <1>5, <2>3, <2>4, <2>5 DEF u, n
<1>6. QED
  BY <1>4, <1>5

LEMMA SubscribeEvolves ==
  ASSUME NEW t \in Tables, Sound(t), NEW p \in Promises, NEW x \in Reactions, Names(t, x),
         x.kind # "generator", NEW X, \A q \in Promises : ReactionAims(x, q) => q \in X
  PROVE  Evolves(t, Subscribe(t, p, x), X)
<1>1. Changes(t, Subscribe(t, p, x), X)
  BY SubscribeChanges
<1>2. Alike(t, Subscribe(t, p, x))
  BY SubscribePlaces DEF Alike
<1>3. QED
  BY <1>1, <1>2, AlikeBodies DEF Evolves

\* The body of the generator, which was nowhere in the table, waits.
LEMMA SubscribeBody ==
  ASSUME NEW t \in Tables, Sound(t), NEW p \in Promises, ~Somewhere(t)
  PROVE  LET u == Subscribe(t, p, Resumption) IN
         /\ Changes(t, u, {}) /\ AtMostOnce(u) /\ Somewhere(u)
         /\ Is(t, p, "pending") => RestsAt(u, p)
<1> DEFINE u == Subscribe(t, p, Resumption)
           n == Len(t.microtasks)
           m == Len(t.reactions[p])
<1>1. Resumption \in Reactions /\ Resumption.kind = "generator" /\ Names(t, Resumption)
      /\ \A q \in Promises : ~ReactionAims(Resumption, q)
  BY ReactionTypes DEF Resumption, Names, ReactionAims, Targets
<1>2. Changes(t, u, {})
  BY <1>1, SubscribeChanges
<1>3. /\ n \in Nat /\ m \in Nat
      /\ \A q \in Promises, k \in Nat : Rests(u, q, k) =>
           Rests(t, q, k) \/ (q = p /\ k = m + 1 /\ Is(t, p, "pending"))
      /\ \A i \in Nat : IsQueued(u, i) => IsQueued(t, i) \/ (i = n + 1 /\ ~Is(t, p, "pending"))
      /\ Is(t, p, "pending") => Rests(u, p, m + 1)
      /\ ~Is(t, p, "pending") => IsQueued(u, n + 1)
  BY <1>1, SubscribePlaces
<1> HIDE DEF u, n, m
<1>4. /\ \A q \in Promises, k \in Nat : ~Rests(t, q, k)
      /\ \A i \in Nat : ~IsQueued(t, i)
  BY DEF Somewhere, RestsAt, Waits
<1>5. /\ \A q \in Promises, k \in Nat : Rests(u, q, k) => q = p /\ k = m + 1 /\ Is(t, p, "pending")
      /\ \A i \in Nat : IsQueued(u, i) => i = n + 1 /\ ~Is(t, p, "pending")
  BY <1>3, <1>4
<1>6. AtMostOnce(u)
  BY <1>5 DEF AtMostOnce, RestsAt, Waits
<1>7. Is(t, p, "pending") => RestsAt(u, p)
  BY <1>3 DEF RestsAt
<1>8. ~Is(t, p, "pending") => Waits(u)
  BY <1>3 DEF Waits
<1>9. QED
  BY <1>2, <1>6, <1>7, <1>8 DEF Somewhere, u

\* The positions of a sequence.
LEMMA Positions ==
  ASSUME NEW S, NEW a \in Seq(S)
  PROVE  DOMAIN a = 1..Len(a) /\ Len(a) \in Nat
OBVIOUS

\* settle_promise settles p only, and its jobs aim at what its reactions aimed at.
LEMMA SettleChanges ==
  ASSUME NEW t \in Tables, Sound(t), NEW p \in Promises, NEW rejected \in BOOLEAN, Is(t, p, "pending")
  PROVE  Changes(t, Settle(t, p, rejected), {p})
<1> DEFINE u == Settle(t, p, rejected)
           n == Len(t.microtasks)
<1>0. Settled(t, u, p, rejected)
  BY SettleIs
<1> HIDE DEF u
<1>1. /\ u \in Tables
      /\ u.state = [t.state EXCEPT ![p] = IF rejected THEN "rejected" ELSE "fulfilled"]
      /\ u.reactions = [t.reactions EXCEPT ![p] = <<>>]
      /\ u.handled = t.handled /\ u.combinators = t.combinators
      /\ u.unhandled = IF rejected THEN t.unhandled \cup ({p} \ t.handled) ELSE t.unhandled
  BY <1>0 DEF Settled
<1>2. t.microtasks \in Seq(Jobs) /\ n \in Nat /\ t.reactions \in [Promises -> Seq(Reactions)]
      /\ t.state \in [Promises -> PromiseStates]
  BY TableTypes
<1>3. \A i \in DOMAIN u.microtasks :
        \/ i \in DOMAIN t.microtasks /\ u.microtasks[i] = t.microtasks[i]
        \/ \E k \in DOMAIN t.reactions[p] :
             i = n + k /\ u.microtasks[i] = Reaction(p, t.reactions[p][k], rejected)
  <2> SUFFICES ASSUME NEW i \in DOMAIN u.microtasks, i \notin DOMAIN t.microtasks
               PROVE  \E k \in DOMAIN t.reactions[p] :
                        i = n + k /\ u.microtasks[i] = Reaction(p, t.reactions[p][k], rejected)
    BY <1>0 DEF Settled
  <2> DEFINE m == Len(t.reactions[p])
  <2>01. t.reactions[p] \in Seq(Reactions) /\ u.microtasks \in Seq(Jobs) /\ Len(u.microtasks) = n + m
    BY <1>0, <1>1, <1>2, TableTypes DEF Settled
  <2>02. DOMAIN t.microtasks = 1..n /\ DOMAIN t.reactions[p] = 1..m /\ m \in Nat
         /\ DOMAIN u.microtasks = 1..(n + m)
    <3>1. DOMAIN u.microtasks = 1..Len(u.microtasks)
      BY <2>01, Positions
    <3>2. DOMAIN t.microtasks = 1..n /\ DOMAIN t.reactions[p] = 1..m /\ m \in Nat
      BY <1>2, <2>01, Positions
    <3>3. QED
      BY <2>01, <3>1, <3>2
  <2>03. \A k \in DOMAIN t.reactions[p] : u.microtasks[n + k] = Reaction(p, t.reactions[p][k], rejected)
    BY <1>0 DEF Settled
  <2> HIDE DEF n, m
  <2>2. i - n \in DOMAIN t.reactions[p] /\ i = n + (i - n)
    BY <1>2, <2>02
  <2>3. QED
    BY <2>03, <2>2
<1>4. \A q \in Promises : u.reactions[q] = IF q = p THEN <<>> ELSE t.reactions[q]
  BY <1>1, <1>2
<1>41. \A q \in Promises : \A k \in DOMAIN u.reactions[q] :
         k \in DOMAIN t.reactions[q] /\ u.reactions[q][k] = t.reactions[q][k]
  BY <1>4
<1>5. \A q \in Promises :
        u.state[q] = IF q = p THEN IF rejected THEN "rejected" ELSE "fulfilled" ELSE t.state[q]
  BY <1>1, <1>2
<1>6. \A x : Reaction(p, x, rejected).kind = "reaction" /\ Reaction(p, x, rejected).of = p
             /\ Reaction(p, x, rejected).reaction = x
  BY DEF Reaction
<1>7. Listens(u)
  <2>1. \A q \in Promises : u.reactions[q] # <<>> => Is(u, q, "pending") /\ q \in u.handled
    BY <1>1, <1>4, <1>5 DEF Sound, Listens, Is
  <2>2. \A i \in DOMAIN u.microtasks : u.microtasks[i].kind = "reaction" => u.microtasks[i].of \in u.handled
    <3>1. \A k \in DOMAIN t.reactions[p] : p \in t.handled
      BY DEF Sound, Listens
    <3>2. QED
      BY <1>1, <1>3, <1>6, <3>1 DEF Sound, Listens
  <2>3. u.unhandled \cap u.handled = {}
    BY <1>1 DEF Sound, Listens
  <2>4. QED
    BY <2>1, <2>2, <2>3 DEF Listens
<1>8. ElementsExist(u)
  <2>1. \A q \in Promises : \A k \in DOMAIN u.reactions[q] : Names(u, u.reactions[q][k])
    BY <1>1, <1>41 DEF Sound, ElementsExist, Names
  <2>2. \A i \in DOMAIN u.microtasks : u.microtasks[i].kind = "reaction" => Names(u, u.microtasks[i].reaction)
    BY <1>1, <1>3, <1>6 DEF Sound, ElementsExist, Names
  <2>3. QED
    BY <2>1, <2>2 DEF ElementsExist
<1>9. \A q \in Promises : Exists(u, q) <=> Exists(t, q)
  BY <1>5 DEF Exists, Is
<1>10. InOrder(u)
  BY <1>9 DEF Sound, InOrder
<1>11. Exact(t) => Exact(u)
  <2> SUFFICES ASSUME Exact(t) PROVE Exact(u)
    OBVIOUS
  <2>1. t.unhandled = {q \in Promises : t.state[q] = "rejected"} \ t.handled
    BY DEF Exact, Is
  <2>2. t.state[p] = "pending"
    BY DEF Is
  <2>3. CASE rejected
    <3>1. {q \in Promises : u.state[q] = "rejected"} = {q \in Promises : t.state[q] = "rejected"} \cup {p}
      BY <1>5, <2>2, <2>3
    <3>2. QED
      BY <1>1, <2>1, <2>3, <3>1 DEF Exact, Is
  <2>4. CASE ~rejected
    <3>1. {q \in Promises : u.state[q] = "rejected"} = {q \in Promises : t.state[q] = "rejected"}
      BY <1>5, <2>2, <2>4
    <3>2. QED
      BY <1>1, <2>1, <2>4, <3>1 DEF Exact, Is
  <2>5. QED
    BY <2>3, <2>4
<1>12. Goes(t, u, {p})
  BY <1>5, <1>9 DEF Goes, Is
<1>13. Aims(t, u, {p})
  <2> SUFFICES ASSUME NEW q \in Promises, Aimed(u, q) PROVE Aimed(t, q)
    BY DEF Aims
  <2>1. CASE \E r \in Promises : \E k \in DOMAIN u.reactions[r] : ReactionAims(u.reactions[r][k], q)
    BY <1>41, <2>1 DEF Aimed
  <2>2. CASE \E i \in DOMAIN u.microtasks : JobAims(u.microtasks[i], q)
    <3>1. PICK i \in DOMAIN u.microtasks : JobAims(u.microtasks[i], q)
      BY <2>2
    <3>2. CASE i \in DOMAIN t.microtasks /\ u.microtasks[i] = t.microtasks[i]
      BY <3>1, <3>2 DEF Aimed
    <3>3. CASE \E k \in DOMAIN t.reactions[p] : u.microtasks[i] = Reaction(p, t.reactions[p][k], rejected)
      <4>1. PICK k \in DOMAIN t.reactions[p] : u.microtasks[i] = Reaction(p, t.reactions[p][k], rejected)
        BY <3>3
      <4>2. ReactionAims(t.reactions[p][k], q)
        BY <1>6, <3>1, <4>1 DEF JobAims
      <4>3. QED
        BY <4>2 DEF Aimed
    <3>4. QED
      BY <1>3, <3>2, <3>3
  <2>3. CASE \E c \in DOMAIN u.combinators : u.combinators[c].target = q
    BY <1>1, <2>3 DEF Aimed
  <2>4. QED
    BY <2>1, <2>2, <2>3 DEF Aimed
<1>14. Len(t.combinators) <= Len(u.combinators)
  BY <1>1, TableTypes
<1>15. QED
  BY <1>1, <1>7, <1>8, <1>10, <1>11, <1>12, <1>13, <1>14 DEF Changes, Sound, u

\* The reactions of the settled promise become jobs in their order.
LEMMA SettleBodies ==
  ASSUME NEW t \in Tables, NEW p \in Promises, NEW rejected \in BOOLEAN, Is(t, p, "pending")
  PROVE  Bodies(t, Settle(t, p, rejected))
<1> DEFINE u == Settle(t, p, rejected)
           n == Len(t.microtasks)
<1>0. Settled(t, u, p, rejected)
  BY SettleIs
<1> HIDE DEF u
<1>1. t.microtasks \in Seq(Jobs) /\ n \in Nat /\ t.reactions \in [Promises -> Seq(Reactions)]
      /\ t.reactions[p] \in Seq(Reactions) /\ u.microtasks \in Seq(Jobs) /\ t.state \in [Promises -> PromiseStates]
  BY <1>0, TableTypes DEF Settled
<1>2. /\ \A q \in Promises : u.reactions[q] = IF q = p THEN <<>> ELSE t.reactions[q]
      /\ u.state[p] # t.state[p]
  BY <1>0, <1>1 DEF Settled, Is
<1>31. Len(u.microtasks) = n + Len(t.reactions[p])
       /\ (\A i \in DOMAIN t.microtasks : u.microtasks[i] = t.microtasks[i])
       /\ \A k \in DOMAIN t.reactions[p] : u.microtasks[n + k] = Reaction(p, t.reactions[p][k], rejected)
  BY <1>0 DEF Settled
<1>3. /\ DOMAIN t.microtasks = 1..n /\ DOMAIN u.microtasks = 1..(n + Len(t.reactions[p]))
      /\ DOMAIN t.reactions[p] = 1..Len(t.reactions[p]) /\ Len(t.reactions[p]) \in Nat
      /\ \A i \in 1..n : u.microtasks[i] = t.microtasks[i]
      /\ \A k \in 1..Len(t.reactions[p]) : u.microtasks[n + k] = Reaction(p, t.reactions[p][k], rejected)
  <2>1. DOMAIN u.microtasks = 1..Len(u.microtasks)
    BY <1>1, Positions
  <2>2. DOMAIN t.microtasks = 1..n /\ DOMAIN t.reactions[p] = 1..Len(t.reactions[p]) /\ Len(t.reactions[p]) \in Nat
    BY <1>1, Positions
  <2>3. QED
    BY <1>31, <2>1, <2>2
<1>4. \A x : Reaction(p, x, rejected).kind = "reaction" /\ Reaction(p, x, rejected).reaction = x
  BY DEF Reaction
<1>5. \A q \in Promises, k \in Nat : Rests(u, q, k) <=> q # p /\ Rests(t, q, k)
  BY <1>2 DEF Rests
<1> HIDE DEF n
<1>6. \A i \in Nat : IsQueued(t, i) => IsQueued(u, i)
  <2>1. \A i \in 1..n : i \in 1..(n + Len(t.reactions[p]))
    BY <1>1, <1>3
  <2>2. QED
    BY <1>3, <2>1 DEF IsQueued
<1>7. \A k \in Nat : Rests(t, p, k) => IsQueued(u, n + k)
  <2> SUFFICES ASSUME NEW k \in Nat, Rests(t, p, k) PROVE IsQueued(u, n + k)
    OBVIOUS
  <2>1. k \in 1..Len(t.reactions[p]) /\ t.reactions[p][k].kind = "generator"
    BY <1>3 DEF Rests
  <2>2. n + k \in DOMAIN u.microtasks /\ u.microtasks[n + k] = Reaction(p, t.reactions[p][k], rejected)
    BY <1>1, <1>3, <2>1
  <2>3. QED
    BY <1>4, <2>1, <2>2 DEF IsQueued, IsResumption
<1>8. \A i \in Nat : IsQueued(u, i) => IsQueued(t, i) \/ \E k \in Nat : i = n + k /\ Rests(t, p, k)
  <2> SUFFICES ASSUME NEW i \in Nat, IsQueued(u, i), ~IsQueued(t, i)
               PROVE  \E k \in Nat : i = n + k /\ Rests(t, p, k)
    OBVIOUS
  <2>1. i \in 1..(n + Len(t.reactions[p])) /\ IsResumption(u.microtasks[i])
    BY <1>3 DEF IsQueued
  <2>2. i \notin 1..n
    BY <1>3, <2>1 DEF IsQueued
  <2>3. i - n \in 1..Len(t.reactions[p]) /\ i = n + (i - n) /\ i - n \in Nat
    BY <1>1, <1>3, <2>1, <2>2
  <2>4. u.microtasks[i] = Reaction(p, t.reactions[p][i - n], rejected)
    BY <1>3, <2>3
  <2>5. Rests(t, p, i - n)
    BY <1>3, <1>4, <2>1, <2>3, <2>4 DEF Rests, IsResumption
  <2>6. QED
    BY <2>3, <2>5
<1>9. \A k \in Nat : n + k \in Nat
  BY <1>1
<1>10. AtMostOnce(t) => AtMostOnce(u)
  <2> SUFFICES ASSUME AtMostOnce(t) PROVE AtMostOnce(u)
    OBVIOUS
  <2>1. \A q, r \in Promises : RestsAt(u, q) /\ RestsAt(u, r) => q = r
    BY <1>5 DEF AtMostOnce, RestsAt
  <2>2. \A q \in Promises : \A k, l \in Nat : Rests(u, q, k) /\ Rests(u, q, l) => k = l
    BY <1>5 DEF AtMostOnce
  <2>3. \A i, j \in Nat : IsQueued(u, i) /\ IsQueued(u, j) => i = j
    <3> SUFFICES ASSUME NEW i \in Nat, NEW j \in Nat, IsQueued(u, i), IsQueued(u, j) PROVE i = j
      OBVIOUS
    <3>1. CASE IsQueued(t, i) /\ IsQueued(t, j)
      BY <3>1 DEF AtMostOnce
    <3>2. CASE IsQueued(t, i) /\ ~IsQueued(t, j)
      BY <1>8, <3>2 DEF AtMostOnce, RestsAt, Waits
    <3>3. CASE ~IsQueued(t, i) /\ IsQueued(t, j)
      BY <1>8, <3>3 DEF AtMostOnce, RestsAt, Waits
    <3>4. CASE ~IsQueued(t, i) /\ ~IsQueued(t, j)
      <4>1. PICK k \in Nat : i = n + k /\ Rests(t, p, k)
        BY <1>8, <3>4
      <4>2. PICK l \in Nat : j = n + l /\ Rests(t, p, l)
        BY <1>8, <3>4
      <4>3. k = l
        BY <4>1, <4>2 DEF AtMostOnce
      <4>4. QED
        BY <4>1, <4>2, <4>3
    <3>5. QED
      BY <3>1, <3>2, <3>3, <3>4
  <2>4. \A q \in Promises : ~(Waits(u) /\ RestsAt(u, q))
    <3> SUFFICES ASSUME NEW q \in Promises, NEW i \in Nat, NEW k \in Nat, IsQueued(u, i), Rests(u, q, k)
                 PROVE  FALSE
      BY DEF Waits, RestsAt
    <3>1. q # p /\ Rests(t, q, k)
      BY <1>5
    <3>2. RestsAt(t, q)
      BY <3>1 DEF RestsAt
    <3>3. CASE IsQueued(t, i)
      BY <3>2, <3>3 DEF AtMostOnce, Waits
    <3>4. CASE ~IsQueued(t, i)
      <4>1. RestsAt(t, p)
        BY <1>8, <3>4 DEF RestsAt
      <4>2. QED
        BY <3>1, <3>2, <4>1 DEF AtMostOnce
    <3>5. QED
      BY <3>3, <3>4
  <2>5. QED
    BY <2>1, <2>2, <2>3, <2>4 DEF AtMostOnce
<1>11. Somewhere(t) => Somewhere(u)
  <2>1. CASE Waits(t)
    BY <1>6, <2>1 DEF Waits, Somewhere
  <2>2. CASE RestsAt(t, p)
    BY <1>7, <1>9, <2>2 DEF RestsAt, Waits, Somewhere
  <2>3. CASE \E q \in Promises : q # p /\ RestsAt(t, q)
    BY <1>5, <2>3 DEF RestsAt, Somewhere
  <2>4. QED
    BY <2>1, <2>2, <2>3 DEF Somewhere
<1>12. Somewhere(u) => Somewhere(t)
  <2>1. CASE Waits(u)
    BY <1>8, <2>1 DEF Waits, RestsAt, Somewhere
  <2>2. CASE \E q \in Promises : RestsAt(u, q)
    BY <1>5, <2>2 DEF RestsAt, Somewhere
  <2>3. QED
    BY <2>1, <2>2 DEF Somewhere
<1>13. \A q \in Promises : RestsAt(t, q) /\ u.state[q] = t.state[q] => RestsAt(u, q)
  BY <1>2, <1>5 DEF RestsAt
<1>14. QED
  BY <1>10, <1>11, <1>12, <1>13 DEF Bodies, u

\* settle_promise, of a promise in any state.
LEMMA SettleEvolves ==
  ASSUME NEW t \in Tables, Sound(t), NEW p \in Promises, NEW rejected \in BOOLEAN
  PROVE  Evolves(t, Settle(t, p, rejected), {p})
<1>1. CASE Is(t, p, "pending")
  BY <1>1, SettleChanges, SettleBodies DEF Evolves
<1>2. CASE ~Is(t, p, "pending")
  <2>1. Settle(t, p, rejected) = t
    BY <1>2 DEF Settle
  <2>2. QED
    BY <2>1, EvolvesSame
<1>3. QED
  BY <1>1, <1>2

-----------------------------------------------------------------------------
(* The operators of the program's calls and of the jobs.                   *)

\* What the reactions of then, finally and await settle: their own promise.
LEMMA AimsOf ==
  ASSUME NEW p \in Promises, NEW q \in Promises
  PROVE  /\ \A f, r \in BOOLEAN : ReactionAims(Handler(f, r, p), q) => q = p
         /\ ReactionAims(PassThrough(p), q) => q = p
         /\ ReactionAims(Finally(p), q) => q = p
         /\ ReactionAims(AsyncResume(p), q) => q = p
         /\ \A r \in BOOLEAN : ReactionAims(FinallyResult(p, r), q) => q = p
         /\ \A c \in Nat : ~ReactionAims(Element(c), q)
         /\ JobAims(ThenableJob(p), q) => q = p
         /\ ~JobAims(Callback, q)
BY DEF ReactionAims, JobAims, Handler, PassThrough, Finally, AsyncResume, FinallyResult, Element,
       ThenableJob, Callback, Targets

\* A reaction that is no element and not the body's.
Plain(x) == x.kind \notin {"element", "generator"}

LEMMA PlainReactions ==
  ASSUME NEW p \in Promises
  PROVE  /\ \A f, r \in BOOLEAN : Plain(Handler(f, r, p))
         /\ Plain(PassThrough(p)) /\ Plain(Finally(p)) /\ Plain(AsyncResume(p))
         /\ \A r \in BOOLEAN : Plain(FinallyResult(p, r))
BY DEF Plain, Handler, PassThrough, Finally, AsyncResume, FinallyResult

LEMMA SubscribePlain ==
  ASSUME NEW t \in Tables, Sound(t), NEW p \in Promises, NEW x \in Reactions, Plain(x),
         NEW X, \A q \in Promises : ReactionAims(x, q) => q \in X
  PROVE  Evolves(t, Subscribe(t, p, x), X)
<1>1. Names(t, x) /\ x.kind # "generator"
  BY DEF Plain, Names
<1>2. QED
  BY <1>1, SubscribeEvolves

Outcome(t) == {Value, Throw, Thenable} \cup {p \in Promises : Exists(t, p)}

\* resolve_into settles p only, now or later.
LEMMA ResolveEvolves ==
  ASSUME NEW t \in Tables, Sound(t), NEW p \in Promises, NEW result \in Outcome(t)
  PROVE  Evolves(t, ResolveInto(t, p, result), {p})
<1>1. CASE ~Is(t, p, "pending")
  <2>1. ResolveInto(t, p, result) = t
    BY <1>1 DEF ResolveInto
  <2>2. QED
    BY <2>1, EvolvesSame
<1>2. CASE Is(t, p, "pending") /\ result = Value
  <2>1. ResolveInto(t, p, result) = Settle(t, p, FALSE)
    BY <1>2, LoopAssumption DEF ResolveInto
  <2>2. QED
    BY <2>1, SettleEvolves
<1>3. CASE Is(t, p, "pending") /\ (result = Throw \/ result = p)
  <2>1. ResolveInto(t, p, result) = Settle(t, p, TRUE)
    BY <1>3, LoopAssumption DEF ResolveInto
  <2>2. QED
    BY <2>1, SettleEvolves
<1>4. CASE Is(t, p, "pending") /\ result = Thenable
  <2>1. ResolveInto(t, p, result) = Enqueue(t, <<ThenableJob(p)>>)
    BY <1>4, LoopAssumption DEF ResolveInto
  <2>2. ThenableJob(p) \in Jobs /\ ThenableJob(p).kind # "reaction"
    BY JobTypes DEF ThenableJob
  <2>3. \A q \in Promises : JobAims(ThenableJob(p), q) => q \in {p}
    BY AimsOf
  <2>4. QED
    BY <2>1, <2>2, <2>3, EnqueueEvolves
<1>5. CASE Is(t, p, "pending") /\ result \in Promises /\ result # p
  <2>1. ResolveInto(t, p, result) =
          IF Is(t, result, "pending") THEN Subscribe(t, result, PassThrough(p))
          ELSE Settle(MarkHandled(t, result), p, Is(t, result, "rejected"))
    BY <1>5, LoopAssumption DEF ResolveInto
  <2>2. CASE Is(t, result, "pending")
    <3>1. PassThrough(p) \in Reactions /\ Plain(PassThrough(p))
          /\ \A q \in Promises : ReactionAims(PassThrough(p), q) => q \in {p}
      BY ReactionTypes, PlainReactions, AimsOf
    <3>2. QED
      BY <1>5, <2>1, <2>2, <3>1, SubscribePlain
  <2>3. CASE ~Is(t, result, "pending")
    <3> DEFINE u == MarkHandled(t, result)
               v == Settle(u, p, Is(t, result, "rejected"))
    <3>1. Evolves(t, u, {})
      BY <1>5, MarkHandledEvolves
    <3>2. u \in Tables /\ Sound(u)
      BY <3>1 DEF Evolves, Changes
    <3> HIDE DEF u
    <3>3. Is(t, result, "rejected") \in BOOLEAN
      BY DEF Is
    <3>4. Evolves(u, v, {p})
      BY <3>2, <3>3, SettleEvolves
    <3> HIDE DEF v
    <3>5. Evolves(t, u, {p})
      BY <3>1, EvolvesWider
    <3>6. Evolves(t, v, {p})
      BY <3>4, <3>5, EvolvesTrans
    <3>7. QED
      BY <2>1, <2>3, <3>6 DEF u, v
  <2>4. QED
    BY <2>2, <2>3
<1>6. QED
  BY <1>1, <1>2, <1>3, <1>4, <1>5 DEF Outcome

\* What follows the creation of a promise may settle and aim at it.
LEMMA EvolvesFresh ==
  ASSUME NEW t \in Tables, Sound(t), HasRoom(t), NEW v, NEW X, Evolves(Create(t), v, X \cup {Fresh(t)})
  PROVE  Evolves(t, v, X)
<1>1. Evolves(t, Create(t), {})
  BY CreateEvolves
<1>2. Evolves(t, Create(t), X)
  BY <1>1, EvolvesWider
<1>3. Is(t, Fresh(t), "absent") /\ Exists(Create(t), Fresh(t))
  BY CreateIs, TableTypes DEF Is, Exists
<1>4. \A p \in X \cup {Fresh(t)} : p \in X \/ (Is(t, p, "absent") /\ Exists(Create(t), p))
  BY <1>3
<1>5. QED
  BY <1>2, <1>4, EvolvesTrans

\* A promise that was just created is pending.
LEMMA Created ==
  ASSUME NEW t \in Tables, Sound(t), HasRoom(t)
  PROVE  Create(t) \in Tables /\ Sound(Create(t)) /\ Fresh(t) \in Promises
         /\ Is(t, Fresh(t), "absent") /\ Is(Create(t), Fresh(t), "pending")
<1>1. Evolves(t, Create(t), {})
  BY CreateEvolves
<1>2. QED
  BY <1>1, CreateIs, TableTypes DEF Evolves, Changes, Is

\* then, finally, and an async function that awaits.
LEMMA CreateSubscribe ==
  ASSUME NEW t \in Tables, Sound(t), HasRoom(t), NEW p \in Promises, NEW x \in Reactions, Plain(x),
         \A q \in Promises : ReactionAims(x, q) => q = Fresh(t)
  PROVE  Evolves(t, Subscribe(Create(t), p, x), {})
<1>1. Create(t) \in Tables /\ Sound(Create(t))
  BY Created
<1>2. Evolves(Create(t), Subscribe(Create(t), p, x), {} \cup {Fresh(t)})
  BY <1>1, SubscribePlain
<1>3. QED
  BY <1>2, EvolvesFresh

\* A promise made for a value is resolved with it.
LEMMA CreateResolve ==
  ASSUME NEW t \in Tables, Sound(t), HasRoom(t), NEW result \in {Value, Thenable}
  PROVE  Evolves(Create(t), ResolveInto(Create(t), Fresh(t), result), {Fresh(t)})
<1>1. Create(t) \in Tables /\ Sound(Create(t)) /\ Fresh(t) \in Promises
  BY Created
<1>2. result \in Outcome(Create(t))
  BY DEF Outcome
<1>3. QED
  BY <1>1, <1>2, ResolveEvolves

\* A combinator that exists goes on existing.
LEMMA NamesStay ==
  ASSUME NEW t \in Tables, NEW u, NEW X, Evolves(t, u, X), NEW x, Names(t, x)
  PROVE  Names(u, x)
<1>1. u \in Tables /\ Len(t.combinators) <= Len(u.combinators)
  BY DEF Evolves, Changes
<1>2. t.combinators \in Seq(Combinators) /\ u.combinators \in Seq(Combinators)
  BY <1>1, TableTypes
<1>3. /\ DOMAIN t.combinators = 1..Len(t.combinators) /\ DOMAIN u.combinators = 1..Len(u.combinators)
      /\ Len(t.combinators) \in Nat /\ Len(u.combinators) \in Nat
  BY <1>2, Positions
<1>4. QED
  BY <1>1, <1>3 DEF Names

-----------------------------------------------------------------------------
(* Combinators. *)

\* Only the state of promise p and what hangs on it differs.
SameExist(t, u) == \A p \in Promises : Exists(u, p) <=> Exists(t, p)

LEMMA SettleExist ==
  ASSUME NEW t \in Tables, NEW p \in Promises, NEW rejected \in BOOLEAN
  PROVE  SameExist(t, Settle(t, p, rejected))
<1>1. CASE Is(t, p, "pending")
  <2>1. Settled(t, Settle(t, p, rejected), p, rejected)
    BY <1>1, SettleIs
  <2>2. t.state \in [Promises -> PromiseStates]
    BY TableTypes
  <2>3. QED
    BY <1>1, <2>1, <2>2 DEF Settled, SameExist, Exists, Is
<1>2. CASE ~Is(t, p, "pending")
  BY <1>2 DEF Settle, SameExist
<1>3. QED
  BY <1>1, <1>2

LEMMA SubscribeExist ==
  ASSUME NEW t \in Tables, NEW p \in Promises, NEW x \in Reactions
  PROVE  SameExist(t, Subscribe(t, p, x))
<1> DEFINE u == Subscribe(t, p, x)
<1>1. /\ u \in Tables /\ u.state = t.state
      /\ u.handled = t.handled \cup {p} /\ u.unhandled = t.unhandled \ {p}
      /\ u.combinators = t.combinators
      /\ Is(t, p, "pending") =>
           u.microtasks = t.microtasks /\ u.reactions = [t.reactions EXCEPT ![p] = Append(@, x)]
      /\ ~Is(t, p, "pending") =>
           /\ u.microtasks = Append(t.microtasks, Reaction(p, x, Is(t, p, "rejected")))
           /\ u.reactions = t.reactions
  BY SubscribeIs
<1>2. QED
  BY <1>1 DEF SameExist, Exists, Is

\* Room for n promises is room for one and n - 1 more.
LEMMA Rooms ==
  ASSUME NEW t \in Tables, InOrder(t), NEW n \in Nat, HasRoomFor(t, n), n > 0
  PROVE  HasRoom(t) /\ HasRoomFor(Create(t), n - 1)
<1>1. n \in Promises /\ ~Exists(t, MaxPromises + 1 - n) /\ MaxPromises \in Nat
  BY PromisesAssumption DEF HasRoomFor
<1> DEFINE p == MaxPromises + 1 - n
<1>2. p \in Promises
  BY <1>1 DEF Promises
<1>3. HasRoom(t)
  BY <1>1, <1>2 DEF HasRoom
<1>4. /\ Create(t).state = [t.state EXCEPT ![Fresh(t)] = "pending"] /\ Fresh(t) \in Promises
      /\ \A q \in Promises : q < Fresh(t) => Exists(t, q)
  BY <1>3, CreateIs
<1>5. CASE n = 1
  <2>1. n - 1 = 0
    BY <1>5
  <2>2. QED
    BY <1>3, <2>1 DEF HasRoomFor
<1>6. CASE n # 1
  <2>1. n - 1 \in Promises /\ p + 1 \in Promises /\ MaxPromises + 1 - (n - 1) = p + 1
    BY <1>1, <1>6 DEF Promises
  <2>2. ~(p < Fresh(t))
    BY <1>1, <1>2, <1>4
  <2>3. p + 1 # Fresh(t)
    BY <1>1, <1>2, <1>4, <2>2 DEF Promises
  <2>4. ~Exists(t, p + 1)
    <3>1. p < p + 1
      BY <1>1
    <3>2. QED
      BY <1>1, <1>2, <2>1, <3>1 DEF InOrder
  <2>5. t.state \in [Promises -> PromiseStates]
    BY TableTypes
  <2>6. ~Exists(Create(t), p + 1)
    BY <1>4, <2>1, <2>3, <2>4, <2>5 DEF Exists, Is
  <2>7. ~Exists(Create(t), MaxPromises + 1 - (n - 1))
    BY <2>1, <2>6
  <2>8. QED
    BY <1>3, <2>1, <2>7 DEF HasRoomFor
<1>7. QED
  BY <1>3, <1>5, <1>6

LEMMA RoomStays ==
  ASSUME NEW t, NEW u, SameExist(t, u), NEW n \in Nat, HasRoomFor(t, n)
  PROVE  HasRoomFor(u, n)
<1>1. CASE n = 0
  BY <1>1 DEF HasRoomFor
<1>2. CASE n # 0
  <2>1. n \in Promises /\ ~Exists(t, MaxPromises + 1 - n)
    BY <1>2 DEF HasRoomFor
  <2>2. MaxPromises + 1 - n \in Promises
    BY <2>1, PromisesAssumption DEF Promises
  <2>3. QED
    BY <2>1, <2>2 DEF HasRoomFor, SameExist
<1>3. QED
  BY <1>1, <1>2

\* An element needs a promise of its own unless it is one.
Needs(element) == IF IsPromise(element) THEN 0 ELSE 1

\* attach_element, of a promise or of a value that gets one of its own.
LEMMA AttachEvolves ==
  ASSUME NEW t \in Tables, Sound(t), NEW element \in Promises \cup {Value}, NEW x \in Reactions,
         Names(t, x), x.kind # "generator", NEW X, \A q \in Promises : ReactionAims(x, q) => q \in X,
         NEW n \in Nat, HasRoomFor(t, Needs(element) + n)
  PROVE  LET u == Attach(t, element, x) IN
         Evolves(t, u, X) /\ HasRoomFor(u, n)
<1>1. CASE element \in Promises
  <2>1. Attach(t, element, x) = Subscribe(t, element, x) /\ Needs(element) + n = n
    BY <1>1 DEF Attach, IsPromise, Needs
  <2>2. SameExist(t, Subscribe(t, element, x))
    BY <1>1, SubscribeExist
  <2>3. Evolves(t, Subscribe(t, element, x), X)
    BY <1>1, SubscribeEvolves
  <2>4. HasRoomFor(Subscribe(t, element, x), n)
    BY <2>1, <2>2, RoomStays
  <2>5. QED
    BY <2>1, <2>3, <2>4
<1>2. CASE element \notin Promises
  <2> DEFINE p == Fresh(t)
             u == Create(t)
             v == Settle(u, p, FALSE)
             w == Subscribe(v, p, x)
  <2>1. element = Value /\ Needs(element) + n = n + 1 /\ (n + 1) - 1 = n /\ n + 1 > 0 /\ n + 1 \in Nat
    BY <1>2 DEF Needs, IsPromise
  <2>2. HasRoom(t) /\ HasRoomFor(u, n)
    BY <2>1, Rooms DEF Sound
  <2>3. u \in Tables /\ Sound(u) /\ p \in Promises /\ Is(u, p, "pending") /\ Is(t, p, "absent")
    BY <2>2, Created
  <2>4. Attach(t, element, x) = w
    <3>1. ResolveInto(u, p, Value) = v
      BY <2>3, LoopAssumption DEF ResolveInto
    <3>2. QED
      BY <1>2, <2>1, <3>1 DEF Attach, IsPromise
  <2>5. Evolves(t, u, {})
    BY <2>2, CreateEvolves
  <2> HIDE DEF p, u
  <2>6. Evolves(u, v, {p})
    BY <2>3, SettleEvolves
  <2>7. SameExist(u, v)
    BY <2>3, SettleExist
  <2>8. v \in Tables /\ Sound(v)
    BY <2>6 DEF Evolves, Changes
  <2> HIDE DEF v
  <2>9. Names(u, x)
    BY <2>5, NamesStay
  <2>10. Names(v, x)
    BY <2>3, <2>6, <2>9, NamesStay
  <2>11. Evolves(v, w, X)
    BY <2>3, <2>8, <2>10, SubscribeEvolves
  <2>12. SameExist(v, w)
    BY <2>3, <2>8, SubscribeExist
  <2> HIDE DEF w
  <2>13. HasRoomFor(w, n)
    BY <2>2, <2>7, <2>12 , RoomStays
  <2>14. Evolves(u, v, X \cup {p}) /\ Evolves(v, w, X \cup {p})
    BY <2>6, <2>11, EvolvesWider
  <2>15. Evolves(u, w, X \cup {p})
    BY <2>3, <2>14, EvolvesTrans
  <2>16. Evolves(t, w, X)
    BY <2>2, <2>15, EvolvesFresh DEF u, p
  <2>17. QED
    BY <2>4, <2>13, <2>16
<1>3. QED
  BY <1>1, <1>2

\* after holds the tables that attaching the elements passes through.
Attached(t, x, elements, after) ==
  /\ after[0] = t /\ AttachAll(t, elements, x) = after[Len(elements)]
  /\ \A n \in 1..Len(elements) : after[n] = Attach(after[n - 1], elements[n], x)

\* The tables that attaching the elements passes through exist.
LEMMA AttachAllIs ==
  ASSUME NEW t, NEW x, NEW elements, Len(elements) \in Nat
  PROVE  \E after : Attached(t, x, elements, after)
<1> DEFINE N == Len(elements)
           At(f, n) == IF n = 0 THEN t ELSE Attach(f[n - 1], elements[n], x)
           S == {n \in Nat : \E f : f = [k \in 0..n |-> At(f, k)]}
<1>1. 0 \in S
  <2>1. [k \in 0..0 |-> t] = [j \in 0..0 |-> At([k \in 0..0 |-> t], j)]
    OBVIOUS
  <2>2. QED
    BY <2>1
<1>2. \A n \in 0..(N - 1) : n \in S => n + 1 \in S
  <2> SUFFICES ASSUME NEW n \in Nat, NEW f, f = [k \in 0..n |-> At(f, k)] PROVE n + 1 \in S
    OBVIOUS
  <2> DEFINE g == [k \in 0..(n + 1) |-> IF k <= n THEN f[k] ELSE At(f, n + 1)]
  <2>1. \A k \in 0..(n + 1) : g[k] = At(g, k)
    <3> SUFFICES ASSUME NEW k \in 0..(n + 1) PROVE g[k] = At(g, k)
      OBVIOUS
    <3>1. k # 0 => k - 1 \in 0..n /\ g[k - 1] = f[k - 1]
      OBVIOUS
    <3>2. CASE k <= n
      <4>1. g[k] = f[k] /\ f[k] = At(f, k)
        BY <3>2
      <4>2. QED
        BY <3>1, <4>1
    <3>3. CASE ~(k <= n)
      <4>1. k = n + 1 /\ g[k] = At(f, k)
        BY <3>3
      <4>2. QED
        BY <3>1, <4>1
    <3>4. QED
      BY <3>2, <3>3
  <2>2. g = [k \in 0..(n + 1) |-> At(g, k)]
    <3>1. DOMAIN g = 0..(n + 1)
      OBVIOUS
    <3>2. g = [k \in 0..(n + 1) |-> g[k]]
      OBVIOUS
    <3> HIDE DEF g, At
    <3>3. QED
      BY <2>1, <3>2
  <2>3. n + 1 \in Nat
    OBVIOUS
  <2> HIDE DEF g, At
  <2>4. QED
    BY <2>2, <2>3, Zenon
<1>3. N \in S
  <2> HIDE DEF S, N
  <2>1. N \in Nat
    BY DEF N
  <2>2. 0..N \subseteq S
    BY <1>1, <1>2, <2>1, UpTo
  <2>3. QED
    BY <2>1, <2>2
<1> DEFINE P(f) == f = [k \in 0..N |-> At(f, k)]
           after == CHOOSE f : P(f)
<1>4. P(after)
  BY <1>3
<1>5. AttachAll(t, elements, x) = after[N]
  BY DEF AttachAll
<1> HIDE DEF after
<1>6. after[0] = t /\ \A n \in 1..N : after[n] = At(after, n)
  BY <1>4
<1>7. Attached(t, x, elements, after)
  BY <1>5, <1>6 DEF Attached
<1>8. QED
  BY <1>7

\* The tables in between, by induction on the number of elements: a value finds room.
Between(t, elements, after, X) ==
  \A n \in 0..Len(elements) :
    /\ Evolves(t, after[n], X)
    /\ n < Len(elements) /\ elements[n + 1] = Value => HasRoom(after[n])

LEMMA AttachAllSteps ==
  ASSUME NEW t \in Tables, Sound(t), NEW elements \in Seq(Promises \cup {Value}), NEW x \in Reactions,
         Names(t, x), x.kind # "generator", NEW X, \A q \in Promises : ReactionAims(x, q) => q \in X,
         HasRoomFor(t, Cardinality({i \in DOMAIN elements : elements[i] = Value}))
  PROVE  \E after : Attached(t, x, elements, after) /\ Between(t, elements, after, X)
<1> DEFINE N == Len(elements)
           Left(n) == {j \in (n + 1)..N : elements[j] = Value}
<1>1. N \in Nat /\ DOMAIN elements = 1..N /\ \A i \in 1..N : elements[i] \in Promises \cup {Value}
  BY Positions
<1>20. PICK after : Attached(t, x, elements, after)
  BY <1>1, AttachAllIs
<1>2. /\ after[0] = t /\ AttachAll(t, elements, x) = after[N]
      /\ \A n \in 1..N : after[n] = Attach(after[n - 1], elements[n], x)
  BY <1>20 DEF Attached
<1> HIDE DEF N
<1> DEFINE S == {n \in Nat : n <= N => Evolves(t, after[n], X) /\ HasRoomFor(after[n], Cardinality(Left(n)))}
<1>3. 0 \in S
  <2>1. Evolves(t, t, X)
    BY EvolvesSame
  <2>2. Left(0) = {i \in DOMAIN elements : elements[i] = Value}
    BY <1>1
  <2> HIDE DEF Left
  <2>3. QED
    BY <1>2, <2>1, <2>2
<1>4. \A n \in Nat : IsFiniteSet(Left(n)) /\ Cardinality(Left(n)) \in Nat
  <2> SUFFICES ASSUME NEW n \in Nat PROVE IsFiniteSet(Left(n)) /\ Cardinality(Left(n)) \in Nat
    OBVIOUS
  <2>1. IsFiniteSet((n + 1)..N)
    BY <1>1, FS_Interval
  <2>2. IsFiniteSet(Left(n))
    BY <2>1, FS_Subset
  <2>3. QED
    BY <2>2, FS_CardinalityType
<1>5. \A n \in 0..(N - 1) : Cardinality(Left(n)) = Needs(elements[n + 1]) + Cardinality(Left(n + 1))
  <2> SUFFICES ASSUME NEW n \in 0..(N - 1)
               PROVE  Cardinality(Left(n)) = Needs(elements[n + 1]) + Cardinality(Left(n + 1))
    OBVIOUS
  <2>0. n + 1 \in 1..N /\ n + 1 \in Nat /\ n \in Nat
    BY <1>1
  <2>1. IsFiniteSet(Left(n + 1)) /\ Cardinality(Left(n + 1)) \in Nat
    BY <1>4, <2>0
  <2>2. CASE elements[n + 1] = Value
    <3>1. Left(n) = Left(n + 1) \cup {n + 1} /\ n + 1 \notin Left(n + 1)
      BY <1>1, <2>0, <2>2
    <3> HIDE DEF Left
    <3>2. Cardinality(Left(n)) = Cardinality(Left(n + 1)) + 1
      BY <2>1, <3>1, FS_AddElement
    <3>3. Needs(elements[n + 1]) = 1
      BY <2>2, LoopAssumption DEF Needs, IsPromise
    <3>4. QED
      BY <2>1, <3>2, <3>3
  <2>3. CASE elements[n + 1] # Value
    <3>1. Left(n) = Left(n + 1)
      BY <1>1, <2>0, <2>3
    <3> HIDE DEF Left
    <3>2. Needs(elements[n + 1]) = 0
      BY <1>1, <2>0, <2>3 DEF Needs, IsPromise
    <3>3. QED
      BY <2>1, <3>1, <3>2
  <2>4. QED
    BY <2>2, <2>3
<1> HIDE DEF Left
<1>6. \A n \in Nat : n \in S => n + 1 \in S
  <2> SUFFICES ASSUME NEW n \in Nat, n \in S, n + 1 <= N
               PROVE  Evolves(t, after[n + 1], X) /\ HasRoomFor(after[n + 1], Cardinality(Left(n + 1)))
    OBVIOUS
  <2>1. n \in 0..(N - 1) /\ n + 1 \in 1..N /\ (n + 1) - 1 = n /\ n <= N /\ n + 1 \in Nat
    BY <1>1
  <2>2. Evolves(t, after[n], X) /\ HasRoomFor(after[n], Cardinality(Left(n)))
    BY <2>1
  <2> DEFINE u == after[n]
             element == elements[n + 1]
             m == Cardinality(Left(n + 1))
  <2>3. after[n + 1] = Attach(u, element, x)
    BY <1>2, <2>1
  <2>4. u \in Tables /\ Sound(u) /\ Names(u, x)
    BY <2>2, NamesStay DEF Evolves, Changes
  <2>5. HasRoomFor(u, Needs(element) + m) /\ m \in Nat /\ element \in Promises \cup {Value}
    BY <1>1, <1>4, <1>5, <2>1, <2>2
  <2>6. Evolves(t, u, X)
    BY <2>2
  <2> HIDE DEF u, element, m, S
  <2>7. Evolves(u, Attach(u, element, x), X) /\ HasRoomFor(Attach(u, element, x), m)
    BY <2>4, <2>5, AttachEvolves
  <2>8. Evolves(t, Attach(u, element, x), X)
    BY <2>6, <2>7, EvolvesTrans
  <2>9. QED
    BY <2>3, <2>7, <2>8 DEF m
<1>7. \A n \in 0..N : Evolves(t, after[n], X) /\ HasRoomFor(after[n], Cardinality(Left(n)))
  <2> HIDE DEF S
  <2>1. Nat \subseteq S
    BY <1>3, <1>6, NatInSet
  <2>2. QED
    BY <1>1, <2>1 DEF S
<1>8. \A n \in 0..N : n < N /\ elements[n + 1] = Value => HasRoom(after[n])
  <2> SUFFICES ASSUME NEW n \in 0..N, n < N, elements[n + 1] = Value PROVE HasRoom(after[n])
    OBVIOUS
  <2>1. Evolves(t, after[n], X) /\ HasRoomFor(after[n], Cardinality(Left(n)))
    BY <1>7
  <2>2. n \in 0..(N - 1) /\ n + 1 \in Nat
    BY <1>1
  <2>3. Cardinality(Left(n)) = Needs(elements[n + 1]) + Cardinality(Left(n + 1)) /\ Cardinality(Left(n + 1)) \in Nat
    BY <1>4, <1>5, <2>2
  <2>4. Needs(elements[n + 1]) = 1
    BY LoopAssumption DEF Needs, IsPromise
  <2>5. Cardinality(Left(n)) \in Nat /\ Cardinality(Left(n)) > 0
    BY <2>3, <2>4
  <2>6. after[n] \in Tables /\ InOrder(after[n])
    BY <2>1 DEF Evolves, Changes, Sound
  <2>7. QED
    BY <2>1, <2>5, <2>6, Rooms
<1>9. QED
  BY <1>7, <1>8, <1>20 DEF Between, N

\* All elements.
LEMMA AttachAllEvolves ==
  ASSUME NEW t \in Tables, Sound(t), NEW elements \in Seq(Promises \cup {Value}), NEW x \in Reactions,
         Names(t, x), x.kind # "generator", NEW X, \A q \in Promises : ReactionAims(x, q) => q \in X,
         HasRoomFor(t, Cardinality({i \in DOMAIN elements : elements[i] = Value}))
  PROVE  Evolves(t, AttachAll(t, elements, x), X)
<1>1. PICK after : Attached(t, x, elements, after) /\ Between(t, elements, after, X)
  BY AttachAllSteps
<1>2. Len(elements) \in Nat
  BY Positions
<1>3. QED
  BY <1>1, <1>2 DEF Attached, Between

\* The combinators of a table may be added to and counted down.
LEMMA CombinatorsEvolve ==
  ASSUME NEW t \in Tables, Sound(t), NEW C \in Seq(Combinators), Len(t.combinators) <= Len(C),
         NEW X, \A c \in DOMAIN C : \/ C[c].target \in X
                                    \/ c \in DOMAIN t.combinators /\ C[c].target = t.combinators[c].target
  PROVE  Evolves(t, [t EXCEPT !.combinators = C], X)
<1> DEFINE u == [t EXCEPT !.combinators = C]
<1>0. DOMAIN t = {"state", "handled", "reactions", "microtasks", "unhandled", "combinators"}
  BY DEF Tables
<1>1. /\ u.reactions = t.reactions /\ u.microtasks = t.microtasks /\ u.handled = t.handled
      /\ u.unhandled = t.unhandled /\ u.combinators = C /\ u.state = t.state
  BY <1>0
<1>2. u \in Tables
  BY DEF Tables
<1> HIDE DEF u
<1>3. t.combinators \in Seq(Combinators)
  BY TableTypes
<1>4. /\ DOMAIN t.combinators = 1..Len(t.combinators) /\ DOMAIN u.combinators = 1..Len(u.combinators)
      /\ Len(t.combinators) \in Nat /\ Len(u.combinators) \in Nat
  BY <1>1, <1>3, Positions
<1>5. Listens(u)
  BY <1>1 DEF Sound, Listens, Is
<1>6. \A x : Names(t, x) => Names(u, x)
  BY <1>1, <1>4 DEF Names
<1>7. ElementsExist(u)
  BY <1>1, <1>6 DEF Sound, ElementsExist
<1>8. InOrder(u)
  BY <1>1 DEF Sound, InOrder, Exists, Is
<1>9. Exact(t) => Exact(u)
  BY <1>1 DEF Exact, Is
<1>10. Goes(t, u, X)
  BY <1>1 DEF Goes, Exists, Is
<1>11. Aims(t, u, X)
  BY <1>1 DEF Aims, Aimed
<1>12. Alike(t, u)
  BY <1>1 DEF Alike, Rests, IsQueued
<1>13. Len(t.combinators) <= Len(u.combinators)
  BY <1>1
<1>14. QED
  BY <1>2, <1>5, <1>7, <1>8, <1>9, <1>10, <1>11, <1>12, <1>13, AlikeBodies DEF Evolves, Changes, Sound, u

LEMMA ListTypes ==
  ASSUME NEW elements \in Lists
  PROVE  elements \in Seq(Promises \cup {Value})
<1> DEFINE E == Promises \cup {Value}
<1>1. <<>> \in Seq(E) /\ (\A e \in E : <<e>> \in Seq(E)) /\ \A e, f \in E : <<e, f>> \in Seq(E)
  OBVIOUS
<1>2. \/ elements = <<>>
      \/ \E e \in E : elements = <<e>>
      \/ \E e \in E : elements = <<e, Value>>
      \/ \E e, f \in E : elements = <<e, f>>
  BY DEF Lists, Existing
<1> HIDE DEF E
<1>3. Value \in E
  BY DEF E
<1>4. elements \in Seq(E)
  BY <1>1, <1>2, <1>3
<1>5. QED
  BY <1>4 DEF E

\* Promise.race, and Promise.all, allSettled and any.
LEMMA RaceEvolves ==
  ASSUME NEW t \in Tables, Sound(t), NEW elements \in Lists, HasRoomFor(t, NewFor(elements))
  PROVE  Evolves(t, Race(t, elements), {})
<1> DEFINE n == Cardinality({i \in DOMAIN elements : elements[i] = Value})
           u == Create(t)
           p == Fresh(t)
           x == PassThrough(p)
<1>1. elements \in Seq(Promises \cup {Value})
  BY ListTypes
<1>2. n \in Nat
  <2>1. DOMAIN elements = 1..Len(elements) /\ Len(elements) \in Nat
    BY <1>1, Positions
  <2>2. IsFiniteSet(DOMAIN elements)
    BY <2>1, FS_Interval
  <2>3. QED
    BY <2>2, FS_Subset, FS_CardinalityType
<1>3. NewFor(elements) = n + 1
  BY <1>2 DEF NewFor
<1> HIDE DEF n
<1>4. HasRoom(t) /\ HasRoomFor(u, n)
  <2>1. n + 1 \in Nat /\ n + 1 > 0 /\ (n + 1) - 1 = n
    BY <1>2
  <2>2. QED
    BY <1>3, <2>1, Rooms DEF Sound
<1>5. u \in Tables /\ Sound(u) /\ p \in Promises
  BY <1>4, Created
<1>6. Race(t, elements) = AttachAll(u, elements, x)
  BY DEF Race
<1>7. x \in Reactions /\ Names(u, x) /\ x.kind # "generator" /\ \A q \in Promises : ReactionAims(x, q) => q \in {p}
  BY <1>5, ReactionTypes, PlainReactions, AimsOf DEF Plain, Names
<1> HIDE DEF u, p, x
<1>8. Evolves(u, AttachAll(u, elements, x), {p})
  BY <1>1, <1>4, <1>5, <1>7, AttachAllEvolves DEF n
<1>9. Evolves(Create(t), AttachAll(u, elements, x), {} \cup {Fresh(t)})
  BY <1>8 DEF u, p
<1>10. QED
  BY <1>4, <1>6, <1>9, EvolvesFresh

\* The promises that a combinator is about.
LEMMA SourceTypes ==
  ASSUME NEW t, Fresh(t) \in Promises, NEW elements \in Seq(Promises \cup {Value})
  PROVE  SourcesOf(t, elements) \in Seq(Nat)
<1>1. DOMAIN elements = 1..Len(elements) /\ Len(elements) \in Nat
  BY Positions
<1>2. \A i \in 1..Len(elements) : Cardinality({j \in 1..i : ~IsPromise(elements[j])}) \in Nat
  <2> SUFFICES ASSUME NEW i \in 1..Len(elements)
               PROVE  Cardinality({j \in 1..i : ~IsPromise(elements[j])}) \in Nat
    OBVIOUS
  <2>1. IsFiniteSet(1..i)
    BY <1>1, FS_Interval
  <2>2. IsFiniteSet({j \in 1..i : ~IsPromise(elements[j])})
    BY <2>1, FS_Subset
  <2>3. QED
    BY <2>2, FS_CardinalityType
<1>3. \A p \in Promises : p \in Nat
  BY DEF Promises
<1>4. \A i \in 1..Len(elements) :
        (IF IsPromise(elements[i]) THEN elements[i]
         ELSE Fresh(t) + Cardinality({j \in 1..i : ~IsPromise(elements[j])})) \in Nat
  BY <1>2, <1>3 DEF IsPromise
<1> DEFINE source(i) == IF IsPromise(elements[i]) THEN elements[i]
                        ELSE Fresh(t) + Cardinality({j \in 1..i : ~IsPromise(elements[j])})
<1>5. SourcesOf(t, elements) = [i \in 1..Len(elements) |-> source(i)] /\ \A i \in 1..Len(elements) : source(i) \in Nat
  BY <1>1, <1>4 DEF SourcesOf
<1> HIDE DEF source
<1>6. [i \in 1..Len(elements) |-> source(i)] \in Seq(Nat)
  BY <1>1, <1>5
<1>7. QED
  BY <1>5, <1>6

\* Promise.all, allSettled and any settle their own target only.
LEMMA CombineEvolves ==
  ASSUME NEW t \in Tables, Sound(t), NEW elements \in Lists, NEW kind \in {"all", "allSettled", "any"},
         HasRoomFor(t, NewFor(elements))
  PROVE  Evolves(t, Combine(t, kind, elements), {})
<1> DEFINE n == Cardinality({i \in DOMAIN elements : elements[i] = Value})
           u == Create(t)
           p == Fresh(t)
           combinator == [kind |-> kind, target |-> p, remaining |-> Len(elements),
                          settled |-> FALSE, of |-> SourcesOf(t, elements)]
           C == Append(u.combinators, combinator)
           v == [u EXCEPT !.combinators = C]
           x == Element(Len(t.combinators) + 1)
<1>1. elements \in Seq(Promises \cup {Value})
  BY ListTypes
<1>2. n \in Nat /\ Len(elements) \in Nat
  <2>1. DOMAIN elements = 1..Len(elements) /\ Len(elements) \in Nat
    BY <1>1, Positions
  <2>2. IsFiniteSet(DOMAIN elements)
    BY <2>1, FS_Interval
  <2>3. QED
    BY <2>1, <2>2, FS_Subset, FS_CardinalityType
<1>3. NewFor(elements) = n + 1
  BY <1>2 DEF NewFor
<1> HIDE DEF n
<1>4. HasRoom(t) /\ HasRoomFor(u, n)
  <2>1. n + 1 \in Nat /\ n + 1 > 0 /\ (n + 1) - 1 = n
    BY <1>2
  <2>2. QED
    BY <1>3, <2>1, Rooms DEF Sound
<1>5. u \in Tables /\ Sound(u) /\ p \in Promises /\ u.combinators = t.combinators
  BY <1>4, Created, CreateIs
<1>6. CASE elements = <<>>
  <2>1. Combine(t, kind, elements) = Settle(u, p, kind = "any")
    BY <1>6 DEF Combine
  <2> HIDE DEF u, p
  <2>2. Evolves(u, Settle(u, p, kind = "any"), {p})
    BY <1>5, SettleEvolves
  <2>3. Evolves(Create(t), Settle(u, p, kind = "any"), {} \cup {Fresh(t)})
    BY <2>2 DEF u, p
  <2>4. QED
    BY <1>4, <2>1, <2>3, EvolvesFresh
<1>7. CASE elements # <<>>
  <2>1. Combine(t, kind, elements) = AttachAll(v, elements, x)
    <3>1. v = [u EXCEPT !.combinators = Append(@, combinator)]
      BY <1>5 DEF Tables
    <3> HIDE DEF u, p, C, v
    <3>2. QED
      BY <1>7, <3>1 DEF Combine, u, p
  <2>2. combinator \in Combinators
    BY <1>1, <1>2, <1>5, SourceTypes DEF Combinators
  <2>3. u.combinators \in Seq(Combinators)
    BY <1>5, TableTypes
  <2>4. combinator.target = p
    OBVIOUS
  <2> HIDE DEF u, p, combinator
  <2>5. C \in Seq(Combinators) /\ Len(C) = Len(u.combinators) + 1 /\ Len(u.combinators) \in Nat
        /\ DOMAIN C = 1..(Len(u.combinators) + 1) /\ DOMAIN u.combinators = 1..Len(u.combinators)
        /\ C[Len(u.combinators) + 1] = combinator
        /\ \A c \in 1..Len(u.combinators) : C[c] = u.combinators[c]
    BY <2>2, <2>3
  <2>6. \A c \in DOMAIN C :
        C[c].target \in {p} \/ (c \in DOMAIN u.combinators /\ C[c].target = u.combinators[c].target)
    <3> SUFFICES ASSUME NEW c \in DOMAIN C, c \notin DOMAIN u.combinators PROVE C[c].target = p
      BY <2>5
    <3>1. c = Len(u.combinators) + 1
      BY <2>5
    <3>2. QED
      BY <2>4, <2>5, <3>1
  <2>7. Len(u.combinators) <= Len(C)
    BY <2>5
  <2> HIDE DEF C
  <2>8. Evolves(u, v, {p})
    BY <1>5, <2>5, <2>6, <2>7, CombinatorsEvolve
  <2>9. v \in Tables /\ Sound(v)
    BY <2>8 DEF Evolves, Changes
  <2>10. v.combinators = C /\ v.state = u.state
    BY <1>5 DEF Tables
  <2>11. Len(t.combinators) \in Nat /\ x = Element(Len(u.combinators) + 1)
    BY <1>5, <2>5
  <2>12. x \in Reactions /\ Names(v, x) /\ x.kind # "generator" /\ \A q \in Promises : ReactionAims(x, q) => q \in {p}
    <3>1. Len(t.combinators) + 1 \in Nat
      BY <2>11
    <3>2. x \in Reactions /\ \A q \in Promises : ~ReactionAims(x, q)
      BY <3>1, ReactionTypes, AimsOf
    <3>3. x.combinator = Len(u.combinators) + 1 /\ x.kind = "element"
      BY <2>11 DEF Element
    <3>4. Len(u.combinators) + 1 \in DOMAIN C
      BY <2>5
    <3> HIDE DEF x, v
    <3>5. QED
      BY <2>10, <3>2, <3>3, <3>4 DEF Names
  <2>13. HasRoomFor(v, n)
    <3>1. SameExist(u, v)
      BY <2>10 DEF SameExist, Exists, Is
    <3> HIDE DEF v
    <3>2. QED
      BY <1>2, <1>4, <3>1, RoomStays
  <2> HIDE DEF v, x
  <2>14. Evolves(v, AttachAll(v, elements, x), {p})
    BY <1>1, <2>9, <2>12, <2>13, AttachAllEvolves DEF n
  <2>15. Evolves(u, AttachAll(v, elements, x), {p})
    BY <1>5, <2>8, <2>14, EvolvesTrans
  <2>16. Evolves(Create(t), AttachAll(v, elements, x), {} \cup {Fresh(t)})
    BY <2>15 DEF u, p
  <2>17. QED
    BY <1>4, <2>1, <2>16, EvolvesFresh
<1>8. QED
  BY <1>6, <1>7

\* settle_element settles the target of its combinator only.
LEMMA SettleElementEvolves ==
  ASSUME NEW t \in Tables, Sound(t), NEW c \in DOMAIN t.combinators, NEW rejected \in BOOLEAN
  PROVE  Evolves(t, SettleElement(t, c, rejected), {t.combinators[c].target})
<1> DEFINE entry == t.combinators[c]
           p == entry.target
           C == [t.combinators EXCEPT ![c] = [entry EXCEPT !.settled = TRUE]]
           D == [t.combinators EXCEPT ![c] = [entry EXCEPT !.remaining = entry.remaining - 1]]
           E == [t.combinators EXCEPT ![c] = [entry EXCEPT !.remaining = 0, !.settled = TRUE]]
           With(F) == [t EXCEPT !.combinators = F]
           decides == (entry.kind = "all" /\ rejected) \/ (entry.kind = "any" /\ ~rejected)
<1>1. t.combinators \in Seq(Combinators)
  BY TableTypes
<1>2. entry \in Combinators
  BY <1>1
<1>3. entry.remaining \in Nat /\ p \in Promises
  BY <1>2 DEF Combinators
<1>4. /\ [entry EXCEPT !.settled = TRUE] \in Combinators
      /\ [entry EXCEPT !.settled = TRUE].target = p
      /\ [entry EXCEPT !.remaining = 0, !.settled = TRUE] \in Combinators
      /\ [entry EXCEPT !.remaining = 0, !.settled = TRUE].target = p
      /\ entry.remaining > 1 => [entry EXCEPT !.remaining = entry.remaining - 1] \in Combinators
      /\ entry.remaining > 1 => [entry EXCEPT !.remaining = entry.remaining - 1].target = p
  <2> HIDE DEF entry
  <2>1. DOMAIN entry = {"kind", "target", "remaining", "settled", "of"}
    BY <1>2 DEF Combinators
  <2>2. [entry EXCEPT !.settled = TRUE] \in Combinators /\ [entry EXCEPT !.settled = TRUE].target = p
    BY <1>2, <2>1 DEF Combinators
  <2>3. [entry EXCEPT !.remaining = 0, !.settled = TRUE] \in Combinators
        /\ [entry EXCEPT !.remaining = 0, !.settled = TRUE].target = p
    BY <1>2, <2>1 DEF Combinators
  <2>4. ASSUME entry.remaining > 1
        PROVE  /\ [entry EXCEPT !.remaining = entry.remaining - 1] \in Combinators
               /\ [entry EXCEPT !.remaining = entry.remaining - 1].target = p
    <3>1. entry.remaining - 1 \in Nat
      BY <1>3, <2>4
    <3>2. QED
      BY <1>2, <2>1, <3>1 DEF Combinators
  <2>5. QED
    BY <2>2, <2>3, <2>4
<1>5. \A F \in Combinators : F.target = p => Evolves(t, With([t.combinators EXCEPT ![c] = F]), {p})
  <2> SUFFICES ASSUME NEW F \in Combinators, F.target = p
               PROVE  Evolves(t, With([t.combinators EXCEPT ![c] = F]), {p})
    OBVIOUS
  <2> DEFINE G == [t.combinators EXCEPT ![c] = F]
  <2>1. G \in Seq(Combinators) /\ Len(G) = Len(t.combinators) /\ DOMAIN G = DOMAIN t.combinators
        /\ Len(t.combinators) \in Nat /\ G[c] = F /\ \A d \in DOMAIN t.combinators : d # c => G[d] = t.combinators[d]
    BY <1>1
  <2>2. \A d \in DOMAIN G :
        G[d].target \in {p} \/ (d \in DOMAIN t.combinators /\ G[d].target = t.combinators[d].target)
    BY <2>1
  <2> HIDE DEF G, p
  <2>3. Len(t.combinators) <= Len(G)
    BY <2>1
  <2>4. Evolves(t, With(G), {p})
    BY <2>1, <2>2, <2>3, CombinatorsEvolve
  <2>5. QED
    BY <2>4 DEF G
<1>7. SettleElement(t, c, rejected) =
        IF entry.settled THEN t
        ELSE IF decides THEN Settle(With(C), p, rejected)
        ELSE IF entry.remaining > 1 THEN With(D)
        ELSE Settle(With(E), p, entry.kind = "any")
  <2>1. /\ With(C) = [t EXCEPT !.combinators[c].settled = TRUE]
        /\ With(D) = [t EXCEPT !.combinators[c].remaining = @ - 1]
        /\ With(E) = [t EXCEPT !.combinators[c].remaining = 0, !.combinators[c].settled = TRUE]
    <3>1. With(C) = [t EXCEPT !.combinators[c].settled = TRUE]
      BY DEF Tables
    <3>2. With(D) = [t EXCEPT !.combinators[c].remaining = @ - 1]
      BY DEF Tables
    <3>3. With(E) = [t EXCEPT !.combinators[c].remaining = 0, !.combinators[c].settled = TRUE]
      BY DEF Tables
    <3>4. QED
      BY <3>1, <3>2, <3>3
  <2>2. QED
    BY <2>1 DEF SettleElement
<1>8. \A v, r : r \in BOOLEAN /\ Evolves(t, v, {p}) => Evolves(t, Settle(v, p, r), {p})
  <2> SUFFICES ASSUME NEW v, NEW r \in BOOLEAN, Evolves(t, v, {p}) PROVE Evolves(t, Settle(v, p, r), {p})
    OBVIOUS
  <2>1. v \in Tables /\ Sound(v)
    BY DEF Evolves, Changes
  <2> HIDE DEF p
  <2>2. Evolves(v, Settle(v, p, r), {p})
    BY <1>3, <2>1, SettleEvolves
  <2>3. QED
    BY <2>2, EvolvesTrans
<1>9. Evolves(t, With(C), {p}) /\ Evolves(t, With(E), {p}) /\ (entry.remaining > 1 => Evolves(t, With(D), {p}))
  <2>1. Evolves(t, With(C), {p})
    BY <1>4, <1>5
  <2>2. Evolves(t, With(E), {p})
    BY <1>4, <1>5
  <2>3. entry.remaining > 1 => Evolves(t, With(D), {p})
    BY <1>4, <1>5
  <2>4. QED
    BY <2>1, <2>2, <2>3
<1>10. Evolves(t, t, {p})
  BY EvolvesSame
<1> HIDE DEF C, D, E, decides
<1>11. Evolves(t, Settle(With(C), p, rejected), {p}) /\ Evolves(t, Settle(With(E), p, entry.kind = "any"), {p})
  BY <1>8, <1>9
<1> HIDE DEF With
<1>12. QED
  BY <1>7, <1>9, <1>10, <1>11

\* A settlement that passes through.
LEMMA AloneEvolves ==
  ASSUME NEW t \in Tables, Sound(t), NEW job \in Jobs, RunsAlone(job), Names(t, job.reaction)
  PROVE  \E p \in Promises : /\ Evolves(t, Alone(t, job), {p})
                             /\ JobAims(job, p) \/ \E c \in DOMAIN t.combinators : t.combinators[c].target = p
<1>1. job.kind = "reaction" /\ job.reaction \in Reactions /\ job.rejected \in BOOLEAN
  BY JobTypes DEF RunsAlone
<1>2. CASE job.reaction.kind = "element"
  <2> DEFINE c == job.reaction.combinator
  <2>1. c \in DOMAIN t.combinators /\ Alone(t, job) = SettleElement(t, c, job.rejected)
    BY <1>2 DEF Names, Alone
  <2>2. t.combinators[c].target \in Promises
    <3>1. t.combinators \in Seq(Combinators)
      BY TableTypes
    <3>2. t.combinators[c] \in Combinators
      BY <2>1, <3>1
    <3>3. QED
      BY <3>2 DEF Combinators
  <2> HIDE DEF c
  <2>3. Evolves(t, Alone(t, job), {t.combinators[c].target})
    BY <1>1, <2>1, SettleElementEvolves
  <2>4. QED
    BY <2>1, <2>2, <2>3
<1>3. CASE job.reaction.kind # "element"
  <2>1. job.reaction.kind \in {"finallyResult", "handler"}
    BY <1>1, <1>3 DEF RunsAlone
  <2>2. job.reaction.kind \in Targets /\ job.reaction.target \in Promises
    BY <1>1, <2>1, ReactionTypes DEF Targets
  <2>3. JobAims(job, job.reaction.target)
    BY <1>1, <2>2 DEF JobAims, ReactionAims
  <2>4. (job.rejected \/ (job.reaction.kind = "finallyResult" /\ job.reaction.rejected)) \in BOOLEAN
    OBVIOUS
  <2>5. Alone(t, job) = Settle(t, job.reaction.target,
                               job.rejected \/ (job.reaction.kind = "finallyResult" /\ job.reaction.rejected))
    BY <1>3 DEF Alone
  <2>6. Evolves(t, Alone(t, job), {job.reaction.target})
    BY <2>2, <2>4, <2>5, SettleEvolves
  <2>7. QED
    BY <2>2, <2>3, <2>6
<1>4. QED
  BY <1>2, <1>3

\* A callback returns a result to the promise that waits for it.
LEMMA CompletedEvolves ==
  ASSUME NEW t \in Tables, Sound(t), NEW job \in Jobs, NEW result \in Outcome(t),
         job.kind = "thenable" \/ (job.kind = "reaction" /\ job.reaction.kind \in {"handler", "finally", "resume"}),
         job.kind = "reaction" /\ job.reaction.kind = "finally" /\ result \in {Value, Thenable} => HasRoom(t)
  PROVE  \E p \in Promises : Evolves(t, Completed(t, job, result), {p}) /\ JobAims(job, p)
<1>1. CASE job.kind = "thenable"
  <2>1. job.target \in Promises /\ JobAims(job, job.target)
    BY <1>1, JobTypes DEF JobAims
  <2>2. Completed(t, job, result) = IF result = Throw THEN Settle(t, job.target, TRUE) ELSE t
    BY <1>1 DEF Completed
  <2>3. Evolves(t, Settle(t, job.target, TRUE), {job.target}) /\ Evolves(t, t, {job.target})
    BY <2>1, SettleEvolves, EvolvesSame
  <2>4. QED
    BY <2>1, <2>2, <2>3
<1>2. CASE job.kind = "reaction"
  <2> DEFINE p == job.reaction.target
  <2>1. /\ job.reaction \in Reactions /\ job.reaction.kind \in {"handler", "finally", "resume"}
        /\ job.rejected \in BOOLEAN
    BY <1>2, JobTypes
  <2>2. p \in Promises
    BY <2>1, ReactionTypes DEF Targets
  <2>3. JobAims(job, p)
    BY <1>2, <2>1 DEF JobAims, ReactionAims, Targets
  <2>4. CASE job.reaction.kind # "finally"
    <3>1. Completed(t, job, result) = ResolveInto(t, p, result)
      BY <1>2, <2>4 DEF Completed
    <3> HIDE DEF p
    <3>2. QED
      BY <2>2, <2>3, <3>1, ResolveEvolves
  <2>5. CASE job.reaction.kind = "finally"
    <3> DEFINE x == FinallyResult(p, job.rejected)
    <3>0. Completed(t, job, result) = AfterFinally(t, job, result)
      BY <1>2, <2>5 DEF Completed
    <3>1. x \in Reactions /\ Plain(x) /\ \A q \in Promises : ReactionAims(x, q) => q \in {p}
      BY <2>1, <2>2, ReactionTypes, PlainReactions, AimsOf
    <3>2. CASE result = Throw
      <4>1. AfterFinally(t, job, result) = Settle(t, p, TRUE)
        BY <3>2, LoopAssumption DEF AfterFinally
      <4> HIDE DEF p
      <4>2. QED
        BY <2>2, <2>3, <3>0, <4>1, SettleEvolves
    <3>3. CASE result \in {Value, Thenable}
      <4> DEFINE u == Create(t)
                 f == Fresh(t)
                 v == ResolveInto(u, f, result)
                 w == Subscribe(v, f, x)
      <4>1. AfterFinally(t, job, result) = w
        BY <3>3, LoopAssumption DEF AfterFinally
      <4>2. HasRoom(t)
        BY <1>2, <2>5, <3>3
      <4>3. u \in Tables /\ Sound(u) /\ f \in Promises
        BY <4>2, Created
      <4>4. Evolves(u, v, {f})
        BY <3>3, <4>2, CreateResolve
      <4> HIDE DEF u, f, v, x, p
      <4>5. v \in Tables /\ Sound(v)
        BY <4>4 DEF Evolves, Changes
      <4>6. Evolves(v, w, {p})
        BY <3>1, <4>3, <4>5, SubscribePlain
      <4> HIDE DEF w
      <4>7. Evolves(u, v, {p} \cup {f}) /\ Evolves(v, w, {p} \cup {f})
        BY <4>4, <4>6, EvolvesWider
      <4>8. Evolves(u, w, {p} \cup {f})
        BY <4>3, <4>7, EvolvesTrans
      <4>9. Evolves(t, w, {p})
        BY <4>2, <4>8, EvolvesFresh DEF u, f
      <4>10. QED
        BY <2>2, <2>3, <3>0, <4>1, <4>9
    <3>4. CASE result \in Promises
      <4>1. AfterFinally(t, job, result) = Subscribe(t, result, x)
        BY <3>4, LoopAssumption DEF AfterFinally
      <4> HIDE DEF p, x
      <4>2. Evolves(t, Subscribe(t, result, x), {p})
        BY <3>1, <3>4, SubscribePlain
      <4>3. QED
        BY <2>2, <2>3, <3>0, <4>1, <4>2
    <3>5. QED
      BY <3>2, <3>3, <3>4 DEF Outcome
  <2>6. QED
    BY <2>4, <2>5
<1>3. QED
  BY <1>1, <1>2

-----------------------------------------------------------------------------
(* The queue of jobs. *)

Shorter(t) == [t EXCEPT !.microtasks = Tail(@)]

\* A job is taken from the front of the queue.
LEMMA ShorterIs ==
  ASSUME NEW t \in Tables, t.microtasks # <<>>
  PROVE  LET u == Shorter(t) IN
         /\ u \in Tables /\ u.state = t.state /\ u.handled = t.handled /\ u.reactions = t.reactions
         /\ u.unhandled = t.unhandled /\ u.combinators = t.combinators
         /\ \A i \in Nat : i \in DOMAIN u.microtasks <=> i > 0 /\ i + 1 \in DOMAIN t.microtasks
         /\ \A i \in DOMAIN u.microtasks : i \in Nat /\ i + 1 \in DOMAIN t.microtasks
                                           /\ u.microtasks[i] = t.microtasks[i + 1]
         /\ 1 \in DOMAIN t.microtasks /\ t.microtasks[1] = Head(t.microtasks) /\ t.microtasks[1] \in Jobs
<1> DEFINE u == Shorter(t)
           M == t.microtasks
<1>1. M \in Seq(Jobs) /\ M # <<>>
  BY TableTypes
<1>2. DOMAIN t = {"state", "handled", "reactions", "microtasks", "unhandled", "combinators"}
  BY DEF Tables
<1>3. /\ u.state = t.state /\ u.handled = t.handled /\ u.reactions = t.reactions
      /\ u.unhandled = t.unhandled /\ u.combinators = t.combinators /\ u.microtasks = Tail(M)
  BY <1>2 DEF Shorter
<1> HIDE DEF M
<1>4. Tail(M) \in Seq(Jobs) /\ Len(Tail(M)) = Len(M) - 1 /\ Len(M) \in Nat /\ Len(M) > 0
      /\ \A i \in 1..(Len(M) - 1) : Tail(M)[i] = M[i + 1]
  BY <1>1
<1>5. u \in Tables
  BY <1>4 DEF Tables, Shorter, M
<1>6. DOMAIN M = 1..Len(M) /\ DOMAIN Tail(M) = 1..(Len(M) - 1)
  BY <1>1, <1>4, Positions
<1>7. M[1] = Head(M) /\ M[1] \in Jobs
  BY <1>1, <1>4
<1>8. /\ \A i \in Nat : i \in DOMAIN Tail(M) <=> i > 0 /\ i + 1 \in DOMAIN M
      /\ \A i \in DOMAIN Tail(M) : i \in Nat /\ i + 1 \in DOMAIN M
      /\ 1 \in DOMAIN M
  BY <1>4, <1>6
<1>9. \A i \in DOMAIN Tail(M) : Tail(M)[i] = M[i + 1]
  BY <1>4, <1>6
<1> HIDE DEF u
<1>10. QED
  BY <1>3, <1>5, <1>7, <1>8, <1>9 DEF u, M

LEMMA ShorterChanges ==
  ASSUME NEW t \in Tables, Sound(t), t.microtasks # <<>>
  PROVE  Changes(t, Shorter(t), {})
<1> DEFINE u == Shorter(t)
<1>1. /\ u \in Tables /\ u.state = t.state /\ u.handled = t.handled /\ u.reactions = t.reactions
      /\ u.unhandled = t.unhandled /\ u.combinators = t.combinators
      /\ \A i \in DOMAIN u.microtasks : i + 1 \in DOMAIN t.microtasks /\ u.microtasks[i] = t.microtasks[i + 1]
  BY ShorterIs
<1> HIDE DEF u
<1>2. Listens(u)
  BY <1>1 DEF Sound, Listens, Is
<1>3. ElementsExist(u)
  BY <1>1 DEF Sound, ElementsExist, Names
<1>4. InOrder(u)
  BY <1>1 DEF Sound, InOrder, Exists, Is
<1>5. Exact(t) => Exact(u)
  BY <1>1 DEF Exact, Is
<1>6. Goes(t, u, {})
  BY <1>1 DEF Goes, Exists, Is
<1>7. Aims(t, u, {})
  BY <1>1 DEF Aims, Aimed
<1>8. Len(t.combinators) <= Len(u.combinators)
  BY <1>1, TableTypes
<1>9. QED
  BY <1>1, <1>2, <1>3, <1>4, <1>5, <1>6, <1>7, <1>8 DEF Changes, Sound, u

LEMMA ShorterPlaces ==
  ASSUME NEW t \in Tables, t.microtasks # <<>>
  PROVE  LET u == Shorter(t) IN
         /\ \A p \in Promises, k \in Nat : Rests(u, p, k) <=> Rests(t, p, k)
         /\ \A i \in Nat : IsQueued(u, i) => IsQueued(t, i + 1)
         /\ \A i \in Nat : IsQueued(t, i) =>
              (i = 1 /\ IsResumption(Head(t.microtasks))) \/ (i - 1 \in Nat /\ IsQueued(u, i - 1))
         /\ IsResumption(Head(t.microtasks)) => IsQueued(t, 1)
         /\ ~IsQueued(u, 0) /\ ~IsQueued(t, 0)
<1> DEFINE u == Shorter(t)
<1>1. /\ u.reactions = t.reactions
      /\ \A i \in Nat : i \in DOMAIN u.microtasks <=> i > 0 /\ i + 1 \in DOMAIN t.microtasks
      /\ \A i \in DOMAIN u.microtasks : u.microtasks[i] = t.microtasks[i + 1]
      /\ 1 \in DOMAIN t.microtasks /\ t.microtasks[1] = Head(t.microtasks)
  BY ShorterIs
<1> HIDE DEF u
<1>2. 0 \notin DOMAIN t.microtasks
  <2>1. t.microtasks \in Seq(Jobs)
    BY TableTypes
  <2>2. QED
    BY <2>1
<1>3. \A p \in Promises, k \in Nat : Rests(u, p, k) <=> Rests(t, p, k)
  BY <1>1 DEF Rests
<1>4. \A i \in Nat : IsQueued(u, i) => IsQueued(t, i + 1)
  BY <1>1 DEF IsQueued
<1>5. ASSUME NEW i \in Nat, IsQueued(t, i), i # 1
      PROVE  i - 1 \in Nat /\ IsQueued(u, i - 1)
  <2>1. i \in DOMAIN t.microtasks /\ IsResumption(t.microtasks[i])
    BY <1>5 DEF IsQueued
  <2>2. i # 0
    BY <1>2, <2>1
  <2>3. i - 1 \in Nat /\ i - 1 > 0 /\ (i - 1) + 1 = i
    BY <1>5, <2>2
  <2>4. i - 1 \in DOMAIN u.microtasks
    BY <1>1, <2>1, <2>3
  <2>5. u.microtasks[i - 1] = t.microtasks[i]
    BY <1>1, <2>3, <2>4
  <2>6. QED
    BY <2>1, <2>3, <2>4, <2>5 DEF IsQueued
<1>6. IsQueued(t, 1) <=> IsResumption(Head(t.microtasks))
  BY <1>1 DEF IsQueued
<1>7. ~IsQueued(u, 0) /\ ~IsQueued(t, 0)
  <2>1. 0 \notin DOMAIN u.microtasks
    BY <1>1
  <2>2. QED
    BY <1>2, <2>1 DEF IsQueued
<1>8. \A i \in Nat : IsQueued(t, i) =>
              (i = 1 /\ IsResumption(Head(t.microtasks))) \/ (i - 1 \in Nat /\ IsQueued(u, i - 1))
  BY <1>5, <1>6
<1>9. QED
  BY <1>3, <1>4, <1>6, <1>7, <1>8 DEF u

LEMMA ShorterEvolves ==
  ASSUME NEW t \in Tables, Sound(t), t.microtasks # <<>>, ~IsResumption(Head(t.microtasks))
  PROVE  Evolves(t, Shorter(t), {})
<1> DEFINE u == Shorter(t)
<1>1. /\ \A p \in Promises, k \in Nat : Rests(u, p, k) <=> Rests(t, p, k)
      /\ \A i \in Nat : IsQueued(u, i) => IsQueued(t, i + 1)
      /\ \A i \in Nat : IsQueued(t, i) => i - 1 \in Nat /\ IsQueued(u, i - 1)
  BY ShorterPlaces
<1>2. Changes(t, u, {})
  BY ShorterChanges
<1> HIDE DEF u
<1>3. \A p \in Promises : RestsAt(u, p) <=> RestsAt(t, p)
  BY <1>1 DEF RestsAt
<1>4. Waits(u) <=> Waits(t)
  <2>1. \A i \in Nat : i + 1 \in Nat
    OBVIOUS
  <2>2. QED
    BY <1>1, <2>1 DEF Waits
<1>5. AtMostOnce(t) => AtMostOnce(u)
  <2> SUFFICES ASSUME AtMostOnce(t) PROVE AtMostOnce(u)
    OBVIOUS
  <2>1. \A i, j \in Nat : IsQueued(u, i) /\ IsQueued(u, j) => i = j
    <3> SUFFICES ASSUME NEW i \in Nat, NEW j \in Nat, IsQueued(u, i), IsQueued(u, j) PROVE i = j
      OBVIOUS
    <3>1. i + 1 \in Nat /\ j + 1 \in Nat /\ IsQueued(t, i + 1) /\ IsQueued(t, j + 1)
      BY <1>1
    <3>2. i + 1 = j + 1
      BY <3>1 DEF AtMostOnce
    <3>3. QED
      BY <3>2
  <2>2. QED
    BY <1>1, <1>3, <1>4, <2>1 DEF AtMostOnce
<1>6. Somewhere(u) <=> Somewhere(t)
  BY <1>3, <1>4 DEF Somewhere
<1>7. QED
  BY <1>2, <1>3, <1>5, <1>6 DEF Evolves, Bodies, u

\* The resumption leaves the queue, and the body is nowhere in the table.
LEMMA ShorterBody ==
  ASSUME NEW t \in Tables, Sound(t), t.microtasks # <<>>, IsResumption(Head(t.microtasks)), AtMostOnce(t)
  PROVE  AtMostOnce(Shorter(t)) /\ ~Somewhere(Shorter(t)) /\ Somewhere(t)
<1> DEFINE u == Shorter(t)
<1>1. /\ \A p \in Promises, k \in Nat : Rests(u, p, k) <=> Rests(t, p, k)
      /\ \A i \in Nat : IsQueued(u, i) => IsQueued(t, i + 1)
      /\ IsQueued(t, 1) /\ ~IsQueued(u, 0)
  BY ShorterPlaces
<1> HIDE DEF u
<1>2. Waits(t)
  BY <1>1 DEF Waits
<1>3. \A p \in Promises : ~RestsAt(t, p)
  BY <1>2 DEF AtMostOnce
<1>4. \A p \in Promises : ~RestsAt(u, p)
  BY <1>1, <1>3 DEF RestsAt
<1>5. ~Waits(u)
  <2> SUFFICES ASSUME NEW i \in Nat, IsQueued(u, i) PROVE FALSE
    BY DEF Waits
  <2>1. i + 1 \in Nat /\ IsQueued(t, i + 1)
    BY <1>1
  <2>2. i + 1 = 1
    BY <1>1, <2>1 DEF AtMostOnce
  <2>3. i = 0
    BY <2>2
  <2>4. QED
    BY <1>1, <2>3
<1>6. AtMostOnce(u)
  <2>1. \A p \in Promises, k \in Nat : ~Rests(u, p, k)
    BY <1>4 DEF RestsAt
  <2>2. \A i \in Nat : ~IsQueued(u, i)
    BY <1>5 DEF Waits
  <2>3. QED
    BY <1>4, <1>5, <2>1, <2>2 DEF AtMostOnce
<1>7. QED
  BY <1>2, <1>4, <1>5, <1>6 DEF Somewhere, u

-----------------------------------------------------------------------------
(* The requests that are still queued are answered. *)

Answered(t, after) ==
  /\ after[0] = t /\ AnswerQueue(t) = after[Len(queue)]
  /\ \A n \in 1..Len(queue) : after[n] = Answer(after[n - 1], queue[n], Thrown(queue[n]))

LEMMA AnswerQueueIs ==
  ASSUME NEW t, Len(queue) \in Nat
  PROVE  \E after : Answered(t, after)
<1> DEFINE N == Len(queue)
           At(f, n) == IF n = 0 THEN t ELSE Answer(f[n - 1], queue[n], Thrown(queue[n]))
           S == {n \in Nat : \E f : f = [k \in 0..n |-> At(f, k)]}
<1>1. 0 \in S
  <2>1. [k \in 0..0 |-> t] = [j \in 0..0 |-> At([k \in 0..0 |-> t], j)]
    OBVIOUS
  <2>2. QED
    BY <2>1
<1>2. \A n \in 0..(N - 1) : n \in S => n + 1 \in S
  <2> SUFFICES ASSUME NEW n \in Nat, NEW f, f = [k \in 0..n |-> At(f, k)] PROVE n + 1 \in S
    OBVIOUS
  <2> DEFINE g == [k \in 0..(n + 1) |-> IF k <= n THEN f[k] ELSE At(f, n + 1)]
  <2>1. \A k \in 0..(n + 1) : g[k] = At(g, k)
    <3> SUFFICES ASSUME NEW k \in 0..(n + 1) PROVE g[k] = At(g, k)
      OBVIOUS
    <3>1. k # 0 => k - 1 \in 0..n /\ g[k - 1] = f[k - 1]
      OBVIOUS
    <3>2. CASE k <= n
      <4>1. g[k] = f[k] /\ f[k] = At(f, k)
        BY <3>2
      <4>2. QED
        BY <3>1, <4>1
    <3>3. CASE ~(k <= n)
      <4>1. k = n + 1 /\ g[k] = At(f, k)
        BY <3>3
      <4>2. QED
        BY <3>1, <4>1
    <3>4. QED
      BY <3>2, <3>3
  <2>2. g = [k \in 0..(n + 1) |-> At(g, k)]
    <3>1. g = [k \in 0..(n + 1) |-> g[k]]
      OBVIOUS
    <3> HIDE DEF g, At
    <3>2. QED
      BY <2>1, <3>1
  <2>3. n + 1 \in Nat
    OBVIOUS
  <2> HIDE DEF g, At
  <2>4. QED
    BY <2>2, <2>3, Zenon
<1>3. N \in S
  <2> HIDE DEF S, N
  <2>1. N \in Nat
    BY DEF N
  <2>2. 0..N \subseteq S
    BY <1>1, <1>2, <2>1, UpTo
  <2>3. QED
    BY <2>1, <2>2
<1> DEFINE P(f) == f = [k \in 0..N |-> At(f, k)]
           after == CHOOSE f : P(f)
<1>4. P(after)
  BY <1>3
<1>5. AnswerQueue(t) = after[N]
  BY DEF AnswerQueue, AnswerFirst
<1> HIDE DEF after
<1>6. after[0] = t /\ \A n \in 1..N : after[n] = At(after, n)
  BY <1>4
<1>7. Answered(t, after)
  BY <1>5, <1>6 DEF Answered
<1>8. QED
  BY <1>7

\* drain_completed settles the promises of the requests only.
LEMMA AnswerQueueEvolves ==
  ASSUME NEW t \in Tables, Sound(t), queue \in Seq(Requests),
         NEW X, \A n \in DOMAIN queue : queue[n].promise \in X
  PROVE  Evolves(t, AnswerQueue(t), X)
<1> DEFINE N == Len(queue)
<1>1. N \in Nat /\ DOMAIN queue = 1..N
  BY Positions
<1>2. PICK after : /\ after[0] = t /\ AnswerQueue(t) = after[N]
                   /\ \A n \in 1..N : after[n] = Answer(after[n - 1], queue[n], Thrown(queue[n]))
  <2>1. PICK after : Answered(t, after)
    BY <1>1, AnswerQueueIs
  <2>2. QED
    BY <2>1 DEF Answered
<1>3. \A n \in 1..N : queue[n].promise \in Promises /\ queue[n].promise \in X /\ Thrown(queue[n]) \in BOOLEAN
  <2>1. \A n \in 1..N : queue[n] \in Requests
    BY <1>1
  <2>2. \A n \in 1..N : queue[n].promise \in Promises
    BY <2>1 DEF Requests
  <2>3. \A n \in 1..N : queue[n].promise \in X
    BY <1>1
  <2>4. \A n \in 1..N : Thrown(queue[n]) \in BOOLEAN
    BY DEF Thrown
  <2>5. QED
    BY <2>2, <2>3, <2>4
<1> HIDE DEF N
<1> DEFINE S == {n \in Nat : n <= N => Evolves(t, after[n], X)}
<1>4. 0 \in S
  BY <1>2, EvolvesSame
<1>5. \A n \in Nat : n \in S => n + 1 \in S
  <2> SUFFICES ASSUME NEW n \in Nat, n \in S, n + 1 <= N PROVE Evolves(t, after[n + 1], X)
    OBVIOUS
  <2>1. n + 1 \in 1..N /\ (n + 1) - 1 = n /\ n <= N
    BY <1>1
  <2>2. Evolves(t, after[n], X)
    BY <2>1
  <2> DEFINE u == after[n]
             p == queue[n + 1].promise
             r == Thrown(queue[n + 1])
  <2>3. after[n + 1] = Settle(u, p, r) /\ p \in Promises /\ p \in X /\ r \in BOOLEAN
    BY <1>2, <1>3, <2>1 DEF Answer
  <2>4. u \in Tables /\ Sound(u) /\ Evolves(t, u, X)
    BY <2>2 DEF Evolves, Changes
  <2> HIDE DEF u, p, r, S
  <2>5. Evolves(u, Settle(u, p, r), {p})
    BY <2>3, <2>4, SettleEvolves
  <2>6. Evolves(t, Settle(u, p, r), X)
    BY <2>3, <2>4, <2>5, EvolvesTrans
  <2>7. QED
    BY <2>3, <2>6
<1>6. N \in S
  <2> HIDE DEF S
  <2>1. Nat \subseteq S
    BY <1>4, <1>5, NatInSet
  <2>2. QED
    BY <1>1, <2>1
<1>7. QED
  BY <1>1, <1>2, <1>6

-----------------------------------------------------------------------------
(* The stack. *)

\* Frames are drains and callbacks.
LEMMA FrameTypes ==
  /\ \A f \in Frames : f.run \in {"js", "drain"}
  /\ \A f \in Frames : f.run = "js" => f.job \in Jobs \cup Callers
  /\ \A f \in Frames : f.run = "drain" => f.check \in BOOLEAN /\ f.ran \in BOOLEAN
  /\ \A job \in Jobs \cup Callers : Js(job) \in Frames /\ Js(job).run = "js" /\ Js(job).job = job
  /\ \A check \in BOOLEAN : Drain(check) \in Frames /\ Drain(check).run = "drain" /\ Drain(check).check = check
  /\ \A job \in Callers : job.kind \in {"script", "poll", "body", "macro"}
BY DEF Frames, Js, Drain, Callers

\* The callbacks of callers that are no jobs aim at nothing.
LEMMA CallersAim ==
  ASSUME NEW job \in Callers, NEW p
  PROVE  ~JobAims(job, p)
BY FrameTypes DEF JobAims

\* What a pushed frame changes of a stack.
LEMMA PushKeeps ==
  ASSUME NEW s \in Seq(Frames), NEW f \in Frames
  PROVE  LET u == Append(s, f) IN
         /\ u \in Seq(Frames) /\ u # <<>> /\ Len(u) = Len(s) + 1 /\ u[Len(u)] = f
         /\ \A p : StackAims(u, p) => StackAims(s, p) \/ (f.run = "js" /\ JobAims(f.job, p))
         /\ Runs(u) <=> Runs(s) \/ IsBody(f)
         /\ RunsOnce(s) /\ ~(Runs(s) /\ IsBody(f)) => RunsOnce(u)
         /\ /\ Stands(s) /\ s # <<>>
            /\ f.run = "drain" => ~f.check
            /\ ~IsScript(f) /\ RunsHandler(f)
            /\ IsTick(f) => s[Len(s)].run = "drain"
            => Stands(u)
<1> DEFINE u == Append(s, f)
           n == Len(s)
<1>1. /\ u \in Seq(Frames) /\ u # <<>> /\ Len(u) = n + 1 /\ n \in Nat
      /\ DOMAIN s = 1..n /\ DOMAIN u = 1..(n + 1)
      /\ u[n + 1] = f /\ \A i \in 1..n : u[i] = s[i]
  OBVIOUS
<1>2. s # <<>> => n > 0
  OBVIOUS
<1> HIDE DEF u, n
<1>3. /\ \A i \in DOMAIN u : i \in DOMAIN s \/ i = n + 1
      /\ \A i \in DOMAIN s : i \in DOMAIN u /\ u[i] = s[i] /\ i # n + 1
      /\ n + 1 \in DOMAIN u
  BY <1>1
<1>4. \A p : StackAims(u, p) => StackAims(s, p) \/ (f.run = "js" /\ JobAims(f.job, p))
  BY <1>1, <1>3 DEF StackAims
<1>5. Runs(u) <=> Runs(s) \/ IsBody(f)
  BY <1>1, <1>3 DEF Runs
<1>6. RunsOnce(s) /\ ~(Runs(s) /\ IsBody(f)) => RunsOnce(u)
  BY <1>1, <1>3 DEF RunsOnce, Runs
<1>7. ASSUME Stands(s), s # <<>>, f.run = "drain" => ~f.check, ~IsScript(f), RunsHandler(f),
             IsTick(f) => s[n].run = "drain"
      PROVE  Stands(u)
  <2>1. n > 0 /\ n + 1 # 1 /\ n \in DOMAIN s
    BY <1>1, <1>2, <1>7
  <2>2. f.run = "drain" => f.check = FALSE
    BY <1>7, FrameTypes
  <2>3. \A i \in DOMAIN u : u[i].run = "drain" => u[i].check = (i = 1)
    <3> SUFFICES ASSUME NEW i \in DOMAIN u, u[i].run = "drain" PROVE u[i].check = (i = 1)
      OBVIOUS
    <3>1. CASE i \in DOMAIN s
      <4>1. u[i] = s[i]
        BY <1>3, <3>1
      <4>2. s[i].run = "drain" => s[i].check = (i = 1)
        BY <1>7, <3>1, Zenon DEF Stands
      <4>3. QED
        BY <4>1, <4>2
    <3>2. CASE i = n + 1
      <4>1. u[i] = f /\ (i = 1) = FALSE
        BY <1>1, <2>1, <3>2
      <4>2. QED
        BY <2>2, <4>1
    <3>3. QED
      BY <1>3, <3>1, <3>2
  <2>4. \A i \in DOMAIN u : u[i].run = "js" => (IsScript(u[i]) <=> i = 1)
    BY <1>1, <1>3, <1>7, <2>1 DEF Stands
  <2>5. \A i \in DOMAIN u : RunsHandler(u[i])
    BY <1>1, <1>3, <1>7 DEF Stands
  <2>6. ASSUME NEW i \in DOMAIN u, IsTick(u[i]) PROVE u[i - 1].run = "drain"
    <3>1. CASE i = n + 1
      <4>1. i - 1 = n /\ u[n] = s[n]
        BY <1>1, <1>3, <2>1, <3>1
      <4>2. QED
        BY <1>1, <1>7, <2>6, <3>1, <4>1
    <3>2. CASE i # n + 1
      <4>1. i \in DOMAIN s /\ u[i] = s[i]
        BY <1>3, <3>2
      <4>2. s[i - 1].run = "drain"
        BY <1>7, <2>6, <4>1 DEF Stands
      <4>3. i # 1
        <5>1. s[1].run = "js" => IsScript(s[1])
          BY <1>1, <1>7, <2>1 DEF Stands
        <5>2. QED
          BY <2>6, <4>1, <5>1 DEF IsTick, IsScript
      <4>4. i - 1 \in DOMAIN s
        BY <1>1, <4>1, <4>3
      <4>5. QED
        BY <1>3, <4>2, <4>4
    <3>3. QED
      BY <3>1, <3>2
  <2>7. QED
    BY <2>3, <2>4, <2>5, <2>6 DEF Stands
<1>8. u[Len(u)] = f
  BY <1>1
<1>9. QED
  BY <1>1, <1>4, <1>5, <1>6, <1>7, <1>8 DEF u, n

\* What the frames below the topmost ones keep of a stack.
LEMMA PrefixKeeps ==
  ASSUME NEW s \in Seq(Frames), NEW k \in 0..Len(s)
  PROVE  LET u == SubSeq(s, 1, k) IN
         /\ u \in Seq(Frames) /\ Len(u) = k /\ (u = <<>> <=> k = 0)
         /\ \A i \in 1..k : u[i] = s[i]
         /\ \A p : StackAims(u, p) => StackAims(s, p)
         /\ Runs(u) => Runs(s)
         /\ (\A i \in DOMAIN s : i > k => ~IsBody(s[i])) => (Runs(s) => Runs(u))
         /\ RunsOnce(s) => RunsOnce(u)
         /\ (\E i \in DOMAIN s : i > k /\ IsBody(s[i])) /\ RunsOnce(s) => ~Runs(u)
         /\ Stands(s) => Stands(u)
<1> DEFINE u == SubSeq(s, 1, k)
<1>1. /\ u \in Seq(Frames) /\ Len(u) = k /\ DOMAIN u = 1..k /\ DOMAIN s = 1..Len(s) /\ Len(s) \in Nat
      /\ \A i \in 1..k : u[i] = s[i]
  OBVIOUS
<1>2. u = <<>> <=> k = 0
  BY <1>1
<1> HIDE DEF u
<1>3. \A i \in DOMAIN u : i \in DOMAIN s /\ u[i] = s[i] /\ ~(i > k)
  BY <1>1
<1>4. \A i \in DOMAIN s : ~(i > k) => i \in DOMAIN u
  BY <1>1
<1>5. \A p : StackAims(u, p) => StackAims(s, p)
  BY <1>3 DEF StackAims
<1>6. (Runs(u) => Runs(s)) /\ (RunsOnce(s) => RunsOnce(u))
  BY <1>3 DEF Runs, RunsOnce
<1>7. (\A i \in DOMAIN s : i > k => ~IsBody(s[i])) => (Runs(s) => Runs(u))
  BY <1>3, <1>4 DEF Runs
<1>8. (\E i \in DOMAIN s : i > k /\ IsBody(s[i])) /\ RunsOnce(s) => ~Runs(u)
  BY <1>3 DEF Runs, RunsOnce
<1>9. ASSUME Stands(s) PROVE Stands(u)
  <2>1. ASSUME NEW i \in DOMAIN u, IsTick(u[i]) PROVE u[i - 1].run = "drain"
    <3>1. i \in DOMAIN s /\ u[i] = s[i]
      BY <1>3
    <3>2. s[i - 1].run = "drain"
      BY <1>9, <2>1, <3>1 DEF Stands
    <3>3. i # 1
      <4>1. s[i].run = "js" => (IsScript(s[i]) <=> i = 1)
        BY <1>9, <3>1 DEF Stands
      <4>2. QED
        BY <2>1, <3>1, <4>1 DEF IsTick, IsScript
    <3>4. i - 1 \in DOMAIN u
      BY <1>1, <3>3
    <3>5. QED
      BY <1>3, <3>2, <3>4
  <2>2. QED
    BY <1>3, <1>9, <2>1 DEF Stands
<1>10. QED
  BY <1>1, <1>2, <1>5, <1>6, <1>7, <1>8, <1>9 DEF u

\* The drain on top of the stack has run its immediate or timer.
LEMMA RerunKeeps ==
  ASSUME NEW s \in Seq(Frames), s # <<>>, s[Len(s)].run = "drain"
  PROVE  LET u == Append(SubSeq(s, 1, Len(s) - 1), [s[Len(s)] EXCEPT !.ran = TRUE]) IN
         /\ u \in Seq(Frames) /\ u # <<>> /\ Len(u) = Len(s) /\ u[Len(u)].run = "drain"
         /\ \A p : StackAims(u, p) => StackAims(s, p)
         /\ Runs(u) <=> Runs(s)
         /\ RunsOnce(s) => RunsOnce(u)
         /\ Stands(s) => Stands(u)
<1> DEFINE n == Len(s)
           f == [s[n] EXCEPT !.ran = TRUE]
           u == Append(SubSeq(s, 1, n - 1), f)
<1>1. n \in Nat /\ n > 0 /\ DOMAIN s = 1..n /\ s[n] \in Frames
  OBVIOUS
<1>2. f \in Frames /\ f.run = "drain" /\ f.check = s[n].check
  <2> DEFINE g == s[n]
  <2>1. g \in Frames /\ g.run = "drain"
    BY <1>1
  <2> HIDE DEF g
  <2>2. DOMAIN g = {"run", "check", "ran"} /\ g \in [run : {"drain"}, check : BOOLEAN, ran : BOOLEAN]
    BY <2>1 DEF Frames
  <2>3. [g EXCEPT !.ran = TRUE] \in Frames /\ [g EXCEPT !.ran = TRUE].run = "drain"
        /\ [g EXCEPT !.ran = TRUE].check = g.check
    BY <2>1, <2>2 DEF Frames
  <2>4. QED
    BY <2>3 DEF g
<1> HIDE DEF f
<1>3. /\ u \in Seq(Frames) /\ u # <<>> /\ Len(u) = n /\ DOMAIN u = 1..n
      /\ u[n] = f /\ \A i \in 1..(n - 1) : u[i] = s[i]
  <2> DEFINE b == SubSeq(s, 1, n - 1)
  <2>1. b \in Seq(Frames) /\ Len(b) = n - 1 /\ \A i \in 1..(n - 1) : b[i] = s[i]
    BY <1>1
  <2> HIDE DEF b, n
  <2>2. QED
    BY <1>1, <1>2, <2>1
<1> HIDE DEF u, n
<1>4. /\ \A i \in DOMAIN u : i \in DOMAIN s /\ (i = n \/ u[i] = s[i])
      /\ \A i \in DOMAIN s : i \in DOMAIN u
      /\ n \in DOMAIN u /\ u[n].run = "drain" /\ s[n].run = "drain" /\ u[n].check = s[n].check
  BY <1>1, <1>2, <1>3 DEF n
<1>5. \A i \in DOMAIN u : /\ u[i].run = s[i].run
                          /\ IsBody(u[i]) <=> IsBody(s[i])
                          /\ IsScript(u[i]) <=> IsScript(s[i])
                          /\ IsTick(u[i]) <=> IsTick(s[i])
                          /\ RunsHandler(s[i]) => RunsHandler(u[i])
                          /\ u[i].run = "drain" => u[i].check = s[i].check
                          /\ u[i].run = "js" => u[i].job = s[i].job
  BY <1>4 DEF IsBody, IsScript, IsTick, RunsHandler
<1>6. \A p : StackAims(u, p) => StackAims(s, p)
  BY <1>4, <1>5 DEF StackAims
<1>7. (Runs(u) <=> Runs(s)) /\ (RunsOnce(s) => RunsOnce(u))
  BY <1>4, <1>5 DEF Runs, RunsOnce
<1>8. ASSUME Stands(s) PROVE Stands(u)
  <2>1. ASSUME NEW i \in DOMAIN u, IsTick(u[i]) PROVE u[i - 1].run = "drain"
    <3>1. i \in DOMAIN s /\ IsTick(s[i])
      BY <1>4, <1>5, <2>1
    <3>2. s[i - 1].run = "drain"
      BY <1>8, <3>1 DEF Stands
    <3>3. i # 1
      <4>1. s[i].run = "js" => (IsScript(s[i]) <=> i = 1)
        BY <1>8, <3>1 DEF Stands
      <4>2. QED
        BY <3>1, <4>1 DEF IsTick, IsScript
    <3>4. i - 1 \in DOMAIN u
      BY <1>1, <1>3, <3>3
    <3>5. QED
      BY <1>5, <3>2, <3>4
  <2>2. \A i \in DOMAIN u : u[i].run = "drain" => u[i].check = (i = 1)
    BY <1>4, <1>5, <1>8 DEF Stands
  <2>3. \A i \in DOMAIN u : u[i].run = "js" => (IsScript(u[i]) <=> i = 1)
    BY <1>4, <1>5, <1>8 DEF Stands
  <2>4. \A i \in DOMAIN u : RunsHandler(u[i])
    BY <1>4, <1>5, <1>8 DEF Stands
  <2>5. QED
    BY <2>1, <2>2, <2>3, <2>4 DEF Stands
<1>9. QED
  BY <1>1, <1>3, <1>4, <1>6, <1>7, <1>8 DEF u, n, f

-----------------------------------------------------------------------------
(* A step that leaves the generator alone: it settles what somebody else   *)
(* than the generator may settle, and the body stays where it is.          *)

Mine == {p \in Promises : Claimed(table, resolvable, stack, p)}
New(p) == Is(table, p, "absent") /\ Exists(table', p)
Moves ==
  /\ Evolves(table, table', Mine)
  /\ \A p \in Promises : p \in resolvable' \/ StackAims(stack', p) => p \in Mine \/ New(p)
  /\ Runs(stack') <=> Runs(stack)
  /\ RunsOnce(stack) => RunsOnce(stack')
  /\ UNCHANGED genVars

\* Nobody gets to settle a promise that was not theirs, unless it is new.
LEMMA ClaimsStay ==
  ASSUME NEW X, Changes(table, table', X),
         \A p \in Promises : p \in resolvable' \/ StackAims(stack', p) => p \in Mine \/ p \in X \/ New(p)
  PROVE  \A p \in Promises : Claimed(table', resolvable', stack', p) => p \in Mine \/ p \in X \/ New(p)
<1> SUFFICES ASSUME NEW p \in Promises, Claimed(table', resolvable', stack', p)
             PROVE  p \in Mine \/ p \in X \/ New(p)
  OBVIOUS
<1>1. CASE Aimed(table', p)
  <2>1. Aimed(table, p) \/ p \in X \/ (Is(table, p, "absent") /\ Exists(table', p))
    BY <1>1 DEF Changes, Aims
  <2>2. Aimed(table, p) => p \in Mine
    BY DEF Mine, Claimed
  <2>3. QED
    BY <2>1, <2>2 DEF New
<1>2. CASE p \in resolvable' \/ StackAims(stack', p)
  BY <1>2
<1>3. QED
  BY <1>1, <1>2 DEF Claimed

\* Such a step leaves the requests pending and the body where it was.
LEMMA MovesKeep ==
  ASSUME TypeOK, Sound(table), OwnIsOwn, BodyStands, Moves
  PROVE  /\ table' \in Tables /\ Sound(table') /\ (Exact(table) => Exact(table'))
         /\ OwnIsOwn' /\ BodyStands'
<1>1. /\ table' \in Tables /\ Sound(table') /\ (Exact(table) => Exact(table'))
      /\ Goes(table, table', Mine) /\ Bodies(table, table')
  BY DEF Moves, Evolves, Changes
<1>2. Open' = Open /\ resume' = resume /\ status' = status /\ queue' = queue
  BY DEF Moves, genVars, Open
<1>3. \A p \in Promises : Claimed(table', resolvable', stack', p) => p \in Mine \/ New(p)
  BY ClaimsStay DEF Moves, Evolves
<1>4. \A p : Own(p)' <=> Own(p)
  BY <1>2 DEF Own
<1>5. \A p \in Promises : Own(p) => p \notin Mine /\ Is(table, p, "pending") /\ table'.state[p] = table.state[p]
  <2> SUFFICES ASSUME NEW p \in Promises, Own(p)
               PROVE  p \notin Mine /\ Is(table, p, "pending") /\ table'.state[p] = table.state[p]
    OBVIOUS
  <2>1. p \notin Mine /\ Is(table, p, "pending")
    BY DEF OwnIsOwn, Mine
  <2>2. QED
    BY <1>1, <2>1 DEF Goes, Is
<1>6. OwnIsOwn'
  <2>1. \A p \in Promises : Own(p)' => Is(table, p, "pending")'
    BY <1>4, <1>5 DEF Is
  <2>2. \A p \in Promises : Own(p)' \/ Is(table, p, "absent")' => ~Claimed(table, resolvable, stack, p)'
    <3> SUFFICES ASSUME NEW p \in Promises, Own(p)' \/ Is(table, p, "absent")',
                        Claimed(table', resolvable', stack', p)
                 PROVE  FALSE
      OBVIOUS
    <3>1. p \in Mine \/ New(p)
      BY <1>3
    <3>2. CASE Own(p)'
      BY <1>4, <1>5, <3>1, <3>2 DEF New, Is
    <3>3. CASE Is(table', p, "absent")
      <4>1. Is(table, p, "absent")
        BY <1>1, <3>3 DEF Goes, Exists
      <4>2. p \notin Mine
        BY <4>1 DEF OwnIsOwn, Mine
      <4>3. QED
        BY <3>1, <3>3, <4>2 DEF New, Exists
    <3>4. QED
      BY <3>2, <3>3
  <2>3. \A i, j \in DOMAIN Open' : Open'[i].promise = Open'[j].promise => i = j
    BY <1>2 DEF OwnIsOwn
  <2>4. QED
    BY <2>1, <2>2, <2>3 DEF OwnIsOwn
<1>7. BodyStands'
  <2>1. AtMostOnce(table') /\ (Somewhere(table') <=> Somewhere(table))
    BY <1>1 DEF Bodies, BodyStands
  <2>2. status = "yield" => RestsAt(table', resume)
    <3> SUFFICES ASSUME status = "yield" PROVE RestsAt(table', resume)
      OBVIOUS
    <3>1. resume \in Promises
      BY DEF TypeOK
    <3>2. RestsAt(table, resume) /\ Own(resume)
      BY DEF BodyStands, Own
    <3>3. QED
      BY <1>1, <1>5, <3>1, <3>2 DEF Bodies
  <2>3. QED
    BY <1>2, <2>1, <2>2 DEF BodyStands, Moves
<1>8. QED
  BY <1>1, <1>6, <1>7

\* A step of the loop: what is left is the types, the stack and the end.
LEMMA StepKeeps ==
  ASSUME IInv, Moves, table' \in Tables => LoopTypeOK', Stands(stack'), LoopStands',
         exit = "rejection" => exit' = "rejection"
  PROVE  IInv'
<1>1. /\ table' \in Tables /\ Sound(table') /\ (Exact(table) => Exact(table'))
      /\ OwnIsOwn' /\ BodyStands'
  BY MovesKeep DEF IInv
<1>2. TypeOK'
  <2>1. LoopTypeOK'
    BY <1>1
  <2>2. QED
    BY <2>1 DEF TypeOK, IInv, Moves, genVars
<1>3. exit' # "rejection" => Exact(table')
  BY <1>1 DEF IInv
<1>4. QED
  BY <1>1, <1>2, <1>3 DEF IInv

\* A step that leaves the promises alone as well.
LEMMA StillMoves ==
  ASSUME IInv, UNCHANGED <<table, resolvable, genVars>>,
         \A p : StackAims(stack', p) => StackAims(stack, p),
         Runs(stack') <=> Runs(stack), RunsOnce(stack) => RunsOnce(stack')
  PROVE  Moves
<1>1. Evolves(table, table', Mine)
  BY EvolvesSame DEF IInv, TypeOK, LoopTypeOK
<1>2. QED
  BY <1>1 DEF Moves, Mine, Claimed

LEMMA InJsRuns ==
  ASSUME TypeOK, InJs \/ InDrain
  PROVE  phase = "running" /\ stack # <<>> /\ Depth \in Nat /\ Depth > 0 /\ Top \in Frames /\ stack \in Seq(Frames)
BY DEF InJs, InDrain, Depth, Top, TypeOK, LoopTypeOK

\* A call of the program, which leaves the stack alone.
LEMMA CallKeeps ==
  ASSUME IInv, InJs, Evolves(table, table', Mine),
         \A p \in resolvable' : p \in Promises /\ (p \in resolvable \/ New(p)),
         ticks' \in Nat, external' \in Nat, calls > 0, calls' = calls - 1, cancelled' \subseteq Resources,
         immediates' \in Seq(Resources), timers' \in Seq(Timers), exit' \in {"none", "program", "rejection"},
         exit = "rejection" => exit' = "rejection", uses' \subseteq uses,
         UNCHANGED <<stack, phase, genVars>>
  PROVE  IInv'
<1>1. Moves
  BY DEF Moves, Mine, Claimed
<1>2. phase = "running" /\ stack # <<>>
  BY InJsRuns DEF IInv
<1>3. LoopStands'
  BY <1>2 DEF LoopStands
<1>4. Stands(stack')
  BY DEF IInv
<1>5. ASSUME table' \in Tables PROVE LoopTypeOK'
  <2>1. calls' \in 0..MaxCalls
    BY LoopAssumption DEF IInv, TypeOK, LoopTypeOK
  <2>2. \E all \in Workloads : uses' \subseteq all
    BY DEF IInv, TypeOK, LoopTypeOK
  <2>3. QED
    BY <1>2, <1>5, <2>1, <2>2 DEF IInv, TypeOK, LoopTypeOK
<1>6. QED
  BY <1>1, <1>3, <1>4, <1>5, StepKeeps

-----------------------------------------------------------------------------
(* The calls of the program. *)

\* The types that the steps below use.
LEMMA LoopTypes ==
  ASSUME IInv
  PROVE  /\ table \in Tables /\ Sound(table) /\ resolvable \subseteq Promises
         /\ ticks \in Nat /\ external \in Nat /\ calls \in 0..MaxCalls
         /\ cancelled \subseteq Resources /\ immediates \in Seq(Resources) /\ timers \in Seq(Timers)
         /\ stack \in Seq(Frames) /\ exit \in {"none", "program", "rejection"}
BY DEF IInv, TypeOK, LoopTypeOK

\* A call that changes promises, and one that changes the other queues.
LEMMA PromisedKeeps ==
  ASSUME IInv, InJs, calls > 0, calls' = calls - 1, NEW t, Evolves(table, t, Mine), Promised(t),
         UNCHANGED <<resolvable, genVars>>
  PROVE  IInv'
<1>1. Evolves(table, table', Mine) /\ \A p \in resolvable' : p \in Promises /\ (p \in resolvable \/ New(p))
  BY LoopTypes DEF Promised
<1>2. /\ ticks' = ticks /\ immediates' = immediates /\ timers' = timers /\ cancelled' = cancelled
      /\ external' = external /\ stack' = stack /\ phase' = phase /\ exit' = exit /\ uses' = uses
      /\ UNCHANGED genVars
  BY DEF Promised, queueVars
<1>3. /\ ticks' \in Nat /\ external' \in Nat /\ cancelled' \subseteq Resources
      /\ immediates' \in Seq(Resources) /\ timers' \in Seq(Timers) /\ exit' \in {"none", "program", "rejection"}
      /\ exit = "rejection" => exit' = "rejection"
      /\ uses' \subseteq uses /\ UNCHANGED <<stack, phase, genVars>>
  BY <1>2, LoopTypes
<1>4. QED
  BY <1>1, <1>3, CallKeeps

LEMMA QueuedKeeps ==
  ASSUME IInv, InJs, calls > 0, calls' = calls - 1,
         UNCHANGED <<table, resolvable, stack, phase, genVars>>, uses' = uses,
         ticks' \in Nat, external' \in Nat, cancelled' \subseteq Resources,
         immediates' \in Seq(Resources), timers' \in Seq(Timers),
         exit' \in {"none", "program", "rejection"}, exit = "rejection" => exit' = "rejection"
  PROVE  IInv'
<1>1. Evolves(table, table', Mine)
  BY LoopTypes, EvolvesSame
<1>2. \A p \in resolvable' : p \in Promises /\ (p \in resolvable \/ New(p))
  BY LoopTypes
<1>3. UNCHANGED <<stack, phase, genVars>> /\ uses' \subseteq uses
  OBVIOUS
<1>4. QED
  BY <1>1, <1>2, <1>3, CallKeeps

\* A timer is put in its place in the queue.
LEMMA InsertTypes ==
  ASSUME NEW s \in Seq(Timers), NEW timer \in Timers
  PROVE  Insert(s, timer) \in Seq(Timers)
<1> DEFINE P == {i \in DOMAIN s : s[i].rem <= timer.rem}
           n == Cardinality(P)
<1>1. DOMAIN s = 1..Len(s) /\ Len(s) \in Nat
  BY Positions
<1>2. IsFiniteSet(1..Len(s)) /\ Cardinality(1..Len(s)) = Len(s)
  BY <1>1, FS_Interval
<1>3. n \in Nat /\ n <= Len(s)
  <2>1. P \subseteq 1..Len(s)
    BY <1>1
  <2> HIDE DEF P
  <2>2. IsFiniteSet(P) /\ Cardinality(P) <= Cardinality(1..Len(s))
    BY <1>2, <2>1, FS_Subset
  <2>3. QED
    BY <1>2, <2>2, FS_CardinalityType
<1>4. Insert(s, timer) = SubSeq(s, 1, n) \o <<timer>> \o SubSeq(s, n + 1, Len(s))
  BY DEF Insert
<1> HIDE DEF n
<1>5. SubSeq(s, 1, n) \in Seq(Timers) /\ <<timer>> \in Seq(Timers) /\ SubSeq(s, n + 1, Len(s)) \in Seq(Timers)
  BY <1>1, <1>3
<1>6. \A a, b, c : a \in Seq(Timers) /\ b \in Seq(Timers) /\ c \in Seq(Timers) => a \o b \o c \in Seq(Timers)
  OBVIOUS
<1>7. QED
  BY ONLY <1>4, <1>5, <1>6

\* Every call of the program keeps the invariant.
LEMMA CallsKeep ==
  ASSUME IInv, Call, UNCHANGED genVars
  PROVE  IInv'
<1> USE DEF Calls
<1>0. /\ table \in Tables /\ Sound(table) /\ resolvable \subseteq Promises
      /\ ticks \in Nat /\ external \in Nat /\ calls \in 0..MaxCalls
      /\ cancelled \subseteq Resources /\ immediates \in Seq(Resources) /\ timers \in Seq(Timers)
      /\ stack \in Seq(Frames) /\ exit \in {"none", "program", "rejection"}
  BY LoopTypes
<1>1. CASE NewPromise
  <2>1. Evolves(table, Create(table), {}) /\ HasRoom(table) /\ table' = Create(table)
    BY <1>0, <1>1, CreateEvolves DEF NewPromise, Promised
  <2>2. Evolves(table, table', Mine)
    BY <2>1, EvolvesWider
  <2>3. New(Fresh(table)) /\ Fresh(table) \in Promises
    BY <1>0, <2>1, Created DEF New, Exists, Is
  <2>4. resolvable' = resolvable \cup {Fresh(table)}
    BY <1>1 DEF NewPromise
  <2>5. \A p \in resolvable' : p \in Promises /\ (p \in resolvable \/ New(p))
    BY <1>0, <2>3, <2>4
  <2>6. /\ InJs /\ calls > 0 /\ calls' = calls - 1
        /\ UNCHANGED <<ticks, immediates, timers, cancelled, external, stack, phase, exit, uses>>
    BY <1>1 DEF NewPromise, Promised, queueVars
  <2>7. QED
    BY <1>0, <2>2, <2>5, <2>6, CallKeeps
<1>2. CASE Resolve
  <2>1. PICK p \in resolvable, result \in Results :
          InJs /\ calls > 0 /\ calls' = calls - 1
          /\ Promised(ResolveInto(table, p, result)) /\ UNCHANGED resolvable
    BY <1>2 DEF Resolve
  <2>2. result \in Outcome(table)
    BY DEF Results, Existing, Outcome
  <2>3. Evolves(table, ResolveInto(table, p, result), {p})
    BY <1>0, <2>2, ResolveEvolves
  <2>4. {p} \subseteq Mine
    BY <1>0 DEF Mine, Claimed
  <2>5. Evolves(table, ResolveInto(table, p, result), Mine)
    BY <2>3, <2>4, EvolvesWider
  <2>6. QED
    BY <2>1, <2>5, PromisedKeeps
<1>3. CASE Reject
  <2>1. PICK p \in resolvable :
          InJs /\ calls > 0 /\ calls' = calls - 1
          /\ Promised(Settle(table, p, TRUE)) /\ UNCHANGED resolvable
    BY <1>3 DEF Reject
  <2>2. Evolves(table, Settle(table, p, TRUE), {p})
    BY <1>0, SettleEvolves
  <2>3. {p} \subseteq Mine
    BY <1>0 DEF Mine, Claimed
  <2> DEFINE t == Settle(table, p, TRUE)
  <2>4. Evolves(table, t, {p}) /\ Promised(t)
    BY <2>1, <2>2
  <2> HIDE DEF t
  <2>5. Evolves(table, t, Mine)
    BY <2>3, <2>4, EvolvesWider
  <2>6. QED
    BY <2>1, <2>4, <2>5, PromisedKeeps
<1>4. CASE CallThen
  <2>1. PICK p \in Promises, f \in BOOLEAN :
          InJs /\ calls > 0 /\ calls' = calls - 1 /\ HasRoom(table)
          /\ Promised(Then(table, p, f, ~f)) /\ UNCHANGED resolvable
    BY <1>4 DEF CallThen
  <2> DEFINE x == Handler(f, ~f, Fresh(table))
  <2>2. x \in Reactions /\ Plain(x) /\ \A q \in Promises : ReactionAims(x, q) => q = Fresh(table)
    BY <1>0, <2>1, Created, ReactionTypes, PlainReactions, AimsOf
  <2>3. Then(table, p, f, ~f) = Subscribe(Create(table), p, x)
    BY DEF Then
  <2> HIDE DEF x
  <2>4. Evolves(table, Then(table, p, f, ~f), {})
    BY <1>0, <2>1, <2>2, <2>3, CreateSubscribe
  <2>5. Evolves(table, Then(table, p, f, ~f), Mine)
    BY <2>4, EvolvesWider
  <2>6. QED
    BY <2>1, <2>5, PromisedKeeps
<1>5. CASE CallFinally
  <2>1. PICK p \in Promises :
          InJs /\ calls > 0 /\ calls' = calls - 1 /\ HasRoom(table)
          /\ Promised(ThenFinally(table, p)) /\ UNCHANGED resolvable
    BY <1>5 DEF CallFinally
  <2> DEFINE x == Finally(Fresh(table))
  <2>2. x \in Reactions /\ Plain(x) /\ \A q \in Promises : ReactionAims(x, q) => q = Fresh(table)
    BY <1>0, <2>1, Created, ReactionTypes, PlainReactions, AimsOf
  <2>3. ThenFinally(table, p) = Subscribe(Create(table), p, x)
    BY DEF ThenFinally
  <2> HIDE DEF x
  <2>4. Evolves(table, ThenFinally(table, p), {})
    BY <1>0, <2>1, <2>2, <2>3, CreateSubscribe
  <2>5. Evolves(table, ThenFinally(table, p), Mine)
    BY <2>4, EvolvesWider
  <2>6. QED
    BY <2>1, <2>5, PromisedKeeps
<1>6. CASE CallCombinator
  <2>1. PICK elements \in Lists, kind \in {"all", "allSettled", "any", "race"} :
          /\ HasRoomFor(table, NewFor(elements))
          /\ table' = IF kind = "race" THEN Race(table, elements) ELSE Combine(table, kind, elements)
    BY <1>6 DEF CallCombinator
  <2>2. Evolves(table, table', {})
    <3>1. CASE kind = "race"
      BY <1>0, <2>1, <3>1, RaceEvolves
    <3>2. CASE kind # "race"
      BY <1>0, <2>1, <3>2, CombineEvolves
    <3>3. QED
      BY <3>1, <3>2
  <2>3. Evolves(table, table', Mine)
    BY <2>2, EvolvesWider
  <2>4. /\ InJs /\ calls > 0 /\ calls' = calls - 1 /\ uses' \subseteq uses
        /\ UNCHANGED <<resolvable, ticks, immediates, timers, cancelled, external, stack, phase, exit>>
    BY <1>6 DEF CallCombinator, queueVars
  <2>5. \A p \in resolvable' : p \in Promises /\ (p \in resolvable \/ New(p))
    BY <1>0, <2>4
  <2>6. QED
    BY <1>0, <2>3, <2>4, <2>5, CallKeeps
<1>7. CASE CallAsync
  <2>1. PICK p \in Promises :
          InJs /\ calls > 0 /\ calls' = calls - 1 /\ HasRoom(table)
          /\ Promised(Subscribe(Create(table), p, AsyncResume(Fresh(table)))) /\ UNCHANGED resolvable
    BY <1>7 DEF CallAsync
  <2> DEFINE x == AsyncResume(Fresh(table))
  <2>2. x \in Reactions /\ Plain(x) /\ \A q \in Promises : ReactionAims(x, q) => q = Fresh(table)
    BY <1>0, <2>1, Created, ReactionTypes, PlainReactions, AimsOf
  <2>3. Promised(Subscribe(Create(table), p, x))
    BY <2>1
  <2> HIDE DEF x
  <2>4. Evolves(table, Subscribe(Create(table), p, x), {})
    BY <1>0, <2>1, <2>2, CreateSubscribe
  <2>5. Evolves(table, Subscribe(Create(table), p, x), Mine)
    BY <2>4, EvolvesWider
  <2>6. QED
    BY <2>1, <2>3, <2>5, PromisedKeeps
<1>8. CASE QueueMicrotask
  <2>1. InJs /\ calls > 0 /\ calls' = calls - 1 /\ Promised(Enqueue(table, <<Callback>>)) /\ UNCHANGED resolvable
    BY <1>8 DEF QueueMicrotask
  <2>2. Callback \in Jobs /\ Callback.kind # "reaction"
    BY JobTypes DEF Callback
  <2>3. \A q \in Promises : JobAims(Callback, q) => q \in Mine
    BY AimsOf
  <2>4. Evolves(table, Enqueue(table, <<Callback>>), Mine)
    BY <1>0, <2>2, <2>3, EnqueueEvolves
  <2>5. QED
    BY <2>1, <2>4, PromisedKeeps
<1>9. CASE NextTick
  <2>1. /\ InJs /\ calls > 0 /\ calls' = calls - 1 /\ ticks' = ticks + 1
        /\ UNCHANGED <<table, resolvable, external, stack, phase, exit, uses, immediates, timers, cancelled>>
    BY <1>9 DEF NextTick, Queued
  <2>2. ticks' \in Nat
    BY <1>0, <2>1
  <2>3. QED
    BY <1>0, <2>1, <2>2, QueuedKeeps
<1>10. CASE SetImmediate
  <2>1. PICK id \in Resources :
        /\ InJs /\ calls > 0 /\ calls' = calls - 1 /\ immediates' = Append(immediates, id)
        /\ UNCHANGED <<table, resolvable, external, stack, phase, exit, uses, ticks, timers, cancelled>>
    BY <1>10 DEF SetImmediate, Queued
  <2>2. immediates' \in Seq(Resources)
    BY <1>0, <2>1
  <2>3. QED
    BY <1>0, <2>1, <2>2, QueuedKeeps
<1>11. CASE SetTimer
  <2>1. PICK id \in Resources, delay \in 0..1, repeat \in BOOLEAN :
        /\ InJs /\ calls > 0 /\ calls' = calls - 1
        /\ timers' = Insert(timers, [id |-> id, rem |-> delay, repeat |-> repeat])
        /\ UNCHANGED <<table, resolvable, external, stack, phase, exit, uses, ticks, immediates, cancelled>>
    BY <1>11 DEF SetTimer, Queued
  <2>2. [id |-> id, rem |-> delay, repeat |-> repeat] \in Timers
    BY LoopAssumption DEF Timers
  <2>3. timers' \in Seq(Timers)
    BY <1>0, <2>1, <2>2, InsertTypes
  <2>4. QED
    BY <1>0, <2>1, <2>3, QueuedKeeps
<1>12. CASE Clear
  <2>1. PICK id \in Resources :
        /\ InJs /\ calls > 0 /\ calls' = calls - 1 /\ cancelled' = cancelled \cup {id}
        /\ UNCHANGED <<table, resolvable, external, stack, phase, exit, uses, ticks, immediates, timers>>
    BY <1>12 DEF Clear, Queued
  <2>2. cancelled' \subseteq Resources
    BY <1>0, <2>1
  <2>3. QED
    BY <1>0, <2>1, <2>2, QueuedKeeps
<1>13. CASE StartExternal
  <2>1. /\ InJs /\ calls > 0 /\ calls' = calls - 1 /\ external' = external + 1
        /\ UNCHANGED <<table, resolvable, stack, phase, exit, uses, ticks, immediates, timers, cancelled>>
    BY <1>13 DEF StartExternal, queueVars
  <2>2. external' \in Nat
    BY <1>0, <2>1
  <2>3. QED
    BY <1>0, <2>1, <2>2, QueuedKeeps
<1>14. CASE Exit
  <2>1. /\ InJs /\ calls > 0 /\ calls' = calls - 1 /\ exit = "none" /\ exit' = "program"
        /\ UNCHANGED <<table, resolvable, external, stack, phase, uses, ticks, immediates, timers, cancelled>>
    BY <1>14 DEF Exit, queueVars
  <2>2. QED
    BY <1>0, <2>1, QueuedKeeps
<1>15. CASE NestedDrain
  <2>1. /\ InJs /\ calls > 0 /\ calls' = calls - 1 /\ stack' = Append(stack, Drain(FALSE))
        /\ UNCHANGED <<table, resolvable, external, phase, exit, uses, ticks, immediates, timers, cancelled>>
    BY <1>15 DEF NestedDrain, Push, queueVars
  <2>2. phase = "running" /\ stack # <<>>
    BY <2>1, InJsRuns DEF IInv
  <2> DEFINE f == Drain(FALSE)
  <2>3. f \in Frames /\ f.run = "drain" /\ f.check = FALSE
    BY FrameTypes
  <2>4. ~IsBody(f) /\ ~IsScript(f) /\ ~IsTick(f) /\ RunsHandler(f)
    BY <2>3 DEF IsBody, IsScript, IsTick, RunsHandler
  <2> HIDE DEF f
  <2>50. stack' = Append(stack, f)
    BY <2>1 DEF f
  <2>5. /\ stack' \in Seq(Frames) /\ stack' # <<>>
        /\ \A p : StackAims(stack', p) => StackAims(stack, p)
        /\ Runs(stack') <=> Runs(stack)
        /\ RunsOnce(stack) => RunsOnce(stack')
        /\ Stands(stack')
    BY <1>0, <2>2, <2>3, <2>4, <2>50, PushKeeps DEF IInv
  <2>6. Moves
    BY <2>1, <2>5, StillMoves
  <2>7. LoopTypeOK'
    <3>1. calls' \in 0..MaxCalls
      BY <1>0, <2>1, LoopAssumption
    <3>2. QED
      BY <2>1, <2>2, <2>5, <3>1 DEF IInv, TypeOK, LoopTypeOK
  <2>8. LoopStands'
    BY <2>1, <2>2 DEF LoopStands
  <2>9. QED
    BY <2>1, <2>5, <2>6, <2>7, <2>8, StepKeeps
<1>16. QED
  BY <1>1, <1>2, <1>3, <1>4, <1>5, <1>6, <1>7, <1>8, <1>9, <1>10, <1>11, <1>12, <1>13, <1>14, <1>15 DEF Call

-----------------------------------------------------------------------------
(* The steps of a drain. *)

\* The stack while a callback or a drain is on top.
LEMMA StackTypes ==
  ASSUME IInv, InJs \/ InDrain
  PROVE  /\ stack \in Seq(Frames) /\ stack # <<>> /\ Depth \in Nat /\ Depth > 0 /\ Depth = Len(stack)
         /\ DOMAIN stack = 1..Depth /\ Top \in Frames /\ Top = stack[Depth] /\ phase = "running"
         /\ Stands(stack) /\ RunsOnce(stack)
BY InJsRuns DEF IInv, InJs, InDrain, Depth, Top, TypeOK, LoopTypeOK, BodyStands

\* The topmost frames leave the stack, none of which is the body.
LEMMA Leaves ==
  ASSUME IInv, InJs \/ InDrain, NEW k \in 0..Depth, stack' = SubSeq(stack, 1, k),
         \A i \in 1..Depth : i > k => ~IsBody(stack[i])
  PROVE  /\ stack' \in Seq(Frames) /\ (stack' = <<>> <=> k = 0)
         /\ \A p : StackAims(stack', p) => StackAims(stack, p)
         /\ Runs(stack') <=> Runs(stack)
         /\ RunsOnce(stack) => RunsOnce(stack')
         /\ Stands(stack')
<1>1. stack \in Seq(Frames) /\ Depth = Len(stack) /\ DOMAIN stack = 1..Depth /\ Stands(stack)
  BY StackTypes
<1>2. k \in 0..Len(stack) /\ \A i \in DOMAIN stack : i > k => ~IsBody(stack[i])
  BY <1>1
<1>3. QED
  BY <1>1, <1>2, PrefixKeeps

\* The topmost frame leaves the stack.
LEMMA TopLeaves ==
  ASSUME IInv, InJs \/ InDrain, ~IsBody(Top), stack' = Below
  PROVE  /\ stack' \in Seq(Frames) /\ (stack' = <<>> <=> Depth = 1)
         /\ \A p : StackAims(stack', p) => StackAims(stack, p)
         /\ Runs(stack') <=> Runs(stack)
         /\ RunsOnce(stack) => RunsOnce(stack')
         /\ Stands(stack')
<1>1. Depth \in Nat /\ Depth > 0 /\ Top = stack[Depth]
  BY StackTypes
<1> DEFINE k == Depth - 1
<1>2. k \in 0..Depth /\ (k = 0 <=> Depth = 1) /\ stack' = SubSeq(stack, 1, k)
  BY <1>1 DEF Below
<1>3. \A i \in 1..Depth : i > k => ~IsBody(stack[i])
  <2> SUFFICES ASSUME NEW i \in 1..Depth, i > k PROVE ~IsBody(stack[i])
    OBVIOUS
  <2>1. i = Depth
    BY <1>1
  <2>2. QED
    BY <1>1, <2>1
<1> HIDE DEF k
<1>4. QED
  BY <1>2, <1>3, Leaves

\* The script, a poll and the drain that reports are at the bottom.
LEMMA BottomFrame ==
  ASSUME IInv, InJs \/ InDrain
  PROVE  /\ InJs => (IsScript(Top) <=> Depth = 1)
         /\ InDrain => (Top.check <=> Depth = 1)
<1>1. Depth \in DOMAIN stack /\ Top = stack[Depth] /\ Stands(stack)
  BY StackTypes
<1>2. QED
  BY <1>1 DEF Stands, InJs, InDrain

\* A frame is pushed that is not the body.
LEMMA Enters ==
  ASSUME IInv, InJs \/ InDrain, NEW f \in Frames, stack' = Append(stack, f), ~IsBody(f),
         f.run = "drain" => ~f.check, ~IsScript(f), RunsHandler(f), IsTick(f) => Top.run = "drain"
  PROVE  /\ stack' \in Seq(Frames) /\ stack' # <<>>
         /\ \A p : StackAims(stack', p) => StackAims(stack, p) \/ (f.run = "js" /\ JobAims(f.job, p))
         /\ Runs(stack') <=> Runs(stack)
         /\ RunsOnce(stack) => RunsOnce(stack')
         /\ Stands(stack')
<1>1. stack \in Seq(Frames) /\ stack # <<>> /\ Top = stack[Len(stack)] /\ Stands(stack)
  BY StackTypes
<1>2. QED
  BY <1>1, PushKeeps

\* The outer drain ends with nothing unheard.
LEMMA DrainEndsKeeps ==
  ASSUME IInv, DrainEnds, UNCHANGED genVars
  PROVE  IInv'
<1>1. /\ InDrain /\ Top.run = "drain" /\ stack' = Below
      /\ UNCHANGED <<table, resolvable, ticks, immediates, timers, cancelled, external, uses, calls, exit>>
      /\ phase' = IF Depth > 1 THEN phase ELSE IF exit' = "none" THEN "decide" ELSE "ended"
  BY DEF DrainEnds, DrainReturns, InDrain, queueVars, programVars
<1>2. ~IsBody(Top)
  BY <1>1 DEF IsBody
<1>3. /\ stack' \in Seq(Frames) /\ (stack' = <<>> <=> Depth = 1)
      /\ \A p : StackAims(stack', p) => StackAims(stack, p)
      /\ Runs(stack') <=> Runs(stack)
      /\ RunsOnce(stack) => RunsOnce(stack')
      /\ Stands(stack')
  BY <1>1, <1>2, TopLeaves
<1>4. Moves
  BY <1>1, <1>3, StillMoves
<1>5. phase = "running" /\ Depth \in Nat /\ Depth > 0
  BY <1>1, StackTypes
<1>6. LoopTypeOK'
  <2>1. phase' \in {"running", "turn", "decide", "ended", "aborted"} /\ (phase' = "running" <=> stack' # <<>>)
    BY <1>1, <1>3, <1>5
  <2>2. QED
    BY <1>1, <1>3, <2>1 DEF IInv, TypeOK, LoopTypeOK
<1>7. LoopStands'
  <2>1. phase' = "ended" => exit' # "none"
    BY <1>1, <1>5
  <2>2. ASSUME phase' = "decide" PROVE exit' = "none" /\ table'.unhandled = {}
    <3>1. Depth = 1 /\ exit = "none" /\ exit' = "none"
      BY <1>1, <1>5, <2>2
    <3>2. Top.check
      BY <1>1, <3>1, BottomFrame
    <3>3. table.unhandled = {}
      BY <3>1, <3>2 DEF DrainEnds, Checked
    <3>4. QED
      BY <1>1, <3>1, <3>3
  <2>3. QED
    BY <2>1, <2>2 DEF LoopStands
<1>8. QED
  BY <1>1, <1>3, <1>4, <1>6, <1>7, StepKeeps

LEMMA RunTickKeeps ==
  ASSUME IInv, RunTick, UNCHANGED genVars
  PROVE  IInv'
<1> DEFINE f == Js(Callback)
<1>1. /\ InDrain /\ Top.run = "drain" /\ stack' = Append(stack, f) /\ ticks > 0 /\ ticks' = ticks - 1
      /\ UNCHANGED <<table, resolvable, immediates, timers, cancelled, external, uses, calls, exit, phase>>
  BY DEF RunTick, Checked, InDrain, Push, programVars
<1>2. f \in Frames /\ f.run = "js" /\ f.job = Callback
  BY FrameTypes, JobTypes
<1>3. Callback.kind = "callback"
  BY DEF Callback
<1> HIDE DEF f
<1>4. ~IsBody(f) /\ ~IsScript(f) /\ RunsHandler(f)
  BY <1>2, <1>3 DEF IsBody, IsScript, RunsHandler
<1>5. \A p : ~JobAims(f.job, p)
  BY <1>2, <1>3 DEF JobAims
<1>6. /\ stack' \in Seq(Frames) /\ stack' # <<>>
      /\ \A p : StackAims(stack', p) => StackAims(stack, p)
      /\ Runs(stack') <=> Runs(stack)
      /\ RunsOnce(stack) => RunsOnce(stack')
      /\ Stands(stack')
  BY <1>1, <1>2, <1>4, <1>5, Enters
<1>7. Moves
  BY <1>1, <1>6, StillMoves
<1>8. phase = "running"
  BY <1>1, StackTypes
<1>9. LoopTypeOK'
  <2>1. ticks' \in Nat
    BY <1>1, LoopTypes
  <2>2. QED
    BY <1>1, <1>6, <1>8, <2>1 DEF IInv, TypeOK, LoopTypeOK
<1>10. LoopStands'
  BY <1>1, <1>8 DEF LoopStands
<1>11. QED
  BY <1>1, <1>6, <1>7, <1>9, <1>10, StepKeeps

\* The job that runs next.
LEMMA NextJobIs ==
  ASSUME IInv, table.microtasks # <<>>
  PROVE  /\ NextJob \in Jobs
         /\ NextJob.kind = "reaction" => Names(table, NextJob.reaction)
         /\ \A p \in Promises : JobAims(NextJob, p) => p \in Mine
<1>1. table \in Tables /\ Sound(table)
  BY LoopTypes
<1>2. 1 \in DOMAIN table.microtasks /\ table.microtasks[1] = NextJob /\ NextJob \in Jobs
  BY <1>1, ShorterIs DEF NextJob
<1>3. NextJob.kind = "reaction" => Names(table, NextJob.reaction)
  BY <1>1, <1>2 DEF Sound, ElementsExist
<1>4. \A p \in Promises : JobAims(NextJob, p) => p \in Mine
  BY <1>2 DEF Mine, Claimed, Aimed
<1>5. QED
  BY <1>2, <1>3, <1>4

\* A job runs its callback, or settles what passes through.
LEMMA RunMicrotaskKeeps ==
  ASSUME IInv, RunMicrotask, UNCHANGED genVars
  PROVE  IInv'
<1> DEFINE job == NextJob
           u == Shorter(table)
           f == Js(job)
<1>1. /\ InDrain /\ Top.run = "drain" /\ table.microtasks # <<>>
      /\ UNCHANGED <<ticks, immediates, timers, cancelled, external, uses, calls, exit>>
  BY DEF RunMicrotask, Checked, InDrain, queueVars
<1>2. table \in Tables /\ Sound(table)
  BY LoopTypes
<1>3. /\ job \in Jobs /\ job = Head(table.microtasks)
      /\ job.kind = "reaction" => Names(table, job.reaction)
      /\ \A p \in Promises : JobAims(job, p) => p \in Mine
  BY <1>1, NextJobIs DEF NextJob
<1>4. u = Dequeued
  BY DEF Shorter, Dequeued
<1>5. phase = "running" /\ stack # <<>> /\ Stands(stack)
  BY <1>1, StackTypes
<1> HIDE DEF u
<1>6. CASE Silent(job)
  <2>1. /\ table' = IF job.kind = "thenable" THEN u ELSE Alone(u, job)
        /\ UNCHANGED <<stack, phase, resolvable>>
    BY <1>4, <1>6 DEF RunMicrotask
  <2>2. ~IsResumption(job) /\ (job.kind = "thenable" \/ RunsAlone(job))
    BY <1>6 DEF IsResumption, Silent, RunsAlone
  <2> HIDE DEF job
  <2>3. Evolves(table, u, {})
    BY <1>1, <1>2, <1>3, <2>2, ShorterEvolves DEF u
  <2>4. u.combinators = table.combinators
    BY <1>1, <1>2, ShorterIs DEF u
  <2>5. u \in Tables /\ Sound(u)
    BY <2>3 DEF Evolves, Changes
  <2>6. Evolves(table, u, Mine)
    BY <2>3, EvolvesWider
  <2>7. ASSUME job.kind = "thenable" PROVE Evolves(table, table', Mine)
    BY <2>1, <2>6, <2>7
  <2>8. ASSUME job.kind # "thenable" PROVE Evolves(table, table', Mine)
    <3>1. RunsAlone(job) /\ job.kind = "reaction"
      BY <2>2, <2>8 DEF RunsAlone
    <3>2. Names(u, job.reaction)
      BY <1>3, <2>4, <3>1 DEF Names
    <3>3. PICK p \in Promises : /\ Evolves(u, Alone(u, job), {p})
                                /\ JobAims(job, p) \/ \E c \in DOMAIN u.combinators : u.combinators[c].target = p
      BY <1>3, <2>5, <3>1, <3>2, AloneEvolves
    <3>4. p \in Mine
      <4>1. CASE JobAims(job, p)
        BY <1>3, <4>1
      <4>2. CASE \E c \in DOMAIN table.combinators : table.combinators[c].target = p
        BY <4>2 DEF Mine, Claimed, Aimed
      <4>3. QED
        BY <2>4, <3>3, <4>1, <4>2
    <3> DEFINE v == Alone(u, job)
    <3>5. Evolves(u, v, {p}) /\ table' = v
      BY <2>1, <2>8, <3>3
    <3> HIDE DEF v
    <3>6. Evolves(table, v, Mine)
      BY <1>2, <2>6, <3>4, <3>5, EvolvesTrans
    <3>7. QED
      BY <3>5, <3>6
  <2>9. Evolves(table, table', Mine)
    BY <2>7, <2>8
  <2>10. Moves
    BY <2>1, <2>9 DEF Moves, Mine, Claimed
  <2>11. ASSUME table' \in Tables PROVE LoopTypeOK'
    BY <1>1, <2>1, <2>11 DEF IInv, TypeOK, LoopTypeOK
  <2>12. LoopStands'
    BY <1>5, <2>1 DEF LoopStands
  <2>13. Stands(stack')
    BY <1>5, <2>1
  <2>14. QED
    BY <1>1, <2>10, <2>11, <2>12, <2>13, StepKeeps
<1>7. CASE ~Silent(job)
  <2>1. /\ table' = u /\ stack' = Append(stack, f) /\ phase' = phase
        /\ resolvable' = IF job.kind = "thenable" THEN resolvable \cup {job.target} ELSE resolvable
        /\ job.kind = "reaction" => job.reaction.kind # "generator"
    BY <1>4, <1>7 DEF RunMicrotask, Push
  <2>2. ~IsResumption(job)
    BY <2>1 DEF IsResumption
  <2>3. f \in Frames /\ f.run = "js" /\ f.job = job
    BY <1>3, FrameTypes
  <2>4. job.kind \in {"callback", "thenable", "reaction"}
    BY <1>3, JobTypes
  <2> HIDE DEF f
  <2>5. ~IsBody(f) /\ ~IsScript(f)
    BY <2>3, <2>4 DEF IsBody, IsScript
  <2>6. RunsHandler(f)
    <3>1. ASSUME job.kind = "reaction" PROVE job.reaction.kind \in {"handler", "finally", "resume"}
      <4>1. job.reaction \in Reactions
        BY <1>3, <3>1, JobTypes
      <4>2. job.reaction.kind \in Targets \cup {"element", "generator"}
        BY <4>1, ReactionTypes
      <4>3. job.reaction.kind \notin {"finallyResult", "element", "generator"}
        BY <1>7, <2>1, <3>1 DEF Silent, RunsAlone
      <4>4. QED
        BY <4>2, <4>3 DEF Targets
    <3>2. QED
      BY <2>3, <3>1 DEF RunsHandler
  <2>7. /\ stack' \in Seq(Frames) /\ stack' # <<>>
        /\ \A p : StackAims(stack', p) => StackAims(stack, p) \/ JobAims(job, p)
        /\ Runs(stack') <=> Runs(stack)
        /\ RunsOnce(stack) => RunsOnce(stack')
        /\ Stands(stack')
    BY <1>1, <2>1, <2>3, <2>5, <2>6, Enters
  <2> HIDE DEF job
  <2>8. Evolves(table, u, {})
    BY <1>1, <1>2, <1>3, <2>2, ShorterEvolves DEF u
  <2>9. Evolves(table, table', Mine)
    BY <2>1, <2>8, EvolvesWider
  <2>10. \A p \in Promises : p \in resolvable' => p \in Mine
    <3>1. job.kind = "thenable" => job.target \in Promises /\ JobAims(job, job.target)
      BY <1>3, JobTypes DEF JobAims
    <3>2. \A p \in Promises : p \in resolvable => p \in Mine
      BY DEF Mine, Claimed
    <3>3. QED
      BY <1>3, <2>1, <3>1, <3>2
  <2>11. \A p \in Promises : StackAims(stack', p) => p \in Mine
    BY <1>3, <2>7 DEF Mine, Claimed
  <2>12. Moves
    BY <2>7, <2>9, <2>10, <2>11 DEF Moves
  <2>13. ASSUME table' \in Tables PROVE LoopTypeOK'
    <3>1. resolvable' \subseteq Promises
      <4>1. job.kind = "thenable" => job.target \in Promises
        BY <1>3, JobTypes
      <4>2. QED
        BY <2>1, <4>1, LoopTypes
    <3>2. QED
      BY <1>1, <1>5, <2>1, <2>7, <2>13, <3>1 DEF IInv, TypeOK, LoopTypeOK
  <2>14. LoopStands'
    BY <1>5, <2>1 DEF LoopStands
  <2>15. QED
    BY <1>1, <2>7, <2>12, <2>13, <2>14, StepKeeps
<1>8. QED
  BY <1>6, <1>7

\* An immediate or a timer starts on top of the drain, unless it was cancelled.
LEMMA StartKeeps ==
  ASSUME IInv, InDrain, NEW job, job.kind = "macro", Start(job),
         job.id \notin cancelled => job \in Callers
  PROVE  /\ stack' \in Seq(Frames) /\ stack' # <<>>
         /\ \A p : StackAims(stack', p) => StackAims(stack, p)
         /\ Runs(stack') <=> Runs(stack)
         /\ RunsOnce(stack) => RunsOnce(stack')
         /\ Stands(stack')
<1> DEFINE u == Append(Below, [Top EXCEPT !.ran = TRUE])
           f == Js(job)
<1>1. stack \in Seq(Frames) /\ stack # <<>> /\ Depth = Len(stack) /\ Top = stack[Len(stack)] /\ Stands(stack)
      /\ Top.run = "drain"
  BY StackTypes DEF InDrain
<1>2. u = Append(SubSeq(stack, 1, Len(stack) - 1), [stack[Len(stack)] EXCEPT !.ran = TRUE])
  BY <1>1 DEF Below
<1>3. /\ u \in Seq(Frames) /\ u # <<>> /\ Len(u) = Len(stack) /\ u[Len(u)].run = "drain"
      /\ \A p : StackAims(u, p) => StackAims(stack, p)
      /\ Runs(u) <=> Runs(stack)
      /\ RunsOnce(stack) => RunsOnce(u)
      /\ Stands(u)
  BY <1>1, <1>2, RerunKeeps
<1>4. stack' = u \o (IF job.id \in cancelled THEN <<>> ELSE <<f>>)
  BY DEF Start
<1> HIDE DEF u
<1>5. CASE job.id \in cancelled
  <2>1. stack' = u
    BY <1>3, <1>4, <1>5
  <2>2. QED
    BY <1>3, <2>1
<1>6. CASE job.id \notin cancelled
  <2>1. job \in Callers
    BY <1>6
  <2>2. f \in Frames /\ f.run = "js" /\ f.job = job
    BY <2>1, FrameTypes
  <2> HIDE DEF f
  <2>3. ~IsBody(f) /\ ~IsScript(f) /\ RunsHandler(f) /\ ~IsTick(f)
    BY <2>2 DEF IsBody, IsScript, RunsHandler, IsTick
  <2>4. \A p : ~JobAims(f.job, p)
    BY <2>1, <2>2, CallersAim
  <2>5. stack' = Append(u, f)
    BY <1>3, <1>4, <1>6, <2>2
  <2>6. QED
    BY <1>3, <2>2, <2>3, <2>4, <2>5, PushKeeps
<1>7. QED
  BY <1>5, <1>6

LEMMA RunImmediateKeeps ==
  ASSUME IInv, RunImmediate, UNCHANGED genVars
  PROVE  IInv'
<1> DEFINE job == Macro(Head(immediates), FALSE, 0)
<1>1. /\ InDrain /\ immediates # <<>> /\ immediates' = Tail(immediates) /\ Start(job)
      /\ UNCHANGED <<table, resolvable, ticks, timers, cancelled, external, uses, calls, phase, exit>>
  BY DEF RunImmediate, Checked, programVars
<1>2. immediates \in Seq(Resources)
  BY LoopTypes
<1>3. Head(immediates) \in Resources /\ immediates' \in Seq(Resources)
  BY <1>1, <1>2
<1>4. job \in Callers /\ job.kind = "macro"
  BY <1>3, LoopAssumption DEF Callers, Macro
<1> HIDE DEF job
<1>5. /\ stack' \in Seq(Frames) /\ stack' # <<>>
      /\ \A p : StackAims(stack', p) => StackAims(stack, p)
      /\ Runs(stack') <=> Runs(stack)
      /\ RunsOnce(stack) => RunsOnce(stack')
      /\ Stands(stack')
  BY <1>1, <1>4, StartKeeps
<1>6. phase = "running"
  BY <1>1, StackTypes
<1>7. Moves
  BY <1>1, <1>5, StillMoves
<1>8. LoopTypeOK'
  BY <1>1, <1>3, <1>5, <1>6 DEF IInv, TypeOK, LoopTypeOK
<1>9. LoopStands'
  BY <1>1, <1>6 DEF LoopStands
<1>10. QED
  BY <1>1, <1>5, <1>7, <1>8, <1>9, StepKeeps

LEMMA ElapseTypes ==
  ASSUME NEW s \in Seq(Timers), NEW time \in 0..1
  PROVE  Elapse(s, time) \in Seq(Timers) /\ (Elapse(s, time) = <<>> <=> s = <<>>)
<1> DEFINE late(i) == [s[i] EXCEPT !.rem = LatestOf(s[i].rem - time)]
<1>1. DOMAIN s = 1..Len(s) /\ Len(s) \in Nat
  BY Positions
<1>2. \A x \in Timers : [x EXCEPT !.rem = LatestOf(x.rem - time)] \in Timers
  BY LoopAssumption DEF Timers, LatestOf
<1>3. \A i \in 1..Len(s) : late(i) \in Timers
  BY <1>1, <1>2
<1>4. Elapse(s, time) = [i \in 1..Len(s) |-> late(i)]
  BY <1>1 DEF Elapse
<1> HIDE DEF late
<1>5. [i \in 1..Len(s) |-> late(i)] \in Seq(Timers)
  BY <1>1, <1>3
<1>6. Len([i \in 1..Len(s) |-> late(i)]) = Len(s)
  BY <1>1
<1>7. QED
  BY <1>4, <1>5, <1>6

LEMMA RunTimerKeeps ==
  ASSUME IInv, RunTimer, UNCHANGED genVars
  PROVE  IInv'
<1> DEFINE timer == Head(timers)
           job == Macro(timer.id, timer.repeat, LatestOf(timer.rem))
<1>1. /\ InDrain /\ immediates = <<>> /\ MacrotaskReady /\ Start(job)
      /\ timers' = IF timer.rem > 0 THEN Elapse(Tail(timers), timer.rem) ELSE Tail(timers)
      /\ UNCHANGED <<table, resolvable, ticks, immediates, cancelled, external, uses, calls, phase, exit>>
  BY DEF RunTimer, Checked, programVars
<1>2. timers \in Seq(Timers) /\ timers # <<>> /\ TimerReady(timers[1])
  BY <1>1, LoopTypes DEF MacrotaskReady
<1>3. timer \in Timers /\ Tail(timers) \in Seq(Timers) /\ timer = timers[1]
  BY <1>2
<1> HIDE DEF timer
<1>4. timer.id \in Resources /\ timer.repeat \in BOOLEAN /\ timer.rem \in -MaxLateness..1
  BY <1>3 DEF Timers
<1>5. timers' \in Seq(Timers)
  <2>1. timer.rem > 0 => timer.rem \in 0..1
    BY <1>4, LoopAssumption
  <2>2. QED
    BY <1>1, <1>3, <2>1, ElapseTypes
<1>6. job.kind = "macro" /\ job.id = timer.id
  BY DEF Macro
<1>7. job.id \notin cancelled => job \in Callers
  <2> SUFFICES ASSUME job.id \notin cancelled PROVE job \in Callers
    OBVIOUS
  <2>1. timer.rem <= 0
    BY <1>2, <1>3, <1>6 DEF TimerReady
  <2>2. LatestOf(timer.rem) \in -MaxLateness..0
    BY <1>4, <2>1, LoopAssumption DEF LatestOf
  <2>3. QED
    BY <1>4, <2>2 DEF Callers, Macro
<1> HIDE DEF job
<1>8. /\ stack' \in Seq(Frames) /\ stack' # <<>>
      /\ \A p : StackAims(stack', p) => StackAims(stack, p)
      /\ Runs(stack') <=> Runs(stack)
      /\ RunsOnce(stack) => RunsOnce(stack')
      /\ Stands(stack')
  BY <1>1, <1>6, <1>7, StartKeeps
<1>9. phase = "running"
  BY <1>1, StackTypes
<1>10. Moves
  BY <1>1, <1>8, StillMoves
<1>11. LoopTypeOK'
  BY <1>1, <1>5, <1>8, <1>9 DEF IInv, TypeOK, LoopTypeOK
<1>12. LoopStands'
  BY <1>1, <1>9 DEF LoopStands
<1>13. QED
  BY <1>1, <1>8, <1>10, <1>11, <1>12, StepKeeps

\* The checkpoint reports, and the loop is over.
LEMMA ReportKeeps ==
  ASSUME IInv, Report, UNCHANGED genVars
  PROVE  IInv'
<1>1. /\ InDrain /\ Top.run = "drain" /\ stack' = Below /\ exit' = "rejection" /\ Top.check
      /\ table' = [table EXCEPT !.unhandled = {}]
      /\ UNCHANGED <<resolvable, ticks, immediates, timers, cancelled, external, uses, calls>>
      /\ phase' = IF Depth > 1 THEN phase ELSE IF exit' = "none" THEN "decide" ELSE "ended"
  BY DEF Report, DrainReturns, InDrain, queueVars, programVars
<1>2. ~IsBody(Top)
  BY <1>1 DEF IsBody
<1>3. /\ stack' \in Seq(Frames) /\ (stack' = <<>> <=> Depth = 1)
      /\ \A p : StackAims(stack', p) => StackAims(stack, p)
      /\ Runs(stack') <=> Runs(stack)
      /\ RunsOnce(stack) => RunsOnce(stack')
      /\ Stands(stack')
  BY <1>1, <1>2, TopLeaves
<1>4. phase = "running" /\ Depth \in Nat /\ Depth > 0
  BY <1>1, StackTypes
<1>5. table \in Tables /\ Sound(table)
  BY LoopTypes
<1>6. /\ table' \in Tables /\ table'.state = table.state /\ table'.reactions = table.reactions
      /\ table'.microtasks = table.microtasks /\ table'.handled = table.handled
      /\ table'.combinators = table.combinators /\ table'.unhandled = {}
  BY <1>1, <1>5 DEF Tables
<1>7. TypeOK'
  <2>1. phase' \in {"running", "turn", "decide", "ended", "aborted"} /\ (phase' = "running" <=> stack' # <<>>)
    BY <1>1, <1>3, <1>4
  <2>2. LoopTypeOK'
    BY <1>1, <1>3, <1>6, <2>1 DEF IInv, TypeOK, LoopTypeOK
  <2>3. QED
    BY <2>2 DEF IInv, TypeOK, genVars
<1>8. Sound(table')
  <2>1. Listens(table')
    BY <1>5, <1>6 DEF Sound, Listens, Is
  <2>2. ElementsExist(table')
    BY <1>5, <1>6 DEF Sound, ElementsExist, Names
  <2>3. InOrder(table')
    BY <1>5, <1>6 DEF Sound, InOrder, Exists, Is
  <2>4. QED
    BY <2>1, <2>2, <2>3 DEF Sound
<1>9. Open' = Open /\ resume' = resume /\ status' = status /\ queue' = queue
  BY DEF genVars, Open
<1>10. OwnIsOwn'
  <2>1. \A p : Own(p)' <=> Own(p)
    BY <1>9 DEF Own
  <2>2. \A p, s : Is(table', p, s) <=> Is(table, p, s)
    BY <1>6 DEF Is
  <2>3. \A p \in Promises : Claimed(table', resolvable', stack', p) => Claimed(table, resolvable, stack, p)
    BY <1>1, <1>3, <1>6 DEF Claimed, Aimed
  <2>4. QED
    BY <1>9, <2>1, <2>2, <2>3 DEF OwnIsOwn, IInv
<1>11. BodyStands'
  <2>1. Alike(table, table')
    BY <1>6 DEF Alike, Rests, IsQueued
  <2>2. Bodies(table, table')
    BY <2>1, AlikeBodies
  <2>3. status = "yield" => RestsAt(table', resume)
    BY <1>6, <2>2 DEF Bodies, IInv, BodyStands, TypeOK, RestsAt, Rests
  <2>4. AtMostOnce(table') /\ (Somewhere(table') <=> Somewhere(table))
    BY <2>2 DEF Bodies, IInv, BodyStands
  <2>5. QED
    BY <1>3, <1>9, <2>3, <2>4 DEF BodyStands, IInv
<1>12. LoopStands'
  BY <1>1, <1>4 DEF LoopStands
<1>13. QED
  BY <1>1, <1>3, <1>7, <1>8, <1>10, <1>11, <1>12 DEF IInv

LEMMA DrainStepsKeep ==
  ASSUME IInv, DrainStep, UNCHANGED genVars
  PROVE  IInv'
BY ReportKeeps, DrainEndsKeeps, RunTickKeeps, RunMicrotaskKeeps, RunImmediateKeeps, RunTimerKeeps DEF DrainStep

-----------------------------------------------------------------------------
(* A callback returns. *)

\* A callback that is not the script nor a poll has a frame below it.
LEMMA ReturnTypes ==
  ASSUME IInv, InJs
  PROVE  /\ Top.run = "js" /\ Top.job \in Jobs \cup Callers /\ RunsHandler(Top)
         /\ Top.job.kind \notin {"script", "poll"} <=> Depth > 1
         /\ Depth \in Nat /\ phase = "running"
<1>1. Depth \in DOMAIN stack /\ Top = stack[Depth] /\ Stands(stack) /\ Top \in Frames /\ Depth \in Nat /\ Depth > 0
      /\ phase = "running"
  BY StackTypes
<1>2. Top.run = "js" /\ Top.job \in Jobs \cup Callers
  BY <1>1, FrameTypes DEF InJs
<1>3. RunsHandler(Top)
  BY <1>1 DEF Stands
<1>4. IsScript(Top) <=> Depth = 1
  BY BottomFrame
<1>5. QED
  BY <1>1, <1>2, <1>3, <1>4 DEF IsScript

\* The only callback of the stack returns.
LEMMA LastKeeps ==
  ASSUME IInv, InJs, Top.job.kind \in {"script", "poll"}, stack' = <<>>,
         phase' \in {"turn", "ended", "aborted"}, phase' = "ended" => exit # "none",
         UNCHANGED <<table, queueVars, programVars, exit, genVars>>
  PROVE  IInv'
<1>1. Depth = 1 /\ ~IsBody(Top)
  <2>1. (Top.job.kind \notin {"script", "poll"} <=> Depth > 1) /\ Depth \in Nat
    BY ReturnTypes
  <2>2. Depth > 0
    BY StackTypes
  <2>3. Depth = 1
    BY <2>1, <2>2
  <2>4. ~IsBody(Top)
    BY DEF IsBody
  <2>5. QED
    BY <2>3, <2>4
<1>2. Below = <<>>
  BY <1>1, StackTypes DEF Below
<1>3. /\ stack' \in Seq(Frames)
      /\ \A p : StackAims(stack', p) => StackAims(stack, p)
      /\ Runs(stack') <=> Runs(stack)
      /\ RunsOnce(stack) => RunsOnce(stack')
      /\ Stands(stack')
  BY <1>1, <1>2, TopLeaves
<1>4. Moves
  BY <1>3, StillMoves DEF programVars
<1>5. LoopTypeOK'
  BY <1>3 DEF IInv, TypeOK, LoopTypeOK, queueVars, programVars
<1>6. LoopStands'
  BY DEF LoopStands
<1>7. QED
  BY <1>3, <1>4, <1>5, <1>6, StepKeeps

LEMMA MacroReturnsKeeps ==
  ASSUME IInv, MacroReturns, UNCHANGED genVars
  PROVE  IInv'
<1>1. /\ InJs /\ Top.job.kind = "macro" /\ stack' = Below
      /\ timers' = IF exit = "none" /\ Top.job.repeat /\ Top.job.id \notin cancelled
                   THEN Insert(timers, [id |-> Top.job.id, rem |-> Top.job.rem + 1, repeat |-> TRUE])
                   ELSE timers
      /\ UNCHANGED <<table, resolvable, ticks, immediates, cancelled, external, uses, calls, phase, exit>>
  BY DEF MacroReturns, Pop, programVars
<1>2. Depth > 1 /\ Top.job \in Jobs \cup Callers /\ phase = "running" /\ ~IsBody(Top) /\ Depth \in Nat
  BY <1>1, ReturnTypes DEF IsBody
<1>3. /\ stack' \in Seq(Frames) /\ stack' # <<>>
      /\ \A p : StackAims(stack', p) => StackAims(stack, p)
      /\ Runs(stack') <=> Runs(stack)
      /\ RunsOnce(stack) => RunsOnce(stack')
      /\ Stands(stack')
  <2>1. Depth # 1
    BY <1>2
  <2>2. QED
    BY <1>1, <1>2, <2>1, TopLeaves
<1>4. Moves
  BY <1>1, <1>3, StillMoves
<1>5. timers' \in Seq(Timers)
  <2>1. Top.job \in [kind : {"macro"}, id : Resources, repeat : BOOLEAN, rem : -MaxLateness..0]
    BY <1>1, <1>2, JobTypes DEF Callers
  <2>2. [id |-> Top.job.id, rem |-> Top.job.rem + 1, repeat |-> TRUE] \in Timers
    BY <2>1, LoopAssumption DEF Timers
  <2>3. QED
    BY <1>1, <2>2, InsertTypes, LoopTypes
<1>6. LoopTypeOK'
  BY <1>1, <1>2, <1>3, <1>5 DEF IInv, TypeOK, LoopTypeOK
<1>7. LoopStands'
  BY <1>1, <1>2 DEF LoopStands
<1>8. QED
  BY <1>1, <1>3, <1>4, <1>6, <1>7, StepKeeps

LEMMA CallbackReturnsKeeps ==
  ASSUME IInv, NEW result, CallbackReturns(result), UNCHANGED genVars
  PROVE  IInv'
<1>1. /\ InJs /\ Top.job.kind = "callback"
      /\ UNCHANGED <<table, resolvable, ticks, immediates, timers, cancelled, external, uses, calls, exit>>
  BY DEF CallbackReturns, queueVars, programVars
<1>2. Depth > 1 /\ phase = "running" /\ ~IsBody(Top) /\ Depth \in Nat /\ Top.run = "js"
  BY <1>1, ReturnTypes DEF IsBody
<1>3. ASSUME NEW k \in 0..Depth, stack' = SubSeq(stack, 1, k), \A i \in 1..Depth : i > k => ~IsBody(stack[i]),
             k = 0 => phase' = "aborted", k # 0 => phase' = phase
      PROVE  IInv'
  <2>1. /\ stack' \in Seq(Frames) /\ (stack' = <<>> <=> k = 0)
        /\ \A p : StackAims(stack', p) => StackAims(stack, p)
        /\ Runs(stack') <=> Runs(stack)
        /\ RunsOnce(stack) => RunsOnce(stack')
        /\ Stands(stack')
    BY <1>1, <1>3, Leaves
  <2>2. Moves
    BY <1>1, <2>1, StillMoves
  <2>3. LoopTypeOK'
    BY <1>1, <1>2, <1>3, <2>1 DEF IInv, TypeOK, LoopTypeOK
  <2>4. LoopStands'
    BY <1>2, <1>3 DEF LoopStands
  <2>5. QED
    BY <1>1, <2>1, <2>2, <2>3, <2>4, StepKeeps
<1>4. CASE result = Throw /\ exit = "none"
  <2> DEFINE k == Depth - 2
  <2>1. stack' = SubSeq(stack, 1, k) /\ phase' = IF Depth > 2 THEN phase ELSE "aborted"
    BY <1>4 DEF CallbackReturns
  <2>2. k \in 0..Depth /\ (k = 0 => ~(Depth > 2)) /\ (k # 0 => Depth > 2)
    BY <1>2
  <2>3. Stands(stack) /\ Depth \in DOMAIN stack /\ Top = stack[Depth] /\ DOMAIN stack = 1..Depth
    BY <1>1, StackTypes
  <2>4. stack[Depth - 1].run = "drain"
    BY <1>1, <1>2, <2>3 DEF Stands, IsTick
  <2>5. \A i \in 1..Depth : i > k => ~IsBody(stack[i])
    <3> SUFFICES ASSUME NEW i \in 1..Depth, i > k PROVE ~IsBody(stack[i])
      OBVIOUS
    <3>1. i = Depth \/ i = Depth - 1
      BY <1>2
    <3>2. QED
      BY <1>2, <2>3, <2>4, <3>1 DEF IsBody
  <2> HIDE DEF k
  <2>6. QED
    BY <1>3, <2>1, <2>2, <2>5
<1>5. CASE ~(result = Throw /\ exit = "none")
  <2> DEFINE k == Depth - 1
  <2>1. stack' = SubSeq(stack, 1, k) /\ phase' = phase
    BY <1>5 DEF CallbackReturns, Pop, Below
  <2>2. k \in 0..Depth /\ k # 0
    BY <1>2
  <2>3. Top = stack[Depth]
    BY <1>1, StackTypes
  <2>5. \A i \in 1..Depth : i > k => ~IsBody(stack[i])
    <3> SUFFICES ASSUME NEW i \in 1..Depth, i > k PROVE ~IsBody(stack[i])
      OBVIOUS
    <3>1. i = Depth
      BY <1>2
    <3>2. QED
      BY <1>2, <2>3, <3>1
  <2> HIDE DEF k
  <2>6. QED
    BY <1>3, <2>1, <2>2, <2>5
<1>6. QED
  BY <1>4, <1>5

\* A job's callback returns and settles only what the job aims at.
LEMMA JobReturns ==
  ASSUME IInv, InJs, Top.job \in Jobs, Top.job.kind \in {"reaction", "thenable"},
         NEW p \in Promises, Evolves(table, table', {p}), JobAims(Top.job, p),
         stack' = Below, calls' \in 0..MaxCalls,
         UNCHANGED <<phase, ticks, immediates, timers, cancelled, resolvable, external, uses, exit, genVars>>
  PROVE  IInv'
<1>1. Depth > 1 /\ phase = "running" /\ ~IsBody(Top) /\ Depth \in Nat /\ Top.run = "js"
  <2>1. Top.job.kind \notin {"script", "poll"} /\ Top.job.kind # "body"
    OBVIOUS
  <2>2. QED
    BY <2>1, ReturnTypes DEF IsBody
<1>2. /\ stack' \in Seq(Frames) /\ stack' # <<>>
      /\ \A q : StackAims(stack', q) => StackAims(stack, q)
      /\ Runs(stack') <=> Runs(stack)
      /\ RunsOnce(stack) => RunsOnce(stack')
      /\ Stands(stack')
  <2>1. Depth # 1
    BY <1>1
  <2>2. QED
    BY <1>1, <2>1, TopLeaves
<1>3. p \in Mine
  <2>1. Depth \in DOMAIN stack /\ Top = stack[Depth]
    BY StackTypes
  <2>2. StackAims(stack, p)
    BY <1>1, <2>1 DEF StackAims
  <2>3. QED
    BY <2>2 DEF Mine, Claimed
<1>4. Evolves(table, table', Mine)
  BY <1>3, EvolvesWider
<1>5. Moves
  BY <1>2, <1>4 DEF Moves, Mine, Claimed
<1>6. table' \in Tables => LoopTypeOK'
  BY <1>1, <1>2 DEF IInv, TypeOK, LoopTypeOK
<1>7. LoopStands'
  BY <1>1 DEF LoopStands
<1>8. QED
  BY <1>2, <1>5, <1>6, <1>7, StepKeeps

LEMMA ReactionReturnsKeeps ==
  ASSUME IInv, InJs, NEW result \in Outcomes(Top.job), ReactionReturns(result), UNCHANGED genVars
  PROVE  IInv'
<1> DEFINE job == Top.job
<1>1. /\ job.kind \in {"reaction", "thenable"} /\ Allowed(job, result) /\ stack' = Below
      /\ table' = Completed(table, job, result)
      /\ UNCHANGED <<phase, ticks, immediates, timers, cancelled, resolvable, external, uses, calls, exit>>
  BY DEF ReactionReturns, Pop, queueVars, programVars
<1>2. job \in Jobs
  BY <1>1, ReturnTypes, FrameTypes
<1>3. job.kind = "reaction" => job.reaction.kind \in {"handler", "finally", "resume"}
  BY ReturnTypes DEF RunsHandler
<1>4. result \in Outcome(table)
  BY DEF Outcomes, Outcome, Results, Existing
<1>5. job.kind = "reaction" /\ job.reaction.kind = "finally" /\ result \in {Value, Thenable} => HasRoom(table)
  BY <1>1 DEF Allowed
<1> HIDE DEF job
<1>6. PICK p \in Promises : Evolves(table, Completed(table, job, result), {p}) /\ JobAims(job, p)
  BY <1>1, <1>2, <1>3, <1>4, <1>5, LoopTypes, CompletedEvolves
<1>7. /\ Evolves(table, table', {p}) /\ JobAims(Top.job, p)
      /\ Top.job \in Jobs /\ Top.job.kind \in {"reaction", "thenable"}
  BY <1>1, <1>2, <1>6 DEF job
<1>8. calls' \in 0..MaxCalls
  BY <1>1, LoopTypes
<1>9. QED
  BY <1>1, <1>7, <1>8, JobReturns

LEMMA AwaitAgainKeeps ==
  ASSUME IInv, AwaitAgain, UNCHANGED genVars
  PROVE  IInv'
<1>1. PICK p \in Promises :
      /\ InJs /\ Top.job.kind = "reaction" /\ Top.job.reaction.kind = "resume"
      /\ calls > 0 /\ calls' = calls - 1 /\ table' = Subscribe(table, p, Top.job.reaction) /\ stack' = Below
      /\ UNCHANGED <<phase, ticks, immediates, timers, cancelled, resolvable, external, uses, exit>>
  BY DEF AwaitAgain, Pop, queueVars
<1> DEFINE x == Top.job.reaction
<1>2. Top.job \in Jobs
  BY <1>1, ReturnTypes, FrameTypes
<1>3. x \in Reactions /\ x.kind = "resume"
  BY <1>1, <1>2, JobTypes
<1>4. x.target \in Promises /\ Plain(x)
  BY <1>3, ReactionTypes DEF Targets, Plain
<1>5. JobAims(Top.job, x.target) /\ \A q \in Promises : ReactionAims(x, q) => q \in {x.target}
  BY <1>1, <1>3 DEF JobAims, ReactionAims, Targets
<1> HIDE DEF x
<1>6. Evolves(table, Subscribe(table, p, x), {x.target})
  BY <1>3, <1>4, <1>5, LoopTypes, SubscribePlain
<1>7. Evolves(table, table', {x.target})
  BY <1>1, <1>6 DEF x
<1>8. calls' \in 0..MaxCalls
  BY <1>1, LoopTypes, LoopAssumption
<1>9. QED
  BY <1>1, <1>2, <1>4, <1>5, <1>7, <1>8, JobReturns

LEMMA ReturnsKeep ==
  ASSUME IInv, Return, UNCHANGED genVars
  PROVE  IInv'
<1>1. CASE ScriptReturns
  <2>1. /\ InJs /\ Top.job.kind \in {"script", "poll"} /\ stack' = <<>>
        /\ phase' \in {"turn", "ended", "aborted"} /\ (phase' = "ended" => exit # "none")
        /\ UNCHANGED <<table, queueVars, programVars, exit>>
    BY <1>1 DEF ScriptReturns
  <2>2. QED
    BY <2>1, LastKeeps
<1>2. CASE MacroReturns
  BY <1>2, MacroReturnsKeeps
<1>3. CASE AwaitAgain
  BY <1>3, AwaitAgainKeeps
<1>4. ASSUME InJs, NEW result \in Outcomes(Top.job), PollReturns(result) PROVE IInv'
  <2>1. /\ InJs /\ Top.job.kind \in {"script", "poll"} /\ stack' = <<>>
        /\ phase' \in {"turn", "ended", "aborted"} /\ (phase' = "ended" => exit # "none")
        /\ UNCHANGED <<table, queueVars, programVars, exit>>
    BY <1>4 DEF PollReturns
  <2>2. QED
    BY <2>1, LastKeeps
<1>5. ASSUME InJs, NEW result \in Outcomes(Top.job), CallbackReturns(result) PROVE IInv'
  BY <1>5, CallbackReturnsKeeps
<1>6. ASSUME InJs, NEW result \in Outcomes(Top.job), ReactionReturns(result) PROVE IInv'
  BY <1>6, ReactionReturnsKeeps
<1>7. QED
  BY <1>1, <1>2, <1>3, <1>4, <1>5, <1>6 DEF Return

-----------------------------------------------------------------------------
(* The loop turns, sleeps and polls. *)

\* Nothing runs while the loop decides.
LEMMA AtRest ==
  ASSUME IInv, phase # "running"
  PROVE  stack = <<>> /\ ~Runs(stack) /\ \A p : ~StackAims(stack, p)
<1>1. stack = <<>>
  BY DEF IInv, TypeOK, LoopTypeOK
<1>2. QED
  BY <1>1 DEF Runs, StackAims

\* The first frame of a turn.
LEMMA FirstFrame ==
  ASSUME NEW f \in {Drain(TRUE), PollFrame}
  PROVE  /\ <<f>> \in Seq(Frames) /\ <<f>> # <<>> /\ ~Runs(<<f>>) /\ RunsOnce(<<f>>) /\ Stands(<<f>>)
         /\ \A p : ~StackAims(<<f>>, p)
<1> DEFINE u == <<f>>
<1>1. f \in Frames
  <2>1. [kind |-> "poll"] \in Callers
    BY DEF Callers
  <2>2. PollFrame \in Frames
    BY <2>1 DEF Frames, PollFrame
  <2>3. QED
    BY <2>2, FrameTypes
<1>2. /\ u \in Seq(Frames) /\ u # <<>> /\ DOMAIN u = {1} /\ u[1] = f
  BY <1>1
<1> HIDE DEF u
<1>3. /\ ~IsBody(f) /\ ~IsTick(f) /\ RunsHandler(f)
      /\ f.run = "drain" => f.check = TRUE
      /\ f.run = "js" => IsScript(f)
      /\ \A p : ~(f.run = "js" /\ JobAims(f.job, p))
  BY DEF IsBody, IsTick, RunsHandler, IsScript, Drain, PollFrame, JobAims
<1>4. Stands(u)
  BY <1>2, <1>3 DEF Stands
<1>5. QED
  BY <1>2, <1>3, <1>4 DEF Runs, RunsOnce, StackAims, u

LEMMA LoopStepsKeep ==
  ASSUME IInv, LoopStep, UNCHANGED genVars
  PROVE  IInv'
<1>1. ASSUME NEW f \in {Drain(TRUE), PollFrame}, phase # "running", stack' = <<f>>, phase' = "running",
             timers' \in Seq(Timers), external' \in Nat,
             UNCHANGED <<table, resolvable, ticks, immediates, cancelled, uses, calls, exit>>
      PROVE  IInv'
  <2>1. /\ stack' \in Seq(Frames) /\ stack' # <<>> /\ ~Runs(stack') /\ RunsOnce(stack') /\ Stands(stack')
        /\ \A p : ~StackAims(stack', p)
    BY <1>1, FirstFrame
  <2>2. Moves
    BY <1>1, <2>1, AtRest, StillMoves
  <2>3. LoopTypeOK'
    BY <1>1, <2>1 DEF IInv, TypeOK, LoopTypeOK
  <2>4. LoopStands'
    BY <1>1 DEF LoopStands
  <2>5. QED
    BY <1>1, <2>1, <2>2, <2>3, <2>4, StepKeeps
<1>2. ASSUME NEW time \in 0..1, Turn(time) PROVE IInv'
  <2>1. timers' \in Seq(Timers)
    BY <1>2, LoopTypes, ElapseTypes DEF Turn
  <2>2. external' \in Nat /\ UNCHANGED <<table, resolvable, ticks, immediates, cancelled, uses, calls, exit>>
        /\ phase # "running" /\ stack' = <<Drain(TRUE)>> /\ phase' = "running"
    BY <1>2, LoopTypes DEF Turn, programVars
  <2>3. QED
    BY <1>1, <2>1, <2>2
<1>3. ASSUME phase = "decide", phase' \in {"turn", "ended"},
             phase' = "ended" => QueuesEmpty /\ external = 0,
             UNCHANGED <<table, queueVars, programVars, stack, exit>>
      PROVE  IInv'
  <2>1. Moves
    BY <1>3, StillMoves DEF programVars
  <2>2. LoopTypeOK'
    BY <1>3 DEF IInv, TypeOK, LoopTypeOK, queueVars, programVars
  <2>3. LoopStands'
    BY <1>3 DEF IInv, LoopStands, QueuesEmpty, NothingPending, queueVars, programVars
  <2>4. Stands(stack')
    BY <1>3 DEF IInv
  <2>5. QED
    BY <1>3, <2>1, <2>2, <2>3, <2>4, StepKeeps
<1>4. CASE Sleep
  <2>1. /\ phase = "decide" /\ phase' \in {"turn", "ended"}
        /\ phase' = "ended" => QueuesEmpty /\ external = 0
        /\ UNCHANGED <<table, queueVars, programVars, stack, exit>>
    BY <1>4 DEF Sleep
  <2>2. QED
    BY <1>3, <2>1
<1>5. CASE Poll
  <2>1. CASE phase' = "turn" /\ UNCHANGED <<stack, external>>
    <3>1. phase = "decide" /\ UNCHANGED <<table, queueVars, programVars, stack, exit>>
      BY <1>5, <2>1 DEF Poll, programVars
    <3>2. QED
      BY <1>3, <2>1, <3>1
  <2>2. CASE external' = external - 1 /\ stack' = <<PollFrame>> /\ phase' = "running"
    <3>1. /\ phase # "running" /\ external' \in Nat /\ timers' \in Seq(Timers)
          /\ UNCHANGED <<table, resolvable, ticks, immediates, cancelled, uses, calls, exit>>
      BY <1>5, <2>2, LoopTypes DEF Poll, queueVars
    <3>2. QED
      BY <1>1, <2>2, <3>1
  <2>3. QED
    BY <1>5, <2>1, <2>2 DEF Poll
<1>6. QED
  BY <1>2, <1>4, <1>5 DEF LoopStep

\* Every step of the loop keeps the invariant.
LEMMA LoopKeeps ==
  ASSUME IInv, LoopNext, UNCHANGED genVars
  PROVE  IInv'
BY CallsKeep, ReturnsKeep, DrainStepsKeep, LoopStepsKeep DEF LoopNext

-----------------------------------------------------------------------------
(* The requests of the generator.                                          *)

Has(requests, p) == \E i \in DOMAIN requests : requests[i].promise = p
Distinct(requests) == \A i, j \in DOMAIN requests : requests[i].promise = requests[j].promise => i = j
OpenOf(first, rest) == (IF first = NoRequest THEN <<>> ELSE <<first>>) \o rest

\* Requests, one more in front, one more at the end, and the first one gone.
LEMMA RequestTypes ==
  /\ NoRequest \notin Promises /\ NoRequest \notin Requests
  /\ \A r \in Requests : r.promise \in Promises
  /\ \A kind \in {"next", "return", "throw"}, p \in Promises :
       Request(kind, p) \in Requests /\ Request(kind, p).promise = p /\ Request(kind, p).kind = kind
BY GeneratorAssumption DEF Requests, Request

LEMMA FrontIs ==
  ASSUME NEW r \in Requests, NEW q \in Seq(Requests)
  PROVE  LET o == <<r>> \o q IN
         /\ o \in Seq(Requests) /\ Len(o) = Len(q) + 1 /\ Len(q) \in Nat /\ o[1] = r
         /\ \A i \in 1..Len(q) : o[i + 1] = q[i]
BY Positions

LEMMA FrontHas ==
  ASSUME NEW r \in Requests, NEW q \in Seq(Requests)
  PROVE  /\ \A p : Has(<<r>> \o q, p) <=> p = r.promise \/ Has(q, p)
         /\ Distinct(<<r>> \o q) <=> Distinct(q) /\ ~Has(q, r.promise)
<1> DEFINE o == <<r>> \o q
<1>1. /\ o \in Seq(Requests) /\ Len(o) = Len(q) + 1 /\ Len(q) \in Nat /\ o[1] = r
      /\ \A i \in 1..Len(q) : o[i + 1] = q[i]
  BY FrontIs
<1>2. DOMAIN o = 1..(Len(q) + 1) /\ DOMAIN q = 1..Len(q)
  BY <1>1, Positions
<1> HIDE DEF o
<1> DEFINE n == Len(q)
<1>3. n \in Nat /\ DOMAIN o = 1..(n + 1) /\ DOMAIN q = 1..n /\ \A i \in 1..n : o[i + 1] = q[i]
  BY <1>1, <1>2
<1> HIDE DEF n
<1>4. \A i \in DOMAIN q : i + 1 \in DOMAIN o /\ o[i + 1] = q[i]
  BY <1>3
<1>5. \A i \in DOMAIN o : i = 1 \/ (i # 1 /\ i - 1 \in DOMAIN q /\ o[i] = q[i - 1])
  <2> TAKE i \in DOMAIN o
  <2>1. i = 1 \/ i - 1 \in 1..n
    BY <1>3
  <2>2. i - 1 \in 1..n => o[i] = q[i - 1]
    BY <1>3
  <2>3. QED
    BY <1>3, <2>1, <2>2
<1>6. 1 \in DOMAIN o
  BY <1>3
<1>7. \A p : Has(o, p) <=> p = r.promise \/ Has(q, p)
  <2> TAKE p
  <2>1. Has(q, p) => Has(o, p)
    BY <1>4 DEF Has
  <2>2. r.promise = p => Has(o, p)
    BY <1>1, <1>6 DEF Has
  <2>3. Has(o, p) => p = r.promise \/ Has(q, p)
    BY <1>1, <1>5 DEF Has
  <2>4. QED
    BY <2>1, <2>2, <2>3
<1>8. ASSUME Distinct(o) PROVE Distinct(q) /\ ~Has(q, r.promise)
  <2>1. Distinct(q)
    <3> SUFFICES ASSUME NEW i \in DOMAIN q, NEW j \in DOMAIN q, q[i].promise = q[j].promise
                 PROVE  i = j
      BY DEF Distinct
    <3>1. i + 1 = j + 1
      BY <1>4, <1>8 DEF Distinct
    <3>2. QED
      BY <1>3, <3>1
  <2>2. ASSUME NEW i \in DOMAIN q, q[i].promise = r.promise PROVE FALSE
    <3>1. i + 1 = 1
      BY <1>1, <1>4, <1>6, <1>8, <2>2 DEF Distinct
    <3>2. QED
      BY <1>3, <3>1
  <2>3. QED
    BY <2>1, <2>2 DEF Has
<1>9. ASSUME Distinct(q), ~Has(q, r.promise), NEW i \in DOMAIN o, NEW j \in DOMAIN o,
             o[i].promise = o[j].promise
      PROVE  i = j
  <2>1. CASE i = 1
    BY <1>1, <1>5, <1>9, <2>1 DEF Has
  <2>2. CASE j = 1
    BY <1>1, <1>5, <1>9, <2>2 DEF Has
  <2>3. CASE i # 1 /\ j # 1
    <3>1. i - 1 = j - 1
      BY <1>5, <1>9, <2>3 DEF Distinct
    <3>2. QED
      BY <1>3, <3>1
  <2>4. QED
    BY <2>1, <2>2, <2>3
<1>10. Distinct(o) <=> Distinct(q) /\ ~Has(q, r.promise)
  BY <1>8, <1>9 DEF Distinct
<1>11. QED
  BY <1>7, <1>10 DEF o

LEMMA LastHas ==
  ASSUME NEW q \in Seq(Requests), NEW r \in Requests
  PROVE  /\ \A p : Has(Append(q, r), p) <=> p = r.promise \/ Has(q, p)
         /\ Distinct(q) /\ ~Has(q, r.promise) => Distinct(Append(q, r))
<1> DEFINE o == Append(q, r)
           n == Len(q)
<1>1. o \in Seq(Requests) /\ n \in Nat /\ Len(o) = n + 1 /\ o[n + 1] = r /\ \A i \in 1..n : o[i] = q[i]
  OBVIOUS
<1>2. DOMAIN o = 1..(n + 1) /\ DOMAIN q = 1..n
  BY <1>1, Positions
<1> HIDE DEF o, n
<1>3. \A i \in DOMAIN q : i \in DOMAIN o /\ o[i] = q[i] /\ i # n + 1
  BY <1>1, <1>2
<1>4. \A i \in DOMAIN o : (i = n + 1 /\ o[i] = r) \/ (i \in DOMAIN q /\ o[i] = q[i])
  BY <1>1, <1>2
<1>5. n + 1 \in DOMAIN o
  BY <1>1, <1>2
<1>6. \A p : Has(o, p) <=> p = r.promise \/ Has(q, p)
  BY <1>1, <1>3, <1>4, <1>5 DEF Has
<1>7. ASSUME Distinct(q), ~Has(q, r.promise) PROVE Distinct(o)
  BY <1>4, <1>7 DEF Has, Distinct
<1>8. QED
  BY <1>6, <1>7 DEF o

LEMMA RestIs ==
  ASSUME NEW q \in Seq(Requests), q # <<>>
  PROVE  Head(q) \in Requests /\ Tail(q) \in Seq(Requests) /\ <<Head(q)>> \o Tail(q) = q
<1>1. Head(q) \in Requests /\ Tail(q) \in Seq(Requests) /\ Len(q) > 0 /\ Len(Tail(q)) = Len(q) - 1
  OBVIOUS
<1>2. <<Head(q)>> \o Tail(q) = q
  OBVIOUS
<1>3. QED
  BY <1>1, <1>2

LEMMA NoneHas ==
  /\ \A p : ~Has(<<>>, p)
  /\ Distinct(<<>>) /\ <<>> \in Seq(Requests)
BY DEF Has, Distinct

\* The open requests: the active one and the queue.
LEMMA OpenOfIs ==
  ASSUME NEW first \in Requests \cup {NoRequest}, NEW rest \in Seq(Requests)
  PROVE  /\ first = NoRequest => OpenOf(first, rest) = rest
         /\ first \in Requests => OpenOf(first, rest) = <<first>> \o rest
         /\ OpenOf(first, rest) \in Seq(Requests)
<1>1. NoRequest \notin Requests
  BY RequestTypes
<1>2. CASE first = NoRequest
  <2>1. OpenOf(first, rest) = <<>> \o rest
    BY <1>2 DEF OpenOf
  <2>2. <<>> \o rest = rest
    OBVIOUS
  <2>3. QED
    BY <1>1, <1>2, <2>1, <2>2
<1>3. CASE first \in Requests
  <2>1. OpenOf(first, rest) = <<first>> \o rest
    BY <1>1, <1>3 DEF OpenOf
  <2>2. <<first>> \o rest \in Seq(Requests)
    BY <1>3
  <2>3. QED
    BY <1>1, <1>3, <2>1, <2>2
<1>4. QED
  BY <1>2, <1>3

\* What is open while the generator rests, and while it runs.
LEMMA OpenIs ==
  ASSUME TypeOK, BodyStands
  PROVE  /\ Open = OpenOf(active, queue) /\ Open \in Seq(Requests) /\ queue \in Seq(Requests)
         /\ status # "executing" => Open = <<>> /\ queue = <<>> /\ active = NoRequest
         /\ status = "executing" => active \in Requests /\ Open = <<active>> \o queue
<1>1. /\ active \in Requests \cup {NoRequest} /\ queue \in Seq(Requests)
      /\ (active # NoRequest) = (status = "executing") /\ (queue # <<>> => status = "executing")
  BY DEF TypeOK, BodyStands
<1>2. Open = OpenOf(active, queue)
  BY DEF Open, OpenOf
<1>3. QED
  BY <1>1, <1>2, OpenOfIs

\* The promises of the generator are those of its requests and the one it waits for.
LEMMA OwnIs ==
  ASSUME TypeOK
  PROVE  \A p \in Promises : Own(p) <=> Has(Open, p) \/ (status = "yield" /\ p = resume)
<1>1. (resume # NoRequest) = (status = "yield") /\ NoRequest \notin Promises
  BY RequestTypes DEF TypeOK
<1>2. QED
  BY <1>1 DEF Own, Has

\* A step of the generator: what it leaves open is pending, and it has not
\* given it to anybody who settles promises.
LEMMA OwnStays ==
  ASSUME IInv, NEW u, NEW X, Changes(u, table', X), UNCHANGED resolvable,
         \A p \in Promises : Aimed(u, p) => Aimed(table, p) \/ p \in X,
         \A p \in Promises : Exists(table, p) => Exists(u, p),
         \A p \in Promises : StackAims(stack', p) => StackAims(stack, p),
         \A p \in Promises : p \in X => Exists(table', p),
         \A p \in Promises : Own(p)' => /\ p \notin X /\ Is(table', p, "pending") /\ Exists(u, p)
                                        /\ Own(p) \/ Is(table, p, "absent"),
         Distinct(Open')
  PROVE  OwnIsOwn'
<1>1. \A p \in Promises : Own(p) \/ Is(table, p, "absent") => ~Claimed(table, resolvable, stack, p)
  BY DEF IInv, OwnIsOwn
<1>2. \A p \in Promises : Aimed(table', p) => Aimed(u, p) \/ p \in X \/ (Is(u, p, "absent") /\ Exists(table', p))
  BY DEF Changes, Aims
<1>3. \A p \in Promises : Exists(u, p) => Exists(table', p)
  BY DEF Changes, Goes
<1>4. \A p \in Promises : Claimed(table', resolvable', stack', p) =>
        Claimed(table, resolvable, stack, p) \/ p \in X \/ (Is(u, p, "absent") /\ Exists(table', p))
  BY <1>2 DEF Claimed
<1>5. ASSUME NEW p \in Promises, Own(p)', Claimed(table', resolvable', stack', p) PROVE FALSE
  BY <1>1, <1>4, <1>5 DEF Exists
<1>6. ASSUME NEW p \in Promises, Is(table', p, "absent"), Claimed(table', resolvable', stack', p) PROVE FALSE
  <2>1. ~Exists(table', p) /\ ~Exists(u, p) /\ ~Exists(table, p)
    BY <1>3, <1>6 DEF Exists
  <2>2. QED
    BY <1>1, <1>4, <1>6, <2>1 DEF Exists
<1>7. \A p \in Promises : Own(p)' \/ Is(table, p, "absent")' => ~Claimed(table, resolvable, stack, p)'
  BY <1>5, <1>6
<1>8. \A i, j \in DOMAIN Open' : Open'[i].promise = Open'[j].promise => i = j
  BY DEF Distinct
<1>9. \A p \in Promises : Own(p)' => Is(table, p, "pending")'
  OBVIOUS
<1>10. QED
  BY <1>7, <1>8, <1>9 DEF OwnIsOwn

GeneratorTypes ==
  /\ status \in {"start", "yield", "executing", "completed"}
  /\ queue \in Seq(Requests) /\ active \in Requests \cup {NoRequest}
  /\ resume \in Promises \cup {NoRequest} /\ completion \in {"none", "return"}
  /\ (resume # NoRequest) = (status = "yield") /\ (active # NoRequest) = (status = "executing")

\* A step of the generator: its types, its requests, its body and the stack.
LEMMA RunningKeeps ==
  ASSUME IInv, phase = "running", NEW X, Changes(table, table', X), OwnIsOwn', BodyStands',
         GeneratorTypes', stack' \in Seq(Frames), stack' # <<>>, Stands(stack'), calls' \in 0..MaxCalls,
         UNCHANGED <<phase, exit, resolvable, queueVars, external, uses>>
  PROVE  IInv'
<1>1. table' \in Tables /\ Sound(table') /\ (Exact(table) => Exact(table'))
  BY DEF Changes
<1>2. LoopTypeOK'
  BY <1>1 DEF IInv, TypeOK, LoopTypeOK, queueVars
<1>3. TypeOK'
  BY <1>2 DEF TypeOK, GeneratorTypes
<1>4. LoopStands'
  BY DEF LoopStands
<1>5. (exit # "rejection" => Exact(table))'
  BY <1>1 DEF IInv
<1>6. QED
  BY <1>1, <1>3, <1>4, <1>5 DEF IInv

\* A new promise: nobody aims at it.
LEMMA CreateChanges ==
  ASSUME NEW t \in Tables, Sound(t), HasRoom(t)
  PROVE  /\ Changes(t, Create(t), {}) /\ Bodies(t, Create(t))
         /\ \A p : Aimed(Create(t), p) <=> Aimed(t, p)
         /\ \A p \in Promises : Exists(t, p) => Exists(Create(t), p)
         /\ \A p \in Promises : Is(t, p, "pending") => Is(Create(t), p, "pending")
<1>1. Evolves(t, Create(t), {})
  BY CreateEvolves
<1>2. \A p : Aimed(Create(t), p) <=> Aimed(t, p)
  BY CreateIs DEF Aimed
<1>3. \A p \in Promises : Exists(t, p) => Exists(Create(t), p)
  BY <1>1 DEF Evolves, Changes, Goes
<1>4. \A p \in Promises : Is(t, p, "pending") => Is(Create(t), p, "pending")
  <2> SUFFICES ASSUME NEW p \in Promises, Is(t, p, "pending") PROVE Is(Create(t), p, "pending")
    OBVIOUS
  <2>1. Create(t).state[p] = t.state[p] \/ Is(t, p, "absent")
    BY <1>1 DEF Evolves, Changes, Goes
  <2>2. QED
    BY <2>1 DEF Is
<1>5. QED
  BY <1>1, <1>2, <1>3, <1>4 DEF Evolves

-----------------------------------------------------------------------------
(* The calls of next, return and throw.                                    *)

AskBy(kind) ==
  /\ Calls(kind) /\ HasRoom(table) /\ kind \in {"next", "return", "throw"}
  /\ UNCHANGED <<resolvable, queueVars, external, phase, exit, uses>>

\* What a call finds: a new promise for its request.
LEMMA AskFacts ==
  ASSUME IInv, NEW kind, AskBy(kind)
  PROVE  LET p == Fresh(table)
             r == Request(kind, p)
             u == Create(table) IN
         /\ r \in Requests /\ r.promise = p /\ r.kind = kind /\ p \in Promises
         /\ Is(table, p, "absent") /\ ~Own(p) /\ Is(u, p, "pending") /\ Exists(u, p)
         /\ u \in Tables /\ Sound(u)
         /\ InJs /\ phase = "running" /\ calls' \in 0..MaxCalls
<1>1. table \in Tables /\ Sound(table) /\ HasRoom(table) /\ calls \in 0..MaxCalls /\ InJs
  BY LoopTypes DEF AskBy, Calls
<1>2. phase = "running"
  BY <1>1, StackTypes
<1>3. Fresh(table) \in Promises /\ Is(table, Fresh(table), "absent") /\ Is(Create(table), Fresh(table), "pending")
      /\ Create(table) \in Tables /\ Sound(Create(table))
  BY <1>1, Created
<1>4. Exists(Create(table), Fresh(table))
  BY <1>3 DEF Exists, Is
<1>5. ~Own(Fresh(table))
  BY <1>3 DEF IInv, OwnIsOwn, Is
<1>6. calls' \in 0..MaxCalls
  BY <1>1, LoopAssumption DEF AskBy, Calls
<1>7. kind \in {"next", "return", "throw"}
  BY DEF AskBy
<1>8. QED
  BY <1>1, <1>2, <1>3, <1>4, <1>5, <1>6, <1>7, RequestTypes

\* While the body runs, a request is queued.
LEMMA AskRunningKeeps ==
  ASSUME IInv, NEW kind, AskBy(kind), status = "executing", AskRunning(Request(kind, Fresh(table)))
  PROVE  IInv'
<1> DEFINE p == Fresh(table)
           r == Request(kind, p)
           u == Create(table)
<1>1. /\ r \in Requests /\ r.promise = p /\ p \in Promises
      /\ Is(table, p, "absent") /\ ~Own(p) /\ Is(u, p, "pending") /\ Exists(u, p)
      /\ InJs /\ phase = "running" /\ calls' \in 0..MaxCalls
  BY AskFacts
<1>2. /\ table' = u /\ queue' = Append(queue, r)
      /\ UNCHANGED <<status, active, resume, completion, stack>>
  BY DEF AskRunning
<1>3. table \in Tables /\ Sound(table) /\ HasRoom(table)
  BY LoopTypes DEF AskBy
<1>4. /\ Changes(table, u, {}) /\ Bodies(table, u)
      /\ \A q : Aimed(u, q) <=> Aimed(table, q)
      /\ \A q \in Promises : Exists(table, q) => Exists(u, q)
      /\ \A q \in Promises : Is(table, q, "pending") => Is(u, q, "pending")
  BY <1>3, CreateChanges
<1>5. u \in Tables /\ Sound(u)
  BY <1>4 DEF Changes
<1> HIDE DEF p, r, u
<1>6. active \in Requests /\ queue \in Seq(Requests) /\ Open = <<active>> \o queue
  BY OpenIs DEF IInv
<1>7. queue' \in Seq(Requests) /\ Open' = <<active>> \o queue'
  <2>1. queue' \in Seq(Requests)
    BY <1>1, <1>2, <1>6
  <2>2. OpenOf(active, queue') = <<active>> \o queue'
    BY <1>6, <2>1, OpenOfIs
  <2>3. Open' = OpenOf(active, queue')
    BY <1>2 DEF Open, OpenOf
  <2>4. QED
    BY <2>1, <2>2, <2>3
<1>8. \A q : Has(queue', q) <=> q = p \/ Has(queue, q)
  BY <1>1, <1>2, <1>6, LastHas
<1>9. \A q : Has(Open', q) <=> q = p \/ Has(Open, q)
  <2>1. \A q : Has(Open', q) <=> q = active.promise \/ Has(queue', q)
    BY <1>6, <1>7, FrontHas
  <2>2. \A q : Has(Open, q) <=> q = active.promise \/ Has(queue, q)
    BY <1>6, FrontHas
  <2>3. QED
    BY <1>8, <2>1, <2>2
<1>10. TypeOK
  BY DEF IInv
<1>11. \A q \in Promises : Own(q)' => q = p \/ Own(q)
  <2>1. \A q \in Promises : Own(q) <=> Has(Open, q) \/ (status = "yield" /\ q = resume)
    BY <1>10, OwnIs
  <2>2. \A q \in Promises : Own(q)' => Has(Open', q) \/ q = resume
    BY <1>2 DEF Own, Has
  <2>3. \A q \in Promises : q = resume => Own(q)
    BY DEF Own
  <2>4. QED
    BY <1>9, <2>1, <2>2, <2>3
<1>12. \A q \in Promises : Own(q) => Is(table, q, "pending")
  BY DEF IInv, OwnIsOwn
<1>13. Distinct(Open')
  <2>1. Distinct(Open) /\ ~Has(Open, p)
    BY <1>1, <1>10, OwnIs DEF IInv, OwnIsOwn, Distinct
  <2>2. Distinct(queue) /\ ~Has(queue, active.promise) /\ ~Has(queue, p) /\ active.promise # p
    BY <1>6, <2>1, FrontHas
  <2>3. Distinct(queue') /\ ~Has(queue', active.promise)
    BY <1>1, <1>2, <1>6, <1>8, <2>2, LastHas
  <2>4. QED
    BY <1>6, <1>7, <2>3, FrontHas
<1>14. OwnIsOwn'
  <2>1. Changes(u, table', {})
    BY <1>2, <1>5, EvolvesSame DEF Evolves
  <2>2. \A q \in Promises : Own(q)' => /\ q \notin {} /\ Is(table', q, "pending") /\ Exists(u, q)
                                       /\ Own(q) \/ Is(table, q, "absent")
    BY <1>1, <1>2, <1>4, <1>11, <1>12 DEF Exists, Is
  <2>3. UNCHANGED resolvable
    BY DEF AskBy
  <2>4. QED
    BY <1>2, <1>4, <1>13, <2>1, <2>2, <2>3, OwnStays
<1>15. BodyStands'
  <2>1. /\ AtMostOnce(table) /\ RunsOnce(stack) /\ ~(Runs(stack) /\ Somewhere(table))
        /\ Runs(stack) \/ Somewhere(table)
    BY DEF IInv, BodyStands
  <2>2. AtMostOnce(u) /\ (Somewhere(u) <=> Somewhere(table))
    BY <1>4, <2>1 DEF Bodies
  <2>3. QED
    BY <1>2, <2>1, <2>2 DEF BodyStands
<1>16. GeneratorTypes'
  BY <1>2, <1>7, <1>10 DEF TypeOK, GeneratorTypes
<1>17. stack' \in Seq(Frames) /\ stack' # <<>> /\ Stands(stack')
  BY <1>1, <1>2, StackTypes
<1>18. Changes(table, table', {})
  BY <1>2, <1>4
<1>19. QED
  BY <1>1, <1>14, <1>15, <1>16, <1>17, <1>18, RunningKeeps DEF AskBy

\* What a completed generator answers at once.
LEMMA AnswerNew ==
  ASSUME NEW t \in Tables, Sound(t), HasRoom(t), NEW rejected \in BOOLEAN
  PROVE  Evolves(t, Settle(Create(t), Fresh(t), rejected), {})
<1>1. Create(t) \in Tables /\ Sound(Create(t)) /\ Fresh(t) \in Promises
  BY Created
<1>2. Evolves(Create(t), Settle(Create(t), Fresh(t), rejected), {} \cup {Fresh(t)})
  BY <1>1, SettleEvolves
<1>3. QED
  BY <1>2, EvolvesFresh

\* A completed generator answers.
LEMMA AskCompletedKeeps ==
  ASSUME IInv, NEW kind, AskBy(kind), AskCompleted(Request(kind, Fresh(table)))
  PROVE  IInv'
<1> DEFINE r == Request(kind, Fresh(table))
<1>1. r.promise = Fresh(table) /\ InJs
  BY AskFacts
<1>2. table \in Tables /\ Sound(table) /\ HasRoom(table) /\ Thrown(r) \in BOOLEAN
  BY LoopTypes DEF AskBy, Thrown
<1>3. table' = Settle(Create(table), Fresh(table), Thrown(r)) /\ UNCHANGED <<genVars, stack>>
  BY <1>1 DEF AskCompleted, Answer
<1>4. Evolves(table, table', Mine)
  <2>1. Evolves(table, table', {})
    BY <1>2, <1>3, AnswerNew
  <2>2. QED
    BY <2>1, EvolvesWider
<1>5. /\ ticks \in Nat /\ external \in Nat /\ cancelled \subseteq Resources /\ immediates \in Seq(Resources)
      /\ timers \in Seq(Timers) /\ exit \in {"none", "program", "rejection"} /\ resolvable \subseteq Promises
  BY LoopTypes
<1>6. /\ calls > 0 /\ calls' = calls - 1
      /\ UNCHANGED <<resolvable, ticks, immediates, timers, cancelled, external, phase, exit, uses>>
  BY DEF AskBy, Calls, queueVars
<1>7. QED
  BY <1>1, <1>3, <1>4, <1>5, <1>6, CallKeeps

LEMMA BodyFrame ==
  ASSUME NEW mode \in {"next", "return", "throw"}
  PROVE  /\ Body(mode) \in Frames /\ Body(mode).run = "js" /\ Body(mode).job \in Callers
         /\ IsBody(Body(mode)) /\ ~IsScript(Body(mode)) /\ ~IsTick(Body(mode)) /\ RunsHandler(Body(mode))
<1> DEFINE job == [kind |-> "body", mode |-> mode]
<1>1. job \in Callers /\ job.kind = "body"
  BY DEF Callers
<1>2. Body(mode) \in Frames /\ Body(mode).run = "js" /\ Body(mode).job = job
  BY <1>1, FrameTypes DEF Body
<1>3. QED
  BY <1>1, <1>2 DEF IsBody, IsScript, IsTick, RunsHandler

\* The body is put on the stack.
LEMMA BodyEnters ==
  ASSUME IInv, InJs \/ InDrain, NEW mode \in {"next", "return", "throw"},
         stack' = Append(stack, Body(mode))
  PROVE  /\ stack' \in Seq(Frames) /\ stack' # <<>> /\ Stands(stack') /\ Runs(stack')
         /\ \A p : StackAims(stack', p) => StackAims(stack, p)
         /\ ~Runs(stack) => RunsOnce(stack')
<1> DEFINE f == Body(mode)
<1>1. /\ f \in Frames /\ f.run = "js" /\ f.job \in Callers
      /\ IsBody(f) /\ ~IsScript(f) /\ ~IsTick(f) /\ RunsHandler(f)
  BY BodyFrame
<1>2. stack \in Seq(Frames) /\ stack # <<>> /\ Stands(stack) /\ RunsOnce(stack)
  BY StackTypes
<1>3. \A p : ~JobAims(f.job, p)
  BY <1>1, CallersAim
<1> HIDE DEF f
<1> DEFINE u == Append(stack, f)
<1>4. /\ u \in Seq(Frames) /\ u # <<>>
      /\ \A p : StackAims(u, p) => StackAims(stack, p) \/ (f.run = "js" /\ JobAims(f.job, p))
      /\ Runs(u) <=> Runs(stack) \/ IsBody(f)
      /\ RunsOnce(stack) /\ ~(Runs(stack) /\ IsBody(f)) => RunsOnce(u)
      /\ /\ Stands(stack) /\ stack # <<>>
         /\ f.run = "drain" => ~f.check
         /\ ~IsScript(f) /\ RunsHandler(f)
         /\ IsTick(f) => stack[Len(stack)].run = "drain"
         => Stands(u)
  BY <1>1, <1>2, PushKeeps
<1>5. u = stack'
  BY DEF f
<1> HIDE DEF u
<1>6. QED
  BY <1>1, <1>2, <1>3, <1>4, <1>5

\* The first next starts the body; another request completes the generator.
LEMMA AskStartKeeps ==
  ASSUME IInv, NEW kind, AskBy(kind), status = "start", AskStart(Request(kind, Fresh(table)))
  PROVE  IInv'
<1> DEFINE p == Fresh(table)
           r == Request(kind, p)
           u == Create(table)
<1>1. /\ r \in Requests /\ r.promise = p /\ p \in Promises
      /\ Is(table, p, "absent") /\ ~Own(p) /\ Is(u, p, "pending") /\ Exists(u, p)
      /\ u \in Tables /\ Sound(u) /\ InJs /\ phase = "running" /\ calls' \in 0..MaxCalls
  BY AskFacts
<1>2. /\ UNCHANGED <<queue, resume, completion>>
      /\ IF r.kind = "next"
         THEN table' = u /\ active' = r /\ status' = "executing" /\ stack' = Append(stack, Body("next"))
         ELSE table' = Answer(u, r, Thrown(r)) /\ status' = "completed" /\ UNCHANGED <<active, stack>>
  BY DEF AskStart
<1>3. table \in Tables /\ Sound(table) /\ HasRoom(table) /\ Thrown(r) \in BOOLEAN
  BY LoopTypes DEF AskBy, Thrown
<1>4. /\ Changes(table, u, {}) /\ Bodies(table, u)
      /\ \A q : Aimed(u, q) <=> Aimed(table, q)
      /\ \A q \in Promises : Exists(table, q) => Exists(u, q)
  BY <1>3, CreateChanges
<1>5. TypeOK /\ BodyStands /\ resolvable' = resolvable
  BY DEF IInv, AskBy
<1>6. Open = <<>> /\ queue = <<>> /\ active = NoRequest /\ resume = NoRequest
  BY <1>5, OpenIs DEF TypeOK
<1>7. ~Runs(stack) /\ ~Somewhere(table) /\ AtMostOnce(table) /\ RunsOnce(stack)
  BY <1>5 DEF BodyStands
<1>8. CASE r.kind = "next"
  <2>1. /\ table' = u /\ active' = r /\ status' = "executing" /\ stack' = Append(stack, Body("next"))
        /\ UNCHANGED <<queue, resume, completion>>
    BY <1>2, <1>8
  <2> HIDE DEF u, r, p
  <2>2. /\ stack' \in Seq(Frames) /\ stack' # <<>> /\ Stands(stack') /\ Runs(stack')
        /\ \A q : StackAims(stack', q) => StackAims(stack, q)
        /\ RunsOnce(stack')
    BY <1>1, <1>7, <2>1, BodyEnters
  <2>3. Open' = <<r>> \o <<>> /\ Open' \in Seq(Requests)
    <3>1. Open' = OpenOf(r, <<>>)
      BY <1>6, <2>1 DEF Open, OpenOf
    <3>2. QED
      BY <1>1, <3>1, NoneHas, OpenOfIs
  <2>4. (\A q : Has(Open', q) <=> q = p) /\ Distinct(Open')
    <3>1. /\ \A q : Has(Open', q) <=> q = r.promise \/ Has(<<>>, q)
          /\ Distinct(Open') <=> Distinct(<<>>) /\ ~Has(<<>>, r.promise)
      BY <1>1, <2>3, NoneHas, FrontHas
    <3>2. QED
      BY <1>1, <3>1, NoneHas
  <2>5. \A q \in Promises : Own(q)' => q = p
    <3>1. \A q \in Promises : Own(q)' => Has(Open', q) \/ q = NoRequest
      BY <1>6, <2>1 DEF Own, Has
    <3>2. QED
      BY <2>4, <3>1, RequestTypes
  <2>6. OwnIsOwn'
    <3>1. Changes(u, table', {})
      BY <1>1, <2>1, EvolvesSame DEF Evolves
    <3>2. \A q \in Promises : Own(q)' => /\ q \notin {} /\ Is(table', q, "pending") /\ Exists(u, q)
                                         /\ Own(q) \/ Is(table, q, "absent")
      BY <1>1, <2>1, <2>5
    <3>3. QED
      BY <1>4, <1>5, <2>1, <2>2, <2>4, <3>1, <3>2, OwnStays
  <2>7. BodyStands'
    <3>1. AtMostOnce(u) /\ ~Somewhere(u)
      BY <1>4, <1>7 DEF Bodies
    <3>2. QED
      BY <1>6, <2>1, <2>2, <3>1 DEF BodyStands
  <2>8. GeneratorTypes'
    BY <1>1, <1>5, <1>6, <2>1, RequestTypes DEF TypeOK, GeneratorTypes
  <2>9. QED
    BY <1>1, <1>4, <2>1, <2>2, <2>6, <2>7, <2>8, RunningKeeps DEF AskBy
<1>9. CASE r.kind # "next"
  <2>1. /\ table' = Settle(u, p, Thrown(r)) /\ status' = "completed"
        /\ UNCHANGED <<active, stack, queue, resume, completion>>
    BY <1>1, <1>2, <1>9 DEF Answer
  <2>2. Changes(table, table', {}) /\ Bodies(table, table')
    BY <1>3, <2>1, AnswerNew DEF Evolves
  <2>3. Changes(u, table', {p})
    BY <1>1, <1>3, <2>1, SettleEvolves DEF Evolves
  <2> HIDE DEF u, r, p
  <2>4. \A q \in Promises : ~Own(q)'
    BY <1>6, <2>1, NoneHas, RequestTypes DEF Own, Open, Has
  <2>5. Distinct(Open')
    BY <1>6, <2>1, NoneHas DEF Open
  <2>6. Exists(table', p)
    BY <1>1, <2>3 DEF Changes, Goes
  <2>7. OwnIsOwn'
    <3>1. \A q \in Promises : q \in {p} => Exists(table', q)
      BY <2>6
    <3>2. QED
      BY <1>4, <1>5, <2>1, <2>3, <2>4, <2>5, <3>1, OwnStays
  <2>8. BodyStands'
    <3>1. AtMostOnce(table') /\ ~Somewhere(table')
      BY <1>7, <2>2 DEF Bodies
    <3>2. QED
      BY <1>6, <1>7, <2>1, <3>1 DEF BodyStands
  <2>9. GeneratorTypes'
    BY <1>5, <1>6, <2>1 DEF TypeOK, GeneratorTypes
  <2>10. stack' \in Seq(Frames) /\ stack' # <<>> /\ Stands(stack')
    BY <1>1, <2>1, StackTypes
  <2>11. QED
    BY <1>1, <2>2, <2>7, <2>8, <2>9, <2>10, RunningKeeps DEF AskBy
<1>10. QED
  BY <1>8, <1>9

\* A request settles what the body waits for.
LEMMA AskSuspendedKeeps ==
  ASSUME IInv, NEW kind, AskBy(kind), status = "yield", AskSuspended(Request(kind, Fresh(table)))
  PROVE  IInv'
<1> DEFINE p == Fresh(table)
           r == Request(kind, p)
           u == Create(table)
<1>1. /\ r \in Requests /\ r.promise = p /\ p \in Promises
      /\ Is(table, p, "absent") /\ ~Own(p) /\ Is(u, p, "pending") /\ Exists(u, p)
      /\ u \in Tables /\ Sound(u) /\ InJs /\ phase = "running" /\ calls' \in 0..MaxCalls
  BY AskFacts
<1>2. /\ table' = Settle(u, resume, Thrown(r))
      /\ active' = r /\ status' = "executing" /\ resume' = NoRequest
      /\ completion' \in {completion, "return"}
      /\ UNCHANGED <<queue, stack>>
  BY DEF AskSuspended, TakeUp
<1>3. table \in Tables /\ Sound(table) /\ HasRoom(table) /\ Thrown(r) \in BOOLEAN
  BY LoopTypes DEF AskBy, Thrown
<1>4. /\ Changes(table, u, {}) /\ Bodies(table, u)
      /\ \A q : Aimed(u, q) <=> Aimed(table, q)
      /\ \A q \in Promises : Exists(table, q) => Exists(u, q)
  BY <1>3, CreateChanges
<1>5. TypeOK /\ BodyStands /\ resolvable' = resolvable
  BY DEF IInv, AskBy
<1>6. Open = <<>> /\ queue = <<>> /\ active = NoRequest /\ resume \in Promises /\ completion \in {"none", "return"}
  BY <1>5, OpenIs, RequestTypes DEF TypeOK
<1>7. ~Runs(stack) /\ Somewhere(table) /\ AtMostOnce(table) /\ RunsOnce(stack)
  BY <1>5, <1>6 DEF BodyStands, Somewhere
<1>8. Own(resume) /\ Is(table, resume, "pending") /\ resume # p
  <2>1. Own(resume)
    BY DEF Own
  <2>2. QED
    BY <1>1, <1>6, <2>1 DEF IInv, OwnIsOwn
<1>9. Evolves(u, table', {resume})
  BY <1>1, <1>2, <1>3, <1>6, SettleEvolves
<1>10. Evolves(table, table', {resume})
  <2>1. Evolves(table, u, {resume})
    BY <1>4, EvolvesWider DEF Evolves
  <2> HIDE DEF u, p, r
  <2>2. QED
    BY <1>3, <1>9, <2>1, EvolvesTrans
<1> HIDE DEF u, p, r
<1>11. Open' = <<r>> \o <<>> /\ Open' \in Seq(Requests)
  <2>1. Open' = OpenOf(r, <<>>)
    BY <1>2, <1>6 DEF Open, OpenOf
  <2>2. QED
    BY <1>1, <2>1, NoneHas, OpenOfIs
<1>12. (\A q : Has(Open', q) <=> q = p) /\ Distinct(Open')
  <2>1. /\ \A q : Has(Open', q) <=> q = r.promise \/ Has(<<>>, q)
        /\ Distinct(Open') <=> Distinct(<<>>) /\ ~Has(<<>>, r.promise)
    BY <1>1, <1>11, NoneHas, FrontHas
  <2>2. QED
    BY <1>1, <2>1, NoneHas
<1>13. \A q \in Promises : Own(q)' => q = p
  <2>1. \A q \in Promises : Own(q)' => Has(Open', q) \/ q = NoRequest
    BY <1>2 DEF Own, Has
  <2>2. QED
    BY <1>12, <2>1, RequestTypes
<1>14. Is(table', p, "pending") /\ Exists(table', resume)
  <2>1. Goes(u, table', {resume})
    BY <1>9 DEF Evolves, Changes
  <2>2. Exists(u, resume)
    BY <1>4, <1>6, <1>8 DEF Exists, Is
  <2>3. table'.state[p] = u.state[p]
    BY <1>1, <1>8, <2>1 DEF Goes, Exists
  <2>4. QED
    BY <1>1, <1>6, <2>1, <2>2, <2>3 DEF Goes, Is
<1>15. OwnIsOwn'
  <2>1. Changes(u, table', {resume})
    BY <1>9 DEF Evolves
  <2>2. \A q \in Promises : q \in {resume} => Exists(table', q)
    BY <1>14
  <2>3. \A q \in Promises : Own(q)' => /\ q \notin {resume} /\ Is(table', q, "pending") /\ Exists(u, q)
                                       /\ Own(q) \/ Is(table, q, "absent")
    BY <1>1, <1>8, <1>13, <1>14
  <2>4. QED
    BY <1>2, <1>4, <1>5, <1>12, <2>1, <2>2, <2>3, OwnStays
<1>16. BodyStands'
  <2>1. AtMostOnce(table') /\ Somewhere(table')
    BY <1>7, <1>10 DEF Evolves, Bodies
  <2>2. QED
    BY <1>2, <1>6, <1>7, <2>1 DEF BodyStands
<1>17. GeneratorTypes'
  BY <1>1, <1>2, <1>5, <1>6, RequestTypes DEF TypeOK, GeneratorTypes
<1>18. stack' \in Seq(Frames) /\ stack' # <<>> /\ Stands(stack')
  BY <1>1, <1>2, StackTypes
<1>19. Changes(table, table', {resume})
  BY <1>10 DEF Evolves
<1>20. QED
  BY <1>1, <1>15, <1>16, <1>17, <1>18, <1>19, RunningKeeps DEF AskBy

LEMMA AskKeeps ==
  ASSUME IInv, Ask
  PROVE  IInv'
<1>1. PICK kind \in {"next", "return", "throw"} :
        /\ AskBy(kind)
        /\ LET request == Request(kind, Fresh(table)) IN
           CASE status = "executing" -> AskRunning(request)
             [] status = "completed" -> AskCompleted(request)
             [] status = "start" -> AskStart(request)
             [] status = "yield" -> AskSuspended(request)
  BY DEF Ask, AskBy
<1>2. status \in {"start", "yield", "executing", "completed"}
  BY DEF IInv, TypeOK
<1>3. CASE status = "executing"
  BY <1>1, <1>3, AskRunningKeeps
<1>4. CASE status = "completed"
  BY <1>1, <1>4, AskCompletedKeeps
<1>5. CASE status = "start"
  BY <1>1, <1>5, AskStartKeeps
<1>6. CASE status = "yield"
  BY <1>1, <1>6, AskSuspendedKeeps
<1>7. QED
  BY <1>2, <1>3, <1>4, <1>5, <1>6

-----------------------------------------------------------------------------
(* The body.                                                               *)

\* The resumption leaves the queue and the body the table.
LEMMA ResumeBodyKeeps ==
  ASSUME IInv, ResumeBody
  PROVE  IInv'
<1>1. /\ InDrain /\ table.microtasks # <<>> /\ IsResumption(NextJob)
      /\ table' = Dequeued /\ stack' = Append(stack, Body(Mode(NextJob))) /\ phase' = phase /\ completion' = "none"
      /\ UNCHANGED <<status, queue, active, resume, queueVars, resolvable, external, uses, calls, exit>>
  BY DEF ResumeBody, Checked, Push, programVars, IsResumption
<1>2. table \in Tables /\ Sound(table) /\ TypeOK /\ BodyStands /\ calls \in 0..MaxCalls
  BY LoopTypes DEF IInv
<1>3. IsResumption(Head(table.microtasks)) /\ table' = Shorter(table)
  BY <1>1 DEF NextJob, Dequeued, Shorter
<1>4. AtMostOnce(table') /\ ~Somewhere(table') /\ Somewhere(table) /\ Changes(table, table', {})
  BY <1>1, <1>2, <1>3, ShorterBody, ShorterChanges DEF BodyStands
<1>5. Waits(table)
  <2>1. IsQueued(table, 1)
    BY <1>1, <1>2, <1>3, ShorterPlaces
  <2>2. QED
    BY <2>1 DEF Waits
<1>6. status = "executing" /\ ~Runs(stack)
  <2>1. status = "yield" => resume \in Promises
    BY <1>2, RequestTypes DEF TypeOK
  <2>2. QED
    BY <1>2, <1>4, <1>5, <2>1 DEF BodyStands, AtMostOnce
<1>7. Mode(NextJob) \in {"next", "return", "throw"}
  BY DEF Mode
<1>8. /\ stack' \in Seq(Frames) /\ stack' # <<>> /\ Stands(stack') /\ Runs(stack')
      /\ \A p : StackAims(stack', p) => StackAims(stack, p)
      /\ RunsOnce(stack')
  BY <1>1, <1>6, <1>7, BodyEnters
<1>9. Open' = Open /\ (\A q : Own(q)' <=> Own(q))
  BY <1>1 DEF Own, Open
<1>10. OwnIsOwn'
  <2>1. \A q \in Promises : Own(q) => Is(table, q, "pending") /\ Exists(table, q)
    BY DEF IInv, OwnIsOwn, Exists, Is
  <2>2. Goes(table, table', {})
    BY <1>4 DEF Changes
  <2>3. \A q \in Promises : Own(q)' => /\ q \notin {} /\ Is(table', q, "pending") /\ Exists(table, q)
                                       /\ Own(q) \/ Is(table, q, "absent")
    BY <1>9, <2>1, <2>2 DEF Goes, Exists, Is
  <2>4. Distinct(Open')
    BY <1>9 DEF IInv, OwnIsOwn, Distinct
  <2>5. resolvable' = resolvable
    BY <1>1
  <2>6. QED
    BY <1>4, <1>8, <2>3, <2>4, <2>5, OwnStays
<1>11. BodyStands'
  BY <1>1, <1>2, <1>4, <1>6, <1>8 DEF BodyStands
<1>12. GeneratorTypes'
  BY <1>1, <1>2 DEF TypeOK, GeneratorTypes
<1>13. phase = "running"
  BY <1>1, StackTypes
<1>14. QED
  BY <1>1, <1>2, <1>4, <1>8, <1>10, <1>11, <1>12, <1>13, RunningKeeps

\* The body leaves the stack, and is at no other place.
LEMMA BodyLeaves ==
  ASSUME IInv, InBody, stack' = Below
  PROVE  /\ stack' \in Seq(Frames) /\ stack' # <<>> /\ Stands(stack') /\ ~Runs(stack') /\ RunsOnce(stack')
         /\ \A p : StackAims(stack', p) => StackAims(stack, p)
         /\ status = "executing" /\ ~Somewhere(table) /\ phase = "running"
         /\ active \in Requests /\ active.promise \in Promises /\ queue \in Seq(Requests)
         /\ Open = <<active>> \o queue /\ Distinct(Open)
<1>1. InJs /\ Top.job.kind = "body" /\ TypeOK /\ BodyStands
  BY DEF InBody, IInv
<1>2. Depth \in Nat /\ Depth > 1 /\ phase = "running" /\ Top.run = "js"
  BY <1>1, ReturnTypes
<1>3. /\ stack \in Seq(Frames) /\ Depth = Len(stack) /\ DOMAIN stack = 1..Depth /\ Top = stack[Depth]
      /\ Stands(stack) /\ RunsOnce(stack)
  BY <1>1, StackTypes
<1>4. IsBody(stack[Depth]) /\ Depth \in DOMAIN stack
  BY <1>1, <1>2, <1>3 DEF IsBody
<1>5. Runs(stack)
  BY <1>4 DEF Runs
<1>6. ~Somewhere(table) /\ status \in {"executing", "yield"}
  BY <1>1, <1>5 DEF BodyStands
<1>7. status = "executing"
  <2>1. status = "yield" => resume \in Promises
    BY <1>1, RequestTypes DEF TypeOK
  <2>2. QED
    BY <1>1, <1>6, <2>1 DEF BodyStands, Somewhere
<1>8. active \in Requests /\ queue \in Seq(Requests) /\ Open = <<active>> \o queue /\ Distinct(Open)
  BY <1>1, <1>7, OpenIs DEF IInv, OwnIsOwn, Distinct
<1>9. active.promise \in Promises
  BY <1>8, RequestTypes
<1>10. stack' = SubSeq(stack, 1, Depth - 1) /\ Depth - 1 \in 0..Len(stack) /\ Depth - 1 # 0
  BY <1>2, <1>3 DEF Below
<1> DEFINE k == Depth - 1
           s == SubSeq(stack, 1, k)
<1>11. k \in 0..Len(stack) /\ k # 0 /\ Depth > k
  BY <1>2, <1>10
<1> HIDE DEF k
<1>12. /\ s \in Seq(Frames) /\ (s = <<>> <=> k = 0)
       /\ \A p : StackAims(s, p) => StackAims(stack, p)
       /\ RunsOnce(stack) => RunsOnce(s)
       /\ (\E i \in DOMAIN stack : i > k /\ IsBody(stack[i])) /\ RunsOnce(stack) => ~Runs(s)
       /\ Stands(stack) => Stands(s)
  BY <1>3, <1>11, PrefixKeeps
<1>13. \E i \in DOMAIN stack : i > k /\ IsBody(stack[i])
  BY <1>4, <1>11
<1>14. stack' = s
  BY <1>10 DEF k
<1> HIDE DEF s
<1>15. QED
  BY <1>2, <1>3, <1>6, <1>7, <1>8, <1>9, <1>11, <1>12, <1>13, <1>14

\* The body awaits.
LEMMA AwaitKeeps ==
  ASSUME IInv, Await
  PROVE  IInv'
<1>1. PICK p \in Promises :
        /\ InBody /\ calls > 0 /\ calls' = calls - 1
        /\ table' = Subscribe(table, p, Resumption) /\ stack' = Below /\ phase' = phase
        /\ UNCHANGED <<genVars, queueVars, resolvable, external, uses, exit>>
  BY DEF Await, Pop
<1>2. /\ stack' \in Seq(Frames) /\ stack' # <<>> /\ Stands(stack') /\ ~Runs(stack') /\ RunsOnce(stack')
      /\ \A q : StackAims(stack', q) => StackAims(stack, q)
      /\ status = "executing" /\ ~Somewhere(table) /\ phase = "running"
  BY <1>1, BodyLeaves
<1>3. table \in Tables /\ Sound(table) /\ TypeOK /\ BodyStands /\ calls \in 0..MaxCalls
  BY LoopTypes DEF IInv
<1>4. Changes(table, table', {}) /\ AtMostOnce(table') /\ Somewhere(table')
  BY <1>1, <1>2, <1>3, SubscribeBody
<1>5. Open' = Open /\ (\A q : Own(q)' <=> Own(q))
  BY <1>1 DEF Own, Open, genVars
<1>6. OwnIsOwn'
  <2>1. \A q \in Promises : Own(q) => Is(table, q, "pending") /\ Exists(table, q)
    BY DEF IInv, OwnIsOwn, Exists, Is
  <2>2. Goes(table, table', {})
    BY <1>4 DEF Changes
  <2>3. \A q \in Promises : Own(q)' => /\ q \notin {} /\ Is(table', q, "pending") /\ Exists(table, q)
                                       /\ Own(q) \/ Is(table, q, "absent")
    BY <1>5, <2>1, <2>2 DEF Goes, Exists, Is
  <2>4. Distinct(Open')
    BY <1>5 DEF IInv, OwnIsOwn, Distinct
  <2>5. resolvable' = resolvable
    BY <1>1
  <2>6. QED
    BY <1>2, <1>4, <2>3, <2>4, <2>5, OwnStays
<1>7. BodyStands'
  BY <1>1, <1>2, <1>3, <1>4 DEF BodyStands, genVars
<1>8. GeneratorTypes'
  BY <1>1, <1>3 DEF TypeOK, GeneratorTypes, genVars
<1>9. calls' \in 0..MaxCalls
  BY <1>1, <1>3, LoopAssumption
<1>10. QED
  BY <1>1, <1>2, <1>4, <1>6, <1>7, <1>8, <1>9, RunningKeeps

LEMMA ChangesWider ==
  ASSUME NEW t, NEW u, NEW X, NEW Y, Changes(t, u, X), X \subseteq Y
  PROVE  Changes(t, u, Y)
BY DEF Changes, Goes, Aims

AnswerActive == Answer(table, active, FALSE)
Waiting == Create(AnswerActive)

\* The active request is answered, and there is a promise to wait for.
LEMMA YieldFacts ==
  ASSUME IInv, InBody, stack' = Below, HasRoom(AnswerActive)
  PROVE  LET a == active.promise
             p == Fresh(AnswerActive) IN
         /\ a \in Promises /\ p \in Promises /\ Is(table, a, "pending") /\ Is(table, p, "absent")
         /\ Is(Waiting, p, "pending") /\ Exists(Waiting, p)
         /\ Waiting \in Tables /\ Sound(Waiting) /\ Changes(table, Waiting, {a}) /\ ~Somewhere(Waiting)
         /\ \A q \in Promises : Aimed(Waiting, q) => Aimed(table, q) \/ q = a
         /\ \A q \in Promises : Exists(table, q) => Exists(Waiting, q)
<1> DEFINE a == active.promise
           p == Fresh(AnswerActive)
           t == AnswerActive
<1>1. /\ ~Somewhere(table) /\ a \in Promises /\ active \in Requests /\ queue \in Seq(Requests)
      /\ Open = <<active>> \o queue
  BY BodyLeaves
<1>2. table \in Tables /\ Sound(table) /\ TypeOK
  BY LoopTypes DEF IInv
<1>3. Is(table, a, "pending")
  <2>1. Has(Open, a)
    BY <1>1, FrontHas
  <2>2. QED
    BY <1>1, <1>2, <2>1, OwnIs DEF IInv, OwnIsOwn
<1>4. t = Settle(table, a, FALSE)
  BY DEF AnswerActive, Answer
<1>5. Evolves(table, t, {a}) /\ SameExist(table, t)
  BY <1>1, <1>2, <1>4, SettleEvolves, SettleExist
<1>6. t \in Tables /\ Sound(t) /\ HasRoom(t)
  BY <1>5 DEF Evolves, Changes
<1> HIDE DEF t, a
<1>7. /\ Changes(t, Waiting, {}) /\ Bodies(t, Waiting)
      /\ \A q : Aimed(Waiting, q) <=> Aimed(t, q)
      /\ \A q \in Promises : Exists(t, q) => Exists(Waiting, q)
  BY <1>6, CreateChanges DEF Waiting, t
<1>8. p \in Promises /\ Is(t, p, "absent") /\ Is(Waiting, p, "pending") /\ Waiting \in Tables /\ Sound(Waiting)
  BY <1>6, Created DEF Waiting, t
<1> HIDE DEF p
<1>9. Is(table, p, "absent")
  BY <1>5, <1>8 DEF SameExist, Exists
<1>10. Exists(Waiting, p)
  BY <1>8 DEF Exists, Is
<1>11. Changes(table, Waiting, {a})
  BY <1>2, <1>5, <1>7, ChangesTrans DEF Evolves
<1>12. ~Somewhere(Waiting)
  BY <1>1, <1>5, <1>7 DEF Evolves, Bodies
<1>13. \A q \in Promises : Aimed(Waiting, q) => Aimed(table, q) \/ q = a
  <2> SUFFICES ASSUME NEW q \in Promises, Aimed(t, q) PROVE Aimed(table, q) \/ q = a
    BY <1>7
  <2>1. Aimed(table, q) \/ q \in {a} \/ (Is(table, q, "absent") /\ Exists(t, q))
    BY <1>5 DEF Evolves, Changes, Aims
  <2>2. ~(Is(table, q, "absent") /\ Exists(t, q))
    BY <1>5 DEF SameExist, Exists
  <2>3. QED
    BY <2>1, <2>2
<1>14. \A q \in Promises : Exists(table, q) => Exists(Waiting, q)
  BY <1>5, <1>7 DEF SameExist
<1>15. QED
  BY <1>1, <1>3, <1>8, <1>9, <1>10, <1>11, <1>12, <1>13, <1>14 DEF a, p

\* Nobody has called yet: the body waits for a promise that only the next call
\* settles.
LEMMA YieldWaits ==
  ASSUME IInv, Yield, queue = <<>>
  PROVE  IInv'
<1> DEFINE a == active.promise
           p == Fresh(AnswerActive)
<1>1. /\ InBody /\ HasRoom(AnswerActive) /\ table' = Subscribe(Waiting, p, Resumption)
      /\ status' = "yield" /\ active' = NoRequest /\ resume' = p
      /\ stack' = Below /\ phase' = phase
      /\ UNCHANGED <<queue, completion, queueVars, resolvable, external, uses, calls, exit>>
  BY DEF Yield, Pop, programVars, AnswerActive, Waiting
<1>2. /\ a \in Promises /\ p \in Promises /\ Is(table, a, "pending") /\ Is(table, p, "absent")
      /\ Is(Waiting, p, "pending") /\ Exists(Waiting, p)
      /\ Waiting \in Tables /\ Sound(Waiting) /\ Changes(table, Waiting, {a}) /\ ~Somewhere(Waiting)
      /\ \A q \in Promises : Aimed(Waiting, q) => Aimed(table, q) \/ q = a
      /\ \A q \in Promises : Exists(table, q) => Exists(Waiting, q)
  BY <1>1, YieldFacts
<1>3. /\ stack' \in Seq(Frames) /\ stack' # <<>> /\ Stands(stack') /\ ~Runs(stack') /\ RunsOnce(stack')
      /\ \A q : StackAims(stack', q) => StackAims(stack, q)
      /\ phase = "running"
  BY <1>1, BodyLeaves
<1>4. table \in Tables /\ Sound(table) /\ TypeOK /\ BodyStands /\ calls \in 0..MaxCalls
  BY LoopTypes DEF IInv
<1> HIDE DEF a, p
<1>5. Changes(Waiting, table', {}) /\ AtMostOnce(table') /\ Somewhere(table') /\ RestsAt(table', p)
  BY <1>1, <1>2, SubscribeBody
<1>6. Changes(table, table', {a})
  BY <1>2, <1>4, <1>5, ChangesTrans
<1>7. \A q \in Promises : Own(q)' => q = p
  <2>1. Open' = <<>>
    <3>1. Open' = OpenOf(NoRequest, <<>>)
      BY <1>1 DEF Open, OpenOf
    <3>2. QED
      BY <3>1, NoneHas, OpenOfIs
  <2>2. QED
    BY <1>1, <2>1 DEF Own
<1>8. Distinct(Open') /\ Exists(table', a) /\ Is(table', p, "pending") /\ p # a
  <2>1. Open' = <<>>
    <3>1. Open' = OpenOf(NoRequest, <<>>)
      BY <1>1 DEF Open, OpenOf
    <3>2. QED
      BY <3>1, NoneHas, OpenOfIs
  <2>2. Goes(table, table', {a}) /\ Goes(Waiting, table', {})
    BY <1>5, <1>6 DEF Changes
  <2>3. Exists(table, a) /\ p # a
    BY <1>2 DEF Exists, Is
  <2>4. Exists(table', a)
    BY <1>2, <2>2, <2>3 DEF Goes
  <2>5. Is(table', p, "pending")
    BY <1>2, <2>2 DEF Goes, Exists, Is
  <2>6. QED
    BY <2>1, <2>3, <2>4, <2>5, NoneHas
<1>9. OwnIsOwn'
  <2>1. Changes(Waiting, table', {a})
    BY <1>5, ChangesWider
  <2>2. \A q \in Promises : q \in {a} => Exists(table', q)
    BY <1>8
  <2>3. \A q \in Promises : Own(q)' => /\ q \notin {a} /\ Is(table', q, "pending") /\ Exists(Waiting, q)
                                       /\ Own(q) \/ Is(table, q, "absent")
    BY <1>2, <1>7, <1>8
  <2>4. \A q \in Promises : Aimed(Waiting, q) => Aimed(table, q) \/ q \in {a}
    BY <1>2
  <2>5. resolvable' = resolvable
    BY <1>1
  <2>6. QED
    BY <1>2, <1>3, <1>8, <2>1, <2>2, <2>3, <2>4, <2>5, OwnStays
<1>10. BodyStands'
  BY <1>1, <1>3, <1>5 DEF BodyStands
<1>11. GeneratorTypes'
  BY <1>1, <1>2, <1>4, RequestTypes DEF TypeOK, GeneratorTypes
<1>12. calls' \in 0..MaxCalls
  BY <1>1, <1>4
<1>13. QED
  BY <1>1, <1>3, <1>6, <1>9, <1>10, <1>11, <1>12, RunningKeeps

\* The next request has come already: the body is resumed at once.
LEMMA YieldGoesOn ==
  ASSUME IInv, Yield, queue # <<>>
  PROVE  IInv'
<1> DEFINE a == active.promise
           p == Fresh(AnswerActive)
           h == Head(queue)
           t == Settle(Waiting, p, Thrown(h))
<1>1. /\ InBody /\ HasRoom(AnswerActive) /\ table' = Subscribe(t, p, Resumption)
      /\ queue' = Tail(queue)
      /\ active' = h /\ status' = "executing" /\ resume' = NoRequest /\ completion' \in {completion, "return"}
      /\ stack' = Below /\ phase' = phase
      /\ UNCHANGED <<queueVars, resolvable, external, uses, calls, exit>>
  BY DEF Yield, Pop, programVars, TakeUp, AnswerActive, Waiting
<1>2. /\ a \in Promises /\ p \in Promises /\ Is(table, a, "pending") /\ Is(table, p, "absent")
      /\ Is(Waiting, p, "pending") /\ Exists(Waiting, p)
      /\ Waiting \in Tables /\ Sound(Waiting) /\ Changes(table, Waiting, {a}) /\ ~Somewhere(Waiting)
      /\ \A q \in Promises : Aimed(Waiting, q) => Aimed(table, q) \/ q = a
      /\ \A q \in Promises : Exists(table, q) => Exists(Waiting, q)
  BY <1>1, YieldFacts
<1>3. /\ stack' \in Seq(Frames) /\ stack' # <<>> /\ Stands(stack') /\ ~Runs(stack') /\ RunsOnce(stack')
      /\ \A q : StackAims(stack', q) => StackAims(stack, q)
      /\ phase = "running" /\ active \in Requests /\ queue \in Seq(Requests) /\ Open = <<active>> \o queue
      /\ Distinct(Open)
  BY <1>1, BodyLeaves
<1>4. table \in Tables /\ Sound(table) /\ TypeOK /\ BodyStands /\ calls \in 0..MaxCalls
  BY LoopTypes DEF IInv
<1>5. h \in Requests /\ Tail(queue) \in Seq(Requests) /\ <<h>> \o Tail(queue) = queue /\ Thrown(h) \in BOOLEAN
  BY <1>3, RestIs DEF Thrown
<1>6. Evolves(Waiting, t, {p})
  BY <1>2, <1>5, SettleEvolves
<1>7. t \in Tables /\ Sound(t) /\ ~Somewhere(t)
  BY <1>2, <1>6 DEF Evolves, Changes, Bodies
<1> HIDE DEF a, p, h, t
<1>8. Changes(t, table', {}) /\ AtMostOnce(table') /\ Somewhere(table')
  BY <1>1, <1>2, <1>7, SubscribeBody
<1>9. Changes(Waiting, table', {p})
  BY <1>2, <1>6, <1>8, ChangesTrans DEF Evolves
<1>10. Changes(table, table', {a})
  BY <1>2, <1>4, <1>9, ChangesTrans
<1>11. Open' = queue
  <2>1. Open' = OpenOf(h, Tail(queue))
    BY <1>1 DEF Open, OpenOf
  <2>2. QED
    BY <1>5, <2>1, OpenOfIs
<1>12. Distinct(queue) /\ ~Has(queue, a) /\ \A q : Has(queue, q) => Has(Open, q)
  BY <1>3, FrontHas DEF a
<1>13. \A q \in Promises : Own(q)' => Has(queue, q)
  BY <1>1, <1>11, RequestTypes DEF Own, Has
<1>14. \A q \in Promises : Has(queue, q) => Own(q) /\ Is(table, q, "pending") /\ q # a /\ q # p
  <2> SUFFICES ASSUME NEW q \in Promises, Has(queue, q)
               PROVE  Own(q) /\ Is(table, q, "pending") /\ q # a /\ q # p
    OBVIOUS
  <2>1. Own(q)
    BY <1>4, <1>12, OwnIs
  <2>2. Is(table, q, "pending")
    BY <2>1 DEF IInv, OwnIsOwn
  <2>3. QED
    BY <1>2, <1>12, <2>1, <2>2 DEF Is
<1>15. Goes(table, table', {a}) /\ Goes(Waiting, table', {p})
  BY <1>9, <1>10 DEF Changes
<1>16. Exists(table', a) /\ Exists(table', p)
  <2>1. Exists(table, a)
    BY <1>2 DEF Exists, Is
  <2>2. QED
    BY <1>2, <1>15, <2>1 DEF Goes
<1>17. \A q \in Promises : Has(queue, q) => Is(table', q, "pending") /\ Exists(Waiting, q)
  <2> SUFFICES ASSUME NEW q \in Promises, Has(queue, q)
               PROVE  Is(table', q, "pending") /\ Exists(Waiting, q)
    OBVIOUS
  <2>1. Is(table, q, "pending") /\ q # a
    BY <1>14
  <2>2. Exists(table, q)
    BY <2>1 DEF Exists, Is
  <2>3. table'.state[q] = table.state[q]
    BY <1>15, <2>1, <2>2 DEF Goes, Exists
  <2>4. QED
    BY <1>2, <2>1, <2>2, <2>3 DEF Is
<1>18. OwnIsOwn'
  <2>1. Changes(Waiting, table', {a, p})
    BY <1>9, ChangesWider
  <2>2. \A q \in Promises : q \in {a, p} => Exists(table', q)
    BY <1>16
  <2>3. \A q \in Promises : Own(q)' => /\ q \notin {a, p} /\ Is(table', q, "pending") /\ Exists(Waiting, q)
                                       /\ Own(q) \/ Is(table, q, "absent")
    BY <1>13, <1>14, <1>17
  <2>4. \A q \in Promises : Aimed(Waiting, q) => Aimed(table, q) \/ q \in {a, p}
    BY <1>2
  <2>5. resolvable' = resolvable /\ Distinct(Open')
    BY <1>1, <1>11, <1>12
  <2>6. QED
    BY <1>2, <1>3, <2>1, <2>2, <2>3, <2>4, <2>5, OwnStays
<1>19. BodyStands'
  BY <1>1, <1>3, <1>8 DEF BodyStands
<1>20. GeneratorTypes'
  BY <1>1, <1>4, <1>5, RequestTypes DEF TypeOK, GeneratorTypes
<1>21. calls' \in 0..MaxCalls
  BY <1>1, <1>4
<1>22. QED
  BY <1>1, <1>3, <1>10, <1>18, <1>19, <1>20, <1>21, RunningKeeps

\* The body is done: whatever was asked is answered.
LEMMA CompleteKeeps ==
  ASSUME IInv, NEW rejected \in BOOLEAN, Complete(rejected)
  PROVE  IInv'
<1> DEFINE a == active.promise
           t == Answer(table, active, rejected)
           X == {q \in Promises : Has(Open, q)}
<1>1. /\ InBody /\ table' = AnswerQueue(t)
      /\ status' = "completed" /\ queue' = <<>> /\ active' = NoRequest /\ resume' = NoRequest
      /\ stack' = Below /\ phase' = phase
      /\ UNCHANGED <<completion, queueVars, resolvable, external, uses, calls, exit>>
  BY DEF Complete, Pop, programVars
<1>2. /\ stack' \in Seq(Frames) /\ stack' # <<>> /\ Stands(stack') /\ ~Runs(stack') /\ RunsOnce(stack')
      /\ \A q : StackAims(stack', q) => StackAims(stack, q)
      /\ phase = "running" /\ active \in Requests /\ queue \in Seq(Requests) /\ Open = <<active>> \o queue
      /\ a \in Promises /\ ~Somewhere(table)
  BY <1>1, BodyLeaves
<1>3. table \in Tables /\ Sound(table) /\ TypeOK /\ BodyStands /\ calls \in 0..MaxCalls
  BY LoopTypes DEF IInv
<1>4. t = Settle(table, a, rejected)
  BY DEF Answer
<1>5. \A q : Has(Open, q) <=> q = a \/ Has(queue, q)
  BY <1>2, FrontHas
<1>6. Evolves(table, t, X)
  <2>1. Evolves(table, t, {a})
    BY <1>2, <1>3, <1>4, SettleEvolves
  <2>2. {a} \subseteq X
    BY <1>2, <1>5
  <2> HIDE DEF t, X, a
  <2>3. QED
    BY <2>1, <2>2, EvolvesWider
<1>7. \A n \in DOMAIN queue : queue[n].promise \in X
  <2> SUFFICES ASSUME NEW n \in DOMAIN queue PROVE queue[n].promise \in X
    OBVIOUS
  <2>1. queue[n] \in Requests
    BY <1>2, Positions
  <2>2. queue[n].promise \in Promises /\ Has(queue, queue[n].promise)
    BY <2>1, RequestTypes DEF Has
  <2>3. QED
    BY <1>5, <2>2
<1>8. \A q \in X : q \in Promises /\ Is(table, q, "pending") /\ Exists(table, q)
  BY <1>3, OwnIs DEF IInv, OwnIsOwn, Exists, Is
<1> HIDE DEF a, t, X
<1>9. Evolves(t, table', X)
  BY <1>1, <1>2, <1>6, <1>7, AnswerQueueEvolves DEF Evolves, Changes
<1>10. Evolves(table, table', X)
  BY <1>3, <1>6, <1>9, EvolvesTrans
<1>11. Open' = <<>>
  <2>1. Open' = OpenOf(NoRequest, <<>>)
    BY <1>1 DEF Open, OpenOf
  <2>2. QED
    BY <2>1, NoneHas, OpenOfIs
<1>12. \A q \in Promises : ~Own(q)'
  BY <1>1, <1>11, RequestTypes DEF Own
<1>13. OwnIsOwn'
  <2>1. Changes(table, table', X)
    BY <1>10 DEF Evolves
  <2>2. \A q \in Promises : q \in X => Exists(table', q)
    BY <1>8, <2>1 DEF Changes, Goes
  <2>3. resolvable' = resolvable /\ Distinct(Open')
    BY <1>1, <1>11, NoneHas
  <2>4. QED
    BY <1>2, <1>12, <2>1, <2>2, <2>3, OwnStays
<1>14. AtMostOnce(table') /\ ~Somewhere(table')
  BY <1>2, <1>3, <1>10 DEF Evolves, Bodies, BodyStands
<1>15. BodyStands'
  BY <1>1, <1>2, <1>14 DEF BodyStands
<1>16. GeneratorTypes'
  BY <1>1, <1>3, NoneHas DEF TypeOK, GeneratorTypes
<1>17. calls' \in 0..MaxCalls
  BY <1>1, <1>3
<1>18. Changes(table, table', X)
  BY <1>10 DEF Evolves
<1>19. QED
  BY <1>1, <1>2, <1>13, <1>15, <1>16, <1>17, <1>18, RunningKeeps

LEMMA BodyStepKeeps ==
  ASSUME IInv, BodyStep
  PROVE  IInv'
<1>1. CASE Await
  BY <1>1, AwaitKeeps
<1>2. CASE Yield
  BY <1>2, YieldWaits, YieldGoesOn
<1>3. CASE \E rejected \in BOOLEAN : Complete(rejected)
  BY <1>3, CompleteKeeps
<1>4. QED
  BY <1>1, <1>2, <1>3 DEF BodyStep

-----------------------------------------------------------------------------
(* The invariant.                                                          *)

\* Nothing exists at first.
LEMMA FirstTable ==
  /\ NoPromises \in Tables /\ Sound(NoPromises) /\ Exact(NoPromises)
  /\ AtMostOnce(NoPromises) /\ ~Somewhere(NoPromises)
  /\ \A p : ~Aimed(NoPromises, p)
  /\ \A p \in Promises : Is(NoPromises, p, "absent")
<1>1. /\ NoPromises.state = [p \in Promises |-> "absent"] /\ NoPromises.handled = {}
      /\ NoPromises.reactions = [p \in Promises |-> <<>>] /\ NoPromises.microtasks = <<>>
      /\ NoPromises.unhandled = {} /\ NoPromises.combinators = <<>>
  BY DEF NoPromises
<1>2. NoPromises \in Tables
  <2>1. "absent" \in PromiseStates
    BY DEF PromiseStates
  <2>2. <<>> \in Seq(Reactions) /\ <<>> \in Seq(Jobs) /\ <<>> \in Seq(Combinators)
    OBVIOUS
  <2>3. [p \in Promises |-> "absent"] \in [Promises -> PromiseStates]
        /\ [p \in Promises |-> <<>>] \in [Promises -> Seq(Reactions)]
    BY <2>1, <2>2
  <2>4. QED
    BY <2>2, <2>3 DEF NoPromises, Tables
<1> DEFINE t == NoPromises
<1>3. /\ \A p \in Promises : t.state[p] = "absent" /\ t.reactions[p] = <<>>
      /\ t.microtasks = <<>> /\ t.unhandled = {} /\ t.handled = {} /\ t.combinators = <<>>
  BY <1>1
<1> HIDE DEF t
<1>4. \A p \in Promises : \A k : k \notin DOMAIN t.reactions[p]
  BY <1>3
<1>5. \A i : i \notin DOMAIN t.microtasks /\ i \notin DOMAIN t.combinators
  BY <1>3
<1>6. Listens(t) /\ ElementsExist(t)
  BY <1>3, <1>4, <1>5 DEF Listens, ElementsExist
<1>7. \A p \in Promises : Is(t, p, "absent") /\ ~Exists(t, p)
  BY <1>3 DEF Is, Exists
<1>8. InOrder(t)
  BY <1>7 DEF InOrder
<1>9. Exact(t)
  BY <1>3 DEF Exact, Is
<1>10. (\A p \in Promises : ~RestsAt(t, p)) /\ ~Waits(t)
  BY <1>4, <1>5 DEF RestsAt, Rests, Waits, IsQueued
<1>11. AtMostOnce(t) /\ ~Somewhere(t)
  BY <1>4, <1>5, <1>10 DEF AtMostOnce, Somewhere, Rests, IsQueued
<1>12. \A p : ~Aimed(t, p)
  BY <1>4, <1>5 DEF Aimed
<1>13. QED
  BY <1>2, <1>6, <1>7, <1>8, <1>9, <1>11, <1>12 DEF Sound, t

\* The invariant holds at first, and every step keeps it.
LEMMA InvInit ==
  ASSUME Init
  PROVE  IInv
<1>1. /\ table = NoPromises /\ resolvable = {} /\ ticks = 0 /\ immediates = <<>> /\ timers = <<>>
      /\ cancelled = {} /\ external = 0 /\ stack = <<Script>> /\ phase = "running" /\ exit = "none"
      /\ uses \in Workloads /\ calls = MaxCalls
      /\ status = "start" /\ queue = <<>> /\ active = NoRequest
      /\ resume = NoRequest /\ completion = "none"
  BY DEF Init, LoopInit, GenInit
<1>2. /\ table \in Tables /\ Sound(table) /\ Exact(table)
      /\ AtMostOnce(table) /\ ~Somewhere(table)
      /\ \A p : ~Aimed(table, p)
      /\ \A p \in Promises : Is(table, p, "absent")
  BY <1>1, FirstTable
<1>3. Script \in Frames /\ Script.run = "js" /\ Script.job \in Callers /\ Script.job.kind = "script"
  BY DEF Script, Frames, Callers
<1>4. /\ stack \in Seq(Frames) /\ stack # <<>> /\ DOMAIN stack = {1} /\ stack[1] = Script
  BY <1>1, <1>3
<1>5. (\A p : ~StackAims(stack, p)) /\ ~Runs(stack) /\ RunsOnce(stack) /\ Stands(stack)
  <2>1. \A p : ~JobAims(Script.job, p)
    BY <1>3, CallersAim
  <2>2. ~IsBody(Script) /\ IsScript(Script) /\ ~IsTick(Script) /\ RunsHandler(Script)
    BY <1>3 DEF IsBody, IsScript, IsTick, RunsHandler
  <2>3. QED
    BY <1>3, <1>4, <2>1, <2>2 DEF StackAims, Runs, RunsOnce, Stands
<1>6. LoopTypeOK
  <2>1. calls \in 0..MaxCalls
    BY <1>1, LoopAssumption
  <2>2. \E all \in Workloads : uses \subseteq all
    BY <1>1
  <2>3. QED
    BY <1>1, <1>2, <1>4, <2>1, <2>2 DEF LoopTypeOK
<1>7. TypeOK
  BY <1>1, <1>6, NoneHas DEF TypeOK
<1>8. OwnIsOwn
  <2>1. Open = <<>>
    <3>1. Open = OpenOf(NoRequest, <<>>)
      BY <1>1 DEF Open, OpenOf
    <3>2. QED
      BY <3>1, NoneHas, OpenOfIs
  <2>2. \A p \in Promises : ~Own(p)
    BY <1>1, <2>1, RequestTypes DEF Own
  <2>3. \A p \in Promises : ~Claimed(table, resolvable, stack, p)
    BY <1>1, <1>2, <1>5 DEF Claimed
  <2>4. QED
    BY <2>1, <2>2, <2>3 DEF OwnIsOwn
<1>9. BodyStands /\ LoopStands
  BY <1>1, <1>2, <1>5 DEF BodyStands, LoopStands
<1>10. QED
  BY <1>2, <1>5, <1>7, <1>8, <1>9 DEF IInv

LEMMA InvStays ==
  ASSUME IInv, UNCHANGED vars
  PROVE  IInv'
<1>1. /\ UNCHANGED <<table, resolvable, ticks, immediates, timers, cancelled, external>>
      /\ UNCHANGED <<stack, phase, exit, uses, calls, status, queue, active, resume, completion>>
  BY DEF vars, loopVars, genVars
<1>2. TypeOK'
  BY <1>1 DEF IInv, TypeOK, LoopTypeOK
<1>3. (Sound(table) /\ (exit # "rejection" => Exact(table)))'
  BY <1>1 DEF IInv
<1>4. OwnIsOwn'
  BY <1>1 DEF IInv, OwnIsOwn, Own, Open
<1>5. (BodyStands /\ Stands(stack) /\ LoopStands)'
  BY <1>1 DEF IInv, BodyStands, LoopStands, QueuesEmpty, NothingPending
<1>6. QED
  BY <1>2, <1>3, <1>4, <1>5 DEF IInv

LEMMA InvNext ==
  ASSUME IInv, [Next]_vars
  PROVE  IInv'
<1>1. CASE LoopNext /\ UNCHANGED genVars
  BY <1>1, LoopKeeps
<1>2. CASE Ask
  BY <1>2, AskKeeps
<1>3. CASE ResumeBody
  BY <1>3, ResumeBodyKeeps
<1>4. CASE BodyStep
  BY <1>4, BodyStepKeeps
<1>5. CASE UNCHANGED vars
  BY <1>5, InvStays
<1>6. QED
  BY <1>1, <1>2, <1>3, <1>4, <1>5 DEF Next

LEMMA Invariant == Spec => []IInv
<1>1. Init => IInv
  BY InvInit
<1>2. IInv /\ [Next]_vars => IInv'
  BY InvNext
<1>3. QED
  BY <1>1, <1>2, PTL DEF Spec

-----------------------------------------------------------------------------
(* The theorems.                                                           *)

\* Every variable has its type: the table with its reactions, jobs and
\* combinators, the timers, the stack, the requests, whatever the program
\* calls (drain_event_loop, async_generator.rs).
THEOREM TypeCorrect == Spec => []TypeOK
<1>1. IInv => TypeOK
  BY DEF IInv
<1>2. QED
  BY <1>1, Invariant, PTL

\* pending_unhandled_rejections is exactly what nobody listens to: no promise in
\* it has a reaction, and no unheard rejection is missing.
THEOREM RejectionsAreExact == Spec => []HeardIsNotReported
<1>1. ASSUME IInv PROVE HeardIsNotReported
  <2>1. table \in Tables /\ Listens(table) /\ (exit # "rejection" => Exact(table))
    BY <1>1, LoopTypes DEF IInv, Sound
  <2>2. \A p \in Promises : HasReactions(p) => p \in table.handled
    BY <2>1 DEF HasReactions, Listens
  <2>3. \A p \in table.handled : p \notin table.unhandled
    BY <2>1 DEF Listens
  <2>4. QED
    BY <2>1, <2>2, <2>3 DEF HeardIsNotReported, Exact
<1>2. QED
  BY <1>1, Invariant, PTL

\* A loop that ends by itself leaves nothing behind: every queue is empty, what
\* reactions wait for is pending, nothing is unreported, and a generator with
\* open requests still awaits a promise.
THEOREM EndsWithNothingLeft == Spec => []NothingLeftBehind
<1>1. ASSUME IInv, phase = "ended", exit = "none"
      PROVE  /\ QueuesEmpty /\ external = 0
             /\ \A p \in Promises : table.reactions[p] # <<>> => Is(table, p, "pending")
             /\ table.unhandled = {}
             /\ Open # <<>> => Awaited # {}
  <2>1. QueuesEmpty /\ external = 0 /\ table.unhandled = {} /\ TypeOK /\ BodyStands
    BY <1>1 DEF IInv, LoopStands
  <2>2. \A p \in Promises : table.reactions[p] # <<>> => Is(table, p, "pending")
    BY <1>1 DEF IInv, Sound, Listens
  <2>3. ASSUME Open # <<>> PROVE Awaited # {}
    <3>1. status = "executing"
      BY <2>1, <2>3, OpenIs
    <3>2. ~Runs(stack)
      BY <1>1, AtRest
    <3>3. table.microtasks = <<>>
      BY <2>1 DEF QueuesEmpty, NothingPending
    <3>4. ~Waits(table)
      BY <3>3 DEF Waits, IsQueued
    <3>5. \E p \in Promises : RestsAt(table, p)
      BY <2>1, <3>1, <3>2, <3>4 DEF BodyStands, Somewhere
    <3>6. QED
      BY <3>5 DEF RestsAt, Rests, Awaited
  <2>4. QED
    BY <2>1, <2>2, <2>3
<1>2. IInv => NothingLeftBehind
  BY <1>1 DEF NothingLeftBehind
<1>3. QED
  BY <1>2, Invariant, PTL

\* The places of BodyIsAtOnePlace, by the resumptions and the frames.
LEMMA PlacesAre ==
  ASSUME TypeOK, NEW x
  PROVE  x \in Places <=>
           \/ \E p \in Promises : \E i \in Nat : Rests(table, p, i) /\ x = <<"waits", p, i>>
           \/ \E i \in Nat : IsQueued(table, i) /\ x = <<"queued", 0, i>>
           \/ \E i \in Nat : i \in DOMAIN stack /\ IsBody(stack[i]) /\ x = <<"runs", 0, i>>
<1>1. table \in Tables /\ stack \in Seq(Frames)
  BY DEF TypeOK, LoopTypeOK
<1>2. /\ \A p \in Promises : DOMAIN table.reactions[p] \subseteq Nat
      /\ DOMAIN table.microtasks \subseteq Nat /\ DOMAIN stack \subseteq Nat
  <2>1. \A p \in Promises : table.reactions[p] \in Seq(Reactions)
    BY <1>1, TableTypes
  <2>2. table.microtasks \in Seq(Jobs)
    BY <1>1, TableTypes
  <2>3. \A p \in Promises : DOMAIN table.reactions[p] \subseteq Nat
    <3> TAKE p \in Promises
    <3>1. DOMAIN table.reactions[p] = 1..Len(table.reactions[p]) /\ Len(table.reactions[p]) \in Nat
      BY <2>1, Positions
    <3>2. QED
      BY <3>1
  <2>4. DOMAIN table.microtasks = 1..Len(table.microtasks) /\ Len(table.microtasks) \in Nat
    BY <2>2, Positions
  <2>5. DOMAIN stack = 1..Len(stack) /\ Len(stack) \in Nat
    BY <1>1, Positions
  <2>6. QED
    BY <2>3, <2>4, <2>5
<1> DEFINE A == UNION {{<<"waits", p, i>> : i \in WaitsAt(p)} : p \in Promises}
           B == {<<"queued", 0, i>> : i \in {j \in DOMAIN table.microtasks : IsResumption(table.microtasks[j])}}
           C == {<<"runs", 0, i>> : i \in {j \in DOMAIN stack : IsBody(stack[j])}}
<1>3. x \in A <=> \E p \in Promises : \E i \in Nat : Rests(table, p, i) /\ x = <<"waits", p, i>>
  <2>1. \A p \in Promises : \A i : i \in WaitsAt(p) <=> i \in Nat /\ Rests(table, p, i)
    BY <1>2 DEF WaitsAt, Rests
  <2>2. QED
    BY <2>1
<1>4. x \in B <=> \E i \in Nat : IsQueued(table, i) /\ x = <<"queued", 0, i>>
  BY <1>2 DEF IsQueued
<1>5. x \in C <=> \E i \in Nat : i \in DOMAIN stack /\ IsBody(stack[i]) /\ x = <<"runs", 0, i>>
  BY <1>2
<1>6. x \in Places <=> x \in A \/ x \in B \/ x \in C
  <2>1. Places = A \cup B \cup C
    BY DEF Places
  <2> HIDE DEF A, B, C
  <2>2. QED
    BY <2>1
<1>7. QED
  BY <1>3, <1>4, <1>5, <1>6

\* A body that was started and has not completed is at one place only: on the
\* stack, waiting for one promise, or queued (async_generator.rs).
THEOREM BodyHasOnePlace == Spec => []BodyIsAtOnePlace
<1>1. ASSUME IInv PROVE BodyIsAtOnePlace
  <2>1. TypeOK /\ AtMostOnce(table) /\ RunsOnce(stack) /\ ~(Runs(stack) /\ Somewhere(table))
        /\ (Runs(stack) \/ Somewhere(table) <=> status \in {"executing", "yield"})
    BY <1>1 DEF IInv, BodyStands
  <2> DEFINE AtPromise(x) == \E p \in Promises : \E i \in Nat : Rests(table, p, i) /\ x = <<"waits", p, i>>
             InQueue(x) == \E i \in Nat : IsQueued(table, i) /\ x = <<"queued", 0, i>>
             OnStack(x) == \E i \in Nat : i \in DOMAIN stack /\ IsBody(stack[i]) /\ x = <<"runs", 0, i>>
  <2>2. \A x : x \in Places <=> AtPromise(x) \/ InQueue(x) \/ OnStack(x)
    BY <2>1, PlacesAre
  <2>3. \A x : AtPromise(x) => Somewhere(table) /\ \E p \in Promises : RestsAt(table, p)
    BY DEF Somewhere, RestsAt
  <2>4. \A x : InQueue(x) => Somewhere(table) /\ Waits(table)
    BY DEF Somewhere, Waits
  <2>5. \A x : OnStack(x) => Runs(stack)
    BY DEF Runs
  <2>6. \A x, y : AtPromise(x) /\ AtPromise(y) => x = y
    <3> SUFFICES ASSUME NEW p \in Promises, NEW i \in Nat, Rests(table, p, i),
                        NEW q \in Promises, NEW j \in Nat, Rests(table, q, j)
                 PROVE  <<"waits", p, i>> = <<"waits", q, j>>
      OBVIOUS
    <3>1. p = q
      BY <2>1 DEF AtMostOnce, RestsAt
    <3>2. i = j
      BY <2>1, <3>1 DEF AtMostOnce
    <3>3. QED
      BY <3>1, <3>2
  <2>7. \A x, y : InQueue(x) /\ InQueue(y) => x = y
    BY <2>1 DEF AtMostOnce
  <2>8. \A x, y : OnStack(x) /\ OnStack(y) => x = y
    BY <2>1 DEF RunsOnce
  <2>9. \A x, y : ~(AtPromise(x) /\ InQueue(y))
    BY <2>1, <2>3, <2>4 DEF AtMostOnce
  <2>10. \A x, y : ~(OnStack(x) /\ (AtPromise(y) \/ InQueue(y)))
    BY <2>1, <2>3, <2>4, <2>5
  <2>11. Runs(stack) \/ Somewhere(table) => \E x : AtPromise(x) \/ InQueue(x) \/ OnStack(x)
    <3>1. ASSUME Runs(stack) PROVE \E x : OnStack(x)
      <4>1. stack \in Seq(Frames)
        BY <2>1 DEF TypeOK, LoopTypeOK
      <4>2. DOMAIN stack = 1..Len(stack) /\ Len(stack) \in Nat
        BY <4>1, Positions
      <4>3. PICK i \in DOMAIN stack : IsBody(stack[i])
        BY <3>1 DEF Runs
      <4>4. i \in Nat
        BY <4>2
      <4>5. QED
        BY <4>3, <4>4
    <3>2. ASSUME Waits(table) PROVE \E x : InQueue(x)
      BY <3>2 DEF Waits
    <3>3. ASSUME NEW p \in Promises, RestsAt(table, p) PROVE \E x : AtPromise(x)
      BY <3>3 DEF RestsAt
    <3>4. QED
      BY <3>1, <3>2, <3>3 DEF Somewhere
  <2> HIDE DEF AtPromise, InQueue, OnStack
  <2>12. \A x, y \in Places : x = y
    BY <2>2, <2>6, <2>7, <2>8, <2>9, <2>10
  <2>13. CASE status \in {"executing", "yield"}
    <3>1. \E x : x \in Places
      BY <2>1, <2>2, <2>11, <2>13
    <3>2. PICK x \in Places : TRUE
      BY <3>1
    <3>3. Places = {x}
      BY <2>12, <3>2
    <3>4. QED
      BY <2>13, <3>2, <3>3 DEF BodyIsAtOnePlace
  <2>14. CASE status \notin {"executing", "yield"}
    <3>1. \A x : x \notin Places
      BY <2>1, <2>2, <2>3, <2>4, <2>5, <2>14
    <3>2. Places = {}
      BY <3>1
    <3>3. QED
      BY <2>14, <3>2 DEF BodyIsAtOnePlace
  <2>15. QED
    BY <2>13, <2>14
<1>2. QED
  BY <1>1, Invariant, PTL

\* Only the checkpoint ends a program with a rejection.
LEMMA ExitStays ==
  ASSUME Next
  PROVE  Report \/ exit' = exit \/ exit' = "program"
<1>1. CASE LoopNext
  <2>1. Call => exit' = exit \/ exit' = "program"
    BY DEF Call, NewPromise, Resolve, Reject, CallThen, CallFinally, CallCombinator, CallAsync,
           QueueMicrotask, NextTick, SetImmediate, SetTimer, Clear, StartExternal, Exit, NestedDrain,
           Promised, Queued
  <2>2. Return => exit' = exit
    BY DEF Return, ScriptReturns, MacroReturns, AwaitAgain, PollReturns, CallbackReturns, ReactionReturns
  <2>3. DrainStep => Report \/ exit' = exit
    BY DEF DrainStep, DrainEnds, RunTick, RunMicrotask, RunImmediate, RunTimer
  <2>4. LoopStep => exit' = exit
    BY DEF LoopStep, Turn, Sleep, Poll
  <2>5. QED
    BY <1>1, <2>1, <2>2, <2>3, <2>4 DEF LoopNext
<1>2. CASE Ask \/ ResumeBody \/ BodyStep
  BY <1>2 DEF Ask, ResumeBody, BodyStep, Await, Yield, Complete
<1>3. QED
  BY <1>1, <1>2 DEF Next

\* A rejection ends the program only from the outer drain, with no callback
\* under way and nothing queued that could still attach a handler
\* (promise.rs:28-31).
THEOREM ReportsComeLast == Spec => ReportsAreFinal
<1>1. ASSUME IInv, Next, exit # "rejection", exit' = "rejection"
      PROVE  Depth = 1 /\ NothingPending
  <2>1. Report
    BY <1>1, ExitStays
  <2>2. InDrain /\ Top.check /\ NothingPending
    BY <2>1 DEF Report
  <2>3. QED
    BY <1>1, <2>2, BottomFrame
<1>2. IInv /\ [Next]_vars =>
        [(exit # "rejection" /\ exit' = "rejection") => (Depth = 1 /\ NothingPending)]_vars
  BY <1>1
<1>3. QED
  BY <1>2, Invariant, PTL DEF Spec, ReportsAreFinal

\* A request at the end of the others, and the first ones gone.
LEMMA LastAdded ==
  ASSUME NEW q \in Seq(Requests), NEW r \in Requests
  PROVE  /\ Len(Append(q, r)) = Len(q) + 1 /\ SubSeq(Append(q, r), 1, Len(q)) = q
         /\ \A a \in Requests : <<a>> \o Append(q, r) = Append(<<a>> \o q, r)
         /\ Append(<<>>, r) = <<r>> \o <<>>
<1>1. Len(Append(q, r)) = Len(q) + 1 /\ SubSeq(Append(q, r), 1, Len(q)) = q
  OBVIOUS
<1>2. \A a \in Requests : <<a>> \o Append(q, r) = Append(<<a>> \o q, r)
  OBVIOUS
<1>3. Append(<<>>, r) = <<r>> \o <<>>
  OBVIOUS
<1>4. QED
  BY <1>1, <1>2, <1>3

LEMMA FirstGone ==
  ASSUME NEW a \in Requests, NEW q \in Seq(Requests)
  PROVE  LET o == <<a>> \o q IN
         /\ 1 \in DOMAIN o /\ SubSeq(o, 1 + 1, Len(o)) = q
         /\ Len(o) \in DOMAIN o /\ SubSeq(o, Len(o) + 1, Len(o)) = <<>>
<1> DEFINE o == <<a>> \o q
<1>1. o \in Seq(Requests) /\ Len(o) = Len(q) + 1 /\ Len(q) \in Nat /\ DOMAIN o = 1..Len(o)
  BY FrontIs, Positions
<1>2. SubSeq(o, 1 + 1, Len(o)) = q
  OBVIOUS
<1>3. SubSeq(o, Len(o) + 1, Len(o)) = <<>>
  OBVIOUS
<1> HIDE DEF o
<1>4. QED
  BY <1>1, <1>2, <1>3

OpenPending == \A i \in DOMAIN Open : Is(table, Open[i].promise, "pending")
OpenMoves ==
  \/ Open' = Open
  \/ Len(Open') = Len(Open) + 1 /\ SubSeq(Open', 1, Len(Open)) = Open
  \/ \E n \in DOMAIN Open : Open' = SubSeq(Open, n + 1, Len(Open))

LEMMA OpenAppended ==
  ASSUME Open \in Seq(Requests), NEW r \in Requests, Open' = Append(Open, r)
  PROVE  OpenMoves
BY LastAdded DEF OpenMoves

\* A call adds a request at the end, or is answered at once.
LEMMA AskMoves ==
  ASSUME IInv, Ask
  PROVE  OpenMoves
<1>1. PICK kind \in {"next", "return", "throw"} :
        /\ AskBy(kind)
        /\ LET request == Request(kind, Fresh(table)) IN
           CASE status = "executing" -> AskRunning(request)
             [] status = "completed" -> AskCompleted(request)
             [] status = "start" -> AskStart(request)
             [] status = "yield" -> AskSuspended(request)
  BY DEF Ask, AskBy
<1> DEFINE r == Request(kind, Fresh(table))
<1>2. r \in Requests /\ status \in {"start", "yield", "executing", "completed"} /\ TypeOK /\ BodyStands
  BY <1>1, AskFacts DEF IInv, TypeOK
<1> HIDE DEF r
<1>3. /\ Open = OpenOf(active, queue) /\ Open \in Seq(Requests) /\ queue \in Seq(Requests)
      /\ status # "executing" => Open = <<>> /\ queue = <<>> /\ active = NoRequest
      /\ status = "executing" => active \in Requests /\ Open = <<active>> \o queue
  BY <1>2, OpenIs
<1>4. Open' = OpenOf(active', queue')
  BY DEF Open, OpenOf
<1>5. OpenOf(r, <<>>) = Append(<<>>, r)
  BY <1>2, NoneHas, OpenOfIs, LastAdded
<1>6. CASE status = "executing"
  <2>1. queue' = Append(queue, r) /\ active' = active
    BY <1>1, <1>6 DEF AskRunning, r
  <2>2. Append(queue, r) \in Seq(Requests)
    BY <1>2, <1>3
  <2>3. OpenOf(active, Append(queue, r)) = <<active>> \o Append(queue, r)
    BY <1>3, <1>6, <2>2, OpenOfIs
  <2>4. Open' = Append(Open, r)
    BY <1>2, <1>3, <1>4, <1>6, <2>1, <2>3, LastAdded
  <2>5. QED
    BY <1>2, <1>3, <2>4, OpenAppended
<1>7. CASE status = "completed"
  <2>1. active' = active /\ queue' = queue
    BY <1>1, <1>7 DEF AskCompleted, genVars
  <2>2. QED
    BY <1>3, <1>4, <2>1 DEF OpenMoves
<1>8. CASE status = "start"
  <2>1. queue' = queue /\ active' \in {active, r}
    BY <1>1, <1>8 DEF AskStart, r
  <2>2. CASE active' = active
    BY <1>3, <1>4, <2>1, <2>2 DEF OpenMoves
  <2>3. CASE active' = r
    BY <1>2, <1>3, <1>4, <1>5, <1>8, <2>1, <2>3, OpenAppended
  <2>4. QED
    BY <2>1, <2>2, <2>3
<1>9. CASE status = "yield"
  <2>1. queue' = queue /\ active' = r
    BY <1>1, <1>9 DEF AskSuspended, TakeUp, r
  <2>2. QED
    BY <1>2, <1>3, <1>4, <1>5, <1>9, <2>1, OpenAppended
<1>10. QED
  BY <1>2, <1>6, <1>7, <1>8, <1>9

\* The body answers the first request, or all of them.
LEMMA BodyMoves ==
  ASSUME IInv, BodyStep
  PROVE  OpenMoves
<1>1. CASE Await
  BY <1>1 DEF Await, genVars, Open, OpenMoves
<1>2. CASE Yield
  <2>1. /\ InBody /\ stack' = Below
        /\ IF queue = <<>> THEN active' = NoRequest /\ queue' = queue
           ELSE active' = Head(queue) /\ queue' = Tail(queue)
    BY <1>2 DEF Yield, Pop, TakeUp
  <2>2. active \in Requests /\ queue \in Seq(Requests) /\ Open = <<active>> \o queue
    BY <2>1, BodyLeaves
  <2>3. Open' = OpenOf(active', queue')
    BY DEF Open, OpenOf
  <2>4. Open' = queue
    <3>1. CASE queue = <<>>
      BY <2>1, <2>2, <2>3, <3>1, OpenOfIs
    <3>2. CASE queue # <<>>
      <4>1. Head(queue) \in Requests /\ Tail(queue) \in Seq(Requests) /\ <<Head(queue)>> \o Tail(queue) = queue
        BY <2>2, <3>2, RestIs
      <4>2. OpenOf(Head(queue), Tail(queue)) = <<Head(queue)>> \o Tail(queue)
        BY <4>1, OpenOfIs
      <4>3. QED
        BY <2>1, <2>3, <3>2, <4>1, <4>2
    <3>3. QED
      BY <3>1, <3>2
  <2>5. 1 \in DOMAIN Open /\ SubSeq(Open, 1 + 1, Len(Open)) = queue
    BY <2>2, FirstGone
  <2>6. QED
    BY <2>4, <2>5 DEF OpenMoves
<1>3. CASE \E rejected \in BOOLEAN : Complete(rejected)
  <2>1. InBody /\ stack' = Below /\ active' = NoRequest /\ queue' = <<>>
    BY <1>3 DEF Complete, Pop
  <2>2. active \in Requests /\ queue \in Seq(Requests) /\ Open = <<active>> \o queue
    BY <2>1, BodyLeaves
  <2>3. Open' = <<>>
    <3>1. Open' = OpenOf(NoRequest, <<>>)
      BY <2>1 DEF Open, OpenOf
    <3>2. QED
      BY <3>1, NoneHas, OpenOfIs
  <2>4. Len(Open) \in DOMAIN Open /\ SubSeq(Open, Len(Open) + 1, Len(Open)) = <<>>
    BY <2>2, FirstGone
  <2>5. QED
    BY <2>3, <2>4 DEF OpenMoves
<1>4. QED
  BY <1>1, <1>2, <1>3 DEF BodyStep

\* Requests are answered in the order of the calls, each once: those that are
\* open are pending, and those that leave were first (enqueue, process_queue,
\* drain_completed).
THEOREM RequestsAreInOrder == Spec => RequestsInOrder
<1>1. ASSUME IInv PROVE OpenPending
  <2>1. TypeOK /\ BodyStands /\ OwnIsOwn
    BY <1>1 DEF IInv
  <2>2. Open \in Seq(Requests)
    BY <2>1, OpenIs
  <2> SUFFICES ASSUME NEW i \in DOMAIN Open PROVE Is(table, Open[i].promise, "pending")
    BY DEF OpenPending
  <2>3. Open[i].promise \in Promises
    BY <2>2, RequestTypes
  <2>4. Own(Open[i].promise)
    BY DEF Own
  <2>5. QED
    BY <2>1, <2>3, <2>4 DEF OwnIsOwn
<1>2. ASSUME IInv, [Next]_vars PROVE [OpenMoves]_vars
  <2>1. CASE LoopNext /\ UNCHANGED genVars
    BY <2>1 DEF genVars, Open, OpenMoves
  <2>2. CASE Ask
    BY <1>2, <2>2, AskMoves
  <2>3. CASE ResumeBody
    BY <2>3 DEF ResumeBody, Open, OpenMoves
  <2>4. CASE BodyStep
    BY <1>2, <2>4, BodyMoves
  <2>5. QED
    BY <1>2, <2>1, <2>2, <2>3, <2>4 DEF Next
<1>3. OpenPending' /\ [OpenMoves]_vars =>
        [/\ \A i \in DOMAIN Open' : Is(table', Open'[i].promise, "pending")
         /\ \/ Open' = Open
            \/ Len(Open') = Len(Open) + 1 /\ SubSeq(Open', 1, Len(Open)) = Open
            \/ \E n \in DOMAIN Open : Open' = SubSeq(Open, n + 1, Len(Open))]_vars
  BY DEF OpenPending, OpenMoves, Is
<1>4. IInv => OpenPending
  BY <1>1
<1>5. IInv /\ [Next]_vars => [OpenMoves]_vars
  BY <1>2
<1>6. QED
  BY <1>3, <1>4, <1>5, Invariant, PTL DEF Spec, RequestsInOrder

=============================================================================
