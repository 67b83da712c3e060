------------------------------ MODULE Promises ------------------------------
(* The promises and the microtask queue of one agent (dispatch/promise.rs):  *)
(* what settling, resolving and subscribing do to them, as operators on one  *)
(* record, so that an action may do several in turn. Values are not          *)
(* modelled: a result is a value, an exception, a thenable or a promise.     *)
EXTENDS Naturals, SequencesExt

CONSTANTS MaxPromises,   \* bound: promises one run of the program creates
          Value, Throw, Thenable

ASSUME PromisesAssumption == MaxPromises \in Nat

Promises == 1..MaxPromises
PromiseStates == {"absent", "pending", "fulfilled", "rejected"}

NoPromises ==
  [state |-> [p \in Promises |-> "absent"], handled |-> {},
   reactions |-> [p \in Promises |-> <<>>], microtasks |-> <<>>, unhandled |-> {},
   combinators |-> <<>>]

(***************************************************************************)
(* Reactions: a then with its callable handlers, a finally, what a finally *)
(* waits for, a function that awaits, and an element of a combinator. Jobs *)
(* are what the microtask queue holds.                                     *)
(***************************************************************************)
Handler(f, r, target) == [kind |-> "handler", f |-> f, r |-> r, target |-> target]
PassThrough(target) == Handler(FALSE, FALSE, target)
Finally(target) == [kind |-> "finally", target |-> target]
FinallyResult(target, rejected) == [kind |-> "finallyResult", target |-> target, rejected |-> rejected]
AsyncResume(outer) == [kind |-> "resume", target |-> outer]
Element(combinator) == [kind |-> "element", combinator |-> combinator]

Callback == [kind |-> "callback"]
ThenableJob(p) == [kind |-> "thenable", target |-> p]
Reaction(p, reaction, rejected) ==
  [kind |-> "reaction", of |-> p, reaction |-> reaction, rejected |-> rejected]

Is(t, p, state) == t.state[p] = state
Exists(t, p) == ~Is(t, p, "absent")
HasRoom(t) == ~ \A p \in Promises : Exists(t, p)
HasRoomFor(t, n) == n = 0 \/ (n \in Promises /\ ~Exists(t, MaxPromises + 1 - n))
Fresh(t) == CHOOSE p \in Promises : ~Exists(t, p) /\ \A q \in Promises : q < p => Exists(t, q)
Create(t) == [t EXCEPT !.state[Fresh(t)] = "pending"]

Enqueue(t, jobs) == [t EXCEPT !.microtasks = @ \o jobs]

(***************************************************************************)
(* settle_promise: only a pending promise changes. Its reactions go to the *)
(* queue in the order they were registered.                                *)
(***************************************************************************)
\* Mutant: the newest reaction is scheduled first.
Settle_Newest(t, p, rejected) ==
  IF ~Is(t, p, "pending") THEN t
  ELSE LET waiting == t.reactions[p]
           jobs == [i \in DOMAIN waiting |-> Reaction(p, waiting[Len(waiting) + 1 - i], rejected)] IN
       [Enqueue(t, jobs) EXCEPT
          !.state[p] = IF rejected THEN "rejected" ELSE "fulfilled",
          !.reactions[p] = <<>>,
          !.unhandled = IF rejected THEN @ \cup ({p} \ t.handled) ELSE @]

\* Mutant: the reactions stay where they are.
Settle_Forgets(t, p, rejected) ==
  IF ~Is(t, p, "pending") THEN t
  ELSE [t EXCEPT
          !.state[p] = IF rejected THEN "rejected" ELSE "fulfilled",
          !.unhandled = IF rejected THEN @ \cup ({p} \ t.handled) ELSE @]

Settle(t, p, rejected) ==
  IF ~Is(t, p, "pending") THEN t
  ELSE LET waiting == t.reactions[p]
           jobs == [i \in DOMAIN waiting |-> Reaction(p, waiting[i], rejected)] IN
       [Enqueue(t, jobs) EXCEPT
          !.state[p] = IF rejected THEN "rejected" ELSE "fulfilled",
          !.reactions[p] = <<>>,
          !.unhandled = IF rejected THEN @ \cup ({p} \ t.handled) ELSE @]

\* Mutant: a rejection that was already listed stays listed.
MarkHandled_Listed(t, p) == [t EXCEPT !.handled = @ \cup {p}]

MarkHandled(t, p) ==
  [t EXCEPT !.handled = @ \cup {p}, !.unhandled = @ \ {p}]

(***************************************************************************)
(* schedule_reaction, observe_reaction and async_function_suspend: a       *)
(* reaction waits for a pending promise and is queued for a settled one.   *)
(***************************************************************************)
Subscribe(t, p, reaction) ==
  LET heard == MarkHandled(t, p) IN
  IF Is(t, p, "pending") THEN [heard EXCEPT !.reactions[p] = Append(@, reaction)]
  ELSE Enqueue(heard, <<Reaction(p, reaction, Is(t, p, "rejected"))>>)

(***************************************************************************)
(* resolve_into: a promise is adopted, at once when it is settled already; *)
(* a thenable gets a job; a promise resolved with itself is rejected.      *)
(***************************************************************************)
ResolveInto(t, p, result) ==
  IF ~Is(t, p, "pending") THEN t
  ELSE CASE result = Value -> Settle(t, p, FALSE)
         [] result = Throw \/ result = p -> Settle(t, p, TRUE)
         [] result = Thenable -> Enqueue(t, <<ThenableJob(p)>>)
         [] OTHER -> IF Is(t, result, "pending") THEN Subscribe(t, result, PassThrough(p))
                     ELSE Settle(MarkHandled(t, result), p, Is(t, result, "rejected"))

\* then, catch and finally make a promise for what the handler returns.
Then(t, p, f, r) == Subscribe(Create(t), p, Handler(f, r, Fresh(t)))
ThenFinally(t, p) == Subscribe(Create(t), p, Finally(Fresh(t)))

(***************************************************************************)
(* Promise.all, allSettled, any and race (promise/combinator.rs). Elements *)
(* are promises or values; a value gets a promise of its own, resolved     *)
(* with it. The values themselves are left out; elements and promises of   *)
(* them are kept in the order of their indices (of is history).            *)
(***************************************************************************)
IsPromise(element) == element \in Promises
Attach(t, element, reaction) ==
  IF IsPromise(element) THEN Subscribe(t, element, reaction)
  ELSE Subscribe(ResolveInto(Create(t), Fresh(t), element), Fresh(t), reaction)
AttachAll(t, elements, reaction) ==
  LET after[n \in 0..Len(elements)] ==
        IF n = 0 THEN t ELSE Attach(after[n - 1], elements[n], reaction)
  IN after[Len(elements)]

\* The promises the elements get: existing ones, or new ones after the target.
SourcesOf(t, elements) ==
  [i \in DOMAIN elements |->
     IF IsPromise(elements[i]) THEN elements[i]
     ELSE Fresh(t) + Cardinality({j \in 1..i : ~IsPromise(elements[j])})]

Race(t, elements) == AttachAll(Create(t), elements, PassThrough(Fresh(t)))

\* run: an empty list settles at once.
Combine(t, kind, elements) ==
  LET opened == Create(t)
      combinator == [kind |-> kind, target |-> Fresh(t), remaining |-> Len(elements),
                     settled |-> FALSE, of |-> SourcesOf(t, elements)]
  IN IF elements = <<>> THEN Settle(opened, Fresh(t), kind = "any")
     ELSE AttachAll([opened EXCEPT !.combinators = Append(@, combinator)], elements,
                    Element(Len(t.combinators) + 1))

\* Mutant: allSettled gives up at the first rejection, as all does.
SettleElement_GivesUp(t, c, rejected) ==
  LET entry == t.combinators[c] IN
  IF entry.settled THEN t
  ELSE IF (entry.kind # "any" /\ rejected) \/ (entry.kind = "any" /\ ~rejected)
       THEN Settle([t EXCEPT !.combinators[c].settled = TRUE], entry.target, rejected)
  ELSE IF entry.remaining > 1 THEN [t EXCEPT !.combinators[c].remaining = @ - 1]
  ELSE Settle([t EXCEPT !.combinators[c].remaining = 0, !.combinators[c].settled = TRUE],
              entry.target, entry.kind = "any")

\* settle_element, settle_value_slot.
SettleElement(t, c, rejected) ==
  LET entry == t.combinators[c]
      decides == (entry.kind = "all" /\ rejected) \/ (entry.kind = "any" /\ ~rejected)
  IN IF entry.settled THEN t
     ELSE IF decides
          THEN Settle([t EXCEPT !.combinators[c].settled = TRUE], entry.target, rejected)
     ELSE IF entry.remaining > 1 THEN [t EXCEPT !.combinators[c].remaining = @ - 1]
     ELSE Settle([t EXCEPT !.combinators[c].remaining = 0, !.combinators[c].settled = TRUE],
                 entry.target, entry.kind = "any")

\* run_reaction without a callable handler: the settlement passes through.
RunsAlone(job) ==
  /\ job.kind = "reaction"
  /\ \/ job.reaction.kind \in {"finallyResult", "element"}
     \/ job.reaction.kind = "handler" /\ ~(IF job.rejected THEN job.reaction.r ELSE job.reaction.f)

Alone(t, job) ==
  IF job.reaction.kind = "element" THEN SettleElement(t, job.reaction.combinator, job.rejected)
  ELSE Settle(t, job.reaction.target,
              job.rejected \/ (job.reaction.kind = "finallyResult" /\ job.reaction.rejected))

\* run_finally: what the callback returned is waited for.
AfterFinally(t, job, result) ==
  LET original == FinallyResult(job.reaction.target, job.rejected) IN
  CASE result = Throw -> Settle(t, job.reaction.target, TRUE)
    [] result \in {Value, Thenable} ->
         Subscribe(ResolveInto(Create(t), Fresh(t), result), Fresh(t), original)
    [] OTHER -> Subscribe(t, result, original)

\* What a callback's result does to the promise that waits for it.
Completed(t, job, result) ==
  IF job.kind = "thenable" THEN IF result = Throw THEN Settle(t, job.target, TRUE) ELSE t
  ELSE IF job.reaction.kind = "finally" THEN AfterFinally(t, job, result)
  ELSE ResolveInto(t, job.reaction.target, result)
=============================================================================
