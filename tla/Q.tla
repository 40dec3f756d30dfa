--------------------------------- MODULE Q ---------------------------------
(***************************************************************************)
(* The $q promise engine: deferreds, follow-ups, adoption of a thenable,    *)
(* progress, the combiners, and the report of unhandled rejections.         *)
(*                                                                         *)
(* A continuation never runs in the step that settled its promise: it is    *)
(* handed to scheduleDigest, which is $evalAsync, whose queue (ScopeDigest) *)
(* runs tasks first in, first out.  No operation of $q calls user code, so   *)
(* what a handler does to other promises before it returns is the same as    *)
(* steps of other code taken just before it.                               *)
(***************************************************************************)
EXTENDS Naturals, Sequences, FiniteSets

CONSTANTS
  Promises,      \* promise identities, each created at most once
  Vals,          \* plain values, and reasons of rejections
  Undef,         \* the value of a promise that has none yet
  Group,         \* the value of a combined promise: its results are in got
  NoResult,      \* a result a combined promise still waits for
  Budget,        \* bound: operations user code performs in one behaviour
  MaxInputs      \* bound: inputs of one combiner

ASSUME QAssumption ==
  /\ Vals \cap Promises = {}
  /\ Undef \notin Vals \cup Promises /\ Group \notin Vals \cup Promises
  /\ Group # Undef
  /\ NoResult \notin {"resolved", "rejected"} \X (Vals \cup {Group})
  /\ Budget \in Nat /\ MaxInputs \in Nat

VARIABLES
  heap,          \* the promise objects
  tasks,         \* what scheduleDigest queued and has not run to its end
  origin,        \* how each promise came about
  inputs,        \* the inputs of each combined promise
  left,          \* remaining: inputs a combined promise still waits for
  got,           \* results of a combined promise, by input
  attached,      \* history: the follow-ups attached to each promise, in order
  ran,           \* history: how many of them have been processed
  reported,      \* history: rejections reported as unhandled
  budget         \* operations user code may still perform

group == <<inputs, left, got>>
vars  == <<heap, tasks, origin, group, attached, ran, reported, budget>>

Combiners == {"all", "race", "allSettled"}

\* A follow-up feeds promise d.  User code attaches "then", with the handlers
\* it has; resolve attaches "adopt"; a combiner attaches itself for input key.
\* (The derived promise of an internal follow-up is dropped: nothing can reach
\* it, and it always resolves.)
FollowUp(kind, d, f, r, pr, key) ==
  [kind |-> kind, d |-> d, f |-> f, r |-> r, pr |-> pr, key |-> key]

Task(kind, p, cbs) == [kind |-> kind, p |-> p, cbs |-> cbs]

Unborn == [state |-> "unborn", value |-> Undef, pending |-> <<>>, handled |-> FALSE]
Fresh  == [Unborn EXCEPT !.state = "pending"]

\* pending is emptied by settlement, when the code nulls it.
Settled(p) == heap[p].state \in {"resolved", "rejected"}

Init ==
  /\ heap = [p \in Promises |-> Unborn]
  /\ tasks = <<>>
  /\ origin = [p \in Promises |-> "none"]
  /\ inputs = [p \in Promises |-> <<>>]
  /\ left = [p \in Promises |-> 0]
  /\ got = [p \in Promises |-> <<>>]
  /\ attached = [p \in Promises |-> <<>>]
  /\ ran = [p \in Promises |-> 0]
  /\ reported = <<>> /\ budget = Budget

-----------------------------------------------------------------------------
(* The engine's own operations, as functions of the promises, the tasks and  *)
(* the history: a handler or a combiner performs several in one step.       *)

World == [heap |-> heap, tasks |-> tasks, attached |-> attached]

Becomes(w) == heap' = w.heap /\ tasks' = w.tasks /\ attached' = w.attached

Create(w, d) == [w EXCEPT !.heap[d] = Fresh]

\* then: the follow-up waits in pending, or is scheduled at once.
Attach(w, p, cb) ==
  [w EXCEPT !.heap[p].handled = TRUE,
            !.heap[p].pending =
               IF w.heap[p].state = "pending" THEN Append(@, cb) ELSE @,
            !.tasks =
               IF w.heap[p].state = "pending" THEN @
               ELSE Append(@, Task("process", p, <<cb>>)),
            !.attached[p] = Append(@, cb)]

\* The settlement of d: its follow-ups are scheduled, then, for a rejection,
\* the check whether any was attached.
SettledWorld(w, d, state, value, checked) ==
  [w EXCEPT !.heap[d].state = state, !.heap[d].value = value, !.heap[d].pending = <<>>,
            !.tasks = @ \o (IF w.heap[d].pending = <<>> THEN <<>>
                            ELSE <<Task("process", d, w.heap[d].pending)>>)
                        \o (IF checked THEN <<Task("check", d, <<>>)>> ELSE <<>>)]

\* A mistake the properties rule out: a settled promise may be settled again.
SettleAgain(w, d, state, value) == SettledWorld(w, d, state, value, state = "rejected")

\* A mistake the properties rule out: only a rejection that has follow-ups is checked.
SettleUnchecked(w, d, state, value) ==
  IF w.heap[d].state # "pending" THEN w
  ELSE SettledWorld(w, d, state, value, state = "rejected" /\ w.heap[d].handled)

\* resolve and reject with a plain value: final, so ignored once settled.
Settle(w, d, state, value) ==
  IF w.heap[d].state # "pending" THEN w
  ELSE SettledWorld(w, d, state, value, state = "rejected")

\* resolve: a promise is adopted, which leaves d pending.
Resolve(w, d, x) ==
  IF x \in Promises /\ w.heap[d].state = "pending"
  THEN Attach(w, x, FollowUp("adopt", d, TRUE, TRUE, FALSE, 0))
  ELSE IF x \in Promises THEN w ELSE Settle(w, d, "resolved", x)

Reject(w, d, e) == Settle(w, d, "rejected", e)

-----------------------------------------------------------------------------
(* User code                                                               *)

May == budget > 0 /\ budget' = budget - 1

Born(p) == heap[p].state # "unborn"

\* The promise the next deferred is created with.
CanCreate == \E p \in Promises : ~Born(p)
NextNew   == CHOOSE p \in Promises : ~Born(p)

Creates(kind) ==
  /\ May /\ CanCreate
  /\ origin' = [origin EXCEPT ![NextNew] = kind]

\* defer, and $q(executor) before its executor settles anything.
Defer ==
  /\ Creates("deferred")
  /\ Becomes(Create(World, NextNew))
  /\ UNCHANGED <<group, ran, reported>>

\* then, catch and finally: the handlers there are (f, r) and progress (pr).
Then(p, f, r, pr) ==
  /\ Creates("derived") /\ Born(p)
  /\ Becomes(Attach(Create(World, NextNew), p, FollowUp("then", NextNew, f, r, pr, 0)))
  /\ UNCHANGED <<group, ran, reported>>

\* The controller of a deferred.  A derived or combined promise has none.
ResolveWith(d, x) ==
  /\ May /\ origin[d] = "deferred"
  /\ Becomes(Resolve(World, d, x))
  /\ UNCHANGED <<origin, group, ran, reported>>

RejectWith(d, e) ==
  /\ May /\ origin[d] = "deferred"
  /\ Becomes(Reject(World, d, e))
  /\ UNCHANGED <<origin, group, ran, reported>>

\* notify: a promise that is settled reports no more progress.
Notify(d) ==
  /\ May /\ origin[d] = "deferred"
  /\ tasks' = IF heap[d].state = "pending"
              THEN Append(tasks, Task("notify", d, heap[d].pending)) ELSE tasks
  /\ UNCHANGED <<heap, origin, group, attached, ran, reported>>

\* The follow-ups of a combiner, attached to its inputs one after the other.
AttachAll(w, kind, d, ps) ==
  LET upTo[k \in 0 .. Len(ps)] ==
        IF k = 0 THEN w
        ELSE Attach(upTo[k - 1], ps[k], FollowUp(kind, d, TRUE, TRUE, FALSE, k))
  IN  upTo[Len(ps)]

\* $q.all, $q.race and $q.allSettled of the promises ps.
Combine(kind, ps) ==
  LET d     == NextNew
      begun == AttachAll(Create(World, d), kind, d, ps)
  IN  /\ Creates(kind)
      /\ \A k \in DOMAIN ps : Born(ps[k])
      /\ inputs' = [inputs EXCEPT ![d] = ps]
      /\ left' = [left EXCEPT ![d] = Len(ps)]
      /\ got' = [got EXCEPT ![d] = [k \in DOMAIN ps |-> NoResult]]
      /\ Becomes(IF ps = <<>> /\ kind # "race" THEN Settle(begun, d, "resolved", Group)
                                               ELSE begun)
      /\ UNCHANGED <<ran, reported>>

-----------------------------------------------------------------------------
(* The digest runs the queued tasks                                        *)

Running == tasks[1]

\* The head task is done with its first follow-up.
Shifted(w) ==
  [w EXCEPT !.tasks = IF Len(Running.cbs) <= 1 THEN Tail(tasks)
                      ELSE [tasks EXCEPT ![1].cbs = Tail(@)]]

\* The follow-up cb of the settled promise p is processed.
Processing(kind, p, cb) ==
  /\ tasks # <<>> /\ Running.kind = "process"
  /\ p = Running.p /\ cb = Running.cbs[1] /\ cb.kind \in kind
  /\ ran' = [ran EXCEPT ![p] = @ + 1]
  /\ UNCHANGED <<origin, inputs, reported, budget>>

Handler(p, cb) == IF heap[p].state = "resolved" THEN cb.f ELSE cb.r

\* Without a handler for it, the outcome passes on, as it does in an adoption.
PassThrough(p, cb) ==
  /\ Processing({"then", "adopt", "race"}, p, cb)
  /\ cb.kind = "then" => ~Handler(p, cb)
  /\ Becomes(Settle(Shifted(World), cb.d, heap[p].state, heap[p].value))
  /\ UNCHANGED <<left, got>>

\* The handler returns x, perhaps a promise.
HandlerReturns(p, cb, x) ==
  /\ Processing({"then"}, p, cb) /\ Handler(p, cb)
  /\ x \in Promises => Born(x)
  /\ Becomes(Resolve(Shifted(World), cb.d, x))
  /\ UNCHANGED <<left, got>>

\* A mistake the properties rule out: what a handler throws is lost.
HandlerThrowsAway(p, cb, e) ==
  /\ Processing({"then"}, p, cb) /\ Handler(p, cb)
  /\ Becomes(Shifted(World))
  /\ UNCHANGED <<left, got>>

HandlerThrows(p, cb, e) ==
  /\ Processing({"then"}, p, cb) /\ Handler(p, cb)
  /\ Becomes(Reject(Shifted(World), cb.d, e))
  /\ UNCHANGED <<left, got>>

\* A mistake the properties rule out: the combined promise does not wait for its last input.
InputCountsEarly(p, cb) ==
  /\ Processing({"all", "allSettled"}, p, cb)
  /\ cb.kind = "all" => heap[p].state = "resolved"
  /\ got' = [got EXCEPT ![cb.d][cb.key] = <<heap[p].state, heap[p].value>>]
  /\ left' = [left EXCEPT ![cb.d] = @ - 1]
  /\ Becomes(IF left'[cb.d] <= 1 THEN Settle(Shifted(World), cb.d, "resolved", Group)
                                 ELSE Shifted(World))

\* An input of all has a value, or one of allSettled an outcome; the last one
\* resolves the combined promise.
InputCounts(p, cb) ==
  /\ Processing({"all", "allSettled"}, p, cb)
  /\ cb.kind = "all" => heap[p].state = "resolved"
  /\ got' = [got EXCEPT ![cb.d][cb.key] = <<heap[p].state, heap[p].value>>]
  /\ left' = [left EXCEPT ![cb.d] = @ - 1]
  /\ Becomes(IF left'[cb.d] = 0 THEN Settle(Shifted(World), cb.d, "resolved", Group)
                                ELSE Shifted(World))

\* An input of all failed.
InputFails(p, cb) ==
  /\ Processing({"all"}, p, cb) /\ heap[p].state = "rejected"
  /\ Becomes(Reject(Shifted(World), cb.d, heap[p].value))
  /\ UNCHANGED <<left, got>>

\* A mistake the properties rule out: a progress task nobody listens to is never done.
ProgressStuck ==
  /\ tasks # <<>> /\ Running.kind = "notify" /\ Running.cbs # <<>>
  /\ \/ tasks' = Shifted(World).tasks
     \/ Running.cbs[1].pr /\ tasks' = Tail(tasks)
  /\ UNCHANGED <<heap, origin, group, attached, ran, reported, budget>>

\* A progress task: one follow-up at a time, until one throws.
Progress ==
  /\ tasks # <<>> /\ Running.kind = "notify"
  /\ \/ tasks' = Shifted(World).tasks
     \/ Running.cbs # <<>> /\ Running.cbs[1].pr /\ tasks' = Tail(tasks)
  /\ UNCHANGED <<heap, origin, group, attached, ran, reported, budget>>

\* The deferred check: nobody attached a follow-up to this rejection.
CheckUnhandled ==
  /\ tasks # <<>> /\ Running.kind = "check"
  /\ tasks' = Tail(tasks)
  /\ reported' = IF heap[Running.p].handled THEN reported ELSE Append(reported, Running.p)
  /\ UNCHANGED <<heap, origin, group, attached, ran, budget>>

-----------------------------------------------------------------------------
FollowUps == [kind : {"then", "adopt"} \cup Combiners, d : Promises,
              f : BOOLEAN, r : BOOLEAN, pr : BOOLEAN, key : 0..MaxInputs]

UserOp ==
  \/ Defer
  \/ \E p \in Promises, f, r, pr \in BOOLEAN : Then(p, f, r, pr)
  \/ \E d \in Promises, x \in Vals \cup Promises :
        (x \in Promises => Born(x)) /\ ResolveWith(d, x)
  \/ \E d \in Promises, e \in Vals : RejectWith(d, e)
  \/ \E d \in Promises : Notify(d)
  \/ \E kind \in Combiners, n \in 0..MaxInputs : \E ps \in [1..n -> Promises] :
        Combine(kind, ps)

RunTask ==
  \/ \E p \in Promises : \E cb \in UNION {{tasks[i].cbs[j] : j \in DOMAIN tasks[i].cbs} :
                                             i \in DOMAIN tasks} :
        \/ PassThrough(p, cb) \/ InputCounts(p, cb) \/ InputFails(p, cb)
        \/ \E x \in Vals \cup Promises : HandlerReturns(p, cb, x)
        \/ \E e \in Vals : HandlerThrows(p, cb, e)
  \/ Progress \/ CheckUnhandled

Next == UserOp \/ RunTask

Spec == Init /\ [][Next]_vars

\* The digest runs every task it was given (ScopeDigest, AsyncDrains).
FairSpec == Spec /\ WF_vars(RunTask)

-----------------------------------------------------------------------------
(* Properties                                                              *)

\* Every variable has its type.
TypeOK ==
  /\ heap \in [Promises -> [state : {"unborn", "pending", "resolved", "rejected"},
                            value : Vals \cup {Undef, Group},
                            pending : Seq(FollowUps), handled : BOOLEAN]]
  /\ tasks \in Seq([kind : {"process", "check", "notify"}, p : Promises, cbs : Seq(FollowUps)])
  /\ origin \in [Promises -> {"none", "deferred", "derived"} \cup Combiners]
  /\ inputs \in [Promises -> Seq(Promises)] /\ left \in [Promises -> 0..MaxInputs]
  /\ got \in [Promises -> Seq({NoResult} \cup ({"resolved", "rejected"} \X (Vals \cup {Group})))]
  /\ attached \in [Promises -> Seq(FollowUps)] /\ ran \in [Promises -> Nat]
  /\ reported \in Seq(Promises) /\ budget \in Nat

\* The follow-ups of p that task t will process.
Share(p, t) == IF t.kind = "process" /\ t.p = p THEN t.cbs ELSE <<>>

\* Those that the tasks ts will process, in order.
Scheduled(p, ts) ==
  LET upTo[n \in 0 .. Len(ts)] ==
        IF n = 0 THEN <<>> ELSE upTo[n - 1] \o Share(p, ts[n])
  IN  upTo[Len(ts)]

\* The follow-ups of p still to be processed, in the order they will be.
Outstanding(p) ==
  Scheduled(p, tasks) \o (IF heap[p].state = "pending" THEN heap[p].pending ELSE <<>>)

\* Each follow-up is processed once, in the order of attachment, however the
\* attachments fall before, between and after the settlement and the digest:
\* those not yet processed are exactly the ones still queued somewhere, in order
\* (then, settle, scheduleProcess).
FollowUpsInOrder ==
  \A p \in Promises : Outstanding(p) = SubSeq(attached[p], ran[p] + 1, Len(attached[p]))

\* No promise the engine feeds is abandoned: while a derived promise, or a
\* combined one that waits for an input, is pending, a follow-up that feeds it
\* is still to be processed (processCallback, all, race, allSettled).
FedWhilePending ==
  \A d \in Promises :
    /\ heap[d].state = "pending"
    /\ (origin[d] = "derived" \/ (origin[d] \in Combiners /\ inputs[d] # <<>>))
    => \E p \in Promises : \E i \in DOMAIN Outstanding(p) : Outstanding(p)[i].d = d

\* Each follow-up is run once, in the order of attachment, and what it feeds is
\* still pending: no chain hangs and none is settled twice (q.ts).
ChainsWhole == TypeOK /\ FollowUpsInOrder /\ FedWhilePending

\* A settled promise keeps its outcome, whatever an adopted promise, a handler
\* or a combined input settles it with later ("Final once settled").
FinalOnceSettled ==
  [][\A p \in Promises : Settled(p) =>
       heap'[p].state = heap[p].state /\ heap'[p].value = heap[p].value]_vars

\* Progress is told before the outcome: no notification is queued behind the
\* task that delivers the settlement (notify).
ProgressBeforeOutcome ==
  \A i, j \in DOMAIN tasks :
    tasks[i].kind = "process" /\ tasks[j].kind = "notify" /\ tasks[i].p = tasks[j].p => j < i

\* An outcome is final, and progress is told before it or not at all (q.ts).
OutcomesFinal == FinalOnceSettled /\ []ProgressBeforeOutcome

\* A rejection is reported at most once, and one that nobody handles is
\* reported, or its check is still queued (scheduleUnhandledCheck).
UnhandledReportedOnce ==
  \A p \in Promises :
    LET checks == Cardinality({i \in DOMAIN tasks : tasks[i].kind = "check" /\ tasks[i].p = p})
        told   == Cardinality({i \in DOMAIN reported : reported[i] = p})
    IN  /\ checks + told <= (IF heap[p].state = "rejected" THEN 1 ELSE 0)
        /\ heap[p].state = "rejected" /\ ~heap[p].handled => checks + told = 1

Outcome(p) == <<heap[p].state, heap[p].value>>

\* A combined promise tells the truth about its inputs: all resolves with the
\* values of inputs that all resolved and rejects with the reason of one that
\* rejected, race has the outcome of one input, allSettled has them all and
\* never rejects.
CombinedAgrees ==
  \A d \in Promises :
    LET ins == inputs[d]
    IN  /\ origin[d] \in {"all", "allSettled"} /\ heap[d].state = "resolved"
             => got[d] = [k \in DOMAIN ins |-> Outcome(ins[k])]
        /\ origin[d] = "all" /\ heap[d].state = "resolved"
             => \A k \in DOMAIN ins : heap[ins[k]].state = "resolved"
        /\ origin[d] = "all" /\ heap[d].state = "rejected"
             => \E k \in DOMAIN ins : Outcome(ins[k]) = Outcome(d)
        /\ origin[d] = "race" /\ Settled(d) => \E k \in DOMAIN ins : Outcome(ins[k]) = Outcome(d)
        /\ origin[d] = "allSettled" => heap[d].state # "rejected"

\* Every follow-up of a settled promise is eventually processed.
FollowUpsRun == \A p \in Promises : Settled(p) ~> ran[p] = Len(attached[p])

=============================================================================
