---------------------------- MODULE ScopeDigest ----------------------------
(***************************************************************************)
(* The digest cycle of the Scope class: the scope tree, watchers, phases,   *)
(* the deferred-work queues and the timers that drain them.                 *)
(*                                                                         *)
(* Everything runs on one JavaScript thread, and what interleaves is user   *)
(* code called back in the middle of a method (a listener, a queued task,   *)
(* the function of an $apply) that calls the scope again.  The call stack   *)
(* is therefore part of the state: a method that runs callbacks is a frame, *)
(* one step advances the top frame, and a "user" frame may perform any of   *)
(* the public operations before it returns or throws.                       *)
(***************************************************************************)
EXTENDS Naturals, Sequences, FiniteSets

CONSTANTS
  Scopes,        \* scope identities, each created at most once
  Root,          \* the root scope
  Watchers,      \* watcher identities, each registered at most once
  Cells,         \* the model properties that watch functions read
  Vals,          \* the values of the model
  CellVals,      \* the values each property may hold
  Bad,           \* a value on which evaluating a watch function throws
  Undef,         \* JavaScript undefined
  NoVal,         \* initWatchVal, the sentinel no value equals
  Null,          \* JavaScript null: no watcher, no timer, an emptied slot
  UserFn,        \* a user function in the post-digest queue
  TTL,           \* $$ttl of the root
  Budget,        \* bound: operations user code performs in one behaviour
  Free,          \* the <<context, operation>> pairs that bound does not count
  MaxQueue,      \* bound: the length of a queue, or the number of timeouts
                 \* pending, at which user code queues no more
  Ops,           \* the operations user code performs in each context
  CellOf,        \* the cell each watcher reads
  Kind,          \* "plain", "oneTime" or "constant": the watch delegate used
  InitKids,      \* the children set-up code gave the root, in order, each once
  InitWatch      \* the watchers set-up code registered on each scope, each once

\* What user code was called for: from the event loop, by an $apply, as a
\* watch listener, an $evalAsync task, an $applyAsync task, a $$postDigest task.
Contexts == {"turn", "apply", "listener", "async", "task", "post"}

ASSUME ScopeAssumption ==
  /\ Root \in Scopes
  /\ TTL \in Nat /\ TTL >= 2
  /\ Budget \in Nat /\ MaxQueue \in Nat
  /\ Null \notin Watchers \cup Scopes /\ UserFn \notin Watchers
  /\ NoVal \notin Vals
  /\ CellVals \in [Cells -> SUBSET Vals]
  /\ CellOf \in [Watchers -> Cells]
  /\ Kind \in [Watchers -> {"plain", "oneTime", "constant"}]
  /\ DOMAIN Ops = Contexts
  /\ InitKids \in Seq(Scopes \ {Root})
  /\ \A i, j \in DOMAIN InitKids : InitKids[i] = InitKids[j] => i = j
  /\ InitWatch \in [Scopes -> Seq(Watchers)]
  /\ \A s, t \in Scopes : \A i \in DOMAIN InitWatch[s], j \in DOMAIN InitWatch[t] :
       InitWatch[s][i] = InitWatch[t][j] => s = t /\ i = j

VARIABLES
  born,          \* scopes created so far
  dead,          \* scopes whose $$watchers is null ($destroy ran)
  children,      \* $$children of each scope
  chain,         \* each scope followed by its prototype ancestors
  watchers,      \* the array object $$watchers was created with
  home,          \* the scope each watcher is registered on, or Null
  last,          \* watcher.last
  cell,          \* the model
  lastDirty,     \* $$lastDirtyWatch of the root
  phase,         \* own $$phase of each scope; "absent" when only inherited
  asyncN,        \* length of the shared $$asyncQueue
  applyN,        \* length of the shared $$applyAsyncQueue
  post,          \* the shared $$postDigestQueue
  evalTimers,    \* timeouts $evalAsync armed that have not fired
  applyId,       \* $$applyAsyncId of the root: "null", the id of the last
                 \* pending timeout ("armed") or of one gone ("spent")
  applyTimers,   \* the scopes of the pending $applyAsync timeouts, in order
  stack,         \* the JavaScript call stack
  throwing,      \* an exception is propagating into the top frame
  budget         \* operations user code may still perform

tree   == <<born, dead, children, chain>>
watch  == <<watchers, home, last, lastDirty>>
queues  == <<asyncN, applyN, post, evalTimers, applyId, applyTimers>>
vars   == <<tree, watch, cell, phase, queues, stack, throwing, budget>>

-----------------------------------------------------------------------------
(* Frames of the call stack                                                *)

\* flag: the dirty variable of a digest, the pending rethrow of an $apply.
Frame(k, s, pc, ttl, trav) ==
  [k |-> k, s |-> s, pc |-> pc, ttl |-> ttl, flag |-> FALSE, trav |-> trav]

UserFrame(at)  == Frame("user", Root, at, 0, <<>>)   \* at \in Contexts
DigestFrame(s) == Frame("digest", s, "async", TTL, <<>>)
ApplyFrame(s)  == Frame("apply", s, "eval", 0, <<>>)
FlushFrame     == Frame("flush", Root, "drain", 0, <<>>)

\* An activation of $$everyScope: scope s, watch slots still to visit (wi),
\* then child i of the n children it had when the children were first read.
Visit(s) == [s |-> s, wi |-> IF s \in dead THEN 0 ELSE Len(watchers[s]),
             i |-> 0, n |-> 0]

Top     == stack[Len(stack)]
Popped  == SubSeq(stack, 1, Len(stack) - 1)
With(f) == [stack EXCEPT ![Len(stack)] = f]

\* The top frame is a k frame at pc, and no exception is on its way into it.
At(k, pc)     == stack # <<>> /\ ~throwing /\ Top.k = k /\ Top.pc = pc
Caught(k)     == stack # <<>> /\ throwing /\ Top.k = k

LoopPcs       == {"async", "pass", "flush"}

-----------------------------------------------------------------------------
(* Phases                                                                  *)

\* this.$$phase !== null, read through the prototype chain.
InPhase(s) ==
  \E i \in DOMAIN chain[s] :
    /\ phase[chain[s][i]] \in {"$digest", "$apply"}
    /\ \A j \in 1..(i - 1) : phase[chain[s][j]] = "absent"

\* $beginPhase(ph) on s, pushing frames on base; an active phase throws.
BeginPhase(s, ph, base, frames) ==
  IF InPhase(s)
  THEN /\ stack' = base
       /\ throwing' = TRUE
       /\ UNCHANGED phase
  ELSE /\ phase' = [phase EXCEPT ![s] = ph]
       /\ stack' = base \o frames
       /\ throwing' = FALSE

ClearPhase(s) == phase' = [phase EXCEPT ![s] = "null"]

\* A mistake the properties rule out: the short-circuit of the previous digest survives.
CallDigestKeepsShortCircuit(s, base) ==
  BeginPhase(s, "$digest", base, <<DigestFrame(s)>>) /\ UNCHANGED lastDirty

\* Entering $digest on s: the short-circuit is reset before the phase check.
CallDigest(s, base) ==
  /\ lastDirty' = Null
  /\ BeginPhase(s, "$digest", base, <<DigestFrame(s)>>)

-----------------------------------------------------------------------------
(* Initial states: set-up code created InitKids under the root and          *)
(* registered InitWatch; nothing has been digested yet.                     *)

KidSet == {InitKids[i] : i \in DOMAIN InitKids}

Init ==
  /\ born = {Root} \cup KidSet
  /\ dead = {}
  /\ children = [s \in Scopes |-> IF s = Root THEN InitKids ELSE <<>>]
  /\ chain = [s \in Scopes |-> IF s \in KidSet THEN <<s, Root>> ELSE <<s>>]
  /\ watchers = InitWatch
  /\ home = [w \in Watchers |->
               IF \E s \in Scopes : \E i \in DOMAIN InitWatch[s] : InitWatch[s][i] = w
               THEN CHOOSE s \in Scopes : \E i \in DOMAIN InitWatch[s] : InitWatch[s][i] = w
               ELSE Null]
  /\ last = [w \in Watchers |-> NoVal]
  /\ cell \in [Cells -> Vals] /\ \A c \in Cells : cell[c] \in CellVals[c]
  /\ lastDirty = Null
  /\ phase = [s \in Scopes |-> IF s \in KidSet THEN "absent" ELSE "null"]
  /\ asyncN = 0 /\ applyN = 0 /\ post = <<>> /\ evalTimers = 0
  /\ applyId = "null" /\ applyTimers = <<>>
  /\ stack = <<>> /\ throwing = FALSE /\ budget = Budget

-----------------------------------------------------------------------------
(* The event loop: an idle engine starts a turn or fires a timeout         *)

BeginTurn ==
  /\ stack = <<>> /\ ~throwing /\ budget > 0
  /\ stack' = <<UserFrame("turn")>>
  /\ UNCHANGED <<tree, watch, cell, phase, queues, throwing, budget>>

\* The timeout armed by $evalAsync: digest unless the queue was drained.
EvalAsyncTimeout ==
  /\ stack = <<>> /\ ~throwing /\ evalTimers > 0
  /\ evalTimers' = evalTimers - 1
  /\ IF asyncN > 0
     THEN CallDigest(Root, <<>>)
     ELSE UNCHANGED <<lastDirty, phase, stack, throwing>>
  /\ UNCHANGED <<tree, watchers, home, last, cell, asyncN, applyN, post,
                 applyId, applyTimers, budget>>

\* The timeout armed by $applyAsync: $apply of $$flushApplyAsync.
ApplyAsyncTimeout ==
  /\ stack = <<>> /\ ~throwing /\ applyTimers # <<>>
  /\ applyTimers' = Tail(applyTimers)
  /\ applyId' = IF applyTimers' = <<>> /\ applyId = "armed" THEN "spent" ELSE applyId
  /\ LET s == Head(applyTimers)
     IN  BeginPhase(s, "$apply", <<>>, <<ApplyFrame(s), FlushFrame>>)
  /\ UNCHANGED <<tree, watch, cell, asyncN, applyN, post, evalTimers, budget>>

\* An exception nobody caught ends the turn.
Uncaught ==
  /\ stack = <<>> /\ throwing
  /\ throwing' = FALSE
  /\ UNCHANGED <<tree, watch, cell, phase, queues, stack, budget>>

-----------------------------------------------------------------------------
(* User code: one action per public operation                              *)

InUser == stack # <<>> /\ ~throwing /\ Top.k = "user"

May(op) ==
  /\ InUser /\ (budget > 0 \/ <<Top.pc, op>> \in Free)
  /\ op \in Ops[Top.pc]
  /\ budget' = IF <<Top.pc, op>> \in Free THEN budget ELSE budget - 1

\* Assigning a model property.
SetCell(c, v) ==
  /\ May("set") /\ v \in CellVals[c] \ {cell[c]}
  /\ cell' = [cell EXCEPT ![c] = v]
  /\ UNCHANGED <<tree, watch, phase, queues, stack, throwing>>

\* $watch: ignored on a destroyed scope, else appended and the
\* short-circuit reset.
Watch(s, w) ==
  /\ May("watch") /\ s \in born /\ home[w] = Null
  /\ IF s \in dead
     THEN UNCHANGED <<watchers, home, last, lastDirty>>
     ELSE /\ watchers' = [watchers EXCEPT ![s] = Append(@, w)]
          /\ home' = [home EXCEPT ![w] = s]
          /\ last' = [last EXCEPT ![w] = NoVal]
          /\ lastDirty' = Null
  /\ UNCHANGED <<tree, cell, phase, queues, stack, throwing>>

\* Effect of a deregistration function on the watcher arrays and on the
\* short-circuit, whose value would otherwise be ld.
Detached(w) == home[w] \in dead \/ \A i \in DOMAIN watchers[home[w]] :
                                        watchers[home[w]][i] # w

Cleared(w) == [watchers EXCEPT ![home[w]] =
                 [i \in DOMAIN @ |-> IF @[i] = w THEN Null ELSE @[i]]]

Deregister(w, ld) ==
  IF Detached(w) THEN lastDirty' = ld   /\ UNCHANGED watchers
                 ELSE lastDirty' = Null /\ watchers' = Cleared(w)

Unwatch(w) ==
  /\ May("unwatch") /\ home[w] # Null
  /\ Deregister(w, lastDirty)
  /\ UNCHANGED <<tree, home, last, cell, phase, queues, stack, throwing>>

\* $new(isolated, parent): p is the hierarchical parent, s the prototype.
NewScope(s, p, isolated, c) ==
  /\ May("new") /\ {s, p} \subseteq born /\ c \in Scopes \ born
  /\ born' = born \cup {c}
  /\ children' = [children EXCEPT ![p] = Append(@, c)]
  /\ chain' = [chain EXCEPT ![c] = IF isolated THEN <<c>> ELSE <<c>> \o chain[s]]
  /\ phase' = [phase EXCEPT ![c] = IF isolated THEN "null" ELSE "absent"]
  /\ UNCHANGED <<dead, watch, cell, queues, stack, throwing>>

\* $destroy without event listeners (module ScopeEvents has those).
Without(seq, c) ==
  LET i == CHOOSE j \in 1..Len(seq) : seq[j] = c
  IN  IF c \in {seq[j] : j \in 1..Len(seq)}
      THEN SubSeq(seq, 1, i - 1) \o SubSeq(seq, i + 1, Len(seq))
      ELSE seq

Destroy(s) ==
  /\ May("destroy") /\ s \in born \ {Root}
  /\ children' = [p \in Scopes |-> Without(children[p], s)]
  /\ dead' = dead \cup {s}
  /\ UNCHANGED <<born, chain, watch, cell, phase, queues, stack, throwing>>

\* A mistake the properties rule out: the queue is tested after the push.
EvalAsyncTestsLate ==
  /\ May("evalAsync") /\ asyncN < MaxQueue /\ evalTimers < MaxQueue
  /\ asyncN' = asyncN + 1
  /\ evalTimers' = IF phase[Root] = "null" /\ asyncN' = 0
                   THEN evalTimers + 1 ELSE evalTimers
  /\ UNCHANGED <<tree, watch, cell, phase, applyN, post, applyId, applyTimers,
                 stack, throwing>>

\* $evalAsync: arms a timeout when the root is in no phase and nothing was queued.
EvalAsync ==
  /\ May("evalAsync") /\ asyncN < MaxQueue /\ evalTimers < MaxQueue
  /\ asyncN' = asyncN + 1
  /\ evalTimers' = IF phase[Root] = "null" /\ asyncN = 0
                   THEN evalTimers + 1 ELSE evalTimers
  /\ UNCHANGED <<tree, watch, cell, phase, applyN, post, applyId, applyTimers,
                 stack, throwing>>

\* $applyAsync on s: the timeout it may arm will $apply on s.
ApplyAsync(s) ==
  /\ May("applyAsync") /\ s \in born /\ applyN < MaxQueue
  /\ applyN' = applyN + 1
  /\ IF applyId = "null"
     THEN applyId' = "armed" /\ applyTimers' = Append(applyTimers, s)
     ELSE UNCHANGED <<applyId, applyTimers>>
  /\ UNCHANGED <<tree, watch, cell, phase, asyncN, post, evalTimers, stack, throwing>>

PostDigest ==
  /\ May("postDigest") /\ Len(post) < MaxQueue
  /\ post' = Append(post, UserFn)
  /\ UNCHANGED <<tree, watch, cell, phase, asyncN, applyN, evalTimers, applyId,
                 applyTimers, stack, throwing>>

Digest(s) ==
  /\ May("digest") /\ s \in born
  /\ CallDigest(s, stack)
  /\ UNCHANGED <<tree, watchers, home, last, cell, queues>>

Apply(s) ==
  /\ May("apply") /\ s \in born
  /\ BeginPhase(s, "$apply", stack, <<ApplyFrame(s), UserFrame("apply")>>)
  /\ UNCHANGED <<tree, watch, cell, queues>>

Throw ==
  /\ May("throw")
  /\ stack' = Popped /\ throwing' = TRUE
  /\ UNCHANGED <<tree, watch, cell, phase, queues>>

Return ==
  /\ InUser
  /\ stack' = Popped
  /\ UNCHANGED <<tree, watch, cell, phase, queues, throwing, budget>>

\* A call of the scope threw into user code, which catches it or lets it pass.
Catch ==
  /\ Caught("user")
  /\ throwing' = FALSE
  /\ UNCHANGED <<tree, watch, cell, phase, queues, stack, budget>>

Propagate ==
  /\ Caught("user")
  /\ stack' = Popped
  /\ UNCHANGED <<tree, watch, cell, phase, queues, throwing, budget>>

-----------------------------------------------------------------------------
(* $digest: the async queue, the passes over the tree, the flush, the       *)
(* post-digest queue                                                       *)

Push(at) == stack' = Append(stack, UserFrame(at))
Become(pc) == stack' = With([Top EXCEPT !.pc = pc])

\* A mistake the properties rule out: a task is taken from an empty queue.
DrainAsyncUnguarded ==
  /\ At("digest", "async")
  /\ asyncN' = asyncN - 1
  /\ Push("async")
  /\ UNCHANGED <<tree, watch, cell, phase, applyN, post, evalTimers, applyId,
                 applyTimers, throwing, budget>>

DrainAsync ==
  /\ At("digest", "async") /\ asyncN > 0
  /\ asyncN' = asyncN - 1
  /\ Push("async")
  /\ UNCHANGED <<tree, watch, cell, phase, applyN, post, evalTimers, applyId,
                 applyTimers, throwing, budget>>

\* $$digestOnce starts: dirty is FALSE and the scope itself is visited first.
StartPass ==
  /\ At("digest", "async") /\ asyncN = 0
  /\ stack' = With([Top EXCEPT !.pc = "pass", !.flag = FALSE, !.trav = <<Visit(Top.s)>>])
  /\ UNCHANGED <<tree, watch, cell, phase, queues, throwing, budget>>

Scanning == At("digest", "pass") /\ Top.trav # <<>>
Here     == Top.trav[Len(Top.trav)]
\* The traversal with its innermost activation replaced by v.
Revisit(v) == [Top.trav EXCEPT ![Len(Top.trav)] = v]
NextSlot   == Revisit([Here EXCEPT !.wi = @ - 1])

\* The watch function in the slot at hand is evaluated and yields v.
Evaluates(w, v) ==
  /\ Scanning /\ Here.wi > 0
  /\ w = watchers[Here.s][Here.wi]
  /\ w # Null /\ v = cell[CellOf[w]]

EmptySlot ==
  /\ Scanning /\ Here.wi > 0 /\ watchers[Here.s][Here.wi] = Null
  /\ stack' = With([Top EXCEPT !.trav = NextSlot])
  /\ UNCHANGED <<tree, watch, cell, phase, queues, throwing, budget>>

\* Evaluating deregisters a constant watcher first; a one-time watcher that
\* yields a defined value queues its own deregistration.
OneShot(w, ld) ==
  IF Kind[w] = "constant" THEN Deregister(w, ld)
                          ELSE lastDirty' = ld /\ UNCHANGED watchers
\* A mistake the properties rule out: only the first evaluation may queue the deregistration.
QueuedFirst(w, v) ==
  post' = IF Kind[w] = "oneTime" /\ v # Undef /\ last[w] = NoVal
          THEN Append(post, w) ELSE post

Queued(w, v) ==
  post' = IF Kind[w] = "oneTime" /\ v # Undef THEN Append(post, w) ELSE post

\* A watch function that throws is reported and skipped.
WatchFnThrows(w) ==
  /\ Evaluates(w, Bad)
  /\ OneShot(w, lastDirty)
  /\ stack' = With([Top EXCEPT !.trav = NextSlot])
  /\ UNCHANGED <<tree, home, last, cell, phase, queues, throwing, budget>>

\* A changed value is recorded and the listener called.
WatchDirty(w, v) ==
  /\ Evaluates(w, v) /\ v # Bad /\ v # last[w]
  /\ last' = [last EXCEPT ![w] = v]
  /\ lastDirty' = w
  /\ watchers' = IF Kind[w] = "constant" /\ ~Detached(w) THEN Cleared(w) ELSE watchers
  /\ Queued(w, v)
  /\ stack' = Append(With([Top EXCEPT !.flag = TRUE, !.trav = NextSlot]),
                     UserFrame("listener"))
  /\ UNCHANGED <<tree, home, cell, phase, asyncN, applyN, evalTimers, applyId,
                 applyTimers, throwing, budget>>

\* An unchanged value: the pass ends here if this watcher was the last dirty one.
WatchClean(w, v) ==
  /\ Evaluates(w, v) /\ v # Bad /\ v = last[w]
  /\ OneShot(w, lastDirty)
  /\ Queued(w, v)
  /\ stack' = With([Top EXCEPT !.trav = IF lastDirty' = w THEN <<>> ELSE NextSlot])
  /\ UNCHANGED <<tree, home, last, cell, phase, asyncN, applyN, evalTimers, applyId,
                 applyTimers, throwing, budget>>

\* $$everyScope: Array.prototype.every reads the length once, then each child
\* by its present index.
ReadChildren ==
  /\ Scanning /\ Here.wi = 0 /\ Here.i = 0
  /\ stack' = With([Top EXCEPT !.trav =
                 Revisit([Here EXCEPT !.i = 1, !.n = Len(children[Here.s])])])
  /\ UNCHANGED <<tree, watch, cell, phase, queues, throwing, budget>>

HasChild == Here.i <= Here.n /\ Here.i <= Len(children[Here.s])

EnterChild ==
  /\ Scanning /\ Here.wi = 0 /\ Here.i > 0 /\ HasChild
  /\ stack' = With([Top EXCEPT !.trav =
                 Append(Revisit([Here EXCEPT !.i = @ + 1]),
                        Visit(children[Here.s][Here.i]))])
  /\ UNCHANGED <<tree, watch, cell, phase, queues, throwing, budget>>

LeaveScope ==
  /\ Scanning /\ Here.wi = 0 /\ Here.i > 0 /\ ~HasChild
  /\ stack' = With([Top EXCEPT !.trav = SubSeq(@, 1, Len(@) - 1)])
  /\ UNCHANGED <<tree, watch, cell, phase, queues, throwing, budget>>

\* The pass is over: again, abort, flush or settle.
PassOver == At("digest", "pass") /\ Top.trav = <<>>
Unstable == Top.flag \/ asyncN > 0

\* A mistake the properties rule out: passes are not counted.
PassAgainUncounted ==
  /\ PassOver /\ Unstable /\ Top.ttl > 1
  /\ Become("async")
  /\ UNCHANGED <<tree, watch, cell, phase, queues, throwing, budget>>

PassAgain ==
  /\ PassOver /\ Unstable /\ Top.ttl > 1
  /\ stack' = With([Top EXCEPT !.pc = "async", !.ttl = @ - 1])
  /\ UNCHANGED <<tree, watch, cell, phase, queues, throwing, budget>>

\* A mistake the properties rule out: aborting leaves the phase set.
TtlAbortKeepsPhase ==
  /\ PassOver /\ Unstable /\ Top.ttl <= 1
  /\ stack' = Popped /\ throwing' = TRUE
  /\ UNCHANGED <<tree, watch, cell, phase, queues, budget>>

TtlAbort ==
  /\ PassOver /\ Unstable /\ Top.ttl <= 1
  /\ ClearPhase(Top.s)
  /\ stack' = Popped /\ throwing' = TRUE
  /\ UNCHANGED <<tree, watch, cell, queues, budget>>

\* $applyAsync work is pending: its timeout is cancelled and it is flushed.
BeginFlush ==
  /\ PassOver /\ ~Unstable /\ applyId # "null"
  /\ applyId' = "spent"
  /\ applyTimers' = IF applyId = "armed" THEN SubSeq(applyTimers, 1, Len(applyTimers) - 1)
                                         ELSE applyTimers
  /\ stack' = Append(With([Top EXCEPT !.pc = "flush"]), FlushFrame)
  /\ UNCHANGED <<tree, watch, cell, phase, asyncN, applyN, post, evalTimers, throwing,
                 budget>>

Settle ==
  /\ \/ PassOver /\ ~Unstable /\ applyId = "null"
     \/ At("digest", "flush")
  /\ ClearPhase(Top.s)
  /\ Become("post")
  /\ UNCHANGED <<tree, watch, cell, queues, throwing, budget>>

\* A one-time watcher whose value is still defined deregisters itself.
DrainPost ==
  /\ At("digest", "post") /\ post # <<>>
  /\ post' = Tail(post)
  /\ IF Head(post) = UserFn
     THEN Push("post") /\ UNCHANGED <<watchers, lastDirty>>
     ELSE /\ IF last[Head(post)] # Undef THEN Deregister(Head(post), lastDirty)
                                        ELSE UNCHANGED <<watchers, lastDirty>>
          /\ UNCHANGED stack
  /\ UNCHANGED <<tree, home, last, cell, phase, asyncN, applyN, evalTimers, applyId,
                 applyTimers, throwing, budget>>

DigestDone ==
  /\ At("digest", "post") /\ post = <<>>
  /\ stack' = Popped
  /\ UNCHANGED <<tree, watch, cell, phase, queues, throwing, budget>>

\* What a listener or a queued task throws is reported, and the loop goes on.
Report ==
  /\ Caught("digest") \/ Caught("flush")
  /\ throwing' = FALSE
  /\ UNCHANGED <<tree, watch, cell, phase, queues, stack, budget>>

-----------------------------------------------------------------------------
(* $$flushApplyAsync and $apply                                            *)

FlushTask ==
  /\ At("flush", "drain") /\ applyN > 0
  /\ applyN' = applyN - 1
  /\ Push("task")
  /\ UNCHANGED <<tree, watch, cell, phase, asyncN, post, evalTimers, applyId,
                 applyTimers, throwing, budget>>

\* A mistake the properties rule out: the id of the timeout survives the flush.
FlushDoneKeepsId ==
  /\ At("flush", "drain") /\ applyN = 0
  /\ stack' = Popped
  /\ UNCHANGED <<tree, watch, cell, phase, queues, throwing, budget>>

FlushDone ==
  /\ At("flush", "drain") /\ applyN = 0
  /\ applyId' = "null"
  /\ stack' = Popped
  /\ UNCHANGED <<tree, watch, cell, phase, asyncN, applyN, post, evalTimers,
                 applyTimers, throwing, budget>>

\* The expression returned or threw: finally { $clearPhase; $root.$digest }.
ApplyEvaluated ==
  /\ stack # <<>> /\ Top.k = "apply" /\ Top.pc = "eval"
  /\ ClearPhase(Top.s)
  /\ stack' = With([Top EXCEPT !.pc = "finally", !.flag = throwing])
  /\ throwing' = FALSE
  /\ UNCHANGED <<tree, watch, cell, queues, budget>>

ApplyDigests ==
  /\ At("apply", "finally")
  /\ CallDigest(Root, With([Top EXCEPT !.pc = "digest"]))
  /\ UNCHANGED <<tree, watchers, home, last, cell, queues, budget>>

\* The digest returned, and a pending exception is rethrown, or it threw.
ApplyDone ==
  /\ stack # <<>> /\ Top.k = "apply" /\ Top.pc = "digest"
  /\ stack' = Popped
  /\ throwing' = (throwing \/ Top.flag)
  /\ UNCHANGED <<tree, watch, cell, phase, queues, budget>>

-----------------------------------------------------------------------------
UserOp ==
  \/ \E c \in Cells, v \in Vals : SetCell(c, v)
  \/ \E s \in Scopes, w \in Watchers : Watch(s, w)
  \/ \E w \in Watchers : Unwatch(w)
  \/ \E s, p, c \in Scopes, isolated \in BOOLEAN : NewScope(s, p, isolated, c)
  \/ \E s \in Scopes : Destroy(s) \/ ApplyAsync(s) \/ Digest(s) \/ Apply(s)
  \/ EvalAsync \/ PostDigest \/ Throw

Pass ==
  \/ StartPass \/ EmptySlot
  \/ \E w \in Watchers : WatchFnThrows(w)
  \/ \E w \in Watchers, v \in Vals : WatchDirty(w, v) \/ WatchClean(w, v)
  \/ ReadChildren \/ EnterChild \/ LeaveScope

\* What the engine does once it is called: user code that is done returns.
Engine ==
  \/ Return \/ Catch \/ Propagate \/ Uncaught
  \/ DrainAsync \/ Pass \/ PassAgain \/ TtlAbort \/ BeginFlush \/ Settle
  \/ DrainPost \/ DigestDone \/ Report
  \/ FlushTask \/ FlushDone \/ ApplyEvaluated \/ ApplyDigests \/ ApplyDone

Timeout == EvalAsyncTimeout \/ ApplyAsyncTimeout

Next == BeginTurn \/ UserOp \/ Timeout \/ Engine

Spec == Init /\ [][Next]_vars

\* JavaScript runs a call to completion, and the event loop fires every timeout
\* however many other turns it runs; user code has no obligation but to return.
FairSpec == Spec /\ WF_vars(Engine) /\ SF_vars(EvalAsyncTimeout)
                 /\ SF_vars(ApplyAsyncTimeout)

-----------------------------------------------------------------------------
(* Properties                                                              *)

Frames == [k : {"user", "digest", "flush", "apply"}, s : Scopes,
           pc : Contexts \cup LoopPcs \cup {"post", "drain", "eval", "finally", "digest"},
           ttl : Nat, flag : BOOLEAN, trav : Seq([s : Scopes, wi : Nat, i : Nat, n : Nat])]

\* Every variable has its type.
TypeOK ==
  /\ born \subseteq Scopes /\ dead \subseteq Scopes
  /\ children \in [Scopes -> Seq(Scopes)] /\ chain \in [Scopes -> Seq(Scopes)]
  /\ watchers \in [Scopes -> Seq(Watchers \cup {Null})]
  /\ home \in [Watchers -> Scopes \cup {Null}]
  /\ last \in [Watchers -> Vals \cup {NoVal}]
  /\ cell \in [Cells -> Vals]
  /\ lastDirty \in Watchers \cup {Null}
  /\ phase \in [Scopes -> {"absent", "null", "$digest", "$apply"}]
  /\ asyncN \in Nat /\ applyN \in Nat /\ evalTimers \in Nat
  /\ post \in Seq(Watchers \cup {UserFn})
  /\ applyId \in {"null", "armed", "spent"} /\ applyTimers \in Seq(Scopes)
  /\ throwing \in BOOLEAN /\ budget \in Nat
  /\ stack \in Seq(Frames)

\* The frame whose $beginPhase has not been undone yet.
Holds(f, ph) == \/ f.k = "digest" /\ ph = "$digest" /\ f.pc \in LoopPcs
                \/ f.k = "apply"  /\ ph = "$apply"  /\ f.pc = "eval"

\* A scope is in a phase exactly while a call of $digest or $apply on it is on
\* the stack, on every path out of the call: no phase leaks, and none is
\* cleared by a call that did not begin it ($beginPhase, $clearPhase).
PhaseBalanced ==
  \A s \in Scopes, ph \in {"$digest", "$apply"} :
    phase[s] = ph <=> \E i \in DOMAIN stack : stack[i].s = s /\ Holds(stack[i], ph)

\* $applyAsync work is never stranded: while a task is queued, or while
\* $$applyAsyncId keeps later calls from arming a timeout, a timeout is pending
\* or a flush is running.
TasksServed ==
  applyN > 0 \/ applyId # "null" =>
    applyTimers # <<>> \/ \E i \in DOMAIN stack : stack[i].k = "flush"

\* A one-time watcher that has produced a defined value and is still
\* registered is queued for its deregistration (oneTimeWatchDelegate).
OneTimeDetaches ==
  \A w \in Watchers :
    Kind[w] = "oneTime" /\ home[w] # Null /\ ~Detached(w)
      /\ last[w] \notin {Undef, NoVal}
    => \E i \in DOMAIN post : post[i] = w

\* An engine at rest with $evalAsync work queued will wake up for it.
AsyncQueueWakes ==
  stack = <<>> /\ ~throwing /\ asyncN > 0 => evalTimers > 0 \/ applyTimers # <<>>

\* The scopes a pass from s reaches: s, the children of a scope it reaches, and
\* no other.
Closed(U) == \A u \in U : \A i \in DOMAIN children[u] : children[u][i] \in U
Under(s) == {t \in Scopes : \A U \in SUBSET Scopes : s \in U /\ Closed(U) => t \in U}

Stale(w) == cell[CellOf[w]] \notin {last[w], Bad}

AllClean(s) ==
  \A t \in Under(s) \ dead :
    \A i \in DOMAIN watchers[t] : watchers[t][i] # Null => ~Stale(watchers[t][i])

\* $digest stops looping only when every live watcher below its scope has been
\* seen at its present value ("looping until all watchers are clean").
DigestLeavesAllClean ==
  [][At("digest", "pass") /\ Len(stack') >= Len(stack)
       /\ stack'[Len(stack)].pc \in {"flush", "post"}
     => AllClean(Top.s)]_vars

\* A queued task, on its turn, adds to the queue that is being drained.
Requeues ==
  /\ InUser
  /\ \/ Top.pc = "async" /\ asyncN' > asyncN
     \/ Top.pc = "task"  /\ applyN' > applyN
     \/ Top.pc = "post"  /\ Len(post') > Len(post)

\* The call stack unwinds and the event loop is reached again.
TurnsEnd == stack # <<>> ~> stack = <<>>

\* Queued $evalAsync work is run.
AsyncDrains == asyncN > 0 ~> asyncN = 0

=============================================================================
