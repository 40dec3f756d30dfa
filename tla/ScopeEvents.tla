---------------------------- MODULE ScopeEvents ----------------------------
(***************************************************************************)
(* The event system of the Scope class: $on and its deregistration          *)
(* function, $emit, $broadcast and $destroy.                                *)
(*                                                                         *)
(* A listener runs in the middle of $$fireEventOnScope and may call any of   *)
(* these again, so the call stack is part of the state, as in ScopeDigest.   *)
(* Listener arrays have an identity: a deregistration function keeps the     *)
(* array its listener was pushed on, a running loop the array it walks, and  *)
(* $$listeners the array that the last loop to end left there.               *)
(***************************************************************************)
EXTENDS Naturals, Sequences, FiniteSets

CONSTANTS
  Scopes,        \* scope identities, each created at most once
  Root,          \* the root scope
  Names,         \* event names, "$destroy" among them
  Fired,         \* the names user code emits and broadcasts
  Listeners,     \* listener functions, each registered at most once
  Null,          \* JavaScript null: no parent, no listener, an emptied slot
  InitKids,      \* the children set-up code gave the root, in order
  InitHeap,      \* the listener arrays set-up code filled
  InitRegistry,  \* and the scope and name it filled each one for
  Ops,           \* the operations user code performs in each context
  Budget         \* bound: operations user code performs in one behaviour

\* What user code was called for: from the event loop, or as a listener.
Contexts == {"turn", "emit", "broadcast"}

ASSUME EventAssumption ==
  /\ Root \in Scopes /\ Null \notin Scopes \cup Listeners
  /\ "$destroy" \in Names /\ Fired \subseteq Names
  /\ InitKids \in Seq(Scopes \ {Root})
  /\ InitHeap \in Seq(Seq(Listeners))
  /\ \A a, b \in DOMAIN InitHeap : \A i \in DOMAIN InitHeap[a], j \in DOMAIN InitHeap[b] :
       InitHeap[a][i] = InitHeap[b][j] => a = b /\ i = j
  /\ InitRegistry \in [Scopes -> [Names -> 0..Len(InitHeap)]]
  /\ DOMAIN Ops = Contexts
  /\ Budget \in Nat

VARIABLES
  born,          \* scopes created so far
  parent,        \* $parent of each scope; $destroy leaves it
  children,      \* $$children of each scope
  heap,          \* every listener array created so far
  registry,      \* $$listeners[name] of each scope: an index of heap, 0 if none
  held,          \* the array each deregistration function holds, 0 if none
  silenced,      \* history: listeners deregistered, or whose scope was destroyed
  stack,         \* the JavaScript call stack
  budget         \* operations user code may still perform

tree == <<born, parent, children>>
lists == <<heap, registry, held, silenced>>
vars == <<tree, lists, stack, budget>>

-----------------------------------------------------------------------------
(* The call stack.  owed and left are history: the listeners that the loop   *)
(* over arr has yet to call, the scopes that a broadcast has yet to reach.   *)

UserFrame(at, l) ==
  [k |-> "user", at |-> at, l |-> l, n |-> "", s |-> Root, pc |-> "run", arr |-> 0,
   i |-> 1, owed |-> {}, stop |-> FALSE, trav |-> <<>>, left |-> {}]

EmitFrame(s, n) ==
  [UserFrame("turn", Null) EXCEPT !.k = "emit", !.n = n, !.s = s, !.pc = "visit"]

\* s and what is below it: what every set with s and all children of its members holds.
Kids(s) == {children[s][i] : i \in DOMAIN children[s]}
Subtree(s) ==
  {t \in Scopes : \A S \in SUBSET Scopes : s \in S /\ (\A p \in S : Kids(p) \subseteq S) => t \in S}

\* An activation of $$everyScope: child i of the n it had when first read.
Activation(s) == [s |-> s, i |-> 0, n |-> 0]

BroadcastFrame(s, n) ==
  [EmitFrame(s, n) EXCEPT !.k = "broadcast", !.trav = <<Activation(s)>>, !.left = Subtree(s)]

DestroyFrame(s) == [UserFrame("turn", Null) EXCEPT !.k = "destroy", !.s = s]

Top     == stack[Len(stack)]
Popped  == SubSeq(stack, 1, Len(stack) - 1)
With(f) == [stack EXCEPT ![Len(stack)] = f]
At(pc)  == stack # <<>> /\ Top.pc = pc

\* The frames whose loop walks array a owe more, and no longer what is in less.
Owing(a, more, less) ==
  [j \in DOMAIN stack |->
     IF stack[j].pc = "fire" /\ stack[j].arr = a
     THEN [stack[j] EXCEPT !.owed = (@ \cup more) \ less] ELSE stack[j]]

NonNull(seq) == {seq[j] : j \in DOMAIN seq} \ {Null}

-----------------------------------------------------------------------------
\* Set-up code created InitKids and registered the listeners of InitHeap.
Init ==
  LET kids    == {InitKids[j] : j \in DOMAIN InitKids}
      In(l)   == {a \in DOMAIN InitHeap : l \in NonNull(InitHeap[a])}
  IN  /\ born = {Root} \cup kids
      /\ parent = [s \in Scopes |-> IF s \in kids THEN Root ELSE Null]
      /\ children = [s \in Scopes |-> IF s = Root THEN InitKids ELSE <<>>]
      /\ heap = InitHeap
      /\ registry = InitRegistry
      /\ held = [l \in Listeners |-> IF In(l) = {} THEN 0 ELSE CHOOSE a \in In(l) : TRUE]
      /\ silenced = {} /\ stack = <<>> /\ budget = Budget

-----------------------------------------------------------------------------
(* User code: one action per public operation                              *)

BeginTurn ==
  /\ stack = <<>> /\ budget > 0
  /\ stack' = <<UserFrame("turn", Null)>>
  /\ UNCHANGED <<tree, lists, budget>>

May(op) ==
  /\ At("run") /\ Top.k = "user" /\ budget > 0
  /\ op \in Ops[Top.at]
  /\ budget' = budget - 1

\* Function objects are told apart by identity, so each is registered once.
On(s, n, l) ==
  /\ May("on") /\ s \in born /\ held[l] = 0
  /\ LET arr == IF registry[s][n] = 0 THEN Len(heap) + 1 ELSE registry[s][n]
     IN  /\ heap' = IF arr > Len(heap) THEN Append(heap, <<l>>)
                                       ELSE [heap EXCEPT ![arr] = Append(@, l)]
         /\ registry' = [registry EXCEPT ![s][n] = arr]
         /\ held' = [held EXCEPT ![l] = arr]
         /\ stack' = Owing(arr, {l}, {})
  /\ UNCHANGED <<tree, silenced>>

\* A mistake the properties rule out: the slot is spliced out of the array.
OffSplices(l) ==
  /\ May("off") /\ held[l] # 0
  /\ heap' = [heap EXCEPT ![held[l]] = SelectSeq(@, LAMBDA e : e # l)]
  /\ silenced' = silenced \cup {l}
  /\ stack' = Owing(held[l], {}, {l})
  /\ UNCHANGED <<tree, registry, held>>

\* The function $on returned for l, called: it empties l's slot in its array.
Off(l) ==
  /\ May("off") /\ held[l] # 0
  /\ heap' = [heap EXCEPT ![held[l]] = [j \in DOMAIN @ |-> IF @[j] = l THEN Null ELSE @[j]]]
  /\ silenced' = silenced \cup {l}
  /\ stack' = Owing(held[l], {}, {l})
  /\ UNCHANGED <<tree, registry, held>>

NewScope(p, c) ==
  /\ May("new") /\ p \in born /\ c \in Scopes \ born
  /\ born' = born \cup {c}
  /\ parent' = [parent EXCEPT ![c] = p]
  /\ children' = [children EXCEPT ![p] = Append(@, c)]
  /\ UNCHANGED <<lists, stack>>

Emit(s, n) ==
  /\ May("emit") /\ s \in born
  /\ stack' = Append(stack, EmitFrame(s, n))
  /\ UNCHANGED <<tree, lists>>

Broadcast(s, n) ==
  /\ May("broadcast") /\ s \in born
  /\ stack' = Append(stack, BroadcastFrame(s, n))
  /\ UNCHANGED <<tree, lists>>

\* The scope whose listener is running.
Current == stack[Len(stack) - 1].s

\* $destroy broadcasts first; on the root it does nothing.  A listener that may
\* only "destroyInner" destroys scopes below its own.
Destroy(s) ==
  /\ s \in born \ {Root}
  /\ \/ May("destroy")
     \/ May("destroyInner") /\ s \in Subtree(Current) \ {Current}
  /\ stack' = stack \o <<DestroyFrame(s), BroadcastFrame(s, "$destroy")>>
  /\ UNCHANGED <<tree, lists>>

\* A listener stops its event, which only an emitted one heeds.
StopPropagation ==
  /\ May("stop") /\ Top.at = "emit"
  /\ stack' = [stack EXCEPT ![Len(stack) - 1].stop = TRUE]
  /\ UNCHANGED <<tree, lists>>

\* User code returns, or throws: what a listener throws is reported.
Return ==
  /\ At("run") /\ Top.k = "user"
  /\ stack' = Popped
  /\ UNCHANGED <<tree, lists, budget>>

-----------------------------------------------------------------------------
(* $$fireEventOnScope, for the scope Top.s                                  *)

\* The scope's array is looked up once; its length is read at every turn.
Visit ==
  /\ At("visit")
  /\ LET arr == registry[Top.s][Top.n]
     IN  stack' = With([Top EXCEPT
                          !.left = @ \ {Top.s}, !.arr = arr, !.i = 1,
                          !.pc = IF arr = 0 THEN "move" ELSE "fire",
                          !.owed = IF arr = 0 THEN {} ELSE NonNull(heap[arr])])
  /\ UNCHANGED <<tree, lists, budget>>

Firing == At("fire")
Slot   == heap[Top.arr][Top.i]

EmptySlot ==
  /\ Firing /\ Top.i <= Len(heap[Top.arr]) /\ Slot = Null
  /\ stack' = With([Top EXCEPT !.i = @ + 1])
  /\ UNCHANGED <<tree, lists, budget>>

CallListener ==
  /\ Firing /\ Top.i <= Len(heap[Top.arr]) /\ Slot # Null
  /\ stack' = Append(With([Top EXCEPT !.i = @ + 1, !.owed = @ \ {Slot}]),
                     UserFrame(Top.k, Slot))
  /\ UNCHANGED <<tree, lists, budget>>

\* filter(): the listeners of an array without its emptied slots.
Compacted(array) ==
  LET kept[n \in 0 .. Len(array)] ==
        IF n = 0 THEN <<>>
        ELSE IF array[n] = Null THEN kept[n - 1] ELSE Append(kept[n - 1], array[n])
  IN  kept[Len(array)]

\* The loop is over: the scope gets a new array, without the emptied slots.
Compact ==
  /\ Firing /\ Top.i > Len(heap[Top.arr])
  /\ heap' = Append(heap, Compacted(heap[Top.arr]))
  /\ registry' = [registry EXCEPT ![Top.s][Top.n] = Len(heap')]
  /\ stack' = With([Top EXCEPT !.pc = "move"])
  /\ UNCHANGED <<tree, held, silenced, budget>>

-----------------------------------------------------------------------------
(* The way of an event through the tree                                    *)

\* $emit walks up until an ancestor's listener stopped it, or past the root.
EmitUp ==
  /\ At("move") /\ Top.k = "emit" /\ ~Top.stop /\ parent[Top.s] # Null
  /\ stack' = With([Top EXCEPT !.s = parent[Top.s], !.pc = "visit"])
  /\ UNCHANGED <<tree, lists, budget>>

EmitDone ==
  /\ At("move") /\ Top.k = "emit" /\ (Top.stop \/ parent[Top.s] = Null)
  /\ stack' = Popped
  /\ UNCHANGED <<tree, lists, budget>>

\* $$everyScope: every() reads the length once, then each child by index.
Spreading == At("move") /\ Top.k = "broadcast" /\ Top.trav # <<>>
Here      == Top.trav[Len(Top.trav)]
NextChild     == IF Here.i = 0 THEN [Here EXCEPT !.i = 1, !.n = Len(children[Here.s])]
                           ELSE [Here EXCEPT !.i = @ + 1]

\* A mistake the properties rule out: the last child is left out.
HasChildButLast == NextChild.i < NextChild.n /\ NextChild.i <= Len(children[Here.s])

HasChild == NextChild.i <= NextChild.n /\ NextChild.i <= Len(children[Here.s])

EnterChild ==
  /\ Spreading /\ HasChild
  /\ LET c == children[Here.s][NextChild.i]
     IN  stack' = With([Top EXCEPT
                          !.trav = Append([@ EXCEPT ![Len(@)] = NextChild], Activation(c)),
                          !.s = c, !.pc = "visit"])
  /\ UNCHANGED <<tree, lists, budget>>

LeaveScope ==
  /\ Spreading /\ ~HasChild
  /\ stack' = With([Top EXCEPT !.trav = SubSeq(@, 1, Len(@) - 1)])
  /\ UNCHANGED <<tree, lists, budget>>

BroadcastDone ==
  /\ At("move") /\ Top.k = "broadcast" /\ Top.trav = <<>>
  /\ stack' = Popped
  /\ UNCHANGED <<tree, lists, budget>>

\* $destroy after its broadcast: the scope leaves its parent's children and
\* drops its listeners.  Broadcasts under way no longer owe it a visit.
Without(seq, c) ==
  LET i == CHOOSE j \in DOMAIN seq : seq[j] = c
  IN  IF \E j \in DOMAIN seq : seq[j] = c
      THEN SubSeq(seq, 1, i - 1) \o SubSeq(seq, i + 1, Len(seq)) ELSE seq

Detach ==
  /\ At("run") /\ Top.k = "destroy"
  /\ LET s     == Top.s
         heard == UNION {NonNull(heap[registry[s][n]]) : n \in {m \in Names : registry[s][m] # 0}}
     IN  /\ children' = [children EXCEPT ![parent[s]] = Without(@, s)]
         /\ registry' = [registry EXCEPT ![s] = [n \in Names |-> 0]]
         /\ silenced' = silenced \cup heard
         /\ stack' = [j \in DOMAIN Popped |-> [stack[j] EXCEPT !.left = @ \ Subtree(s)]]
  /\ UNCHANGED <<born, parent, heap, held, budget>>

-----------------------------------------------------------------------------
UserOp ==
  \/ \E s \in Scopes, n \in Names, l \in Listeners : On(s, n, l)
  \/ \E l \in Listeners : Off(l)
  \/ \E p, c \in Scopes : NewScope(p, c)
  \/ \E s \in Scopes, n \in Fired : Emit(s, n) \/ Broadcast(s, n)
  \/ \E s \in Scopes : Destroy(s)
  \/ StopPropagation \/ Return

Engine ==
  \/ Visit \/ EmptySlot \/ CallListener \/ Compact
  \/ EmitUp \/ EmitDone \/ EnterChild \/ LeaveScope \/ BroadcastDone \/ Detach

Next == BeginTurn \/ UserOp \/ Engine

Spec == Init /\ [][Next]_vars

-----------------------------------------------------------------------------
(* Properties                                                              *)

Frames == [k : {"user", "emit", "broadcast", "destroy"}, at : Contexts,
           l : Listeners \cup {Null}, n : Names \cup {""}, s : Scopes,
           pc : {"run", "visit", "fire", "move"}, arr : Nat, i : Nat \ {0},
           owed : SUBSET Listeners, stop : BOOLEAN,
           trav : Seq([s : Scopes, i : Nat, n : Nat]), left : SUBSET Scopes]

\* Every variable has its type.
TypeOK ==
  /\ born \subseteq Scopes
  /\ parent \in [Scopes -> Scopes \cup {Null}] /\ children \in [Scopes -> Seq(Scopes)]
  /\ heap \in Seq(Seq(Listeners \cup {Null}))
  /\ registry \in [Scopes -> [Names -> 0..Len(heap)]]
  /\ held \in [Listeners -> 0..Len(heap)]
  /\ silenced \subseteq Listeners
  /\ stack \in Seq(Frames) /\ budget \in Nat

\* What a loop has yet to call is what lies ahead of it in its array.
EachListenerOnce ==
  \A j \in DOMAIN stack :
    stack[j].pc = "fire" =>
      LET arr == heap[stack[j].arr]
      IN  stack[j].owed = {arr[i] : i \in {m \in DOMAIN arr : m >= stack[j].i}} \ {Null}

\* A running loop over a listener array goes on to call each listener still in
\* it once, and none that was removed before its turn, whatever the listeners
\* register, deregister, fire or destroy meanwhile ($$fireEventOnScope).
ListenersOnce == TypeOK /\ EachListenerOnce

\* A broadcast ends when every scope that was below its origin when it began,
\* and was not destroyed since, has been visited ($broadcast).
BroadcastReaches ==
  [][stack # <<>> /\ Top.k = "broadcast" /\ Len(stack') < Len(stack) => Top.left = {}]_vars

\* A listener is not called any more once its deregistration function was
\* called, or once the $destroy of its scope was done.
SilencedStaysSilent ==
  [][Len(stack') > Len(stack) => stack'[Len(stack')].l \notin silenced]_vars

=============================================================================
