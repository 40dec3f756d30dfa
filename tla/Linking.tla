------------------------------ MODULE Linking ------------------------------
(***************************************************************************)
(* Linking compiled nodes: for each node its scope, its controllers, its    *)
(* pre-link functions, its children, its post-link functions and $postLink, *)
(* all of them application code that may throw or tear an element down; and *)
(* the elements whose template is fetched, which link when it arrives.      *)
(*                                                                         *)
(* A linker is made once and may link many times: the master of a           *)
(* transclusion links every clone.  A target is a node of one such link.    *)
(***************************************************************************)
EXTENDS Naturals, Sequences, FiniteSets, SequencesExt

CONSTANTS
  Nodes,         \* the nodes compiled
  Kids,          \* a node's compiled children, a sequence; those of a host are its template's
  Hosts,         \* nodes with a templateUrl
  Conflicting,   \* nodes with two isolate scopes, some of them hosts
  Bound,         \* nodes whose bindings are wired to their scope: an expression may throw
  Roots,         \* the node each linker is for: a sequence of nodes
  Links,         \* the times each linker links
  MaxFailures    \* bound: exceptions of application code

VARIABLES
  linked,        \* per linker: the times it has linked
  queue,         \* deferred entries: per linker, and per mounted host for its template
  drains,        \* microtasks that drain a queue
  waiting,       \* entries whose template was requested: a sequence, one per processing
  arrived,       \* answered requests: [entry, ok], microtasks
  cancelled,     \* targets whose entry was cancelled by their clean-up
  dead,          \* links whose surrounding scope is destroyed
  stack,         \* linkers in progress, the innermost first
  failures,
  thrown,        \* history: the bindings that threw, [target, left, queue]
  done           \* history: [target, step] in the order of the calls

linkVars ==
  <<linked, queue, drains, waiting, arrived, cancelled, dead, stack, failures, thrown, done>>

Linkers == DOMAIN Roots
Link(l, n) == [linker |-> l, number |-> n]
Target(link, node) == [link |-> link, node |-> node]

\* A queue belongs to a linker, or to a host for what its template contains.
Shared(l) == [of |-> "linker", linker |-> l]
Inner(target) == [of |-> "host", target |-> target]
QueueOf(q) == IF q \in DOMAIN queue THEN queue[q] ELSE <<>>

Frame(target, q) == [target |-> target, queue |-> q, step |-> "enter", kid |-> 1]
Topmost == Head(stack)
AtStep(step) == stack # <<>> /\ Topmost.step = step
Goes(step) == stack' = <<[Topmost EXCEPT !.step = step]>> \o Tail(stack)
Did(target, step) == done' = Append(done, [target |-> target, step |-> step])
HasDone(target, step) == [target |-> target, step |-> step] \in Range(done)

Init ==
  /\ linked = [l \in Linkers |-> 0]
  /\ queue = <<>> /\ drains = <<>> /\ waiting = <<>> /\ arrived = <<>>
  /\ cancelled = {} /\ dead = {}
  /\ stack = <<>> /\ failures = 0 /\ thrown = {} /\ done = <<>>

-----------------------------------------------------------------------------
(* The linker of a node                                                     *)

\* A host is put into its queue and left alone; the rest of it links later.
Defer(target, q) ==
  /\ queue' = [x \in DOMAIN queue \cup {q} |-> IF x = q THEN Append(QueueOf(q), target) ELSE queue[x]]
  /\ stack' = Tail(stack)

EnterHost ==
  /\ AtStep("enter") /\ Topmost.target.node \in Hosts
  /\ Defer(Topmost.target, Topmost.queue)
  /\ UNCHANGED <<linked, drains, waiting, arrived, cancelled, dead, failures, done, thrown>>

\* A host whose directives conflict is found out when its template is there.
Conflict ==
  /\ AtStep("enter") /\ Topmost.target.node \in Conflicting \ Hosts
  /\ stack' = Tail(stack)
  /\ UNCHANGED <<linked, queue, drains, waiting, arrived, cancelled, dead, failures, done, thrown>>

\* Scope; bindings, attributes and controllers; the pre-link functions; the
\* children; the post-link functions; $postLink.
Enter ==
  /\ AtStep("enter") /\ Topmost.target.node \notin Hosts \cup Conflicting
  /\ Goes("controllers")
  /\ UNCHANGED <<linked, queue, drains, waiting, arrived, cancelled, dead, failures, done, thrown>>

Following(step) == CASE step = "controllers" -> "pre" [] step = "pre" -> "children"
                     [] step = "post" -> "postLink" [] step = "postLink" -> "left"

\* The targets being linked, from the node in progress up.
Within == {f.target : f \in {g \in Range(stack) : g.step # "linker"}}

\* The bindings to the scope of a node are wired in no try: what an expression of
\* theirs throws ends every linker in progress, and what these put into their
\* queue is not drained.
BindingThrows ==
  /\ AtStep("controllers") /\ Topmost.target.node \in Bound
  /\ failures < MaxFailures /\ failures' = failures + 1
  /\ thrown' = thrown \cup {[target |-> Topmost.target, left |-> Within, queue |-> Topmost.queue]}
  /\ stack' = <<>>
  /\ UNCHANGED <<linked, queue, drains, waiting, arrived, cancelled, dead, done>>

\* Controllers, link functions and hooks are called; what one of them throws is
\* reported, and the linker goes on.
Call(step, throws) ==
  /\ AtStep(step) /\ step \in {"controllers", "pre", "post", "postLink"}
  /\ throws => failures < MaxFailures
  /\ failures' = IF throws THEN failures + 1 ELSE failures
  /\ Did(Topmost.target, step)
  /\ IF step = "postLink" THEN stack' = Tail(stack) ELSE Goes(Following(step))
  /\ UNCHANGED <<linked, queue, drains, waiting, arrived, cancelled, dead, thrown>>

NextChild ==
  /\ AtStep("children") /\ Topmost.kid <= Len(Kids[Topmost.target.node])
  /\ stack' = <<Frame(Target(Topmost.target.link, Kids[Topmost.target.node][Topmost.kid]), Topmost.queue),
                [Topmost EXCEPT !.kid = @ + 1]>> \o Tail(stack)
  /\ UNCHANGED <<linked, queue, drains, waiting, arrived, cancelled, dead, failures, done, thrown>>

ChildrenDone ==
  /\ AtStep("children") /\ Topmost.kid > Len(Kids[Topmost.target.node])
  /\ Goes("post")
  /\ UNCHANGED <<linked, queue, drains, waiting, arrived, cancelled, dead, failures, done, thrown>>

-----------------------------------------------------------------------------
(* Public and internal linkers                                              *)

\* A linker is called; what it deferred is drained in a microtask.
CallLinker(l) ==
  /\ stack = <<>> /\ linked[l] < Links[l]
  /\ linked' = [linked EXCEPT ![l] = @ + 1]
  /\ stack' = <<Frame(Target(Link(l, linked[l] + 1), Roots[l]), Shared(l)),
                [linker |-> l, queue |-> Shared(l), step |-> "linker"]>>
  /\ UNCHANGED <<queue, drains, waiting, arrived, cancelled, dead, failures, done, thrown>>

LinkerReturns ==
  /\ AtStep("linker")
  /\ drains' = IF QueueOf(Topmost.queue) = <<>> THEN drains ELSE Append(drains, Topmost.queue)
  /\ stack' = Tail(stack)
  /\ UNCHANGED <<linked, queue, waiting, arrived, cancelled, dead, failures, done, thrown>>

-----------------------------------------------------------------------------
(* drainDeferredTemplateQueue and processDeferredEntry                      *)

\* A mistake the properties rule out: only the first entry is processed.
DrainFirst ==
  /\ stack = <<>> /\ drains # <<>>
  /\ waiting' = Append(waiting, Head(QueueOf(Head(drains))))
  /\ drains' = Tail(drains)
  /\ UNCHANGED <<linked, queue, arrived, cancelled, dead, stack, failures, done, thrown>>

\* Every entry of the queue is processed: its template is requested.
Drain ==
  /\ stack = <<>> /\ drains # <<>>
  /\ waiting' = waiting \o QueueOf(Head(drains))
  /\ drains' = Tail(drains)
  /\ UNCHANGED <<linked, queue, arrived, cancelled, dead, stack, failures, done, thrown>>

\* $templateRequest answers one request, or fails it.
Answer(k, ok) ==
  /\ k \in DOMAIN waiting
  /\ arrived' = Append(arrived, [entry |-> waiting[k], ok |-> ok])
  /\ waiting' = RemoveAt(waiting, k)
  /\ UNCHANGED <<linked, queue, drains, cancelled, dead, stack, failures, done, thrown>>

Unwanted(target) == target \in cancelled \/ target.link \in dead

\* A failure is reported; an answer for an element that is gone is dropped.
Drop ==
  /\ stack = <<>> /\ arrived # <<>>
  /\ ~Head(arrived).ok \/ Unwanted(Head(arrived).entry)
  /\ arrived' = Tail(arrived)
  /\ Did(Head(arrived).entry, "drop")
  /\ UNCHANGED <<linked, queue, drains, waiting, cancelled, dead, stack, failures, thrown>>

\* The linker of a host that has its template: two isolate scopes, and it does
\* no more than report them.
Pending(target, q) ==
  IF target.node \in Conflicting THEN <<>> ELSE <<[Frame(target, q) EXCEPT !.step = "controllers"]>>

\* The template replaces the content of the host, is compiled with a queue of
\* its own, and the host links.
Install ==
  /\ stack = <<>> /\ arrived # <<>>
  /\ Head(arrived).ok /\ ~Unwanted(Head(arrived).entry)
  /\ arrived' = Tail(arrived)
  /\ LET target == Head(arrived).entry
         q == Inner([target |-> target, time |-> Len(done)])
     IN  /\ Did(target, "install")
         /\ stack' = Pending(target, q) \o <<[linker |-> target, queue |-> q, step |-> "linker"]>>
  /\ UNCHANGED <<linked, queue, drains, waiting, cancelled, dead, failures, thrown>>

-----------------------------------------------------------------------------
(* Application code tears down                                              *)

User == stack = <<>> \/ AtStep("controllers") \/ AtStep("pre") \/ AtStep("post") \/ AtStep("postLink")

Entries == UNION {Range(queue[q]) : q \in DOMAIN queue}

\* destroyElementScope of a host that waits: its clean-up cancels the entry.
TearDown(target) ==
  /\ User /\ target \in Entries \ cancelled
  /\ cancelled' = cancelled \cup {target}
  /\ UNCHANGED <<linked, queue, drains, waiting, arrived, dead, stack, failures, done, thrown>>

\* The scope a link was made with is destroyed.
DestroyScope(link) ==
  /\ User /\ link \notin dead
  /\ dead' = dead \cup {link}
  /\ UNCHANGED <<linked, queue, drains, waiting, arrived, cancelled, stack, failures, done, thrown>>

Next ==
  \/ EnterHost \/ Conflict \/ Enter \/ BindingThrows
  \/ \E step \in {"controllers", "pre", "post", "postLink"}, throws \in BOOLEAN : Call(step, throws)
  \/ NextChild \/ ChildrenDone
  \/ \E l \in Linkers : CallLinker(l)
  \/ LinkerReturns
  \/ Drain
  \/ \E k \in DOMAIN waiting, ok \in BOOLEAN : Answer(k, ok)
  \/ Drop \/ Install
  \/ \E target \in Entries : TearDown(target)
  \/ \E l \in Linkers : \E n \in 1 .. linked[l] : DestroyScope(Link(l, n))

\* Calls return, microtasks run and every request is answered.
Engine ==
  \/ EnterHost \/ Conflict \/ Enter \/ NextChild \/ ChildrenDone \/ LinkerReturns
  \/ \E step \in {"controllers", "pre", "post", "postLink"} : Call(step, FALSE)
  \/ Drain \/ Drop \/ Install
Fairness == WF_linkVars(Engine) /\ WF_linkVars(\E ok \in BOOLEAN : Answer(1, ok))

-----------------------------------------------------------------------------
(* Properties                                                              *)

Steps == <<"install", "drop", "controllers", "pre", "post", "postLink">>
TypeOK ==
  /\ linked \in [Linkers -> Nat] /\ failures \in 0 .. MaxFailures
  /\ \A q \in DOMAIN queue : \A t \in Range(queue[q]) : t.node \in Hosts
  /\ \A d \in Range(done) : d.target.node \in Nodes /\ d.step \in Range(Steps)
  /\ \A u \in thrown : u.target.node \in Bound /\ u.target \in u.left

At(target, step) == CHOOSE k \in DOMAIN done : done[k] = [target |-> target, step |-> step]
Settled(target) == \A f \in Range(stack) : "target" \in DOMAIN f => f.target # target

\* The node was in progress when bindings threw: its own, or those of a node in it.
Left(target) == \E u \in thrown : target \in u.left
\* The host was put into a queue that a throw kept from being drained.
Stranded(target) == \E u \in thrown : target \in Range(QueueOf(u.queue))

\* Whatever throws, a node that links calls its functions in this order, and its
\* post-link functions find the children it has without a template to wait for
\* linked: their $postLink was called, and after its own pre-link functions.  It
\* calls all of them, unless bindings threw that are its own or a node's in it.
LinksInOrder ==
  \A d \in Range(done) : LET t == d.target IN
    /\ d.step = "postLink" =>
         At(t, "controllers") < At(t, "pre") /\ At(t, "pre") < At(t, "post") /\ At(t, "post") < At(t, "postLink")
    /\ d.step = "post" =>
         \A n \in Range(Kids[t.node]) : n \notin Hosts \cup Conflicting =>
           LET kid == Target(t.link, n)
           IN  /\ HasDone(kid, "postLink")
               /\ At(t, "pre") < At(kid, "controllers") /\ At(kid, "postLink") < At(t, "post")
    /\ Settled(t) /\ d.step # "drop" /\ t.node \notin Conflicting => HasDone(t, "postLink") \/ Left(t)

\* A throw of bindings takes the node they are for, for which no controller is
\* made, and the nodes around it, which call no post-link function; no other.
StopsWhereItThrew ==
  \A u \in thrown :
    /\ ~HasDone(u.target, "controllers")
    /\ \A t \in u.left :
         /\ ~HasDone(t, "post")
         /\ t # u.target => \E n \in Range(Kids[t.node]) : Target(t.link, n) \in u.left

\* The controllers of an element are built once, a template that comes later
\* notwithstanding.
LinkedOnce == \A j, k \in DOMAIN done : done[j] = done[k] => j = k

\* A template is not installed in an element that was torn down, nor under a
\* scope that was destroyed, before it arrived.
NothingInstalledLate ==
  [][\A t \in Entries : Len(done') > Len(done) /\ Last(done') = [target |-> t, step |-> "install"]
       => t \notin cancelled /\ t.link \notin dead]_linkVars

\* A waiting host is linked, or is given up because its request failed or it
\* is gone: none waits for ever whose queue was not lost to bindings that threw.
HostsSettle == []<>(\A t \in Entries : HasDone(t, "install") \/ HasDone(t, "drop") \/ Stranded(t))
=============================================================================
