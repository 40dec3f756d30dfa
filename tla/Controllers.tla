----------------------------- MODULE Controllers -----------------------------
(***************************************************************************)
(* Directive controllers and require: an element's controllers are made one   *)
(* after the other, each left on the element under its directive's name, and  *)
(* whoever requires one is given the nearest there is by then.  The content   *)
(* of ngIf, ngRepeat and transclusion is linked before it is in the document. *)
(***************************************************************************)
EXTENDS Integers, Sequences, FiniteSets, SequencesExt

CONSTANTS
  Order,         \* the elements in document order
  Ancestors,     \* a function: the ancestors of each, the nearest first
  Mounted,       \* roots of clones, linked when their parent long has been
  Directives,    \* a function: the directives of each, in order, as records
                 \* [name, controller, binds, require]
  Absent,        \* the null of an optional requirement
  Undefined,     \* what a link function is given after a failure
  MaxFailures    \* bound: constructors that throw

VARIABLES
  todo,          \* linkers running, the innermost first: [element, step, next]
  linked,        \* elements linked altogether
  attached,      \* of Mounted, those in the document
  stash,         \* $$ngControllers of each element
  results,       \* requireResults: what the controllers' requirements came to
  given,         \* what each link function gets
  tracked,       \* instances of each element that get $postLink
  registered,    \* instances that get $onDestroy
  log,           \* history: <<hook, instance>>
  reported, failures, destroyed

controllerVars == <<todo, linked, attached, stash, results, given, tracked, registered, log,
                    reported, failures, destroyed>>

Elements == Range(Order)
Ids == UNION {{<<e, k>> : k \in DOMAIN Directives[e]} : e \in Elements}
Directive(id) == Directives[id[1]][id[2]]
Children(e) == SelectSeq(Order, LAMBDA c : c \notin Mounted /\ Ancestors[c] # <<>> /\ Ancestors[c][1] = e)
Frame(e) == [element |-> e, step |-> "controllers", next |-> 1]
Running == Head(todo)
At(step) == todo # <<>> /\ Running.step = step
Becomes(step) == todo' = <<[Running EXCEPT !.step = step, !.next = 1]>> \o Tail(todo)

Init ==
  /\ todo = <<Frame(Head(Order))>> /\ linked = {} /\ attached = {}
  /\ stash = [e \in Elements |-> <<>>] /\ results = <<>> /\ given = <<>>
  /\ tracked = [e \in Elements |-> <<>>] /\ registered = {} /\ log = <<>>
  /\ reported = 0 /\ failures = 0 /\ destroyed = {}

-----------------------------------------------------------------------------
(* resolveRequire                                                          *)

\* Up from the element as far as the document, or a clone not yet in it, goes.
Above(e, inPlace) ==
  LET path == <<e>> \o Ancestors[e]
      ends == {k \in DOMAIN path : path[k] \in Mounted \ inPlace}
  IN  IF ends = {} THEN path ELSE SubSeq(path, 1, CHOOSE k \in ends : \A l \in ends : k <= l)
Searched(e, prefix, inPlace) ==
  CASE prefix = "" -> <<e>>
    [] prefix = "^" -> Above(e, inPlace)
    [] prefix = "^^" -> Tail(Above(e, inPlace))
Missing == <<"missing">>
Resolved(e, r, map, inPlace) ==
  LET hits == SelectSeq(Searched(e, r.prefix, inPlace), LAMBDA a : r.name \in DOMAIN map[a])
  IN  IF hits # <<>> THEN map[Head(hits)][r.name] ELSE IF r.optional THEN Absent ELSE Missing

\* resolveRequireForm: all of a directive's requirements, or the first failure.
Required(id, map, inPlace) ==
  LET all == [k \in DOMAIN Directive(id).require |->
                Resolved(id[1], Directive(id).require[k], map, inPlace)]
  IN  IF Missing \in Range(all) THEN Undefined ELSE all
Requires(id) == Directive(id).require # <<>>

-----------------------------------------------------------------------------
(* runControllerSeam                                                        *)

Extend(f, x, v) == [y \in DOMAIN f \cup {x} |-> IF y = x THEN v ELSE f[y]]
Current == <<Running.element, Running.next>>
Constructing == At("controllers") /\ Running.next <= Len(Directives[Running.element])
Following == todo' = <<[Running EXCEPT !.next = @ + 1]>> \o Tail(todo)

NoController ==
  /\ Constructing /\ ~Directive(Current).controller
  /\ Following
  /\ UNCHANGED <<linked, attached, stash, results, given, tracked, registered, log, reported,
                 failures, destroyed>>

ConstructFails ==
  /\ Constructing /\ Directive(Current).controller /\ failures < MaxFailures
  /\ failures' = failures + 1 /\ reported' = reported + 1
  /\ Following
  /\ UNCHANGED <<linked, attached, stash, results, given, tracked, registered, log, destroyed>>

\* Constructed, left on the element, given what it requires, bound, $onInit.  A
\* binding whose expression does not parse ends this before $onInit.
Construct ==
  /\ Constructing /\ Directive(Current).controller
  /\ LET id == Current
         map == [stash EXCEPT ![id[1]] = Extend(@, Directive(id).name, id)]
         required == Required(id, map, attached)
         broken == Directive(id).binds = "broken"
     IN  /\ stash' = map
         /\ results' = IF Requires(id) THEN Extend(results, id, required) ELSE results
         /\ tracked' = [tracked EXCEPT ![id[1]] = Append(@, id)]
         /\ registered' = IF broken THEN registered ELSE registered \cup {id}
         /\ log' = IF broken THEN log ELSE Append(log, <<"init", id>>)
         /\ reported' = reported + (IF Requires(id) /\ required = Undefined THEN 1 ELSE 0)
                                 + (IF broken THEN 1 ELSE 0)
  /\ Following
  /\ UNCHANGED <<linked, attached, given, failures, destroyed>>

\* What the link functions get: what the seam came to, else a search of now.
RequireForLinks ==
  /\ At("controllers") /\ Running.next > Len(Directives[Running.element])
  /\ LET mine == {id \in Ids : id[1] = Running.element /\ Requires(id)}
         found == [id \in mine |-> IF id \in DOMAIN results THEN results[id]
                                   ELSE Required(id, stash, attached)]
     IN  /\ given' = [id \in DOMAIN given \cup mine |-> IF id \in mine THEN found[id] ELSE given[id]]
         /\ reported' = reported + Cardinality({id \in mine \ DOMAIN results : found[id] = Undefined})
  /\ Becomes("children")
  /\ UNCHANGED <<linked, attached, stash, results, tracked, registered, log, failures, destroyed>>

NextChild ==
  /\ At("children") /\ Running.next <= Len(Children(Running.element))
  /\ todo' = <<Frame(Children(Running.element)[Running.next]), [Running EXCEPT !.next = @ + 1]>> \o Tail(todo)
  /\ UNCHANGED <<linked, attached, stash, results, given, tracked, registered, log, reported,
                 failures, destroyed>>

ChildrenDone ==
  /\ At("children") /\ Running.next > Len(Children(Running.element))
  /\ Becomes("postLink")
  /\ UNCHANGED <<linked, attached, stash, results, given, tracked, registered, log, reported,
                 failures, destroyed>>

\* $postLink of every tracked instance, and the clone is put in its place.
PostLink ==
  /\ At("postLink")
  /\ LET e == Running.element
     IN  /\ log' = log \o [k \in DOMAIN tracked[e] |-> <<"postLink", tracked[e][k]>>]
         /\ linked' = linked \cup {e}
         /\ attached' = IF e \in Mounted THEN attached \cup {e} ELSE attached
  /\ todo' = Tail(todo)
  /\ UNCHANGED <<stash, results, given, tracked, registered, reported, failures, destroyed>>

-----------------------------------------------------------------------------
(* Digests mount content and take it down                                   *)

Gone(e) == \E a \in Range(<<e>> \o Ancestors[e]) : a \in destroyed

Mount(e) ==
  /\ todo = <<>> /\ e \in Mounted \ linked /\ Ancestors[e][1] \in linked /\ ~Gone(e)
  /\ todo' = <<Frame(e)>>
  /\ UNCHANGED <<linked, attached, stash, results, given, tracked, registered, log, reported,
                 failures, destroyed>>

\* A mistake the properties rule out: what was destroyed before is told again.
DestroyAllBelow(e) ==
  /\ todo = <<>> /\ e \in linked /\ ~Gone(e)
  /\ destroyed' = destroyed \cup {e}
  /\ LET gone == SelectSeq(Order, LAMBDA c : e \in Range(<<c>> \o Ancestors[c]))
     IN  log' = log \o FlattenSeq([k \in DOMAIN gone |->
                  LET mine == SelectSeq(tracked[gone[k]], LAMBDA id : id \in registered)
                  IN  [l \in DOMAIN mine |-> <<"destroy", mine[l]>>]])
  /\ UNCHANGED <<todo, linked, attached, stash, results, given, tracked, registered, reported, failures>>

\* The scope of an element is destroyed, and with it those of its descendants.
Destroy(e) ==
  /\ todo = <<>> /\ e \in linked /\ ~Gone(e)
  /\ destroyed' = destroyed \cup {e}
  /\ LET gone == SelectSeq(Order, LAMBDA c : ~Gone(c) /\ e \in Range(<<c>> \o Ancestors[c]))
     IN  log' = log \o FlattenSeq([k \in DOMAIN gone |->
                  LET mine == SelectSeq(tracked[gone[k]], LAMBDA id : id \in registered)
                  IN  [l \in DOMAIN mine |-> <<"destroy", mine[l]>>]])
  /\ UNCHANGED <<todo, linked, attached, stash, results, given, tracked, registered, reported, failures>>

Next ==
  \/ NoController \/ ConstructFails \/ Construct \/ RequireForLinks \/ NextChild \/ ChildrenDone \/ PostLink
  \/ \E e \in Elements : Mount(e) \/ Destroy(e)

-----------------------------------------------------------------------------
(* Properties                                                              *)

\* A linked directive was given, for each requirement, the controller nearest
\* by the documented search of the document as it now is: its own element's,
\* or those of its ancestors too.
RequiredFound ==
  \A id \in DOMAIN given :
    id[1] \in linked /\ (Range(Ancestors[id[1]]) \cap Mounted) \subseteq attached =>
      given[id] = Required(id, stash, attached)

\* Every instance lives through $onInit, $postLink and $onDestroy once and in
\* this order, inside those of the controllers above it, and has no hook called
\* without the ones before.
Times(hook, id) == Cardinality({k \in DOMAIN log : log[k] = <<hook, id>>})
When(hook, id) == CHOOSE k \in DOMAIN log : log[k] = <<hook, id>>
HooksInOrder ==
  \A id \in Ids :
    /\ Times("init", id) <= 1 /\ Times("postLink", id) <= Times("init", id)
    /\ Times("destroy", id) <= Times("init", id)
    /\ Times("postLink", id) = 1 => When("init", id) < When("postLink", id)
    /\ Times("destroy", id) = 1 => Times("postLink", id) = 1 /\ When("postLink", id) < When("destroy", id)
    /\ \A up \in Ids : up[1] \in Range(Ancestors[id[1]]) /\ Times("init", id) = 1 /\ Times("init", up) = 1 =>
         /\ When("init", up) < When("init", id)
         /\ Times("postLink", up) = 1 /\ Mounted \cap Range(<<id[1]>> \o Ancestors[id[1]]) = {} =>
              When("postLink", id) < When("postLink", up)
=============================================================================
