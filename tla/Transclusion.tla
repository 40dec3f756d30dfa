---------------------------- MODULE Transclusion ----------------------------
(***************************************************************************)
(* A host element that transcludes its content, by default or in slots: the  *)
(* $transclude function, the ngTransclude elements that call it, and          *)
(* destroyElementScope, which takes the subtree down element by element and   *)
(* runs the clean-ups registered on each, application code among them.       *)
(***************************************************************************)
EXTENDS Naturals, Sequences, FiniteSets, SequencesExt

CONSTANTS
  Hosts,         \* records [kind, declared, filled, required]: "content" or
                 \* "slots", and which slots exist, have content, must have it
  Places,        \* the ngTransclude elements: functions to the slot each names
  Default,       \* the slot no name is given for
  Cleanups,      \* what a clean-up of application code may do: "plain", "adds"
                 \* another one, "throws", "removes" its element, "again" calls
                 \* destroyElementScope for it
  MaxClones,     \* bound: transclusion scopes made
  MaxCleanups    \* bound: clean-ups of application code

VARIABLES
  host, places,  \* which of Hosts and of Places
  kids,          \* the child elements of each element
  scopeOf,       \* the scope in $$ngScope of an element, or {}
  queue,         \* $$ngCleanupQueue of each element: [does, id]
  alive,         \* scopes not destroyed: Outer, the host's and those of clones
  unlinked,      \* places not linked yet
  made, added,   \* counters
  errors,        \* misuses reported
  walk,          \* activations of destroyElementScope, the innermost first
  ran,           \* clean-ups of application code that ran, in order
  over           \* the host has been taken down

transclusionVars == <<host, places, kids, scopeOf, queue, alive, unlinked, made, added,
                      errors, walk, ran, over>>

Fallback(p) == <<"fallback", p>>
CloneNode(k) == <<"clone", k>>
Place(p) == <<"place", p>>
Top == <<"host", 0>>
Outer == <<"outer", 0>>
Elements == {Top} \cup {Place(p) : p \in DOMAIN places} \cup {Fallback(p) : p \in DOMAIN places}
              \cup {CloneNode(k) : k \in 1 .. MaxClones}
Idle == walk = <<>>

Init ==
  /\ host \in Hosts /\ places \in Places
  /\ kids = [e \in Elements |->
       CASE e = Top -> [p \in DOMAIN places |-> Place(p)]
         [] e[1] = "place" -> <<Fallback(e[2])>>
         [] OTHER -> <<>>]
  /\ scopeOf = [e \in Elements |-> IF e = Top THEN {Top} ELSE {}]
  /\ queue = [e \in Elements |-> <<>>]
  /\ alive = {Outer, Top} /\ unlinked = DOMAIN places
  /\ made = 0 /\ added = 0 /\ errors = 0 /\ walk = <<>> /\ ran = <<>> /\ over = FALSE

-----------------------------------------------------------------------------
(* $transclude                                                             *)

Misused(slot) ==
  slot # Default /\ (host.kind = "content" \/ slot \notin host.declared \/ slot \in host.required \ host.filled)
HasContent(slot) == slot \in host.filled

\* A scope below the outer one, destroyed with the host; a clone if there is
\* content, linked and given to the caller, who puts it under element at.
Transcluded(slot, at, list) ==
  /\ made < MaxClones
  /\ made' = made + 1
  /\ alive' = alive \cup {CloneNode(made + 1)}
  /\ queue' = [queue EXCEPT ![Top] = Append(@, [does |-> "scope", id |-> made + 1])]
  /\ kids' = IF HasContent(slot) THEN [kids EXCEPT ![at] = list \o <<CloneNode(made + 1)>>] ELSE kids
  /\ UNCHANGED <<scopeOf, errors>>
Reported == errors' = errors + 1 /\ UNCHANGED <<kids, scopeOf, queue, alive, made>>

\* A directive of the host calls $transclude and appends the clone.
Transclude(slot) ==
  /\ Idle /\ ~over /\ errors < 1
  /\ IF Misused(slot) THEN Reported ELSE Transcluded(slot, Top, kids[Top])
  /\ UNCHANGED <<host, places, unlinked, added, walk, ran, over>>

\* ngTransclude: the clone replaces what the element has, its fallback content;
\* with no content that stays.
LinkPlace(p) ==
  /\ Idle /\ ~over /\ p \in unlinked
  /\ unlinked' = unlinked \ {p}
  /\ IF Misused(places[p]) THEN Reported ELSE Transcluded(places[p], Place(p), <<>>)
  /\ UNCHANGED <<host, places, added, walk, ran, over>>

\* addElementCleanup by application code.
AddCleanup(e, does) ==
  /\ Idle /\ ~over /\ added < MaxCleanups
  /\ \E f \in Elements : e \in Range(kids[f]) \cup {Top}
  /\ added' = added + 1
  /\ queue' = [queue EXCEPT ![e] = Append(@, [does |-> does, id |-> added + 1])]
  /\ UNCHANGED <<host, places, kids, scopeOf, alive, unlinked, made, errors, walk, ran, over>>

\* The outer scope goes, and with it every scope below it.
DestroyOuter ==
  /\ Idle /\ Outer \in alive
  /\ alive' = {} /\ over' = TRUE
  /\ UNCHANGED <<host, places, kids, scopeOf, queue, unlinked, made, added, errors, walk, ran>>

-----------------------------------------------------------------------------
(* destroyElementScope                                                      *)

Enter(e) == [element |-> e, count |-> Len(kids[e]), next |-> 1, task |-> 0, failed |-> FALSE]
Walking == Head(walk)
With(f) == <<f>> \o Tail(walk)
Pending == queue[Walking.element]

TakeDown ==
  /\ Idle /\ ~over
  /\ walk' = <<Enter(Top)>> /\ over' = TRUE
  /\ UNCHANGED <<host, places, kids, scopeOf, queue, alive, unlinked, made, added, errors, ran>>

\* The children, as many as there were: the collection is live.
Child ==
  /\ ~Idle /\ Walking.next <= Walking.count
  /\ LET rest == With([Walking EXCEPT !.next = @ + 1])
         list == kids[Walking.element]
     IN  walk' = IF Walking.next \in DOMAIN list THEN <<Enter(list[Walking.next])>> \o rest ELSE rest
  /\ UNCHANGED <<host, places, kids, scopeOf, queue, alive, unlinked, made, added, errors, ran, over>>

\* The clean-ups, in order, those added meanwhile included; a throw is kept.
\* "again" enters the element once more, whose queue is still there.
Cleanup ==
  /\ ~Idle /\ Walking.next > Walking.count /\ Walking.task < Len(Pending)
  /\ LET task == Pending[Walking.task + 1]
         e == Walking.element
         rest == With([Walking EXCEPT !.task = @ + 1, !.failed = @ \/ task.does = "throws"])
     IN  /\ alive' = IF task.does = "scope" THEN alive \ {CloneNode(task.id)} ELSE alive
         /\ ran' = IF task.does = "scope" THEN ran ELSE Append(ran, task.id)
         /\ IF task.does = "adds" /\ added < MaxCleanups
            THEN /\ added' = added + 1
                 /\ queue' = [queue EXCEPT ![e] = Append(@, [does |-> "plain", id |-> added + 1])]
            ELSE UNCHANGED <<added, queue>>
         /\ kids' = IF task.does = "removes"
                    THEN [f \in Elements |-> SelectSeq(kids[f], LAMBDA k : k # e)] ELSE kids
         /\ walk' = IF task.does = "again" /\ Len(ran) < MaxCleanups + 2
                    THEN <<Enter(e)>> \o rest ELSE rest
  /\ UNCHANGED <<host, places, scopeOf, unlinked, made, errors, over>>

\* Then the element's scope, and both slots are cleared.  A failure is thrown to
\* the caller, and ends the walk: nobody on the way up catches it.
Leave ==
  /\ ~Idle /\ Walking.next > Walking.count /\ Walking.task >= Len(Pending)
  /\ alive' = alive \ scopeOf[Walking.element]
  /\ queue' = [queue EXCEPT ![Walking.element] = <<>>]
  /\ scopeOf' = [scopeOf EXCEPT ![Walking.element] = {}]
  /\ walk' = IF Walking.failed THEN <<>> ELSE Tail(walk)
  /\ UNCHANGED <<host, places, kids, unlinked, made, added, errors, ran, over>>

Next ==
  \/ \E slot \in host.declared \cup {Default, "other"} : Transclude(slot)
  \/ \E p \in unlinked : LinkPlace(p)
  \/ \E e \in Elements, does \in Cleanups : AddCleanup(e, does)
  \/ DestroyOuter \/ TakeDown \/ Child \/ Cleanup \/ Leave

-----------------------------------------------------------------------------
(* Properties                                                              *)

\* When the host is taken down nothing of it is left: every clean-up registered
\* in its subtree has run, and no scope of it or of a clone is alive.  Only those
\* of fallback content that a clone replaced never run: ngTransclude removes the
\* nodes without destroying them.
Discarded == {task.id : task \in UNION {Range(queue[Fallback(p)]) : p \in
                {q \in DOMAIN places : kids[Place(q)] # <<Fallback(q)>>}}}
TakenDown ==
  Idle /\ over =>
    /\ alive \subseteq {Outer}
    /\ Outer \in alive => Range(ran) = 1 .. added \ Discarded
RunsOnce == IsInjective(ran)

\* A place shows a clone of what its slot holds, or its fallback content, and a
\* misuse of a slot makes no scope.
PlacesFilled ==
  ~over => \A p \in DOMAIN places \ unlinked :
    IF ~Misused(places[p]) /\ HasContent(places[p])
    THEN \E k \in 1 .. made : kids[Place(p)] = <<CloneNode(k)>> /\ CloneNode(k) \in alive
    ELSE kids[Place(p)] = <<Fallback(p)>>
OneScopeEach == ~over => alive = {Outer, Top} \cup {CloneNode(k) : k \in 1 .. made}
=============================================================================
