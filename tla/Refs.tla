-------------------------------- MODULE Refs --------------------------------
(***************************************************************************)
(* ngRef: an element, or a controller on it, published on the scope around   *)
(* it while the element lives.  Rows and branches have scopes of their own   *)
(* below the outer one, whose properties they inherit, so that a plain name  *)
(* is published on the row and a path through an inherited object is shared. *)
(***************************************************************************)
EXTENDS Naturals, Sequences, FiniteSets

CONSTANTS
  Markup,        \* elements: [path, inRow, isolate, read, controllers]; path is
                 \* plain, dotted, bad or empty, read "" or as ng-ref-read says,
                 \* tag the controller name its tag stands for
  MaxElements    \* bound: elements linked

VARIABLES
  elements,      \* linked so far: [spec, value, published, alive]
  object,        \* scope -> the object its own property on the path holds, or 0
  objects,       \* counter of those objects
  slots,         \* what the name holds: <<"scope", s>> or <<"object", o>> -> value
  reports        \* counter: errors told to $exceptionHandler

refVars == <<elements, object, objects, slots, reports>>

Outer  == 0
RowScopes == Outer .. MaxElements
Primitive == 99     \* on the path, something that is no object
Nobody == <<0, "null">>
Holders == {<<"scope", s>> : s \in RowScopes} \cup {<<"object", o>> : o \in 1 .. 2 * MaxElements + 2}

Init ==
  /\ elements = <<>> /\ object = [s \in RowScopes |-> 0] /\ objects = 0
  /\ slots = [h \in Holders |-> Nobody] /\ reports = 0

\* The scope the value is published on: around an isolate scope, not in it.
PublishScope(i, spec) == IF spec.inRow THEN i ELSE Outer

\* A property is looked up along the scopes.
Visible(s) == IF object[s] # 0 THEN object[s] ELSE object[Outer]
Holder(i, spec) ==
  LET s == PublishScope(i, spec)
  IN  IF spec.path = "plain" THEN <<"scope", s>> ELSE <<"object", Visible(s)>>

-----------------------------------------------------------------------------
(* Linking                                                                  *)

ReadOwnController(spec, name) == name \in spec.controllers

\* The controller asked for, the one of the tag, or the element itself.
Selected(i, spec) ==
  CASE spec.read = "$element" -> <<i, "element">>
    [] spec.read = ""         -> <<i, IF ReadOwnController(spec, spec.tag) THEN spec.tag ELSE "element">>
    [] OTHER                  -> <<i, spec.read>>

Unusable(spec) ==
  \/ spec.path \in {"bad", "empty"}
  \/ spec.read \notin {"", "$element"} /\ ~ReadOwnController(spec, spec.read)

Linked(spec, i, published) ==
  elements' = Append(elements, [spec |-> spec, value |-> Selected(i, spec),
                                published |-> published, alive |-> TRUE])

\* A bad path, a missing controller or a path through something that is no
\* object is reported, and then nothing follows the scope either.
Report(spec) ==
  /\ Len(elements) < MaxElements
  /\ LET i == Len(elements) + 1
     IN  /\ \/ Unusable(spec)
            \/ spec.path = "dotted" /\ Visible(PublishScope(i, spec)) = Primitive
         /\ Linked(spec, i, FALSE)
  /\ reports' = reports + 1
  /\ UNCHANGED <<object, objects, slots>>

\* The objects on the path are made where there is none.
Publish(spec) ==
  /\ Len(elements) < MaxElements /\ ~Unusable(spec)
  /\ LET i    == Len(elements) + 1
         s    == PublishScope(i, spec)
         make == spec.path = "dotted" /\ Visible(s) = 0
         h    == IF make THEN <<"object", objects + 1>> ELSE Holder(i, spec)
     IN  /\ spec.path = "dotted" => Visible(s) # Primitive
         /\ object' = IF make THEN [object EXCEPT ![s] = objects + 1] ELSE object
         /\ objects' = IF make THEN objects + 1 ELSE objects
         /\ slots' = [slots EXCEPT ![h] = Selected(i, spec)]
         /\ Linked(spec, i, TRUE)
  /\ UNCHANGED reports

\* A mistake the properties rule out: the name is cleared whatever it holds.
DestroyClearsAlways(i) ==
  /\ elements[i].alive
  /\ elements' = [elements EXCEPT ![i].alive = FALSE]
  /\ LET h == Holder(i, elements[i].spec)
     IN  slots' = IF elements[i].published /\ h \in Holders THEN [slots EXCEPT ![h] = Nobody] ELSE slots
  /\ UNCHANGED <<object, objects, reports>>

\* The scope of the element is destroyed: the name is cleared if it still holds
\* what this element published.
Destroy(i) ==
  /\ elements[i].alive
  /\ elements' = [elements EXCEPT ![i].alive = FALSE]
  /\ LET h == Holder(i, elements[i].spec)
     IN  slots' = IF elements[i].published /\ h \in Holders /\ slots[h] = elements[i].value
                  THEN [slots EXCEPT ![h] = Nobody] ELSE slots
  /\ UNCHANGED <<object, objects, reports>>

\* Application code puts a new object, or no object, on the path.
Replace(fresh) ==
  /\ objects <= MaxElements /\ object[Outer] # (IF fresh THEN 0 ELSE Primitive)
  /\ object' = [object EXCEPT ![Outer] = IF fresh THEN objects + 1 ELSE Primitive]
  /\ objects' = IF fresh THEN objects + 1 ELSE objects
  /\ UNCHANGED <<elements, slots, reports>>

Next ==
  \/ \E spec \in Markup : Report(spec) \/ Publish(spec)
  \/ \E i \in DOMAIN elements : Destroy(i)
  \/ \E fresh \in BOOLEAN : Replace(fresh)

-----------------------------------------------------------------------------
(* Properties                                                               *)

\* What a living scope can reach of the names.
Reached(s) == {<<"scope", s>>, <<"scope", Outer>>} \cup ({<<"object", Visible(s)>>} \cap Holders)

\* No name that can still be read leads to an element that is gone.
RefsLive ==
  \A s \in RowScopes : (s = Outer \/ (s \in DOMAIN elements /\ elements[s].alive)) =>
    \A h \in Reached(s) : slots[h] = Nobody \/ elements[slots[h][1]].alive

\* An element that goes clears no reference of another one.
NewerKept ==
  \A i \in DOMAIN elements :
    (elements[i].alive /\ ~elements'[i].alive) =>
      \A h \in Holders : slots'[h] # slots[h] => slots[h][1] = i
RefsKept == [][NewerKept]_refVars
=============================================================================
