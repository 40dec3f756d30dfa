----------------------------- MODULE Structural -----------------------------
(***************************************************************************)
(* ngRepeat, ngIf and ngSwitch: directives that put clones of a captured    *)
(* element, or of a range of elements, behind a placeholder, each with a    *)
(* scope of its own.  One of the three stands on its own here; an element   *)
(* inside the range may have an ngIf of its own.                            *)
(*                                                                         *)
(* A row is [id, key, value, place, index, total]: its scope and nodes, what *)
(* it shows and its locals.  ngIf has one row while its expression is truthy, *)
(* ngSwitch one for each case that matches.                                 *)
(***************************************************************************)
EXTENDS Naturals, Sequences, FiniteSets, SequencesExt

CONSTANTS
  Items,         \* what a collection may contain: records [key, value]
  MaxRows,       \* bound: items of a collection
  Cases,         \* the key of each case of the ngSwitch, a sequence
  Default,       \* the key of ngSwitchDefault
  Shapes,        \* ranges: sequences of "element" and "if", the latter the
                 \* placeholder of an ngIf inside the range
  InLink,        \* code in a row may destroy the surrounding scope while it links
  MaxIds         \* bound: clones made

VARIABLES
  kind, shape,   \* the directive, and its captured range
  dom,           \* the nodes of the parent element
  rows,          \* currentRows, the selected cases or the clone of ngIf
  alive,         \* scopes of rows that are not destroyed
  shown,         \* inner ngIfs that show their clone: sets of <<id, part>>
  outer,         \* the surrounding scope is not destroyed
  made,          \* clones made
  call,          \* the watch listener in progress, or <<>>
  wanted         \* history: the items last asked for

structuralVars == <<kind, shape, dom, rows, alive, shown, outer, made, call, wanted>>

Place(p) == <<"place", p>>
Part(id, k) == <<"part", id, k>>
Inner(id, k) == <<"inner", id, k>>
NodesOf(id) == [k \in DOMAIN shape |-> Part(id, k)]
IdsOf(list) == {list[k].id : k \in DOMAIN list}
Places == IF kind = "switch" THEN DOMAIN Cases ELSE {1}

Init ==
  /\ kind \in {"repeat", "if", "switch"} /\ shape \in Shapes
  /\ dom = [p \in Places |-> Place(p)]
  /\ rows = <<>> /\ alive = {} /\ shown = {} /\ outer = TRUE /\ made = 0
  /\ call = <<>> /\ wanted = <<>>

\* insertBefore(node, anchor.nextSibling): at the end if the anchor is not here.
Without(list, nodes) == SelectSeq(list, LAMBDA n : n \notin nodes)
InsertAfter(list, anchor, nodes) ==
  LET rest == Without(list, Range(nodes))
      at == IF anchor \in Range(rest) THEN CHOOSE k \in DOMAIN rest : rest[k] = anchor ELSE Len(rest)
  IN  SubSeq(rest, 1, at) \o nodes \o SubSeq(rest, at + 1, Len(rest))

\* The nodes a row holds leave; its scope and the scopes below it are destroyed.
Removed(ids) == Without(dom, UNION {Range(NodesOf(id)) : id \in ids})

-----------------------------------------------------------------------------
(* The watch listeners                                                      *)

Idle == call = <<>>
Collections == BoundedSeq(Items, MaxRows)
Distinct(list) == Cardinality({list[k].key : k \in DOMAIN list}) = Len(list)
Listener(todo) ==
  [todo |-> todo, total |-> Len(todo), anchor |-> Place(1), next |-> <<>>, linking |-> FALSE,
   before |-> {[key |-> rows[k].key, id |-> rows[k].id] : k \in DOMAIN rows}]

\* tearDownAllRows, and clearSelected
TearDown(list) ==
  /\ alive' = alive \ IdsOf(list)
  /\ dom' = Removed(IdsOf(list))
  /\ rows' = <<>>

\* ngRepeat: no collection, two items with one key, or a track by that throws.
NoRows ==
  /\ Idle /\ outer /\ kind = "repeat"
  /\ TearDown(rows) /\ wanted' = <<>>
  /\ UNCHANGED <<kind, shape, shown, outer, made, call>>

Reconcile(items) ==
  /\ Idle /\ outer /\ kind = "repeat" /\ items # wanted /\ Distinct(items)
  /\ call' = Listener([k \in DOMAIN items |-> [key |-> items[k].key, value |-> items[k].value, place |-> 1]])
  /\ wanted' = items
  /\ UNCHANGED <<kind, shape, dom, rows, alive, shown, outer, made>>

\* ngSwitch clears what was selected and shows each case of the value, or each
\* default.
Matching(key) == SelectSeq([p \in DOMAIN Cases |-> p], LAMBDA p : Cases[p] = key)
Switch(key) ==
  /\ Idle /\ outer /\ kind = "switch"
  /\ LET cases == IF Matching(key) = <<>> THEN Matching(Default) ELSE Matching(key)
     IN  /\ TearDown(rows)
         /\ wanted' = [k \in DOMAIN cases |-> [key |-> Cases[cases[k]], value |-> Default]]
         /\ call' = Listener([k \in DOMAIN cases |-> [key |-> Cases[cases[k]], value |-> Default, place |-> cases[k]]])
  /\ UNCHANGED <<kind, shape, shown, outer, made>>

IfTruthy(item) ==
  /\ Idle /\ outer /\ kind = "if" /\ rows = <<>>
  /\ wanted' = <<item>>
  /\ call' = Listener(<<[key |-> item.key, value |-> item.value, place |-> 1]>>)
  /\ UNCHANGED <<kind, shape, dom, rows, alive, shown, outer, made>>

IfFalsy ==
  /\ Idle /\ outer /\ kind = "if" /\ rows # <<>>
  /\ TearDown(rows) /\ wanted' = <<>>
  /\ UNCHANGED <<kind, shape, shown, outer, made, call>>

-----------------------------------------------------------------------------
(* One item of the listener at a time                                       *)

Working == call # <<>> /\ call.todo # <<>> /\ ~call.linking
Item == Head(call.todo)
Position == call.total - Len(call.todo)
Row(id) == [id |-> id, key |-> Item.key, value |-> Item.value, place |-> Item.place,
            index |-> Position, total |-> call.total]
Existing == IF kind = "repeat" THEN {k \in DOMAIN rows : rows[k].key = Item.key} ELSE {}
Anchor == IF kind = "repeat" THEN call.anchor ELSE Place(Item.place)

\* A mistake the properties rule out: the next row is anchored at the first node
\* of this one's range.
ReuseByFirstNode ==
  /\ Working
  /\ \E k \in Existing :
       /\ rows' = RemoveAt(rows, k)
       /\ dom' = InsertAfter(dom, call.anchor, NodesOf(rows[k].id))
       /\ call' = [call EXCEPT !.todo = Tail(@), !.anchor = Head(NodesOf(rows[k].id)),
                               !.next = Append(@, Row(rows[k].id))]
  /\ UNCHANGED <<kind, shape, alive, shown, outer, made, wanted>>

\* A row whose key was there moves its nodes behind the row before it.
Reuse ==
  /\ Working
  /\ \E k \in Existing :
       /\ rows' = RemoveAt(rows, k)
       /\ dom' = InsertAfter(dom, call.anchor, NodesOf(rows[k].id))
       /\ call' = [call EXCEPT !.todo = Tail(@), !.anchor = Last(NodesOf(rows[k].id)),
                               !.next = Append(@, Row(rows[k].id))]
  /\ UNCHANGED <<kind, shape, alive, shown, outer, made, wanted>>

\* $transclude: a scope, a clone, and linking it, which calls application code.
Clone ==
  /\ Working /\ Existing = {} /\ made < MaxIds
  /\ made' = made + 1
  /\ alive' = alive \cup {made + 1}
  /\ call' = [call EXCEPT !.linking = TRUE]
  /\ UNCHANGED <<kind, shape, dom, rows, shown, outer, wanted>>

\* The clone is attached when its linking has ended, by a throw or not.
Attach ==
  /\ call # <<>> /\ call.linking
  /\ dom' = InsertAfter(dom, Anchor, NodesOf(made))
  /\ call' = [call EXCEPT !.todo = Tail(@), !.linking = FALSE, !.anchor = Last(NodesOf(made)),
                          !.next = IF kind = "repeat" THEN Append(@, Row(made)) ELSE @]
  /\ rows' = IF kind = "repeat" THEN rows ELSE Append(rows, Row(made))
  /\ UNCHANGED <<kind, shape, alive, shown, outer, made, wanted>>

\* The rows nobody took over leave.
Finish ==
  /\ call # <<>> /\ call.todo = <<>>
  /\ IF kind = "repeat"
     THEN /\ alive' = alive \ IdsOf(rows) /\ dom' = Removed(IdsOf(rows))
          /\ rows' = call.next
     ELSE UNCHANGED <<dom, rows, alive>>
  /\ call' = <<>>
  /\ UNCHANGED <<kind, shape, shown, outer, made, wanted>>

-----------------------------------------------------------------------------
(* Around the listeners                                                     *)

\* The surrounding scope is destroyed, and with it every scope below it; ngRepeat
\* and ngSwitch listen and take their nodes away, ngIf leaves that to its owner.
Destroy ==
  /\ outer /\ (Idle \/ (InLink /\ call.linking))
  /\ outer' = FALSE
  /\ alive' = {}
  /\ IF kind = "if" THEN UNCHANGED <<dom, rows>>
     ELSE dom' = Removed(IdsOf(rows)) /\ rows' = <<>>
  /\ UNCHANGED <<kind, shape, shown, made, call, wanted>>

\* The watch of an ngIf inside a row, between two listeners.
InnerTruthy(id, k) ==
  /\ Idle /\ id \in alive /\ shape[k] = "if" /\ <<id, k>> \notin shown
  /\ shown' = shown \cup {<<id, k>>}
  /\ dom' = InsertAfter(dom, Part(id, k), <<Inner(id, k)>>)
  /\ UNCHANGED <<kind, shape, rows, alive, outer, made, call, wanted>>

InnerFalsy(id, k) ==
  /\ Idle /\ id \in alive /\ <<id, k>> \in shown
  /\ shown' = shown \ {<<id, k>>}
  /\ dom' = Without(dom, {Inner(id, k)})
  /\ UNCHANGED <<kind, shape, rows, alive, outer, made, call, wanted>>

Next ==
  \/ NoRows
  \/ \E items \in Collections : Reconcile(items)
  \/ \E key \in Range(Cases) : Switch(key)
  \/ \E item \in Items : IfTruthy(item)
  \/ IfFalsy
  \/ Reuse \/ Clone \/ Attach \/ Finish
  \/ Destroy
  \/ \E id \in alive : \E k \in DOMAIN shape : InnerTruthy(id, k) \/ InnerFalsy(id, k)

-----------------------------------------------------------------------------
(* Properties                                                              *)

TypeOK ==
  /\ alive \subseteq 1 .. made /\ made <= MaxIds /\ outer \in BOOLEAN
  /\ IdsOf(rows) \subseteq 1 .. made /\ shown \subseteq (1 .. made) \X DOMAIN shape
  /\ IsInjective(dom)

\* What the parent element should contain: each placeholder, then its rows in
\* order, an inner ngIf's clone right behind its placeholder.
Layout(id) ==
  FlattenSeq([k \in DOMAIN shape |->
    <<Part(id, k)>> \o (IF <<id, k>> \in shown THEN <<Inner(id, k)>> ELSE <<>>)])
Expected ==
  FlattenSeq([p \in Places |->
    <<Place(p)>> \o FlattenSeq([k \in DOMAIN rows |-> IF rows[k].place = p THEN Layout(rows[k].id) ELSE <<>>])])
InnerNodes == {Inner(id, k) : id \in 1 .. made, k \in DOMAIN shape}

\* A row with a live scope of its own for each item, in order, with its locals.
RowsAsAsked ==
  /\ alive = IdsOf(rows)
  /\ Len(rows) = Len(wanted)
  /\ \A k \in DOMAIN rows :
       /\ rows[k].key = wanted[k].key /\ rows[k].value = wanted[k].value
       /\ rows[k].index = k - 1 /\ rows[k].total = Len(wanted)

\* Between two listeners the document shows what was asked for last, in its
\* order, with the locals that go with it and a live scope for each row; rows
\* that left have taken their nodes and scopes with them.
RowsShown ==
  Idle /\ outer =>
    /\ Without(dom, InnerNodes) = Without(Expected, InnerNodes)
    /\ RowsAsAsked

\* A range moves and leaves as a unit, with what an ngIf inside it shows.
RangeWhole == Idle /\ outer => dom = Expected

\* A row lives as long as its key is in the collection.
RowsKept ==
  [][Finish /\ kind = "repeat" =>
       \A b \in call.before : \A k \in DOMAIN rows' :
         rows'[k].key = b.key => rows'[k].id = b.id]_structuralVars

\* Once the surrounding scope is destroyed and calls have returned, no scope is
\* left, and no node of a row of ngRepeat or ngSwitch.
NothingLeft ==
  Idle /\ ~outer => alive = {} /\ (kind # "if" => \A n \in Range(dom) : n[1] # "part")
=============================================================================
