--------------------------- MODULE WatchCollection ---------------------------
(***************************************************************************)
(* $watchCollection: a watch function that compares a collection with a     *)
(* snapshot it keeps, writes what differs into the snapshot and counts the  *)
(* differences, so that the ordinary comparison of $digest sees a change;   *)
(* and the listener that is handed a copy of what the collection was when   *)
(* it was last called.                                                      *)
(*                                                                         *)
(* A value is a record: an array of items, an object from keys to items, or *)
(* a single item.                                                           *)
(***************************************************************************)
EXTENDS Naturals, Sequences, FiniteSets, SequencesExt

CONSTANTS
  Items,         \* NaN is one of them: === tells it from itself, isNaN does not
  Undefined,     \* one of Items
  Keys,
  MaxLength      \* bound: items of an array

Array(items) == [kind |-> "array", items |-> items]
Object(f) == [kind |-> "object", items |-> f]
Single(item) == [kind |-> "single", items |-> <<item>>]
Nothing == Single(Undefined)

Arrays == {Array(s) : s \in BoundedSeq(Items, MaxLength)}
Objects == {Object(f) : f \in UNION {[ks -> Items] : ks \in SUBSET Keys}}
Collections == Arrays \cup Objects \cup {Single(i) : i \in Items}

VARIABLES
  value,         \* what the watched expression evaluates to
  old,           \* oldValue, the snapshot
  oldLength,
  due,           \* changeCount differs from what the watcher has last seen
  firstRun,
  veryOld,       \* veryOldValue
  delegate,      \* "plain", "oneTime" or "constant": what the expression is
  detaching,     \* a post-digest task will deregister the watch
  watching,
  seen,          \* history: the collection at the last evaluation
  disturbed      \* history: the last call of the listener threw, or changed
                 \* the collection in place

collectionVars == <<value, old, oldLength, due, firstRun, veryOld, delegate, detaching,
                    watching, seen, disturbed>>

\* The watch is new, so that its first evaluation calls the listener anyway.
Init ==
  /\ value = Nothing /\ old = Nothing /\ oldLength = 0 /\ due = FALSE
  /\ firstRun = TRUE /\ veryOld = Nothing
  /\ delegate \in {"plain", "oneTime", "constant"} /\ detaching = FALSE /\ watching = TRUE
  /\ seen = Nothing /\ disturbed = FALSE

\* Application code assigns the collection, or changes it in place; a constant
\* expression has one value.
Change(v) ==
  /\ ~due /\ v # value /\ (delegate = "constant" => firstRun)
  /\ value' = v
  /\ UNCHANGED <<old, oldLength, due, firstRun, veryOld, delegate, detaching, watching, seen,
                 disturbed>>

-----------------------------------------------------------------------------
(* internalWatchFn: the snapshot, its length and the number of differences  *)

Outcome(snapshot, length, differences) ==
  [old |-> snapshot, length |-> length, differences |-> differences]

\* An array: a snapshot of another kind starts again, its length is set, and
\* each item that differs is written.
CompareArray ==
  LET start == IF old.kind = "array" THEN old.items ELSE <<>>
      items == value.items
      resized == [i \in 1 .. Len(items) |-> IF i <= Len(start) THEN start[i] ELSE Undefined]
      written == {i \in 1 .. Len(items) : items[i] # resized[i]}
  IN  Outcome(Array([i \in 1 .. Len(items) |-> IF i \in written THEN items[i] ELSE resized[i]]),
              oldLength,
              Cardinality(written) + (IF old.kind = "array" THEN 0 ELSE 1)
                                   + (IF Len(items) = Len(start) THEN 0 ELSE 1))

\* A mistake the properties rule out: the keys just added are not counted, so a
\* key that took the place of another is found and the other is not missed.
CompareObjectByLength ==
  LET restart == old.kind # "object"
      start == IF restart THEN <<>> ELSE old.items
      map == value.items
      added == DOMAIN map \ DOMAIN start
      changed == {k \in DOMAIN map \cap DOMAIN start : map[k] # start[k]}
      written == [k \in DOMAIN map \cup DOMAIN start |->
                    IF k \in added \cup changed THEN map[k] ELSE start[k]]
      shrinks == ~restart /\ oldLength > Cardinality(DOMAIN map)
  IN  Outcome(Object(IF shrinks THEN [k \in DOMAIN map |-> written[k]] ELSE written),
              Cardinality(DOMAIN map),
              Cardinality(added) + Cardinality(changed) + (IF restart THEN 1 ELSE 0)
                                 + (IF shrinks THEN 1 ELSE 0))

\* An object: new keys and changed ones are written; only if the snapshot is
\* then the longer one is it searched for keys that are gone.
CompareObject ==
  LET restart == old.kind # "object"
      start == IF restart THEN <<>> ELSE old.items
      length == IF restart THEN 0 ELSE oldLength
      map == value.items
      added == DOMAIN map \ DOMAIN start
      changed == {k \in DOMAIN map \cap DOMAIN start : map[k] # start[k]}
      written == [k \in DOMAIN map \cup DOMAIN start |->
                    IF k \in added \cup changed THEN map[k] ELSE start[k]]
      shrinks == length + Cardinality(added) > Cardinality(DOMAIN map)
  IN  Outcome(Object(IF shrinks THEN [k \in DOMAIN map |-> written[k]] ELSE written),
              Cardinality(DOMAIN map),
              Cardinality(added) + Cardinality(changed) + (IF restart THEN 1 ELSE 0)
                                 + (IF shrinks THEN 1 ELSE 0))

\* Anything else is compared as a whole.
CompareSingle ==
  IF old.kind = "single" /\ value.items[1] = old.items[1]
  THEN Outcome(old, oldLength, 0)
  ELSE Outcome(value, oldLength, 1)

Compared ==
  CASE value.kind = "array" -> CompareArray
    [] value.kind = "object" -> CompareObject
    [] OTHER -> CompareSingle

\* A visit of the digest to the watcher.
Evaluate ==
  /\ watching /\ ~due
  /\ old' = Compared.old /\ oldLength' = Compared.length
  /\ due' = (firstRun \/ Compared.differences > 0)
  /\ seen' = value
  /\ UNCHANGED <<value, firstRun, veryOld, delegate, detaching, watching, disturbed>>

\* What the listener is given as the old value.
Handed == IF firstRun THEN value ELSE veryOld

\* internalListenerFn, when the listener returns, having left the collection alone
\* or changed it in place: only now it is copied.
Listen(v) ==
  /\ due /\ due' = FALSE
  /\ v = value \/ (delegate # "constant" /\ v.kind = value.kind /\ v.kind # "single")
  /\ value' = v /\ veryOld' = v /\ disturbed' = (v # value)
  /\ firstRun' = FALSE
  /\ detaching' = \/ detaching \/ delegate = "constant"
                  \/ delegate = "oneTime" /\ value # Nothing
  /\ UNCHANGED <<old, oldLength, delegate, watching, seen>>

\* It throws: neither the copy nor the end of a one-time or constant watch is reached.
ListenerThrows ==
  /\ due /\ due' = FALSE
  /\ firstRun' = FALSE /\ disturbed' = TRUE
  /\ UNCHANGED <<value, old, oldLength, veryOld, delegate, detaching, watching, seen>>

\* The post-digest task.
Detach ==
  /\ detaching /\ ~due
  /\ watching' = FALSE /\ detaching' = FALSE
  /\ UNCHANGED <<value, old, oldLength, due, firstRun, veryOld, delegate, seen, disturbed>>

Next ==
  \/ \E v \in Collections : Change(v) \/ Listen(v)
  \/ Evaluate
  \/ ListenerThrows
  \/ Detach

-----------------------------------------------------------------------------
(* Properties                                                              *)

TypeOK ==
  /\ {value, old, veryOld, seen} \subseteq Collections
  /\ oldLength \in 0 .. Cardinality(Keys)
  /\ {due, firstRun, detaching, watching, disturbed} \subseteq BOOLEAN
  /\ delegate \in {"plain", "oneTime", "constant"}

\* The listener is due after an evaluation exactly if the collection is not
\* shallowly what it was at the evaluation before, however it changed: items
\* added, gone, exchanged or moved, one key replaced by another, NaN left alone,
\* or a value of another kind.  The snapshot is then a copy of the collection.
ChangeSeen == [][Evaluate => (due' <=> firstRun \/ value # seen)]_collectionVars
SnapshotExact ==
  /\ ~firstRun \/ due => old = seen
  /\ old.kind = "object" => oldLength = Cardinality(DOMAIN old.items)

\* The two copies that are kept apart agree: the old value a listener is about to
\* be given is the collection of the evaluation before, and not what it is now,
\* unless the call before threw or changed the collection in place.
OldHanded ==
  [][Evaluate /\ due' /\ ~firstRun /\ ~disturbed
     => Handed = seen /\ Handed # value]_collectionVars

\* What no run checks: the same for every call.  After a listener that throws the
\* copy is one call too old, and a listener that changes the collection in place
\* is called again with twice the same.
OldAlwaysHanded ==
  [][Evaluate /\ due' /\ ~firstRun => Handed = seen /\ Handed # value]_collectionVars
=============================================================================
