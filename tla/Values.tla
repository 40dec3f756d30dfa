------------------------------- MODULE Values -------------------------------
(***************************************************************************)
(* Watching by value: $watch(..., true) compares what it finds with the       *)
(* snapshot it took, by isEqual, and takes another with structuredClone; copy  *)
(* is the deep copy of the library itself.  The objects of a heap may be       *)
(* shared, or lead back to themselves.                                       *)
(***************************************************************************)
EXTENDS Integers, Sequences, FiniteSets, SequencesExt

CONSTANTS
  Objects,       \* references, each of a kind
  Kind,          \* a function: "array", "object", "date" or "map"
  Keys,          \* property names, in the order an object has them
  Hidden,        \* of Keys, those that begin with $
  Leaves,        \* what is not an object, Undefined among it
  Functions,     \* those of Leaves that are functions
  Undefined,
  Starts,        \* heaps to begin with
  Root,          \* the watched value
  Deepest,       \* the call stack: pairs compared inside one another
  MaxWrites      \* bound: assignments

VARIABLES
  heap,          \* the properties of each object, a function from names
  last,          \* watcher.last, which the listener was called for: a heap of its own
  settled,       \* nothing was written since the last digest
  reports,       \* errors of that digest
  writes

valueVars == <<heap, last, settled, reports, writes>>

IsRef(v) == v \in Objects
IsFunction(v) == v \in Functions
InOrder(names) == SelectSeq(Keys, LAMBDA k : k \in names)
Children(r, h) == [k \in DOMAIN InOrder(DOMAIN h[r]) |-> h[r][InOrder(DOMAIN h[r])[k]]]

Init ==
  /\ heap \in Starts
  /\ last = Undefined /\ settled = FALSE /\ reports = 0
  /\ writes = 0

-----------------------------------------------------------------------------
(* isEqual                                                                 *)

\* The keys that count: no $-names, functions or undefined values.
Counted(r, h) == {k \in DOMAIN h[r] : k \notin Hidden /\ ~IsFunction(h[r][k]) /\ h[r][k] # Undefined}

\* Answers in turn: the first that is not yes is the answer.
InTurn(answers) ==
  LET ends == SelectSeq(answers, LAMBDA a : a # "yes") IN IF ends = <<>> THEN "yes" ELSE Head(ends)

RECURSIVE Equal(_, _, _, _, _)
Equal(a, ha, b, hb, depth) ==
  IF ~IsRef(a) \/ ~IsRef(b) THEN IF a = b THEN "yes" ELSE "no"
  ELSE IF a = b /\ ha = hb THEN "yes"
  ELSE IF depth = 0 THEN "exhausted"
  ELSE LET Under(names) == InTurn([k \in DOMAIN InOrder(names) |->
             LET key == InOrder(names)[k]
             IN  IF key \notin DOMAIN hb[b] THEN "no"
                 ELSE Equal(ha[a][key], ha, hb[b][key], hb, depth - 1)])
           kinds == {Kind[a], Kind[b]}
       IN  CASE "date" \in kinds -> IF kinds = {"date"} /\ ha[a] = hb[b] THEN "yes" ELSE "no"
             [] kinds = {"array"} -> IF DOMAIN ha[a] # DOMAIN hb[b] THEN "no" ELSE Under(DOMAIN ha[a])
             [] "array" \in kinds /\ kinds # {"array"} -> "no"
             \* what a Map holds is not in its properties
             [] kinds = {"map"} -> "yes"
             [] OTHER ->
                  LET mine == IF Kind[a] = "map" THEN {} ELSE Counted(a, ha)
                      theirs == IF Kind[b] = "map" THEN {} ELSE Counted(b, hb)
                  IN  IF Cardinality(mine) # Cardinality(theirs) THEN "no" ELSE Under(mine)

RECURSIVE Reached(_, _)
Reached(found, h) ==
  LET next == found \cup {v \in UNION {Range(Children(r, h)) : r \in found} : IsRef(v)}
  IN  IF next = found THEN found ELSE Reached(next, h)
Parts(h) == UNION {Range(Children(r, h)) : r \in Reached({Root}, h)}

-----------------------------------------------------------------------------
(* The watch, in one digest                                                 *)

Digest ==
  /\ ~settled /\ settled' = TRUE
  /\ LET answer == IF last = Undefined THEN "no" ELSE Equal(Root, heap, Root, last, Deepest)
         clonable == \A v \in Parts(heap) : ~IsFunction(v)
     IN  \/ /\ answer = "no" /\ clonable
            /\ last' = heap /\ reports' = 0
         \/ /\ answer = "yes" /\ reports' = 0 /\ UNCHANGED last
         \* DataCloneError, or RangeError: reported, and nothing is remembered
         \/ /\ answer = "exhausted" \/ (answer = "no" /\ ~clonable)
            /\ reports' = 1 /\ UNCHANGED last
  /\ UNCHANGED <<heap, writes>>

-----------------------------------------------------------------------------
(* copy                                                                    *)

\* Every object that was met once is taken for a circle when it is met again.
Refused == {"refused"}
RECURSIVE CopyRecursive(_, _, _)
CopyRecursive(v, h, visited) ==
  IF ~IsRef(v) \/ visited = Refused THEN visited
  ELSE IF Kind[v] = "date" THEN visited
  ELSE IF v \in visited THEN Refused
  ELSE FoldLeft(LAMBDA met, child : CopyRecursive(child, h, met), visited \cup {v},
                IF Kind[v] = "map" THEN <<>> ELSE Children(v, h))

CopyRefuses == CopyRecursive(Root, heap, {}) = Refused

-----------------------------------------------------------------------------
(* The application                                                         *)

\* An array has its first keys, and no hole.
Fits(r, key) == Kind[r] = "array" => {Keys[k] : k \in 1 .. IndexFirstSubSeq(<<key>>, Keys) - 1} \subseteq DOMAIN heap[r]
Write(r, key, v) ==
  /\ writes < MaxWrites /\ Fits(r, key)
  /\ Kind[r] = "date" => ~IsRef(v) /\ key = Head(Keys)
  /\ key \in DOMAIN heap[r] => heap[r][key] # v
  /\ heap' = [heap EXCEPT ![r] = [k \in DOMAIN @ \cup {key} |-> IF k = key THEN v ELSE heap[r][k]]]
  /\ writes' = writes + 1 /\ settled' = FALSE
  /\ UNCHANGED <<last, reports>>

Next ==
  \/ Digest
  \/ \E r \in Reached({Root}, heap), key \in Range(Keys), v \in Objects \cup Leaves : Write(r, key, v)

-----------------------------------------------------------------------------
(* Properties                                                              *)

\* The content of the watched value: where which leaf is, whatever objects hold
\* it; names that begin with $, functions and undefined values do not count.
Plain(r, h) == IF Kind[r] = "object" THEN Counted(r, h) ELSE DOMAIN h[r]
RECURSIVE Content(_, _, _)
Content(v, h, depth) ==
  IF ~IsRef(v) THEN {<<<<>>, v>>}
  ELSE IF depth = 0 THEN {}
  ELSE {<<<<>>, Kind[v]>>} \cup
       UNION {{<<<<k>> \o c[1], c[2]>> : c \in Content(h[v][k], h, depth - 1)} : k \in Plain(v, h)}
Cyclic(h) ==
  \E r \in Reached({Root}, h) : r \in Reached({v \in Range(Children(r, h)) : IsRef(v)}, h)

\* After a digest that reported nothing the listener has been told of what the
\* watched value holds now, however deep the change, and whichever object was
\* replaced by another with the same content.
ChangesHeard ==
  settled /\ reports = 0 =>
    Content(Root, heap, Cardinality(Objects) + 1) = Content(Root, last, Cardinality(Objects) + 1)

\* A digest reports an error only for what cannot be compared or cloned.
PlainIsWatched == settled /\ reports > 0 => Cyclic(heap) \/ \E v \in Parts(heap) : IsFunction(v)

\* copy refuses a circle, and nothing else.
CopyRefusesCircles == CopyRefuses => Cyclic(heap)
=============================================================================
