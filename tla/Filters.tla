------------------------------- MODULE Filters -------------------------------
(***************************************************************************)
(* The list filters, orderBy, filter and limitTo, alone and one behind the    *)
(* other as in {{ users | filter:q | orderBy:'-age' | limitTo:10 }}.         *)
(*                                                                         *)
(* A value is [type, value]; an object has fields, a sequence of <<name,     *)
(* value>>, and prim, what its valueOf or toString comes to, or Self.  What  *)
(* is on the way through is [kind, items]; a string's items are its letters.  *)
(***************************************************************************)
EXTENDS Integers, Sequences, FiniteSets, SequencesExt

CONSTANTS
  Sources,       \* what a chain of filters may start from; a primitive is under
                 \* the name of its type: [type |-> "number", number |-> 1]
  Orders,        \* orderBy arguments: [predicates, reverse, comparator]
  Expressions,   \* filter arguments: [form, strict], a form is a string, [not],
                 \* or [keys]: a sequence of <<key, value>>
  Limits,        \* limitTo arguments: [limit, begin]
  Text,          \* of each string, and each number and boolean as String shows it:
                 \* [rank, parts], its place among, and what is in, the lower-case ones
  Self,          \* prim of an object that is no more than itself
  Loop,          \* a field that leads back to the object it is in
  Failed,        \* kind of a result: RangeError, the call stack is exhausted
  MaxFilters     \* bound: filters in a chain

VARIABLES
  shown,         \* what the chain has come to
  asked,         \* its last filter: <<name, arguments>>
  filters        \* how many there were

filterVars == <<shown, asked, filters>>

Init == shown \in Sources /\ asked = <<>> /\ filters = 0

IsArray(s) == s.kind = "array"
Field(v, name) ==
  LET own == SelectSeq(v.fields, LAMBDA f : f[1] = name)
  IN  IF own = <<>> THEN [type |-> "undefined"] ELSE Head(own)[2]
IsObject(v) == v # Loop /\ v.type = "object"

-----------------------------------------------------------------------------
(* orderBy                                                                 *)

Getter(predicate, item) ==
  IF predicate.key = "" THEN item
  ELSE IF IsObject(item) THEN Field(item, predicate.key) ELSE [type |-> "undefined"]

TypeName(v) == IF v = Loop THEN "object" ELSE v.type
\* The type stays that of the object, whatever its valueOf came to.
PredicateValue(v, index) ==
  [type |-> TypeName(v), index |-> index,
   value |-> IF v = Loop \/ TypeName(v) \in {"null", "undefined"} THEN Self
             ELSE IF IsObject(v) THEN v.prim ELSE v[v.type]]
TypeRank == [boolean |-> 1, number |-> 2, object |-> 3, string |-> 4, null |-> 5, undefined |-> 6]
Sign(n) == IF n < 0 THEN -1 ELSE IF n > 0 THEN 1 ELSE 0
Nullish(v) == v.type \in {"null", "undefined"}

DefaultCompare(a, b) ==
  IF a.type # b.type THEN Sign(TypeRank[a.type] - TypeRank[b.type])
  ELSE CASE a.type = "object" -> Sign(a.index - b.index)
         [] a.type = "string" -> Sign(Text[a.value].rank - Text[b.value].rank)
         [] Nullish(a) -> 0
         [] OTHER -> Sign(a.value - b.value)

\* A comparator of the application that tells nothing apart, or types only.
Compare(comparator, a, b) ==
  CASE comparator = "default" -> DefaultCompare(a, b)
    [] comparator = "same" -> 0
    [] comparator = "types" -> Sign(TypeRank[a.type] - TypeRank[b.type])

Outcome(comparator, predicate, reverse, a, b) ==
  LET result == Compare(comparator, a, b)
  IN  IF Nullish(a) \/ Nullish(b) THEN result
      ELSE result * (IF predicate.descending THEN -1 ELSE 1) * (IF reverse THEN -1 ELSE 1)

\* The first predicate that tells two items apart, else where they were before.
Decide(items, order, i, j) ==
  LET outcomes == [k \in DOMAIN order.predicates |->
        Outcome(order.comparator, order.predicates[k], order.reverse,
                PredicateValue(Getter(order.predicates[k], items[i]), i),
                PredicateValue(Getter(order.predicates[k], items[j]), j))]
      telling == SelectSeq(outcomes, LAMBDA o : o # 0)
  IN  IF telling # <<>> THEN Head(telling) ELSE Sign(i - j) * (IF order.reverse THEN -1 ELSE 1)

\* Array.prototype.sort, with a comparison that is a total order.
Sorted(items, order) ==
  LET place == [i \in DOMAIN items |-> Cardinality({j \in DOMAIN items : Decide(items, order, j, i) <= 0})]
  IN  [k \in DOMAIN items |-> items[CHOOSE i \in DOMAIN items : place[i] = k]]

OrderBy(order) ==
  /\ filters < MaxFilters /\ shown.kind # Failed
  /\ shown' = IF IsArray(shown) THEN [shown EXCEPT !.items = Sorted(@, order)] ELSE shown
  /\ asked' = <<"orderBy", order>> /\ filters' = filters + 1

-----------------------------------------------------------------------------
(* filter                                                                  *)

Leaf(v) == v # Loop /\ v.type \in {"string", "number", "boolean"}
Shown(v) == IF v.type = "string" THEN v.string ELSE ToString(v[v.type])
Substring(actual, expected) ==
  Leaf(actual) /\ Leaf(expected) /\ Shown(expected) \in Text[Shown(actual)].parts
Matches(actual, expected, strict) ==
  IF strict THEN Leaf(actual) /\ actual.type = expected.type /\ actual[actual.type] = expected[expected.type]
  ELSE Substring(actual, expected)

\* The first answer that decides: an exhausted stack ends everything.
Deciding(answers, decisive) ==
  LET ends == SelectSeq(answers, LAMBDA a : a \in {decisive, Failed})
  IN  IF ends = <<>> THEN ~decisive ELSE Head(ends)

\* deepCompare, for an expectation that is a primitive: anywhere in the value,
\* down every field of it, or the value alone.
RECURSIVE Anywhere(_, _, _)
Anywhere(actual, expected, strict) ==
  IF actual = Loop THEN Failed
  ELSE IF IsObject(actual)
       THEN Deciding([k \in DOMAIN actual.fields |-> Anywhere(actual.fields[k][2], expected, strict)], TRUE)
       ELSE Matches(actual, expected, strict)

RECURSIVE Expected(_, _, _)
Expected(actual, keys, strict) ==
  LET One(key, expected) ==
        CASE "keys" \in DOMAIN expected ->
               Expected(IF IsObject(actual) THEN Field(actual, key) ELSE [type |-> "undefined"], expected.keys, strict)
          [] key = "$" -> Anywhere(actual, expected, strict)
          [] OTHER -> Matches(IF IsObject(actual) THEN Field(actual, key) ELSE [type |-> "undefined"], expected, strict)
  IN  Deciding([k \in DOMAIN keys |->
        IF ~("keys" \in DOMAIN keys[k][2]) /\ keys[k][2].type = "undefined" THEN TRUE
        ELSE One(keys[k][1], keys[k][2])], FALSE)

Predicate(item, e) ==
  CASE "not" \in DOMAIN e.form ->
         LET inner == Anywhere(item, e.form.not, e.strict) IN IF inner = Failed THEN Failed ELSE ~inner
    [] "keys" \in DOMAIN e.form -> Expected(item, e.form.keys, e.strict)
    [] OTHER -> Anywhere(item, e.form, e.strict)

Filter(e) ==
  /\ filters < MaxFilters /\ shown.kind # Failed
  /\ shown' = IF ~IsArray(shown) THEN shown
              ELSE IF \E k \in DOMAIN shown.items : Predicate(shown.items[k], e) = Failed
                   THEN [kind |-> Failed, items |-> <<>>]
                   ELSE [shown EXCEPT !.items = SelectSeq(@, LAMBDA v : Predicate(v, e))]
  /\ asked' = <<"filter", e>> /\ filters' = filters + 1

-----------------------------------------------------------------------------
(* limitTo                                                                 *)

\* Array.prototype.slice: a negative end counts from the last.
Slice(s, from, to) ==
  LET Bounded(n) == IF n < 0 THEN (IF Len(s) + n < 0 THEN 0 ELSE Len(s) + n)
                    ELSE IF n > Len(s) THEN Len(s) ELSE n
  IN  SubSeq(s, Bounded(from) + 1, Bounded(to))

Limited(s, l) ==
  IF l.limit >= 0 THEN Slice(s, l.begin, l.begin + l.limit)
  ELSE Slice(s, IF Len(s) + l.limit < 0 THEN 0 ELSE Len(s) + l.limit, Len(s))

LimitTo(l) ==
  /\ filters < MaxFilters /\ shown.kind # Failed
  /\ shown' = IF shown.kind \in {"array", "string"} THEN [shown EXCEPT !.items = Limited(@, l)] ELSE shown
  /\ asked' = <<"limitTo", l>> /\ filters' = filters + 1

Next ==
  \/ \E order \in Orders : OrderBy(order)
  \/ \E e \in Expressions : Filter(e)
  \/ \E l \in Limits : LimitTo(l)

-----------------------------------------------------------------------------
(* Properties                                                              *)

Kept(small, large) == \A v \in Range(small) : v \in Range(large)
Count(s, v) == Cardinality({k \in DOMAIN s : s[k] = v})

\* orderBy shows the same items, of any two of them first the one the first
\* predicate that tells them apart asks for: by number, by letters whatever
\* their case, a valueOf by what it comes to, null and then undefined last in
\* either direction; what nothing tells apart stays as it was, or, reversed,
\* turns around.
Comparable(v) == IF IsObject(v) /\ v.prim # Self THEN v.prim ELSE IF Leaf(v) THEN v[v.type] ELSE Self
Standing(v) == IF TypeName(v) = "string" THEN Text[v.string].rank ELSE Comparable(v)
Alike(p, x, y) ==
  /\ TypeName(Getter(p, x)) = TypeName(Getter(p, y))
  /\ Standing(Getter(p, x)) = Standing(Getter(p, y))
Before(p, reverse, x, y) ==
  LET a == Getter(p, x)  b == Getter(p, y)
      last == {"null", "undefined"}
      less == IF TypeName(a) # TypeName(b) THEN TypeRank[TypeName(a)] < TypeRank[TypeName(b)]
              ELSE Standing(a) < Standing(b)
  IN  IF {TypeName(a), TypeName(b)} \cap last # {} THEN less ELSE less # (p.descending # reverse)
OrderedAs(was, is, order) ==
  /\ Len(is) = Len(was) /\ \A v \in Range(was) : Count(is, v) = Count(was, v)
  /\ order.comparator = "default" => \A i, j \in DOMAIN is : i < j =>
       LET telling == SelectSeq(order.predicates, LAMBDA p : ~Alike(p, is[i], is[j]))
       IN  IF telling # <<>> THEN Before(Head(telling), order.reverse, is[i], is[j])
           ELSE is[i] = is[j] \/ (\E k, l \in DOMAIN was :
                  was[k] = is[i] /\ was[l] = is[j] /\ (k < l) # order.reverse)

\* filter keeps, in order, exactly the items with the text in one of their
\* values at any depth, or in the field that is named, whatever the case.
RECURSIVE Leaves(_)
Leaves(v) == IF IsObject(v) THEN UNION {Leaves(v.fields[k][2]) : k \in DOMAIN v.fields}
             ELSE IF v = Loop THEN {} ELSE {v}
RECURSIVE Wanted(_, _, _)
Wanted(v, keys, strict) ==
  \A k \in DOMAIN keys :
    LET named == IF IsObject(v) THEN Field(v, keys[k][1]) ELSE [type |-> "undefined"]
    IN  IF "keys" \in DOMAIN keys[k][2] THEN Wanted(named, keys[k][2].keys, strict)
        ELSE \/ keys[k][2].type = "undefined"
             \/ \E leaf \in (IF keys[k][1] = "$" THEN Leaves(v) ELSE {named}) : Matches(leaf, keys[k][2], strict)
Found(v, e) ==
  CASE "not" \in DOMAIN e.form -> ~Wanted(v, <<<<"$", e.form.not>>>>, e.strict)
    [] "keys" \in DOMAIN e.form -> Wanted(v, e.form.keys, e.strict)
    [] OTHER -> Wanted(v, <<<<"$", e.form>>>>, e.strict)

\* limitTo keeps that many in a row, from begin on or, for a negative limit,
\* the last of them.
LimitedAs(was, is, l) ==
  LET from == IF l.limit < 0 THEN (IF Len(was) + l.limit < 0 THEN 0 ELSE Len(was) + l.limit) ELSE l.begin
      most == IF l.limit < 0 THEN -l.limit ELSE l.limit
  IN  l.begin >= 0 =>
        /\ \A k \in DOMAIN is : from + k <= Len(was) /\ is[k] = was[from + k]
        /\ Len(is) = most \/ (Len(is) < most /\ from + Len(is) >= Len(was))

\* Each filter of a chain does to a list what its documentation says.
FiltersKeepTheirWord ==
  [][filters' > filters =>
     /\ IsArray(shown) =>
          CASE asked'[1] = "orderBy" -> OrderedAs(shown.items, shown'.items, asked'[2])
            [] asked'[1] = "filter" ->
                 shown'.kind = "array" /\ shown'.items = SelectSeq(shown.items, LAMBDA v : Found(v, asked'[2]))
            [] asked'[1] = "limitTo" -> LimitedAs(shown.items, shown'.items, asked'[2])
     /\ ~IsArray(shown) /\ asked'[1] # "limitTo" => shown' = shown]_filterVars
=============================================================================
