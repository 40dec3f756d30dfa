------------------------------ MODULE RowKeys ------------------------------
(***************************************************************************)
(* What ngRepeat makes of its expression and of the collection: the parts of *)
(* the iterator expression, the items, the key that decides which row an     *)
(* item keeps, the bindings of a row, and the alias.  Structural.tla has the *)
(* nodes of the rows; here only their scopes count.                         *)
(*                                                                         *)
(* A value is [type, text]: text is what String() makes of a primitive, and  *)
(* the name of an object, which the tracker never looks at.                 *)
(***************************************************************************)
EXTENDS Naturals, Sequences, FiniteSets, SequencesExt

CONSTANTS
  Expressions,   \* [key, value, alias, track]; "" where a part is absent
  Identifiers,   \* names an identifier may be
  Collections,   \* [kind, items], items a sequence of [key, value] in order of
                 \* insertion or index; kind "array", "object" or "neither"
  Less(_, _),    \* the order of property keys
  TrackOf(_),    \* String of what a track by expression makes of a value
  MaxFires       \* bound: runs of the watch listener

VARIABLES
  parsed,        \* the parts of the expression
  refused,       \* parseIteratorExpression threw, and nothing is watched
  ids,           \* objectIdentities: objects in the order they were met
  rows,          \* currentRows in order: [key, scope, index, locals]
  alias,         \* the alias on the parent scope
  latest,        \* history: the collection the last run was about
  failed,        \* the last run threw
  made,          \* counter: scopes of rows
  fires          \* counter: runs of the listener

rowVars == <<parsed, refused, ids, rows, alias, latest, failed, made, fires>>

-----------------------------------------------------------------------------
(* The expression                                                           *)

Reserved == {"$index", "$first", "$last", "$middle", "$even", "$odd"}

GoodLhs(e)   == e.value \in Identifiers /\ e.key \in Identifiers \cup {""}
GoodAlias(e) == e.alias \in Identifiers \ ({e.key, e.value} \cup Reserved)
Parses(e)    == GoodLhs(e) /\ (e.alias = "" \/ GoodAlias(e))

List(kind, items) == [kind |-> kind, items |-> items]

Init ==
  /\ parsed \in Expressions /\ refused = ~Parses(parsed)
  /\ ids = <<>> /\ rows = <<>> /\ alias = List("unset", <<>>) /\ latest = List("neither", <<>>)
  /\ failed = FALSE /\ made = 0 /\ fires = 0

-----------------------------------------------------------------------------
(* Items and keys                                                           *)

\* Own properties come by sorted key, elements by index.
Items(c) ==
  IF c.kind = "object" THEN SortSeq(c.items, LAMBDA a, b : Less(a.key, b.key)) ELSE c.items

IsObject(v) == v.type = "object"

\* Objects the tracker has not met get the next numbers, in order.
Met(known, items) ==
  FoldLeft(LAMBDA s, item : IF IsObject(item.value) /\ item.value \notin ToSet(s)
                            THEN Append(s, item.value) ELSE s, known, items)
GetIdentity(known, v) ==
  CASE IsObject(v) -> "object:" \o ToString(CHOOSE n \in DOMAIN known : known[n] = v)
    [] v.type \in {"null", "undefined"} -> v.type \o ":"
    [] OTHER -> v.type \o ":" \o v.text

IdentityFor(known, c, i) ==
  LET item == Items(c)[i]
  IN  CASE parsed.track = "$index" -> ToString(i - 1)
        [] parsed.track # ""       -> TrackOf(item.value)
        [] c.kind = "object"       -> "key:" \o item.key \o "|" \o GetIdentity(known, item.value)
        [] OTHER                   -> GetIdentity(known, item.value)

PublishAlias(c) ==
  IF parsed.alias = "" THEN alias
  ELSE CASE c.kind = "neither" -> List("array", <<>>)
         [] c.kind = "object"  -> List("array", Items(c))
         [] OTHER              -> c

\* The key of the property or the index is bound only for the tuple form.
Locals(item) ==
  [value |-> item.value, key |-> IF parsed.key = "" THEN "unbound" ELSE item.key]

\* The listener: the alias first; no row is left when the collection is none or
\* two items have one key; else each item takes the row of its key or a new one.
Fire(c) ==
  /\ ~refused /\ fires < MaxFires /\ c # latest
  /\ fires' = fires + 1 /\ latest' = c /\ alias' = PublishAlias(c)
  /\ LET items == Items(c)
         known == IF parsed.track = "" THEN Met(ids, items) ELSE ids
         keys  == [i \in DOMAIN items |-> IdentityFor(known, c, i)]
         fresh == SelectSeq(keys, LAMBDA k : \A r \in DOMAIN rows : rows[r].key # k)
         scope(k) == IF k \in ToSet(fresh)
                     THEN made + CHOOSE n \in DOMAIN fresh : fresh[n] = k
                     ELSE (CHOOSE r \in ToSet(rows) : r.key = k).scope
     IN  /\ ids' = known
         /\ failed' = ~IsInjective(keys)
         /\ rows' = IF c.kind = "neither" \/ ~IsInjective(keys) THEN <<>>
                    ELSE [i \in DOMAIN items |-> [key |-> keys[i], scope |-> scope(keys[i]),
                                                  index |-> i - 1, locals |-> Locals(items[i])]]
         /\ made' = IF c.kind = "neither" \/ ~IsInjective(keys) THEN made ELSE made + Len(fresh)
  /\ UNCHANGED <<parsed, refused>>

Next == \E c \in Collections : Fire(c)

-----------------------------------------------------------------------------
(* Properties                                                               *)

\* Two items are refused as one only when they are one: the same element twice
\* in an array.  Two properties of an object never are.
RefusedOnlyTwins ==
  (failed /\ parsed.track = "") =>
    /\ latest.kind = "array"
    /\ \E i, j \in DOMAIN latest.items :
         i # j /\ latest.items[i].value = latest.items[j].value

\* The alias tells what was to be shown, also when it could not be.
AliasFollows ==
  (fires > 0 /\ parsed.alias # "") =>
    /\ Len(alias.items) = Len(latest.items)
    /\ ToSet(alias.items) = ToSet(latest.items)

\* A row stays with its item: without track by, an item that is in both
\* collections keeps the scope of its row, and its scope shows no other item.
RowsFollowItems ==
  parsed.track = "" =>
    \A r \in ToSet(rows), s \in ToSet(rows)' :
      (latest.kind = "array" /\ latest'.kind = "array") =>
        (r.locals.value = s.locals.value <=> r.scope = s.scope)
RowsStay == [][RowsFollowItems]_rowVars

KeysTellApart == RefusedOnlyTwins /\ AliasFollows
=============================================================================
