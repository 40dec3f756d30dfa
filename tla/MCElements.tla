----------------------------- MODULE MCElements -----------------------------
(***************************************************************************)
(* The directives of one element and what hangs on it: Attributes, Classes, *)
(* Pluralize, Controllers, Transclusion, RowKeys and Refs.  They do not     *)
(* share state, so a behaviour is one of one of them: part says which, and  *)
(* the others stay at one of their initial states.                          *)
(***************************************************************************)
EXTENDS Integers, Sequences, FiniteSets, TLC

CONSTANTS
  Parts,         \* the parts to check
  None, Undef, Absent, Undefined, Empty, NaN

VARIABLES
  part,
  element, toLink, model, attrs, watches, digesting, observed, changed,
  classed, classValue, even, classes, styles, seen, applied, lastValue, classDigest, classCalls,
  quiet, gaveUp, classChanged,
  counted, count, word, countPhase, lastCount, lastKey, watching, text, countReported, changes,
  todo, linked, attached, stash, results, given, tracked, registered, log, reported, failures,
  destroyed,
  host, places, kids, scopeOf, cleanups, alive, unlinked, clones, added, errors, walk, ran, over,
  parsed, refused, ids, rows, alias, latest, failed, rowsMade, fires,
  elements, object, objects, slots, reports

attributeVars == <<element, toLink, model, attrs, watches, digesting, observed, changed>>
classVars == <<classed, classValue, even, classes, styles, seen, applied, lastValue, classDigest,
               classCalls, quiet, gaveUp, classChanged>>
countVars == <<counted, count, word, countPhase, lastCount, lastKey, watching, text,
               countReported, changes>>
controllerVars == <<todo, linked, attached, stash, results, given, tracked, registered, log,
                    reported, failures, destroyed>>
transclusionVars == <<host, places, kids, scopeOf, cleanups, alive, unlinked, clones, added,
                      errors, walk, ran, over>>
rowVars == <<parsed, refused, ids, rows, alias, latest, failed, rowsMade, fires>>
refVars == <<elements, object, objects, slots, reports>>
vars == <<part, attributeVars, classVars, countVars, controllerVars, transclusionVars, rowVars,
          refVars>>

-----------------------------------------------------------------------------
(* Attributes, classes and counts                                           *)

Attributed(text_, links, observed_, written) ==
  [text |-> text_, links |-> links, observed |-> observed_, written |-> written]
Linked == Attributed([n \in {"title", "id"} |-> IF n = "title" THEN "dynamic" ELSE "static"],
                 <<"master">>, {"title", "id"}, {"id"})
Once == Attributed([n \in {"ngHref", "href", "once"} |->
                  CASE n = "ngHref" -> "dynamic" [] n = "href" -> "absent" [] OTHER -> "once"],
               <<"master">>, {"href"}, {})
Broken == Attributed([n \in {"bad", "content", "ngDisabled", "disabled"} |->
                    CASE n = "bad" -> "broken" [] n = "content" -> "text"
                      [] n = "ngDisabled" -> "expression" [] OTHER -> "absent"],
                 <<"master">>, {"disabled"}, {})
TwoRows == Attributed([n \in {"title", "once", "content"} |->
                     CASE n = "title" -> "dynamic" [] n = "once" -> "once" [] OTHER -> "text"],
                  <<"row1", "row2">>, {}, {})

A == INSTANCE Attributes WITH
       Elements <- {Linked, Once, Broken, TwoRows}, Values <- {Undef, "x", "bad"},
       UrlAliases <- {<<"ngHref", "href">>}, BoolAliases <- {<<"ngDisabled", "disabled">>},
       Raw <- "raw", Empty <- "", Bad <- "bad", Marked <- "marked",
       WhileQueued <- FALSE, OneShots <- {}, MaxObservers <- 2, MaxChanges <- 2

Str(names) == [form |-> "string", names |-> names]
Obj(on, off) == [form |-> "object", on |-> on, off |-> off, literal |-> FALSE]
Arr(items) == [form |-> "array", items |-> items]
Styles(props) == [form |-> "style", props |-> props]
Dir(kind, values) == [kind |-> kind, values |-> values]
Card(directives) ==
  [classes |-> {"card"}, styles |-> "color" :> "red" @@ "width" :> None, directives |-> directives]

\* ng-class with each form it takes, beside the classes of odd and even rows.
Cards ==
  {Card(<<Dir("class", {None, Str({"a", "b"}), Obj({"a"}, {"b"}),
                        Arr({Str({"b"}), Obj({"a"}, {"c"})})}),
          Dir("even", {Str({"e"}), Str({})}), Dir("odd", {Str({"o"})})>>),
   Card(<<Dir("show", {None, Str({"yes"}), Str({})}),
          Dir("style", {None, Styles("color" :> "blue"),
                        Styles("color" :> "1" @@ "width" :> "1")})>>),
   Card(<<Dir("hide", {None, Str({"yes"}), Str({})})>>)}

C == INSTANCE Classes WITH
       Elements <- Cards, MaxChanges <- 3, MaxCalls <- 10,
       element <- classed, value <- classValue, digesting <- classDigest, calls <- classCalls,
       changed <- classChanged

\* Messages by key; the one of "0" holds no count.
Messages(keys) == [k \in keys |-> [holds |-> k # "0", counts |-> k \in {"other", "one"}]]
Counting(map, attributes, offset) ==
  [count |-> TRUE, map |-> map, attributes |-> attributes, offset |-> offset]
Whole(n) == [parsed |-> n, number |-> n]
P == INSTANCE Pluralize WITH
       Counts <- {Whole(0), Whole(1), Whole(2), Whole(4), Whole(-1), Whole(NaN)},
       PluralCat <- [n \in -3 .. 6 |-> IF n = 1 THEN "one" ELSE "other"],
       Shown <- [n \in -3 .. 6 |-> ToString(n)],
       Elements <-
         {Counting(Messages({"0", "one", "other"}), Absent, 0),
          Counting(Messages({"0", "1", "one", "other"}), Messages({"one"}), 2),
          Counting(Absent, Messages({"one"}), 0),
          Counting(Messages({"one"}), [k \in {"one"} |-> [holds |-> FALSE, counts |-> FALSE]], 0),
          Counting(Absent, Absent, 0), Counting(Messages({"one"}), Absent, NaN),
          [Counting(Messages({"one"}), Absent, 0) EXCEPT !.count = FALSE]},
       Words <- {"ann", "bob"}, MaxChanges <- 3,
       element <- counted, phase <- countPhase, last <- lastCount, reported <- countReported

-----------------------------------------------------------------------------
(* Controllers on a small tree, of which row is mounted by a transclusion    *)

Ancestry == "root" :> <<>> @@ "mid" :> <<"root">> @@ "leaf" :> <<"mid", "root">>
            @@ "row" :> <<"mid", "root">>
Directive(name, controller, binds, require) ==
  [name |-> name, controller |-> controller, binds |-> binds, require |-> require]
Require(prefix, optional, name) == [prefix |-> prefix, optional |-> optional, name |-> name]
DirectivesOf ==
     "root" :> <<Directive("tabs", TRUE, "no", <<>>)>>
  @@ "mid" :> <<Directive("pane", TRUE, "ok", <<Require("^", FALSE, "tabs")>>),
                Directive("group", TRUE, "no", <<Require("", FALSE, "pane"),
                                                 Require("^^", TRUE, "tabs")>>)>>
  @@ "leaf" :> <<Directive("item", FALSE, "no", <<Require("^", FALSE, "pane"),
                                                  Require("^", TRUE, "tabs")>>),
                 Directive("form", TRUE, "no", <<Require("^^", FALSE, "tabs")>>),
                 Directive("late", FALSE, "no", <<Require("", FALSE, "form")>>)>>
  @@ "row" :> <<Directive("pane", TRUE, "no", <<Require("", TRUE, "form")>>),
                Directive("cell", FALSE, "no", <<Require("", TRUE, "pane")>>)>>
K == INSTANCE Controllers WITH
       Order <- <<"root", "mid", "leaf", "row">>, Ancestors <- Ancestry, Mounted <- {"row"},
       Directives <- DirectivesOf, MaxFailures <- 2

Host(kind, declared, filled, required) ==
  [kind |-> kind, declared |-> declared, filled |-> filled, required |-> required]
N == INSTANCE Transclusion WITH
       Hosts <- {Host("content", {}, {"default"}, {}),
                 Host("slots", {"head", "body"}, {"head"}, {"body"}),
                 Host("slots", {"head"}, {"default"}, {})},
       Places <- {<<"head", "default">>}, Default <- "default", Cleanups <- {"plain", "adds"},
       MaxClones <- 2, MaxCleanups <- 2, queue <- cleanups, made <- clones

-----------------------------------------------------------------------------
(* Keys of rows, and references                                             *)

Value(type, text_) == [type |-> type, text |-> text_]
a == Value("object", "a")
b == Value("object", "b")
x == Value("string", "x")
one == Value("number", "1")
oneText == Value("string", "1")
undefined == Value("undefined", "")
Array(values) ==
  [kind |-> "array",
   items |-> [i \in DOMAIN values |-> [key |-> ToString(i - 1), value |-> values[i]]]]
Object(pairs) ==
  [kind |-> "object", items |-> [i \in DOMAIN pairs |-> [key |-> pairs[i][1], value |-> pairs[i][2]]]]
Written(key, value, alias_, track) ==
  [key |-> key, value |-> value, alias |-> alias_, track |-> track]
ById(value) == value.text
Before(k, l) == k = "p" /\ l = "q"
R == INSTANCE RowKeys WITH
       Expressions <-
         {Written("", "it", "", ""), Written("k", "it", "list", ""), Written("", "it", "it", ""),
          Written("k", "1x", "", ""), Written("", "it", "list", "id"),
          Written("", "it", "", "$index"), Written("", "it", "$index", "")},
       Identifiers <- {"it", "k", "list", "$index"},
       Collections <-
         {Array(<<a, b>>), Array(<<b, x>>), Array(<<b, one, a>>), Array(<<x, undefined, x>>),
          Array(<<oneText, one>>), Object(<<<<"q", a>>, <<"p", a>>>>), Object(<<<<"p", x>>>>),
          [kind |-> "neither", items |-> <<>>]},
       Less <- Before, TrackOf <- ById, MaxFires <- 3, made <- rowsMade

Pane(path, inRow, isolate, read, controllers) ==
  [path |-> path, inRow |-> inRow, isolate |-> isolate, read |-> read,
   controllers |-> controllers, tag |-> "pane"]
F == INSTANCE Refs WITH
       Markup <- {Pane("plain", FALSE, TRUE, "", {"pane"}), Pane("plain", TRUE, FALSE, "", {}),
                  Pane("dotted", TRUE, FALSE, "$element", {"pane"}),
                  Pane("dotted", FALSE, TRUE, "menu", {"menu"}),
                  Pane("plain", FALSE, FALSE, "menu", {}), Pane("bad", TRUE, FALSE, "", {})},
       MaxElements <- 2

-----------------------------------------------------------------------------

Init ==
  /\ part \in Parts
  /\ part # "attributes" => element = Linked
  /\ part # "classes" =>
       classed = (CHOOSE c \in Cards : Len(c.directives) = 1) /\ even = FALSE /\ classValue = <<None>>
  /\ part # "pluralize" => counted = Counting(Absent, Absent, 0) /\ count = Whole(0) /\ word = "ann"
  /\ part # "transclusion" => host = Host("content", {}, {"default"}, {})
  /\ part # "rows" => parsed = Written("k", "1x", "", "")
  /\ A!Init /\ C!Init /\ P!Init /\ K!Init /\ N!Init /\ R!Init /\ F!Init

Still == UNCHANGED vars
Idle(rest) == UNCHANGED <<part, rest>>
Next ==
  \/ part = "attributes" /\ A!Next
     /\ Idle(<<classVars, countVars, controllerVars, transclusionVars, rowVars, refVars>>)
  \/ part = "classes" /\ C!Next
     /\ Idle(<<attributeVars, countVars, controllerVars, transclusionVars, rowVars, refVars>>)
  \/ part = "pluralize" /\ P!Next
     /\ Idle(<<attributeVars, classVars, controllerVars, transclusionVars, rowVars, refVars>>)
  \/ part = "controllers" /\ K!Next
     /\ Idle(<<attributeVars, classVars, countVars, transclusionVars, rowVars, refVars>>)
  \/ part = "transclusion" /\ N!Next
     /\ Idle(<<attributeVars, classVars, countVars, controllerVars, rowVars, refVars>>)
  \/ part = "rows" /\ R!Next
     /\ Idle(<<attributeVars, classVars, countVars, controllerVars, transclusionVars, refVars>>)
  \/ part = "refs" /\ F!Next
     /\ Idle(<<attributeVars, classVars, countVars, controllerVars, transclusionVars, rowVars>>)

Spec == Init /\ [][Next]_vars

-----------------------------------------------------------------------------
(* What the element shows follows its scope; what hangs on it is found while *)
(* it is alive and taken down with it.                                       *)

PageFollows ==
  /\ part = "attributes" => A!ShowsItsScope /\ A!ObserversCurrent /\ A!OneWatch
  /\ part = "classes" => C!ClassesAreUnion /\ C!StylesFollow /\ C!DigestSettles
  /\ part = "pluralize" => P!TextFollows
ControllersReady == part = "controllers" => K!RequiredFound /\ K!HooksInOrder
TakenDown ==
  /\ part = "transclusion" => N!TakenDown /\ N!RunsOnce /\ N!PlacesFilled /\ N!OneScopeEach
  /\ part = "refs" => F!RefsLive
RowsApart == part = "rows" => R!KeysTellApart
Kept == P!ReportedPerKey /\ R!RowsStay /\ F!RefsKept
=============================================================================
