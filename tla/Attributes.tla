----------------------------- MODULE Attributes -----------------------------
(***************************************************************************)
(* The attributes of one element: AttributesImpl with $set and $observe, the *)
(* interpolation of attributes and of a text node, and the directives that   *)
(* feed one attribute from another (ng-href, ng-disabled).  One object is    *)
(* made when the element is compiled; every link of the element, to itself   *)
(* ("master") or to a clone of it, shares it.                               *)
(***************************************************************************)
EXTENDS Naturals, Sequences, FiniteSets, SequencesExt

CONSTANTS
  Elements,      \* records [text, links, observed, written]: the form of each
                 \* attribute, the targets linked in turn, what code may do
  Values,        \* of an interpolated expression, Undef among them
  UrlAliases,    \* pairs of names <<ngHref, href>>
  BoolAliases,   \* pairs of names <<ngDisabled, disabled>>
  Undef, None, Raw, Empty,  \* undefined, no attribute, its {{...}}, ""
  Bad, Marked,   \* a URL the sanitizer marks, and what it makes of it
  OneShots,      \* observers that deregister themselves when they are told
  WhileQueued,   \* while notifications are queued, code may deregister an
                 \* observer and, after an aborted digest, call $set
  MaxObservers,  \* bound: observers registered by application code
  MaxChanges     \* bound: changes of the scopes, calls of $set, aborts

VARIABLES
  element,       \* which of Elements
  toLink,        \* links still to come
  model,         \* value of the expression in the scope of each target
  attrs,         \* the object: [scope, value, interp, observers, dom, queue, told]
  watches,       \* records [target, kind, name, last]
  digesting,
  observed, changed  \* counters

attributeVars == <<element, toLink, model, attrs, watches, digesting, observed, changed>>

AttributeNames == DOMAIN element.text
Form(name) == element.text[name]
Targets == Range(element.links) \cup {"master"}
Parsed(name, text) == IF text = Raw THEN Form(name) ELSE "static"
Aliases == UrlAliases \cup BoolAliases
Never == "never"

Init ==
  /\ element \in Elements /\ toLink = element.links
  /\ model = [t \in Targets |-> Undef]
  /\ attrs =
       [scope |-> None,
        value |-> [n \in AttributeNames |-> IF Form(n) = "absent" THEN None ELSE Raw],
        interp |-> [n \in AttributeNames |-> "unknown"], observers |-> [n \in AttributeNames |-> <<>>],
        dom |-> [t \in Targets |-> [n \in AttributeNames |-> IF Form(n) = "absent" THEN None ELSE Raw]],
        queue |-> <<>>, told |-> [k \in 1 .. MaxObservers |-> Never]]
  /\ watches = {} /\ digesting = FALSE /\ observed = 0 /\ changed = 0

-----------------------------------------------------------------------------
(* $set and $observe, on a given state a of the object                      *)

\* What interpolation makes of a value: "" of undefined, unless every part of
\* the text is one-time.
Rendered(name, v) ==
  IF Form(name) = "once" THEN v
  ELSE IF v = Undef THEN Empty
  ELSE IF v = Bad /\ \E p \in UrlAliases : p[2] = name THEN Marked ELSE v
OrNone(v) == IF v = Undef THEN None ELSE v

\* The object writes the element it was made from, whatever is being linked.
Assign(a, name, v, write) ==
  [a EXCEPT !.value[name] = v, !.dom["master"][name] = IF write THEN v ELSE @]

\* An observer of application code remembers what it is told; that of ng-href
\* sets href.
RECURSIVE Follow(_, _, _)

\* for (const observer of observers) over an array that observers may shrink.
Each(a, name, v) ==
  FoldLeft(LAMBDA b, k : IF k > Len(b.observers[name]) THEN b ELSE
             LET o == b.observers[name][k]
                 c == Follow(b, o, v)
             IN  IF o.id \in OneShots
                 THEN [c EXCEPT !.observers[name] = SelectSeq(@, LAMBDA p : p # o)] ELSE c,
           a, [k \in DOMAIN a.observers[name] |-> k])

\* In a digest the observers are told by $evalAsync, else at once.
Set(a, name, v, write) ==
  LET b == Assign(a, name, v, write) IN
  IF b.observers[name] = <<>> THEN b
  ELSE IF digesting THEN [b EXCEPT !.queue = Append(@, [kind |-> "set", name |-> name, value |-> v])]
  ELSE Each(b, name, v)

Sanitized(v) == IF v \in {None, Empty} THEN None ELSE IF v = Bad THEN Marked ELSE v
Follow(a, o, v) ==
  IF o.to = None THEN [a EXCEPT !.told[o.id] = v] ELSE Set(a, o.to, Sanitized(v), TRUE)

\* $observe: the first observer of an attribute nobody has classified makes a
\* watch; on a static one it is told once, later.
Observer(name, id, to) == [id |-> id, to |-> to, seen |-> attrs.value[name]]
Observe(a, name, o) ==
  LET b == [a EXCEPT !.observers[name] = Append(@, o)]
      form == IF a.interp[name] # "unknown" THEN a.interp[name] ELSE
              IF Parsed(name, a.value[name]) \in {"dynamic", "once"} THEN "dynamic" ELSE "static"
  IN  IF a.interp[name] = "unknown" /\ Parsed(name, a.value[name]) = "broken" THEN b
      ELSE [b EXCEPT !.interp[name] = form,
              !.queue = IF form = "static" THEN Append(@, [kind |-> "first", name |-> name, observer |-> o]) ELSE @]
LazyWatch(a, name) ==
  IF a.interp[name] = "unknown" /\ Parsed(name, a.value[name]) \in {"dynamic", "once"}
  THEN {[target |-> a.scope, kind |-> "lazy", name |-> name, last |-> "unset"]} ELSE {}

-----------------------------------------------------------------------------
(* Linking                                                                 *)

\* Which attributes the interpolation of a link watches: the element itself is
\* classified once, a clone each time by what the object holds then.
Interpolated(a, t) ==
  {n \in AttributeNames : /\ Parsed(n, a.value[n]) \in {"dynamic", "once"}
                          /\ t = "master" => a.interp[n] = "unknown"}
Classified(a, t) ==
  [n \in AttributeNames |->
     IF t # "master" \/ a.interp[n] # "unknown" \/ a.value[n] = None \/ Form(n) = "text"
     THEN a.interp[n]
     ELSE CASE Parsed(n, a.value[n]) \in {"dynamic", "once"} -> "dynamic"
            [] Parsed(n, a.value[n]) = "broken" -> "unknown"
            [] OTHER -> "static"]

\* A link: the clone is a copy of the element as it is by now; the object is
\* bound to the scope, attributes and text are interpolated, ng-href observes
\* and ng-disabled watches.
LinkTo(t) ==
  LET a0 == [attrs EXCEPT !.scope = t, !.dom[t] = attrs.dom["master"]]
      own == IF t = "master" THEN "master" ELSE "own"
      a1 == [a0 EXCEPT !.interp = Classified(a0, t)]
      urls == {p \in UrlAliases : p[1] \in AttributeNames /\ Form(p[1]) # "absent"}
      bools == {p \in BoolAliases : p[1] \in AttributeNames /\ Form(p[1]) # "absent"}
  IN  /\ attrs' = FoldSet(LAMBDA p, a : Observe(a, p[1], Observer(p[1], 0, p[2])), a1, urls)
      /\ watches' = watches
           \cup {[target |-> t, kind |-> IF Form(n) = "text" THEN "own" ELSE own, name |-> n, last |-> "unset"] :
                   n \in Interpolated(a0, t) \cup {m \in AttributeNames : Form(m) = "text"}}
           \cup UNION {LazyWatch(a1, p[1]) : p \in urls}
           \cup {[target |-> t, kind |-> "bool", name |-> p[1], last |-> "unset"] : p \in bools}

Link ==
  /\ toLink # <<>>
  /\ LinkTo(Head(toLink)) /\ toLink' = Tail(toLink)
  /\ UNCHANGED <<element, model, digesting, observed, changed>>

-----------------------------------------------------------------------------
(* Digests                                                                 *)

BeginDigest ==
  /\ ~digesting /\ digesting' = TRUE
  /\ UNCHANGED <<element, toLink, model, attrs, watches, observed, changed>>

Drain ==
  /\ digesting /\ attrs.queue # <<>>
  /\ LET task == Head(attrs.queue)
         a == [attrs EXCEPT !.queue = Tail(@)]
         \* a first call reads the attribute now, a notification brings its value
         v == IF task.kind = "set" THEN task.value ELSE a.value[task.name]
     IN  attrs' = IF task.kind = "first" THEN Follow(a, task.observer, v)
                  ELSE Each(a, task.name, v)
  /\ UNCHANGED <<element, toLink, model, watches, digesting, observed, changed>>

\* A watch sees another value than the last time and calls its listener.
Current(w) == IF w.kind = "bool" THEN model[w.target] ELSE Rendered(w.name, model[w.target])
Truthy(v) == v \notin {Undef, Empty}
Effect(w) ==
  CASE w.kind = "own" -> [attrs EXCEPT !.dom[w.target][w.name] = OrNone(Current(w))]
    [] w.kind = "master" -> Set(attrs, w.name, OrNone(Current(w)), TRUE)
    [] w.kind = "lazy" -> Set(attrs, w.name, OrNone(Current(w)), FALSE)
    [] w.kind = "bool" ->
         LET p == CHOOSE q \in BoolAliases : q[1] = w.name
         IN  Set(attrs, p[2], IF Truthy(Current(w)) THEN Empty ELSE None, TRUE)
Dirty(w) == Current(w) # w.last
Evaluate(w) ==
  /\ digesting /\ Dirty(w)
  /\ watches' = (watches \ {w}) \cup {[w EXCEPT !.last = Current(w)]}
  /\ attrs' = Effect(w)
  /\ UNCHANGED <<element, toLink, model, digesting, observed, changed>>

\* A one-time watch that has seen a value leaves at the end.
EndDigest ==
  /\ digesting /\ attrs.queue = <<>> /\ \A w \in watches : ~Dirty(w)
  /\ digesting' = FALSE
  /\ watches' = {w \in watches : w.kind = "bool" \/ Form(w.name) # "once" \/ w.last = Undef}
  /\ UNCHANGED <<element, toLink, model, attrs, observed, changed>>

AbortDigest ==
  /\ digesting /\ changed < MaxChanges
  /\ digesting' = FALSE /\ changed' = changed + 1
  /\ UNCHANGED <<element, toLink, model, attrs, watches, observed>>

-----------------------------------------------------------------------------
(* Application code, in a digest or not                                     *)

Change(t, v) ==
  /\ changed < MaxChanges /\ model[t] # v
  /\ model' = [model EXCEPT ![t] = v] /\ changed' = changed + 1
  /\ UNCHANGED <<element, toLink, attrs, watches, digesting, observed>>

\* A directive calls $set on an attribute of its own, with null for None.
Write(name, v) ==
  /\ changed < MaxChanges /\ attrs.scope # None
  /\ WhileQueued \/ digesting \/ attrs.queue = <<>>
  /\ attrs' = Set(attrs, name, v, TRUE) /\ changed' = changed + 1
  /\ UNCHANGED <<element, toLink, model, watches, digesting, observed>>

Register(name) ==
  /\ observed < MaxObservers /\ attrs.scope # None
  /\ observed' = observed + 1
  /\ attrs' = Observe(attrs, name, Observer(name, observed + 1, None))
  /\ watches' = watches \cup LazyWatch(attrs, name)
  /\ UNCHANGED <<element, toLink, model, digesting, changed>>

Deregister(name) ==
  /\ WhileQueued \/ attrs.queue = <<>>
  /\ \E o \in Range(attrs.observers[name]) :
       /\ o.to = None
       /\ attrs' = [attrs EXCEPT !.observers[name] = SelectSeq(@, LAMBDA p : p # o)]
  /\ UNCHANGED <<element, toLink, model, watches, digesting, observed, changed>>

Next ==
  \/ Link \/ BeginDigest \/ Drain \/ EndDigest \/ AbortDigest
  \/ \E w \in watches : Evaluate(w)
  \/ \E t \in Targets, v \in Values : Change(t, v)
  \/ \E name \in element.written, v \in (Values \ {Undef, Bad}) \cup {None} : Write(name, v)
  \/ \E name \in element.observed : Register(name) \/ Deregister(name)

-----------------------------------------------------------------------------
(* Properties                                                              *)

Settled == ~digesting /\ attrs.queue = <<>> /\ toLink = <<>> /\ \A w \in watches : ~Dirty(w)
Linked == Range(element.links)

\* After a digest every linked element shows its own scope's value: in each
\* interpolated attribute and text, and in what ng-href and ng-disabled feed.
ShowsItsScope ==
  Settled => \A t \in Linked :
    /\ \A n \in AttributeNames : Form(n) \in {"dynamic", "text"} =>
         attrs.dom[t][n] = Rendered(n, model[t])
    /\ \A n \in AttributeNames : Form(n) = "once" =>
         /\ attrs.dom[t][n] # Raw
         /\ (\E w \in watches : w.target = t /\ w.name = n) => attrs.dom[t][n] = OrNone(model[t])
    /\ \A p \in UrlAliases : p[1] \in AttributeNames /\ Form(p[1]) = "dynamic" =>
         attrs.dom[t][p[2]] = Sanitized(Rendered(p[1], model[t]))
    /\ \A p \in BoolAliases : p[1] \in AttributeNames /\ Form(p[1]) # "absent" =>
         attrs.dom[t][p[2]] = (IF Truthy(model[t]) THEN Empty ELSE None)

\* Once nothing is pending, every observer has been told the value the attribute
\* has; one that was never told was registered with that value.
ObserversCurrent ==
  Settled => \A n \in AttributeNames : \A o \in Range(attrs.observers[n]) :
    o.to = None /\ o.id \notin OneShots =>
      attrs.value[n] = (IF attrs.told[o.id] = Never THEN o.seen ELSE attrs.told[o.id])

\* "exactly one watch per interpolated attribute": no two watches of a target
\* write the same attribute.
OneWatch == \A v, w \in watches : v.target = w.target /\ v.name = w.name => v = w
=============================================================================
