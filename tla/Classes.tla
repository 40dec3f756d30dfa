------------------------------ MODULE Classes ------------------------------
(***************************************************************************)
(* The classes and inline styles of one element under ngClass, ngClassEven,  *)
(* ngClassOdd, ngShow, ngHide and ngStyle.  Each directive compares what its *)
(* expression asks for with what it applied itself, in watch listeners that  *)
(* a digest calls in any order.                                            *)
(***************************************************************************)
EXTENDS Naturals, Sequences, FiniteSets, SequencesExt, Functions

CONSTANTS
  Elements,      \* records [classes, styles, directives], each directive a
                 \* record [kind, values] of what its expression may give
  None,          \* undefined, and no value of a style
  MaxChanges,    \* bound: changes of expressions and of the row's place
  MaxCalls       \* bound: listeners called before the TTL ends the digest

VARIABLES
  element,
  value,         \* of each directive's expression
  even,          \* $even of the row; $odd is its negation
  classes, styles,
  seen,          \* <<what it saw last>> of each watch, <<directive, "value" or "gate">>
  applied,       \* appliedClasses or appliedProps of each directive
  lastValue,     \* of the gated ones, for the gate's listener
  digesting, calls,  \* a digest runs, and has called so many listeners
  quiet, gaveUp,     \* history: nothing changed since it began; it hit the TTL
  changed        \* counter

classVars == <<element, value, even, classes, styles, seen, applied, lastValue,
               digesting, calls, quiet, gaveUp, changed>>

Directives == DOMAIN element.directives
Kind(d) == element.directives[d].kind
Gated(d) == Kind(d) \in {"even", "odd"}
Watches == (Directives \X {"value"}) \cup {<<d, "gate">> : d \in {e \in Directives : Gated(e)}}

Init ==
  /\ element \in Elements
  /\ value \in [Directives -> UNION {element.directives[d].values : d \in Directives}]
  /\ \A d \in Directives : value[d] \in element.directives[d].values
  /\ even \in BOOLEAN
  /\ classes = element.classes /\ styles = element.styles
  /\ seen = [w \in Watches |-> <<>>]
  /\ applied = [d \in Directives |-> {}] /\ lastValue = [d \in Directives |-> None]
  /\ digesting = FALSE /\ calls = 0 /\ quiet = TRUE /\ gaveUp = FALSE /\ changed = 0

-----------------------------------------------------------------------------
(* Values: strings of names, objects with truthy and falsy keys, arrays of    *)
(* both, or anything else.                                                  *)

FlattenItem(v) ==
  CASE v.form = "string" -> v.names
    [] v.form = "object" -> v.on
    [] OTHER -> {}
Flatten(v) ==
  IF v = None THEN {}
  ELSE IF v.form = "array" THEN UNION {FlattenItem(item) : item \in v.items} ELSE FlattenItem(v)
Truthy(v) == v # None /\ (v.form = "string" => v.names # {})

\* An array that the expression itself builds around an object is never the
\* same twice: the watch compares its items by identity.
Fresh(v) == v # None /\ v.form = "array" /\ \E item \in v.items : item.form = "object" /\ item.literal

Gate(d) == Kind(d) \notin {"even", "odd"} \/ (Kind(d) = "even") = even
Props(v) == IF v = None \/ v.form # "style" THEN {} ELSE DOMAIN v.props

-----------------------------------------------------------------------------
(* The listeners                                                           *)

\* A mistake the properties rule out: what is recorded as applied is what was
\* asked for, whether the gate let it through or not.
ApplyDiffRecordsAll(d, v) ==
  LET target == IF Gate(d) THEN Flatten(v) ELSE {}
  IN  /\ classes' = (classes \ (applied[d] \ target)) \cup (target \ applied[d])
      /\ applied' = [applied EXCEPT ![d] = Flatten(v)]
      /\ UNCHANGED styles

\* applyDiff: only classes this directive applied leave, only new ones come.
ApplyDiff(d, v) ==
  LET target == IF Gate(d) THEN Flatten(v) ELSE {}
  IN  /\ classes' = (classes \ (applied[d] \ target)) \cup (target \ applied[d])
      /\ applied' = [applied EXCEPT ![d] = target]
      /\ UNCHANGED styles

Toggle(hide) ==
  /\ classes' = IF hide THEN classes \cup {"ng-hide"} ELSE classes \ {"ng-hide"}
  /\ UNCHANGED <<styles, applied>>

ApplyStyles(d, v) ==
  /\ styles' = [p \in DOMAIN styles |->
       IF p \in Props(v) THEN v.props[p] ELSE IF p \in applied[d] THEN None ELSE styles[p]]
  /\ applied' = [applied EXCEPT ![d] = Props(v)]
  /\ UNCHANGED classes

Listener(d) ==
  /\ CASE Kind(d) = "show" -> Toggle(~Truthy(value[d]))
       [] Kind(d) = "hide" -> Toggle(Truthy(value[d]))
       [] Kind(d) = "style" -> ApplyStyles(d, value[d])
       [] OTHER -> ApplyDiff(d, value[d])
  /\ lastValue' = [lastValue EXCEPT ![d] = IF Gated(d) THEN value[d] ELSE @]

GateListener(d) == ApplyDiff(d, lastValue[d]) /\ UNCHANGED lastValue

-----------------------------------------------------------------------------

Current(w) == IF w[2] = "gate" THEN even ELSE value[w[1]]
Dirty(w) == seen[w] # <<Current(w)>> \/ (w[2] = "value" /\ Fresh(value[w[1]]))

BeginDigest ==
  /\ ~digesting
  /\ digesting' = TRUE /\ calls' = 0 /\ quiet' = TRUE
  /\ UNCHANGED <<element, value, even, classes, styles, seen, applied, lastValue, gaveUp, changed>>

Evaluate(w) ==
  /\ digesting /\ Dirty(w) /\ calls < MaxCalls
  /\ seen' = [seen EXCEPT ![w] = <<Current(w)>>] /\ calls' = calls + 1
  /\ IF w[2] = "gate" THEN GateListener(w[1]) ELSE Listener(w[1])
  /\ UNCHANGED <<element, value, even, digesting, quiet, gaveUp, changed>>

EndDigest ==
  /\ digesting /\ \A w \in Watches : ~Dirty(w)
  /\ digesting' = FALSE
  /\ UNCHANGED <<element, value, even, classes, styles, seen, applied, lastValue, calls, quiet, gaveUp, changed>>

GiveUp ==
  /\ digesting /\ calls = MaxCalls /\ \E w \in Watches : Dirty(w)
  /\ digesting' = FALSE /\ gaveUp' = (gaveUp \/ quiet)
  /\ UNCHANGED <<element, value, even, classes, styles, seen, applied, lastValue, calls, quiet, changed>>

\* Application code, or ngRepeat moving the row: the row's own watches follow in
\* the same pass, so that a gate has seen each place before the next.
Change(d, v) ==
  /\ changed < MaxChanges /\ v # value[d]
  /\ value' = [value EXCEPT ![d] = v] /\ changed' = changed + 1 /\ quiet' = FALSE
  /\ UNCHANGED <<element, even, classes, styles, seen, applied, lastValue, digesting, calls, gaveUp>>

Move ==
  /\ changed < MaxChanges /\ digesting /\ \E d \in Directives : Gated(d)
  /\ \A w \in Watches : w[2] = "gate" => seen[w] \in {<<>>, <<even>>}
  /\ even' = ~even /\ changed' = changed + 1 /\ quiet' = FALSE
  /\ UNCHANGED <<element, value, classes, styles, seen, applied, lastValue, digesting, calls, gaveUp>>

Next ==
  \/ BeginDigest \/ EndDigest \/ GiveUp \/ Move
  \/ \E w \in Watches : Evaluate(w)
  \/ \E d \in Directives : \E v \in element.directives[d].values : Change(d, v)

-----------------------------------------------------------------------------
(* Properties                                                              *)

Settled == ~digesting /\ \A w \in Watches : ~Dirty(w)
Wanted(d) == IF Kind(d) \in {"class", "even", "odd"} /\ Gate(d) THEN Flatten(value[d]) ELSE {}
Hidden ==
  \E d \in Directives : \/ Kind(d) = "show" /\ ~Truthy(value[d])
                        \/ Kind(d) = "hide" /\ Truthy(value[d])

\* The element has the classes of its markup and those each directive asks for,
\* "the union of all three", and no other.
ClassesAreUnion ==
  Settled => classes = element.classes \cup UNION {Wanted(d) : d \in Directives}
                         \cup (IF Hidden THEN {"ng-hide"} ELSE {})

\* A style is what ngStyle asks for, if it names the property, else that of the
\* markup, unless ngStyle has named it before.
StylesFollow ==
  Settled => \A p \in DOMAIN styles : \A d \in Directives : Kind(d) = "style" =>
    IF p \in Props(value[d]) THEN styles[p] = value[d].props[p]
    ELSE styles[p] \in {None, element.styles[p]}

\* A digest during which nothing changes ends: no expression the documentation
\* shows makes it run into its TTL.
DigestSettles == ~gaveUp
=============================================================================
