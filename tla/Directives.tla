----------------------------- MODULE Directives -----------------------------
(***************************************************************************)
(* Compiling one element: which registered directives match it, in which    *)
(* order they take effect, which of them owns its content, its template and *)
(* its scope, and what is captured for transclusion.  An element captured   *)
(* as a whole is compiled a second time, as the master its clones are made  *)
(* from.                                                                    *)
(*                                                                         *)
(* A declaration is a record                                                *)
(*   [name, index, priority, forms, terminal, multi, transclude, template,  *)
(*    isolate]                                                              *)
(* with index its place among those of its name, in order of registration;  *)
(* forms a set of "E", "A", "C", "M"; transclude one of "none",             *)
(* "content", "slots", "element"; template one of "none", "inline", "url",  *)
(* and for a function what it does: "throws", "other" (no string), "empty". *)
(***************************************************************************)
EXTENDS Integers, Sequences, FiniteSets, SequencesExt

CONSTANTS
  Declarations,   \* the registered directives
  Elements,       \* the elements compiled
  Earlier,        \* the orders in which elements compiled before asked for names
  Required,       \* the slots that must be filled
  Optional,       \* the other declared slots
  None

VARIABLES
  element,        \* [tag, attrs, classes, siblings, children, stamp]; see Matches
  outcome,        \* what compiling it gave, or None
  captures,       \* the times it was captured as a whole
  looked          \* the names asked for so far for which there are directives

directiveVars == <<element, outcome, captures, looked>>

Named(name) ==
  SetToSortSeq({d \in Declarations : d.name = name}, LAMBDA a, b : a.index < b.index)
With(name, form) == SelectSeq(Named(name), LAMBDA d : form \in d.forms)

-----------------------------------------------------------------------------
(* collectDirectives                                                        *)

\* An attribute is [name, base]; base is its name without a final "Start", or
\* None.  Only an attribute no directive matches by its full name opens a range.
Ranged(attr) == IF With(attr.name, "A") # <<>> \/ attr.base = None THEN <<>>
                ELSE SelectSeq(With(attr.base, "A"), LAMBDA d : d.multi)
OfAttr(attr) == With(attr.name, "A") \o Ranged(attr)
OfClasses(classes) == FlattenSeq([k \in DOMAIN classes |-> With(classes[k], "C")])

\* The first name a comment declares, with the element's attributes for its words.
OfComment(e) == IF e.attrs = <<>> THEN <<>> ELSE With(e.attrs[1].name, "M")

Matches(e) ==
  IF e.tag = "comment" THEN OfComment(e)
  ELSE With(e.tag, "E")
       \o FlattenSeq([k \in DOMAIN e.attrs |-> OfAttr(e.attrs[k])])
       \o OfClasses(e.classes)

\* The names asked for, in order; an attribute's base only when it may open a range.
LookedUp(e) ==
  IF e.tag = "comment" THEN (IF e.attrs = <<>> THEN <<>> ELSE <<e.attrs[1].name>>)
  ELSE <<e.tag>>
       \o FlattenSeq([k \in DOMAIN e.attrs |->
             IF With(e.attrs[k].name, "A") # <<>> \/ e.attrs[k].base = None
             THEN <<e.attrs[k].name>> ELSE <<e.attrs[k].name, e.attrs[k].base>>])
       \o e.classes

\* The directives of a name are made, and numbered, when it is asked for the first
\* time; a name without any is never asked of the injector.
Known(e) ==
  FoldLeft(LAMBDA names, n : IF n \in Range(names) \/ Named(n) = <<>> THEN names ELSE Append(names, n),
           looked, LookedUp(e))

Starts(e) == {e.attrs[k].base : k \in {k \in DOMAIN e.attrs : Ranged(e.attrs[k]) # <<>>}}


\* The master of a captured element keeps no other claim to its content.
Sanitized(e) ==
  IF e.stamp = None THEN Matches(e)
  ELSE SelectSeq(Matches(e), LAMBDA d : d.transclude = "none" \/ d.name = e.stamp)

\* By priority, then by number: that of the name, and that among those of the name.
Before(names, a, b) ==
  \/ a.priority > b.priority
  \/ /\ a.priority = b.priority
     /\ \/ a.name = b.name /\ a.index < b.index
        \/ \E i, j \in DOMAIN names : names[i] = a.name /\ names[j] = b.name /\ i < j

\* A terminal directive cuts off those of lower priority, except that a second
\* claim to the content is kept to be reported.
Cutoff(sorted, reentry) ==
  FoldLeft(LAMBDA s, d :
             IF d.priority < s.terminal
             THEN IF d.transclude # "none" /\ s.kept /\ ~reentry
                  THEN [s EXCEPT !.list = Append(@, d)] ELSE s
             ELSE [list |-> Append(s.list, d),
                   kept |-> s.kept \/ d.transclude # "none",
                   terminal |-> IF d.terminal /\ d.priority > s.terminal THEN d.priority ELSE s.terminal],
           [list |-> <<>>, kept |-> FALSE, terminal |-> -1], sorted).list

Collected(e) ==
  LET names == Known(e)
  IN  Cutoff(SortSeq(Sanitized(e), LAMBDA a, b : Before(names, a, b)), e.stamp # None)

-----------------------------------------------------------------------------
(* compileElementOrComment, at compile time                                 *)

Second(s, mark) == [s EXCEPT !.reports = Append(@, mark)]

\* The transclusion pre-pass: the first claim wins, and the directive whose
\* capture made this master is left out.
Claims(e) ==
  FoldLeft(LAMBDA s, d :
             IF d.transclude = "none" THEN [s EXCEPT !.list = Append(@, d)]
             ELSE IF e.stamp = d.name /\ d.transclude = "element" THEN s
             ELSE IF s.winner = None THEN [s EXCEPT !.winner = d, !.list = Append(@, d)]
             ELSE [Second(s, "transclude") EXCEPT !.list = Append(@, [d EXCEPT !.transclude = "none"])],
           [list |-> <<>>, winner |-> None, reports |-> <<>>], Collected(e))

\* The template pre-pass: the first directive that declares one has the place,
\* also if its function fails.
Templates(list) ==
  FoldLeft(LAMBDA s, d :
             IF d.template = "none" THEN [s EXCEPT !.list = Append(@, d)]
             ELSE IF s.owner # None
             THEN [Second(s, "template") EXCEPT !.list = Append(@, [d EXCEPT !.template = "none"])]
             ELSE [list |-> Append(s.list, d), owner |-> d,
                   reports |-> IF d.template \in {"throws", "other"}
                               THEN Append(s.reports, d.template) ELSE s.reports],
           [list |-> <<>>, owner |-> None, reports |-> <<>>], list)

\* At most one isolate scope: a second one keeps the element from being linked.
Isolates(e) == SelectSeq(Collected(e), LAMBDA d : d.isolate /\ e.tag # "comment")

\* collectMultiElementRange: siblings are sets of markers, the first those of the
\* element itself.  The depth after each of them; the range ends at depth 0.
Depth(siblings, k) ==
  FoldLeft(LAMBDA depth, i : depth + (IF i = 1 \/ "start" \in siblings[i] THEN 1 ELSE 0)
                                   - (IF "end" \in siblings[i] THEN 1 ELSE 0),
           0, [i \in 1 .. k |-> i])
RangeLength(siblings) ==
  LET ends == {k \in DOMAIN siblings : "end" \in siblings[k] /\ Depth(siblings, k) = 0}
  IN  IF ends = {} THEN 0 ELSE CHOOSE k \in ends : \A j \in ends : k <= j

\* captureChildren, by the slot selectors of the children.
Bucket(e, slot) == SelectSeq([k \in DOMAIN e.children |-> k], LAMBDA k : e.children[k] = slot)
DefaultBucket(e) ==
  SelectSeq([k \in DOMAIN e.children |-> k], LAMBDA k : e.children[k] \notin Required \cup Optional)
Unfilled(e) == {slot \in Required : Bucket(e, slot) = <<>>}

\* Ranges are looked for before anything is captured: that of the winner, and of
\* the ranged directives that claim no content, whose attribute is copied along
\* the range; one whose claim was refused has neither.
RangedHere(e, claims) ==
  {d \in Range(Collected(e)) :
     d.multi /\ d.name \in Starts(e)
     /\ (d.transclude = "none" \/ (d = claims.winner /\ d.transclude = "element"))}

Compiled(e) ==
  LET claims == Claims(e)
      broken == e.tag # "comment" /\ RangedHere(e, claims) # {} /\ RangeLength(e.siblings) = 0
      captured == claims.winner # None /\ e.tag # "comment" /\ claims.winner.transclude = "element"
      templates == IF captured \/ e.tag = "comment"
                   THEN [list |-> claims.list, owner |-> None, reports |-> <<>>]
                   ELSE Templates(claims.list)
      isolated == Len(Isolates(e)) > 1
  IN  [linked |-> ~broken /\ ~isolated,
       list |-> IF broken THEN <<>> ELSE templates.list,
       winner |-> claims.winner,
       captured |-> captured /\ ~broken,
       owner |-> templates.owner,
       async |-> ~broken /\ templates.owner # None /\ templates.owner.template = "url",
       range |-> IF RangedHere(e, claims) # {} THEN RangeLength(e.siblings) ELSE 1,
       reports |-> claims.reports
                   \o (IF broken THEN <<"unterminated">> ELSE templates.reports)
                   \o (IF isolated /\ ~broken THEN <<"isolate">> ELSE <<>>)]

-----------------------------------------------------------------------------

Init == element \in Elements /\ outcome = None /\ captures = 0 /\ looked \in Earlier

Compile ==
  /\ outcome = None
  /\ outcome' = Compiled(element)
  /\ looked' = Known(element)
  /\ UNCHANGED <<element, captures>>

\* The captured element is compiled again by makeInternalLinker, with the stamp.
Recompile ==
  /\ outcome # None /\ outcome.captured
  /\ element' = [element EXCEPT !.stamp = outcome.winner.name]
  /\ outcome' = None /\ captures' = captures + 1
  /\ UNCHANGED looked

Next == Compile \/ Recompile

-----------------------------------------------------------------------------
(* Properties                                                              *)

\* Whatever combination of directives an element carries, it is captured as a
\* whole at most once, so compiling ends.
CapturesEnd == captures <= 1

\* Each claim to content, template and scope that is not the first is reported
\* and without effect, and so nothing is claimed twice or lost in silence.
OneOwner ==
  outcome # None /\ outcome.list # <<>> =>
    LET kept == Range(outcome.list)
        others(mark) == Cardinality({k \in DOMAIN outcome.reports : outcome.reports[k] = mark})
    IN  /\ Cardinality({k \in DOMAIN outcome.list : outcome.list[k].transclude # "none"}) <= 1
        /\ (\E d \in kept : d.template # "none") /\ ~outcome.captured /\ element.tag # "comment" =>
             Cardinality({k \in DOMAIN outcome.list : outcome.list[k].template # "none"}) = 1
        /\ others("isolate") = (IF outcome.linked THEN 0 ELSE 1)
        /\ element.stamp = None =>
             others("transclude") + (IF outcome.winner = None THEN 0 ELSE 1)
             = Cardinality({k \in DOMAIN Collected(element) : Collected(element)[k].transclude # "none"})

\* Directives take effect by priority, then in the order in which their names were
\* first met anywhere, and those of one name as they were registered; none below
\* the highest terminal one does, except to be told off for its claim.
InOrder ==
  outcome # None =>
    /\ \A i, j \in DOMAIN outcome.list : i < j => ~Before(looked, outcome.list[j], outcome.list[i])
    /\ \A t, d \in Range(outcome.list) :
         t.terminal /\ d.priority < t.priority =>
           "transclude" \in Range(outcome.reports) /\ d.transclude = "none" /\ element.stamp = None

\* Markers pair like brackets: within a range every inner start has its end.
RangeCloses ==
  outcome # None /\ outcome.range > 1 =>
    /\ Depth(element.siblings, outcome.range) = 0
    /\ \A k \in 1 .. outcome.range - 1 : Depth(element.siblings, k) > 0

\* Each child is in exactly one bucket, in its order.
BucketsPartition ==
  LET buckets == <<DefaultBucket(element)>> \o SetToSeq({Bucket(element, s) : s \in Required \cup Optional} \ {<<>>})
  IN  /\ Len(FlattenSeq(buckets)) = Len(element.children)
      /\ Range(FlattenSeq(buckets)) = DOMAIN element.children
=============================================================================
