--------------------------- MODULE MCScopeClients ---------------------------
(***************************************************************************)
(* What lives on the digest cycle: Timers, composite watches and bindings    *)
(* (WatchGroup, WatchCollection, Bindings), and the compiler on small        *)
(* documents and the events of their elements (Directives, Linking,          *)
(* Structural, DomEvents).  They do not share state, so a behaviour is one   *)
(* of one of them: part says which, and the others stay at one of their      *)
(* initial states.                                                          *)
(***************************************************************************)
EXTENDS Timers

CONSTANTS
  Parts,         \* the parts to check
  unseen, text, NaN, undef,
  GroupListener, \* ListenerMay of WatchGroup
  OthersQueued,  \* SharedDigest of Bindings
  none,
  LinkTimes,     \* how often each linker links
  DestroyInLink, \* InLink of Structural
  LocalDigests   \* of DomEvents

VARIABLES
  part,
  group, gCell, gLast, newValues, oldValues, scheduled, gFirstRun, live, queued, lastDirty,
  gPass, at, dirty, heard,
  value, old, oldLength, due, firstRun, veryOld, delegate, detaching, watching, seen,
  disturbed,
  cell, local, lastValue, watched, wired, registered, pending, posted, destroyed, lastSeen, notices,
  told, slipped, wrote,
  element, outcome, captures, looked,
  linked, queue, drains, waiting, arrived, cancelled, dead, stack, failures, thrown, done,
  kind, shape, dom, rows, alive, shown, outer, made, call, wanted,
  phase, frames, asyncQueue, asyncTimer, fired, appCalls, ran, listening, unnoticed, failed

groupVars == <<group, gCell, gLast, newValues, oldValues, scheduled, gFirstRun, live, queued,
               lastDirty, gPass, at, dirty, heard>>
collectionVars == <<value, old, oldLength, due, firstRun, veryOld, delegate, detaching,
                    watching, seen, disturbed>>
bindingVars == <<cell, local, lastValue, watched, wired, registered, pending, posted, destroyed, lastSeen,
                 notices, told, slipped, wrote>>
directiveVars == <<element, outcome, captures, looked>>
linkVars == <<linked, queue, drains, waiting, arrived, cancelled, dead, stack, failures, thrown, done>>
structuralVars == <<kind, shape, dom, rows, alive, shown, outer, made, call, wanted>>
eventVars == <<phase, frames, asyncQueue, asyncTimer, fired, appCalls, ran, listening, unnoticed, failed>>
domVars == <<directiveVars, linkVars, structuralVars, eventVars>>

\* A timeout, an interval of two ticks and an endless one that skips $apply.
Repetitions == <<1, 2, 0>>

\* Three watches, of which the first and the last form a group, or an empty group.
G == INSTANCE WatchGroup WITH
       Watches <- 1 .. 3, Groups <- {{}, {1, 3}}, Values <- 0 .. 1, Unseen <- unseen,
       ListenerMay <- GroupListener, Passes <- 4,
       cell <- gCell, last <- gLast, firstRun <- gFirstRun, pass <- gPass

\* Arrays of up to two items and objects of up to two keys.
C == INSTANCE WatchCollection WITH
       Items <- {NaN, undef}, Undefined <- undef, Keys <- 1 .. 2, MaxLength <- 2

\* Two controllers on one cell, with "=" and "<", so that a digest may change an
\* input twice, and with "<" and "@".
B == INSTANCE Bindings WITH
       Controllers <- 1 .. 2, Owner <- <<1, 1, 2, 2>>, Mode <- <<"<", "=", "<", "@">>,
       Source <- <<"x", "x", "x", "x">>, Cells <- {"x"}, Values <- 0 .. 2,
       Text <- text, Unseen <- unseen, SharedDigest <- OthersQueued,
       Passes <- 4, stack <- notices

-----------------------------------------------------------------------------
(* Elements for Directives                                                  *)

Declaration(name, index, priority, forms, terminal, multi, transclude, template, isolate) ==
  [name |-> name, index |-> index, priority |-> priority, forms |-> forms, terminal |-> terminal,
   multi |-> multi, transclude |-> transclude, template |-> template, isolate |-> isolate]

Library ==
  {Declaration("repeat", 1, 3, {"A"}, TRUE, TRUE, "element", "none", FALSE),
   Declaration("if", 1, 2, {"A"}, TRUE, TRUE, "element", "none", FALSE),
   Declaration("when", 1, 4, {"E", "A"}, FALSE, TRUE, "element", "none", FALSE),
   Declaration("show", 1, 0, {"A"}, FALSE, TRUE, "none", "none", FALSE),
   Declaration("show", 2, 0, {"A"}, FALSE, FALSE, "none", "none", FALSE),
   Declaration("card", 1, 0, {"E", "A", "C"}, FALSE, FALSE, "slots", "url", TRUE),
   Declaration("pane", 1, 1, {"A", "C", "M"}, FALSE, FALSE, "content", "inline", FALSE),
   Declaration("user", 1, 0, {"A"}, FALSE, FALSE, "none", "throws", TRUE)}

A(name) == [name |-> name, base |-> none]
S(name) == [name |-> name \o "Start", base |-> name]
Attributes == {A(d.name) : d \in Library} \cup {S("repeat"), S("show")}
AttributeLists ==
  {<<>>} \cup {<<a>> : a \in Attributes}
  \cup {<<a, b>> : a \in Attributes, b \in Attributes}
  \cup {<<A("repeat"), A("if"), A("user")>>, <<S("repeat"), A("when"), A("pane")>>}

SiblingLists ==
  {<<{"start"}>>, <<{"start"}, {"end"}>>, <<{"start", "end"}, {}>>,
   <<{"start"}, {"start"}, {"end"}, {"end"}, {}>>, <<{"start"}, {"start"}, {}, {"end"}>>,
   <<{"start"}, {"start", "end"}, {"end"}>>}

Markup ==
  [tag : {"div", "card", "comment"}, attrs : AttributeLists,
   classes : {<<>>, <<"card">>, <<"pane", "card">>}, siblings : SiblingLists,
   children : {<<>>, <<"head", "x", "body">>, <<"body", "y", "body">>}, stamp : {none}]
AnyElement == CHOOSE e \in Markup : e.attrs = <<>>

D == INSTANCE Directives WITH
       Declarations <- Library, Elements <- Markup, Required <- {"head"},
       Earlier <- {<<>>, <<"user", "card", "show">>},
       Optional <- {"body"}, None <- none

-----------------------------------------------------------------------------
(* A tree for Linking, ranges for Structural, and a scope with a child      *)

TreeNodes == {"list", "item", "card", "late", "inner", "bad", "pane"}
Tree == [n \in TreeNodes |-> CASE n = "list" -> <<"card", "bad", "late", "pane">>
                               [] n = "card" -> <<"item", "inner">>
                               [] OTHER -> <<>>]
L == INSTANCE Linking WITH
       Nodes <- TreeNodes, Kids <- Tree, Hosts <- {"card", "late", "inner"}, Conflicting <- {"bad", "late"},
       Bound <- {"card", "item", "pane"},
       Roots <- <<"list", "item">>, Links <- LinkTimes, MaxFailures <- 1

Item(k, v) == [key |-> k, value |-> v]
S1 == INSTANCE Structural WITH
        Items <- {Item("a", 1), Item("a", 2), Item("b", 1)}, MaxRows <- 3,
        Cases <- <<"x", "y", "x", "?">>, Default <- "?",
        Shapes <- {<<"element">>, <<"element", "if">>}, InLink <- DestroyInLink, MaxIds <- 3

V == INSTANCE DomEvents WITH
       Scopes <- {"root", "child"}, Root <- "root",
       Chain <- [s \in {"root", "child"} |-> IF s = "root" THEN <<"root">> ELSE <<"child", "root">>],
       MaxEvents <- 3, MaxCalls <- 2, MaxDepth <- 5,
       stack <- frames, queue <- asyncQueue, timer <- asyncTimer, calls <- appCalls,
       unseen <- unnoticed

-----------------------------------------------------------------------------

EachOnce == <<1, 1>>
FirstTwice == <<2, 0>>

-----------------------------------------------------------------------------

ClientsInit ==
  /\ part \in Parts
  /\ part # "group" => group = {} /\ gCell = [i \in 1 .. 3 |-> 0]
  /\ part # "collection" => delegate = "plain"
  /\ cell = [c \in {"x"} |-> 0]
  /\ IF part = "directives" THEN D!Init
     ELSE element = AnyElement /\ outcome = none /\ captures = 0 /\ looked = <<>>
  /\ part # "structural" => kind = "if" /\ shape = <<"element">>
  /\ Init /\ G!Init /\ C!Init /\ B!Init /\ L!Init /\ S1!Init /\ V!Init

\* A step of the digest's clients, and one of the compiler and the events.
DigestNext ==
  \/ part = "timers" /\ Next /\ UNCHANGED <<groupVars, collectionVars, bindingVars>>
  \/ part = "group" /\ G!Next /\ UNCHANGED <<taskVars, collectionVars, bindingVars>>
  \/ part = "collection" /\ C!Next /\ UNCHANGED <<taskVars, groupVars, bindingVars>>
  \/ part = "bindings" /\ B!Next /\ UNCHANGED <<taskVars, groupVars, collectionVars>>

DomNext ==
  \/ part = "directives" /\ D!Next /\ UNCHANGED <<linkVars, structuralVars, eventVars>>
  \/ part = "linking" /\ L!Next /\ UNCHANGED <<directiveVars, structuralVars, eventVars>>
  \/ part = "structural" /\ S1!Next /\ UNCHANGED <<directiveVars, linkVars, eventVars>>
  \/ part = "domEvents" /\ V!Next /\ UNCHANGED <<directiveVars, linkVars, structuralVars>>

clientVars == <<taskVars, groupVars, collectionVars, bindingVars>>

ClientsNext ==
  /\ UNCHANGED part
  /\ \/ DigestNext /\ UNCHANGED domVars
     \/ DomNext /\ UNCHANGED clientVars

ClientsSpec ==
  ClientsInit /\ [][ClientsNext]_<<part, clientVars, domVars>>
    /\ Fairness /\ L!Fairness /\ V!Fairness

-----------------------------------------------------------------------------

\* The listener of $watchGroup is told every change, once for each digest, with
\* the values the digest ended with.
GroupHears == [](part = "group" => G!TypeOK /\ G!Coalesced) /\ G!GroupHears

\* The listener of $watchCollection hears of every change, and as the old value is
\* given what was there the time before, unless that call threw or itself changed
\* the collection in place.
ChangeSeen ==
  [](part = "collection" => C!TypeOK /\ C!SnapshotExact) /\ C!ChangeSeen /\ C!OldHanded

\* $onChanges is told each change of a binding once, each from where the last one
\* ended, and both sides of "=" agree when a digest ends, those of a controller
\* whose wiring threw half way included (isolate-bindings.ts, lifecycle.ts).
BindingsAgree ==
  /\ [](part = "bindings" => B!TypeOK /\ B!ChangesTold /\ B!ChangesQueued)
  /\ B!ChangesChain /\ B!TwoWaySynced


\* A node is linked once for each call of its linker, controllers first, children
\* before the post links; bindings that throw stop the nodes they are in, and no
\* other; and a host that waits for its template is installed, or dropped because
\* the scope it was for is gone, never both, unless its queue was lost with them
\* (compile.ts).
LinkedOnce ==
  /\ [](part = "linking" => L!TypeOK /\ L!LinksInOrder /\ L!StopsWhereItThrew /\ L!LinkedOnce)
  /\ L!NothingInstalledLate /\ L!HostsSettle

\* ng-if, ng-switch and ng-repeat show what was asked last, one row, scope and
\* range of nodes for each item, kept by key; nothing outlives what is around it.
RowsKept == [](part = "structural" => S1!TypeOK /\ S1!RowsShown /\ S1!NothingLeft) /\ S1!RowsKept

\* What no run checks: the nodes of a row of several elements, one of them with a
\* structural directive of its own, stay together (ng-repeat.ts).
RangeWhole == S1!RangeWhole

\* Every event of the document runs its handler once, whichever way it takes, and
\* what it changed is seen by a pass of the root (ng-event-directives.ts).
EventsHandled == [](part = "domEvents" => V!RunOnce /\ V!ChangesSeen) /\ V!EventsHandled
=============================================================================
