------------------------------ MODULE Startup ------------------------------
(***************************************************************************)
(* From the module DSL to the first digest: an application declares          *)
(* directives, components, controllers and filters, which a module keeps as  *)
(* config blocks; bootstrap makes an injector that runs them against the     *)
(* $compile, $controller and $filter providers, then compiles its element.   *)
(* Each bootstrap has an injector of its own and the module outlives them.   *)
(* A block may call bootstrap again, and code that kept a provider may go on *)
(* registering after the config phase.                                      *)
(***************************************************************************)
EXTENDS Naturals, Sequences, FiniteSets, SequencesExt

CONSTANTS
  Names,         \* of directives, controllers and filters; a factory is a record
                 \* [shape], of a directive [shape, throws, ddo]
  BadName,       \* one of them that no registration accepts
  Blocks,        \* what the application may declare, see Perform
  LateBlocks,    \* what it may do once the injector runs
  Document,      \* names the compiler finds on the element, in order
  Reentrant,     \* a block may bootstrap the element that is being started
  MaxDeclared, MaxBoots, MaxLate  \* bounds: blocks, bootstraps, later calls

VARIABLES
  declared,      \* $$configBlocks and $$runBlocks of the module: <<phase, block>>
  injector,      \* one record for each bootstrap so far
  starting,      \* bootstraps in progress, the innermost last: [boot, next, plan]
  throwing,      \* an error is on its way out of the innermost one
  marked,        \* $$ngBootstrapped of the element
  linked,        \* the bootstraps that linked it, or began to
  broken,        \* history: those that threw after they had marked it
  index,         \* $$globalDirectiveIndex
  late,          \* counter of calls in the run phase
  accepted       \* history: registrations after the config phase nothing refused

startupVars == <<declared, injector, starting, throwing, marked, linked, broken, index, late,
                 accepted>>

-----------------------------------------------------------------------------
(* Directive definitions                                                    *)

\* What normalizeDirective reports of a definition: the first check that fails.
\* A field is "no" when it is absent, "good", "bad", or "empty".
BindingChecks(bindings) == <<<<bindings = "bad", "InvalidIsolateBinding">>>>
TranscludeChecks(d) ==
  <<<<d.transclude = "bad", "InvalidTranscludeValue">>,
    <<d.transclude = "twice", "DuplicateTranscludeSelector">>>>
TemplateChecks(d) ==
  <<<<d.replace, "ReplaceTrueNotSupported">>,
    <<d.template # "no" /\ d.templateUrl # "no", "TemplateAndTemplateUrlCombined">>,
    <<d.template = "empty" \/ d.templateUrl = "empty", "EmptyTemplate">>,
    <<d.template = "bad" \/ d.templateUrl = "bad", "InvalidTemplateValue">>>>
ControllerChecks(d) ==
  <<<<d.controllerAs # "no" /\ d.controller = "no", "ControllerAsWithoutController">>,
    <<d.controllerAs \in {"bad", "empty"}, "MalformedControllerAlias">>,
    <<d.controller \in {"bad", "empty"}, "InvalidControllerFactory">>>>
Checks(d) ==
  BindingChecks(d.scope) \o TranscludeChecks(d) \o TemplateChecks(d) \o ControllerChecks(d)
    \o BindingChecks(d.bindings)
    \o <<<<d.require = "bad", "InvalidDirectiveFactory">>, <<d.priority = "bad", "InvalidPriority">>>>
Problem(d) ==
  LET failed == SelectSeq(Checks(d), LAMBDA check : check[1])
  IN  IF failed = <<>> THEN "none" ELSE failed[1][2]

\* The definition component() makes: an element with an isolate scope, bound to
\* a controller that is always there, under $ctrl unless it says otherwise.
Given(field, default) == IF field = "no" THEN default ELSE field
Component(c) ==
  [c EXCEPT !.restrict = "E", !.scope = Given(c.bindings, "good"), !.bindings = "no",
            !.controller = Given(@, "good"), !.controllerAs = Given(@, "good"), !.replace = FALSE,
            !.priority = "no"]

ValidShape(f) == f.shape = "invokable"

-----------------------------------------------------------------------------
(* The providers of one injector                                            *)

\* The settings of $compileProvider: until a block sets them they are "default".
Settings == {"commentDirectivesEnabled", "cssClassDirectivesEnabled", "aHrefSanitizationTrustedUrlList",
             "imgSrcSanitizationTrustedUrlList", "strictComponentBindingsEnabled", "debugInfoEnabled"}

NoInjector ==
  [phase |-> "none", settings |-> [s \in Settings |-> "default"], compile |-> {},
   factories |-> [n \in Names |-> <<>>], known |-> {}, provided |-> {}, registered |-> {},
   filters |-> {}, filterProvided |-> {}, controllers |-> {},
   directives |-> [n \in Names |-> <<>>], reported |-> <<>>, applied |-> 0]

\* Each gives the injector afterwards and whether the call threw: what was done
\* before the throw stays done.
Result(i, threw) == [injector |-> i, threw |-> threw]

\* $provide.provider runs into the guard of the config phase, but only for the
\* first factory of a name, whose empty list is in the map by then.
RegisterDirective(i, name, f) ==
  IF name = BadName \/ ~ValidShape(f) THEN Result(i, TRUE)
  ELSE IF name \in i.known THEN Result([i EXCEPT !.factories[name] = Append(@, f)], FALSE)
  ELSE LET j == [i EXCEPT !.known = @ \cup {name}]
       IN  IF i.phase # "config" THEN Result(j, TRUE)
           ELSE Result([j EXCEPT !.provided = @ \cup {name}, !.registered = @ \cup {name},
                                 !.factories[name] = <<f>>], FALSE)

\* A value of the wrong type is refused; without one the setting is read.
Set(i, setting, value) ==
  IF value = "bad" THEN Result(i, TRUE)
  ELSE Result([i EXCEPT !.settings[setting] = IF value = "no" THEN @ ELSE value], FALSE)

RegisterController(i, name, f) ==
  IF i.phase # "config" \/ name = BadName \/ f.shape = "none" THEN Result(i, TRUE)
  ELSE Result([i EXCEPT !.controllers = @ \cup {name}], FALSE)

RegisterFilter(i, name, f) ==
  IF f.shape = "none" \/ name = BadName THEN Result(i, TRUE)
  ELSE LET j == [i EXCEPT !.filters = @ \cup {name}]
       IN  IF i.phase # "config" THEN Result(j, TRUE)
           ELSE Result([j EXCEPT !.filterProvided = @ \cup {name}], FALSE)

\* A name at a time, until one is refused.
InTurn(i, block) ==
  FoldLeft(LAMBDA r, p :
             IF r.threw THEN r
             ELSE CASE block.op = "directive" -> RegisterDirective(r.injector, p[1], p[2])
                    [] block.op = "controller" -> RegisterController(r.injector, p[1], p[2])
                    [] block.op = "filter" -> RegisterFilter(r.injector, p[1], p[2]),
           Result(i, FALSE), block.pairs)

\* A mistake the properties rule out: a definition is taken as its factory gave it.
UsableUnchecked(f) == ~f.throws

\* The provider <name>Directive: once, when the name is first asked for, every
\* factory there is by then; one that throws, or whose definition does not hold
\* up, is reported and left out.
Usable(f) == ~f.throws /\ Problem(f.ddo) = "none"
Directives(i, name, from) ==
  LET usable == SelectSeq(i.factories[name], Usable)
  IN  [k \in DOMAIN usable |-> [factory |-> usable[k], index |-> from + k - 1]]
Ask(i, name, from) ==
  IF name \notin i.registered \/ i.directives[name] # <<>> THEN i
  ELSE [i EXCEPT !.directives[name] = <<Directives(i, name, from)>>,
                 !.reported = @ \o LET bad == SelectSeq(i.factories[name], LAMBDA f : ~Usable(f))
                                   IN  [k \in DOMAIN bad |-> <<name, bad[k]>>]]
Used(i, j, name) == IF i.directives[name] = j.directives[name] THEN 0 ELSE Len(j.directives[name][1])

\* $compile takes the settings as they are when it is first needed.
NeedCompile(i) == [i EXCEPT !.compile = IF @ = {} THEN {i.settings} ELSE @]

-----------------------------------------------------------------------------
(* Blocks                                                                  *)

Boots == DOMAIN injector
Idle == starting = <<>>
Current == Last(starting)
Here == injector[Current.boot]

\* What a block does, as a call on the injector i.
Effect(i, block) ==
  CASE block.op \in {"directive", "controller", "filter"} -> InTurn(i, block)
    [] block.op = "component" ->
         IF block.name = BadName THEN Result(i, TRUE)
         ELSE RegisterDirective(i, block.name,
                [shape |-> "invokable", throws |-> FALSE, ddo |-> Component(block.ddo)])
    [] block.op = "set" -> Set(i, block.setting, block.value)
    [] block.op = "ask" -> Result(Ask(NeedCompile(i), block.name, index), FALSE)
    [] block.op = "throw" -> Result(i, TRUE)
    [] OTHER -> Result(i, FALSE)
Indexed(i, j) == index' = index + FoldSet(LAMBDA n, sum : sum + Used(i, j, n), 0, Names)

Registers(block) == block.op \in {"directive", "component", "controller", "filter"}
Perform(b, block) ==
  LET result == Effect(injector[b], block)
  IN  /\ injector' = [injector EXCEPT ![b] = result.injector]
      /\ Indexed(injector[b], result.injector)
      /\ throwing' = result.threw
      /\ accepted' = IF injector[b].phase = "run" /\ Registers(block) /\ ~result.threw
                     THEN accepted \cup {block} ELSE accepted

Init ==
  /\ declared = <<>> /\ injector = <<>> /\ starting = <<>> /\ throwing = FALSE
  /\ marked = FALSE /\ linked = <<>> /\ broken = {} /\ index = 0 /\ late = 0 /\ accepted = {}

\* module.directive and its like, module.config and module.run.
Declare(phase, block) ==
  /\ Idle /\ Len(declared) < MaxDeclared
  /\ phase = "run" => ~Registers(block) /\ block.op # "set"
  /\ block.op = "ask" => phase = "run"
  /\ declared' = Append(declared, <<phase, block>>)
  /\ UNCHANGED <<injector, starting, throwing, marked, linked, broken, index, late, accepted>>

-----------------------------------------------------------------------------
(* bootstrap                                                               *)

\* The config blocks of the module and then its run blocks, as they are now.  A
\* bootstrap that a block asks for names other modules, without that block.
Of(phase, nested) ==
  SelectSeq(declared, LAMBDA d : d[1] = phase /\ ~(nested /\ d[2].op = "bootstrap"))
Plan(nested) ==
  Of("config", nested) \o <<<<"phase", [op |-> "begin"]>>>> \o Of("run", nested)

Begin(others) ==
  /\ Len(injector) < MaxBoots
  /\ injector' = Append(injector, [NoInjector EXCEPT !.phase = "config"])
  /\ starting' = Append(others, [boot |-> Len(injector) + 1, next |-> 1, plan |-> Plan(others # <<>>)])

Bootstrap ==
  /\ Idle /\ ~marked
  /\ Begin(starting)
  /\ UNCHANGED <<declared, throwing, marked, linked, broken, index, late, accepted>>

Running == ~Idle /\ ~throwing
Step(op) == Running /\ Current.next <= Len(Current.plan) /\ (Current.plan[Current.next][2].op = "bootstrap") = op
Advanced == [starting EXCEPT ![Len(starting)].next = @ + 1]

RunBlock ==
  /\ Step(FALSE)
  /\ IF Current.plan[Current.next][1] = "phase"
     THEN /\ injector' = [injector EXCEPT ![Current.boot].phase = "run"]
          /\ UNCHANGED <<index, throwing, accepted>>
     ELSE Perform(Current.boot, Current.plan[Current.next][2])
  /\ starting' = Advanced
  /\ UNCHANGED <<declared, marked, linked, broken, late>>

\* A block bootstraps the element, which is not marked before all blocks ran.
Nested ==
  /\ Step(TRUE)
  /\ IF marked THEN throwing' = TRUE /\ starting' = Advanced /\ UNCHANGED injector
     ELSE Begin(Advanced) /\ UNCHANGED throwing
  /\ UNCHANGED <<declared, marked, linked, broken, index, late, accepted>>

\* The blocks are done and $rootScope is there: the element is marked.  What
\* throws from here on leaves it marked.
After(steps) == Running /\ Current.next = Len(Current.plan) + steps
Mark ==
  /\ After(1)
  /\ marked' = TRUE /\ starting' = Advanced
  /\ UNCHANGED <<declared, injector, throwing, linked, broken, index, late, accepted>>

\* $compile cannot be made, as when a decorator of it throws.
CompileMissing ==
  /\ After(2)
  /\ throwing' = TRUE /\ broken' = broken \cup {Current.boot}
  /\ UNCHANGED <<declared, injector, starting, marked, linked, index, late, accepted>>

\* One $apply compiles and links the element.  It may throw on its way through
\* the names, in the links or in the digest that ends it and that runs in any
\* case; $apply passes the error on.
FirstApply ==
  /\ After(2)
  /\ \E names \in 0..Len(Document), links, threw \in BOOLEAN :
       /\ links => names = Len(Document)
       /\ threw \/ links
       /\ LET asked == FoldLeft(LAMBDA r, n : [i |-> Ask(r.i, n, r.index),
                                               index |-> r.index + Used(r.i, Ask(r.i, n, r.index), n)],
                                [i |-> NeedCompile(Here), index |-> index], SubSeq(Document, 1, names))
          IN  /\ injector' = [injector EXCEPT ![Current.boot] = [asked.i EXCEPT !.applied = @ + 1]]
              /\ index' = asked.index
       /\ linked' = IF links THEN Append(linked, Current.boot) ELSE linked
       /\ throwing' = threw
       /\ broken' = IF threw THEN broken \cup {Current.boot} ELSE broken
       /\ starting' = IF threw THEN starting ELSE Front(starting)
  /\ UNCHANGED <<declared, marked, late, accepted>>

\* The error leaves bootstrap; a block that called it may catch the error.
Abort ==
  /\ ~Idle /\ throwing
  /\ starting' = Front(starting)
  /\ throwing' \in {FALSE} \cup (IF Len(starting) > 1 THEN {TRUE} ELSE {})
  /\ UNCHANGED <<declared, injector, marked, linked, broken, index, late, accepted>>

\* Application code in the run phase; what it throws is its caller's affair.
Later(b, block) ==
  /\ Idle /\ late < MaxLate /\ b \in Boots /\ injector[b].phase = "run"
  /\ late' = late + 1
  /\ LET result == Effect(injector[b], block)
     IN  /\ injector' = [injector EXCEPT ![b] = result.injector]
         /\ Indexed(injector[b], result.injector)
         /\ accepted' = IF Registers(block) /\ ~result.threw THEN accepted \cup {block} ELSE accepted
  /\ UNCHANGED <<declared, starting, throwing, marked, linked, broken>>

Next ==
  \/ \E phase \in {"config", "run"}, block \in Blocks :
       (block.op = "bootstrap" => Reentrant) /\ Declare(phase, block)
  \/ Bootstrap \/ RunBlock \/ Nested \/ Mark \/ CompileMissing \/ FirstApply \/ Abort
  \/ \E b \in Boots, block \in LateBlocks : Later(b, block)

-----------------------------------------------------------------------------
(* Properties                                                              *)

\* What the rest of the compiler relies on in a directive it is handed.
Sound(f) ==
  /\ f.ddo.template = "no" \/ f.ddo.templateUrl = "no"
  /\ f.ddo.controllerAs # "no" => f.ddo.controller = "good"
  /\ ~f.ddo.replace /\ f.ddo.transclude \in {"no", "good"} /\ f.ddo.scope # "bad"

\* Every directive the compiler gets is sound, in the order it was registered,
\* told apart by its index from every other of any injector, and every factory
\* known when the name was first asked for is there or was reported.
DirectivesSound ==
  \A b \in Boots : \A n \in Names : \A got \in Range(injector[b].directives[n]) :
    /\ \A k \in DOMAIN got : Sound(got[k].factory) /\ got[k].index < index
    /\ \A k, l \in DOMAIN got : k < l => got[k].index < got[l].index
    /\ \A c \in Boots, m \in Names : \A other \in Range(injector[c].directives[m]) :
         c # b \/ m # n => \A k \in DOMAIN got, l \in DOMAIN other : got[k].index # other[l].index
    /\ Len(injector[b].factories[n]) =
         Len(got) + Len(SelectSeq(injector[b].reported, LAMBDA r : r[1] = n))

\* A name that answers has a producer behind it, in the config phase and after.
NoHalfRegistration ==
  \A b \in Boots :
    /\ injector[b].registered \subseteq injector[b].provided
    /\ injector[b].filters \subseteq injector[b].filterProvided

\* "Calling $compileProvider.directive(...) after the run phase throws".
LateRefused == accepted = {}

\* One start at most gets as far as the element, and at most once links it.  A
\* start that failed before that can be tried again.  One that failed later
\* cannot: the mark stays, whether the element is linked, half linked or not.
StartedOnce ==
  /\ Len(linked) <= 1 /\ Cardinality(broken \cup Range(linked)) <= 1
  /\ Idle => (marked <=> linked # <<>> \/ broken # {})

\* What the compiler was made with is what the config blocks left.
SettingsHold ==
  \A b \in Boots : injector[b].compile \subseteq {injector[b].settings}
=============================================================================
