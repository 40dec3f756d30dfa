------------------------------ MODULE NgModule ------------------------------
(***************************************************************************)
(* The `ng` module and an application on top of it: what ng registers and    *)
(* what each of its services asks for, the module DSL an application uses    *)
(* to add, replace and decorate services, the injector that is made of both, *)
(* and the graph of singletons it then constructs on demand.                 *)
(*                                                                         *)
(* Injector.tla models one injector with user code calling back into it; here *)
(* the producers are the real ones and the graph is the subject.             *)
(***************************************************************************)
EXTENDS Naturals, Sequences, FiniteSets, SequencesExt

CONSTANTS
  RequiresChoices, \* requires of the application's module
  AppCalls,        \* calls of the DSL: [op, name, deps, by], see ToQueue, Perform
  Asked,           \* names the running application gets
  Sites,           \* services and directives that report errors to a handler
  MaxCalls, MaxGets  \* bounds: calls of the DSL, gets of the application

VARIABLES
  phase,           \* declare, config, starting (run blocks), ready or failed
  requires,        \* requires of the application's module
  calls,           \* its $$invokeQueue, $$configBlocks and $$runBlocks, in order
  next,            \* the next config block or run block of the application
  injector,        \* what createInjector closes over, see Nothing
  plan,            \* history: the hard dependencies of each name when config ended
  wanted,          \* history: the decorators of each name when config ended
  outcomes         \* history: the gets of the application, [name, ok]

ngVars == <<phase, requires, calls, next, injector, plan, wanted, outcomes>>

-----------------------------------------------------------------------------
(* What ng registers: a name with the names its factory or $get declares     *)

Handler == "$exceptionHandler"

Factories ==
  [n \in {Handler, "$rootScope", "$cacheFactory", "$locale"} |-> <<>>]
    @@ "$q" :> <<"$rootScope", Handler>>
    @@ "$timeout" :> <<"$rootScope", "$q", Handler>> @@ "$interval" :> <<"$rootScope", "$q", Handler>>
    @@ "$httpBackend" :> <<"$q">>

\* Those with a provider a config block can have.
Providers ==
  [n \in {"$sceDelegate", "$templateCache"} |-> <<>>]
    @@ "$http" :> <<"$q", "$injector", "$httpBackend", "$cacheFactory">>
    @@ "$sce" :> <<"$sceDelegate", "$injector">>
    @@ "$interpolate" :> <<"$sce", Handler, "$filter">>
    @@ "$filter" :> <<"$injector">> @@ "$controller" :> <<"$injector">>
    @@ "$compile" :> <<"$injector", "$controller", "$interpolate", Handler, "$templateRequest">>
    @@ "$templateRequest" :> <<"$templateCache">>

\* What the constructor of $compileProvider adds.
SanitizeUri == "$$sanitizeUri" :> <<>>

NgFilters ==
  [n \in {"uppercase", "lowercase", "json", "limitTo", "filter", "orderBy"} |-> <<>>]
    @@ [n \in {"currency", "number", "date"} |-> <<"$locale">>]

\* The built-in directives by what their factories inject, in three groups:
\* bindings, classes and attributes; events; templates, scopes and structure.
Bindings ==
  [n \in {"ngCloak", "ngBind", "ngShow", "ngHide", "ngNonBindable", "ngClass", "ngClassEven",
          "ngClassOdd", "ngStyle", "ngChecked", "ngDisabled", "ngOpen", "ngReadonly",
          "ngSelected"} |-> <<>>]
    @@ "ngTransclude" :> <<Handler>> @@ "ngBindHtml" :> <<"$sce">>
    @@ "ngBindTemplate" :> <<"$interpolate">>
    @@ [n \in {"ngHref", "ngSrc", "ngSrcset"} |-> <<"$$sanitizeUri">>]

Events ==
  [n \in {"ngBlur", "ngClick", "ngCopy", "ngCut", "ngDblclick", "ngFocus", "ngKeydown",
          "ngKeypress", "ngKeyup", "ngMousedown", "ngMouseenter", "ngMouseleave", "ngMousemove",
          "ngMouseout", "ngMouseover", "ngMouseup", "ngPaste", "ngSubmit"} |-> <<Handler>>]

Structure ==
  [n \in {"ngController", "ngIf", "ngInit", "a", "ngCsp", "ngJq", "ngSwitch", "ngSwitchWhen",
          "ngSwitchDefault"} |-> <<>>]
    @@ [n \in {"ngRef", "ngRepeat"} |-> <<Handler>>] @@ "script" :> <<"$templateCache">>
    @@ "ngInclude" :> <<"$templateRequest", "$compile", "$injector", Handler>>
    @@ "ngPluralize" :> <<"$interpolate", "$locale", Handler>>

Suffixed(table, suffix) ==
  [n \in {x \o suffix : x \in DOMAIN table} |-> table[CHOOSE x \in DOMAIN table : x \o suffix = n]]

-----------------------------------------------------------------------------
(* The registry.  An instance is its place in `built`.                      *)

Thing(name, by, wraps, held) == [name |-> name, by |-> by, wraps |-> wraps, held |-> held]

\* $injector is there from the start.
Nothing ==
  [producers |-> << >>, constants |-> {}, decorators |-> << >>,
   providers |-> {"$provide"}, \* what a config block can have injected
   factories |-> << >>,       \* $$factoryMap of $compileProvider
   interceptors |-> <<>>,     \* of $httpProvider
   controllers |-> {},        \* $$registry of $controllerProvider
   cache |-> [n \in {"$injector", "$provide"} |-> IF n = "$injector" THEN 1 ELSE 2],
   built |-> <<Thing("$injector", "ng", <<>>, << >>), Thing("$provide", "ng", <<>>, << >>)>>,
   reports |-> <<>>,          \* failures of directive factories: [name, to]
   error |-> "none"]

With(f, k, v) == (k :> v) @@ f
Without(f, k) == IF k \in DOMAIN f THEN [x \in DOMAIN f \ {k} |-> f[x]] ELSE f
Has(inj, n)   == n \in DOMAIN inj.cache \cup DOMAIN inj.producers
Failed(inj, why) == [inj EXCEPT !.error = why]

Evicted(inj, n) ==
  [inj EXCEPT !.cache = Without(@, n), !.producers = Without(@, n), !.providers = @ \ {n}]

Produced(inj, n, kind, deps, by) ==
  [Evicted(inj, n) EXCEPT !.producers = With(@, n, [kind |-> kind, deps |-> deps, by |-> by])]

Cached(inj, thing) ==
  [inj EXCEPT !.built = Append(@, thing), !.cache = With(@, thing.name, Len(inj.built) + 1)]

\* applyRegistrationRecord
Register(inj, c) ==
  IF c.op # "constant" /\ c.name \in inj.constants
  THEN Failed(inj, "constant")
  ELSE CASE c.op \in {"value", "constant"} ->
              [Cached(Evicted(inj, c.name), Thing(c.name, c.by, <<>>, << >>)) EXCEPT
                 !.constants = IF c.op = "constant" THEN @ \cup {c.name} ELSE @]
         [] c.op \in {"factory", "service", "provider"} ->
              [Produced(inj, c.name, "plain", c.deps, c.by) EXCEPT
                 !.providers = IF c.op = "provider" THEN @ \cup {c.name} ELSE @]
         [] c.op = "decorator" ->
              [inj EXCEPT !.decorators =
                 With(@, c.name, (IF c.name \in DOMAIN @ THEN @[c.name] ELSE <<>>)
                                   \o <<[deps |-> c.deps, by |-> c.by]>>)]

\* $filterProvider.register and $compileProvider.directive, in the config phase.
\* A directive keeps its list of factories; its provider is made for the first.
RegisterFilter(inj, c) ==
  Register(inj, [c EXCEPT !.op = "factory", !.name = c.name \o "Filter"])
RegisterDirective(inj, c) ==
  LET d     == c.name \o "Directive"
      known == d \in DOMAIN inj.factories
      made  == IF known THEN inj
               ELSE Produced(inj, d, "directives", <<"$injector", Handler>>, "ng")
  IN  IF ~known /\ d \in inj.constants THEN Failed(inj, "constant")
      ELSE [made EXCEPT !.factories =
         With(@, d, (IF known THEN @[d] ELSE <<>>) \o <<[deps |-> c.deps, by |-> c.by]>>)]

\* ng's own queue; and its config blocks with the filters and the directives.
\* No name of a table is in another, so their order does not matter.
Producers(table, kind) ==
  [n \in DOMAIN table |-> [kind |-> kind, deps |-> table[n], by |-> "ng"]]
NgQueue ==
  [Nothing EXCEPT
     !.providers = @ \cup DOMAIN Providers,
     !.producers = [n \in {"$http", "$sce"} |-> [kind |-> n, deps |-> Providers[n], by |-> "ng"]]
                     @@ Producers(Factories @@ SanitizeUri @@ Providers, "plain")]
NgBlocks(inj) ==
  LET filters    == Suffixed(NgFilters, "Filter")
      directives == Suffixed(Bindings @@ Events @@ Structure, "Directive")
      names      == DOMAIN filters \cup DOMAIN directives
      lists      == [d \in DOMAIN directives |-> <<"$injector", Handler>>]
  IN  IF ~({"$filter", "$compile"} \subseteq inj.providers) THEN Failed(inj, "unknown")
      ELSE IF names \cap inj.constants # {} THEN Failed(inj, "constant")
      ELSE [inj EXCEPT
              !.producers = Producers(filters, "plain") @@ Producers(lists, "directives") @@ @,
              !.cache     = [n \in DOMAIN @ \ names |-> @[n]],
              !.factories = [d \in DOMAIN directives |->
                               <<[deps |-> directives[d], by |-> "ng"]>>]]

-----------------------------------------------------------------------------
(* Construction                                                             *)

\* What the producer of n gets: $http its interceptors, $sce a sanitizer if any.
Needs(inj, n) ==
  LET p == inj.producers[n]
  IN  p.deps \o CASE p.kind = "$http" -> inj.interceptors
                  [] p.kind = "$sce"  -> IF Has(inj, "$sanitize") THEN <<"$sanitize">> ELSE <<>>
                  [] OTHER           -> <<>>

Decorations(inj, n) == IF n \in DOMAIN inj.decorators THEN inj.decorators[n] ELSE <<>>
DepsOf(list)        == FlattenSeq([i \in 1..Len(list) |-> list[i].deps])
ByOf(list)          == [i \in 1..Len(list) |-> list[i].by]
Holding(inj, deps)  == [d \in ToSet(deps) |-> inj.cache[d]]
BothHeld(f, g)      == [d \in DOMAIN f \cup DOMAIN g |-> IF d \in DOMAIN g THEN g[d] ELSE f[d]]

RECURSIVE Get(_, _, _)
GetAll(inj, deps, path) ==
  FoldLeft(LAMBDA s, d : IF s.error = "none" THEN Get(s, d, path) ELSE s, inj, deps)

\* One factory of a directive; a failure is reported and the factory left out.
Attempt(inj, f, n, path) ==
  LET got == GetAll(inj, f.deps, path)
  IN  IF got.error = "none" THEN got
      ELSE [got EXCEPT !.error = "none",
                       !.reports = Append(@, [name |-> n, to |-> got.cache[Handler]])]
Attempts(inj, n, path) ==
  FoldLeft(LAMBDA s, f : Attempt(s, f, n, path), inj, inj.factories[n])

\* A mistake the properties rule out: the decorators of a name stay registered.
FinishKeepsDecorators(inj, thing, path) ==
  LET list == Decorations(inj, thing.name)
      got  == GetAll(inj, DepsOf(list), path)
      made == [thing EXCEPT !.wraps = @ \o ByOf(list),
                            !.held  = BothHeld(@, Holding(got, DepsOf(list)))]
  IN  IF got.error # "none" THEN got
      ELSE [Cached(got, made) EXCEPT !.producers = Without(@, thing.name)]

\* The decorators run on what was produced, and the entry becomes the instance.
Finish(inj, thing, path) ==
  LET list == Decorations(inj, thing.name)
      got  == GetAll(inj, DepsOf(list), path)
      made == [thing EXCEPT !.wraps = @ \o ByOf(list),
                            !.held  = BothHeld(@, Holding(got, DepsOf(list)))]
      kept == Cached(got, made)
  IN  IF got.error # "none" THEN got
      ELSE [kept EXCEPT !.producers  = Without(@, thing.name),
                        !.decorators = Without(@, thing.name)]

Get(inj, n, path) ==
  LET inside == Append(path, n)
      cached == n \in DOMAIN inj.cache
      got    == GetAll(inj, Needs(inj, n), inside)
      p      == inj.producers[n]
      tried  == IF p.kind = "directives" THEN Attempts(got, n, inside) ELSE got
  IN  IF cached /\ n \notin DOMAIN inj.decorators THEN inj
      ELSE IF ~Has(inj, n) THEN Failed(inj, "unknown")
      ELSE IF n \in ToSet(path) THEN Failed(inj, "circular")
      ELSE IF cached THEN Finish(inj, inj.built[inj.cache[n]], inside)
      ELSE IF got.error # "none" THEN got
      ELSE Finish(tried, Thing(n, p.by, <<>>, Holding(got, Needs(inj, n))), inside)

-----------------------------------------------------------------------------
(* The application                                                          *)

Init ==
  /\ phase = "declare" /\ requires \in RequiresChoices /\ calls = <<>> /\ next = 1
  /\ injector = Nothing /\ plan = << >> /\ wanted = << >> /\ outcomes = <<>>

QueueOps == {"value", "constant", "factory", "service", "provider", "decorator"}
ToQueue  == SelectSeq(calls, LAMBDA c : c.op \in QueueOps)
ToConfig == SelectSeq(calls, LAMBDA c : c.op \notin QueueOps \cup {"run"})
ToRun    == SelectSeq(calls, LAMBDA c : c.op = "run")

\* A method of the module the application made, or has from getModule.
Declare(c) ==
  /\ phase = "declare" /\ Len(calls) < MaxCalls
  /\ calls' = Append(calls, c)
  /\ UNCHANGED <<phase, requires, next, injector, plan, wanted, outcomes>>

\* createModule of a name that is taken: a new module, and the old one is lost.
Redeclare(r) ==
  /\ phase = "declare" /\ Len(calls) = 1
  /\ calls' = <<>> /\ requires' = r
  /\ UNCHANGED <<phase, next, injector, plan, wanted, outcomes>>

Settle(inj, then) ==
  /\ injector' = inj
  /\ phase' = IF inj.error = "none" THEN then ELSE "failed"

\* createInjector: the queues of the required modules, then its own; then ng's
\* config blocks, which are no code of the application.
CreateInjector ==
  /\ phase = "declare"
  /\ LET ng     == "ng" \in ToSet(requires)
         loaded == IF "missing" \in ToSet(requires) THEN Failed(Nothing, "module")
                   ELSE FoldLeft(LAMBDA s, c : IF s.error = "none" THEN Register(s, c) ELSE s,
                                 IF ng THEN NgQueue ELSE Nothing, ToQueue)
     IN  Settle(IF ng /\ loaded.error = "none" THEN NgBlocks(loaded) ELSE loaded, "config")
  /\ UNCHANGED <<requires, calls, next, plan, wanted, outcomes>>

\* The DSL makes config blocks of filters, directives, components and
\* controllers, which ask for the provider of their kind.
Asking(inj, provider, then) == IF provider \in inj.providers THEN then ELSE Failed(inj, "unknown")
FilterBlock(inj, c)     == Asking(inj, "$filter", RegisterFilter(inj, c))
DirectiveBlock(inj, c)  == Asking(inj, "$compile", RegisterDirective(inj, c))
ComponentBlock(inj, c)  == Asking(inj, "$compile", RegisterDirective(inj, c))
ControllerBlock(inj, c) == Asking(inj, "$controller", [inj EXCEPT !.controllers = @ \cup {c.name}])

\* The others an application writes; an early get is through $injector.
Perform(inj, c) ==
  CASE c.op = "filter"      -> FilterBlock(inj, c)
    [] c.op = "directive"   -> DirectiveBlock(inj, c)
    [] c.op = "component"   -> ComponentBlock(inj, c)
    [] c.op = "controller"  -> ControllerBlock(inj, c)
    [] c.op = "interceptor" -> Asking(inj, "$http", [inj EXCEPT !.interceptors = Append(@, c.name)])
    [] c.op = "provide"     -> Register(inj, [c EXCEPT !.op = "factory"])
    [] c.op = "wrap"        -> Register(inj, [c EXCEPT !.op = "decorator"])
    [] c.op = "early"       -> Get(inj, c.name, <<>>)

ConfigBlock ==
  /\ phase = "config" /\ next <= Len(ToConfig)
  /\ Settle(Perform(injector, ToConfig[next]), "config")
  /\ next' = next + 1
  /\ UNCHANGED <<requires, calls, plan, wanted, outcomes>>

\* Every decorator must have something to decorate; then $provide is gone.
EndConfig ==
  /\ phase = "config" /\ next > Len(ToConfig)
  /\ LET inj == injector
         all == (DOMAIN inj.producers \cup DOMAIN inj.cache) \ {"$provide"}
     IN  /\ Settle(IF \E n \in DOMAIN inj.decorators : ~Has(inj, n)
                   THEN Failed(inj, "decorator")
                   ELSE [inj EXCEPT !.cache = Without(@, "$provide")], "starting")
         /\ plan' = [n \in all |-> (IF n \in DOMAIN inj.cache THEN <<>> ELSE Needs(inj, n))
                                     \o DepsOf(Decorations(inj, n))]
         /\ wanted' = inj.decorators
  /\ next' = 1
  /\ UNCHANGED <<requires, calls, outcomes>>

RunBlock ==
  /\ phase = "starting" /\ next <= Len(ToRun)
  /\ Settle(GetAll(injector, ToRun[next].deps, <<>>), "starting")
  /\ next' = next + 1
  /\ UNCHANGED <<requires, calls, plan, wanted, outcomes>>

Ready ==
  /\ phase = "starting" /\ next > Len(ToRun)
  /\ phase' = "ready"
  /\ UNCHANGED <<requires, calls, next, injector, plan, wanted, outcomes>>

\* injector.get; one that throws leaves what it had already constructed.
Ask(n) ==
  /\ phase = "ready" /\ Len(outcomes) < MaxGets
  /\ LET got == Get(injector, n, <<>>)
     IN  /\ injector' = [got EXCEPT !.error = "none"]
         /\ outcomes' = Append(outcomes, [name |-> n, ok |-> got.error = "none"])
  /\ UNCHANGED <<phase, requires, calls, next, plan, wanted>>

Next ==
  \/ \E c \in AppCalls : Declare(c)
  \/ \E r \in RequiresChoices : Redeclare(r)
  \/ CreateInjector \/ ConfigBlock \/ EndConfig \/ RunBlock \/ Ready
  \/ \E n \in Asked : Ask(n)

-----------------------------------------------------------------------------
(* Properties                                                               *)

\* The names a get of n cannot do without, n included.
RECURSIVE Closure(_)
Closure(names) ==
  LET more == names \cup UNION {ToSet(plan[n]) : n \in names \cap DOMAIN plan}
  IN  IF more = names THEN names ELSE Closure(more)
Sound(n) ==
  \A m \in Closure({n}) : m \in DOMAIN plan /\ m \notin Closure(ToSet(plan[m]))

\* A get succeeds exactly when the graph below its name is complete and has no
\* cycle, whatever was got, half constructed or failed before it, and whatever
\* the factories of a directive do, which never fail the get of its list.
OutcomesAsDeclared == \A i \in 1..Len(outcomes) : outcomes[i].ok = Sound(outcomes[i].name)

Current(n) == injector.built[injector.cache[n]]

\* Everybody who was given a service was given the one the injector hands out
\* now, which went through every decorator in the order they were registered.
OneOfEach ==
  phase \in {"starting", "ready"} =>
    \A n \in DOMAIN injector.cache :
      /\ \A d \in DOMAIN Current(n).held \cap DOMAIN injector.cache :
           Current(n).held[d] = injector.cache[d]
      /\ n \in DOMAIN wanted \ DOMAIN injector.decorators => Current(n).wraps = ByOf(wanted[n])

\* An application that replaces or decorates $exceptionHandler hears of the
\* errors at every site of ng: none goes to the default handler.
Replaced == Current(Handler).by # "ng" \/ Current(Handler).wraps # <<>>
HandlerReached ==
  phase = "ready" =>
    \A n \in Sites \cap DOMAIN injector.cache :
      (Current(n).by = "ng" /\ Handler \in DOMAIN injector.cache /\ Replaced)
        => /\ Handler \in DOMAIN Current(n).held
           /\ Current(n).held[Handler] = injector.cache[Handler]

\* What failed while a list of directives was made went to that handler too.
FailuresHeard ==
  phase = "ready" =>
    \A i \in 1..Len(injector.reports) : injector.reports[i].to = injector.cache[Handler]

ServicesAgree == OutcomesAsDeclared /\ OneOfEach /\ HandlerReached /\ FailuresHeard
=============================================================================
