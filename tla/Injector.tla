------------------------------ MODULE Injector ------------------------------
(***************************************************************************)
(* createInjector: loading of the module graph, registration of producers    *)
(* and decorators, config and run blocks, and the lazy construction of       *)
(* singletons.                                                             *)
(*                                                                         *)
(* Constructors, factories, decorators and blocks are user code called back  *)
(* in the middle of a registration or of a get, and may call $provide and    *)
(* $injector again, so the call stack is part of the state.  The annotated   *)
(* dependencies of an invokable are the gets its code performs first.        *)
(* A service constructor takes the way of a factory.                         *)
(***************************************************************************)
EXTENDS Naturals, Sequences, FiniteSets

CONSTANTS
  Modules,         \* module names in the registry
  Entry,           \* the modules createInjector is given, in order
  RequiresChoices, \* the dependency graphs considered; Null is a missing module
  Names,           \* names of services
  Seeds,           \* names the seed option gives a value
  Decorators,      \* decorator functions, each registered at most once
  Null,            \* no module, no cached value
  Ops,             \* the operations user code performs in each context
  Budget           \* bound: registrations and calls of user code in one behaviour

\* What user code was called for: a provider constructor, a config block, a
\* producer, a decorator, a run block or later code of the application.
Contexts == {"ctor", "config", "factory", "decorator", "run"}
Recipes  == {"value", "constant", "factory", "provider", "decorator"}

Instances == [id : Nat, decs : Seq(Decorators)]

ASSUME InjectorAssumption ==
  /\ Entry \in Seq(Modules) /\ Seeds \subseteq Names
  /\ RequiresChoices \subseteq [Modules -> Seq(Modules \cup {Null})]
  /\ Null \notin Modules \cup Instances
  /\ DOMAIN Ops = Contexts
  /\ Budget \in Nat

VARIABLES
  requires,        \* requires of each module
  boot,            \* how far createInjector has come
  block,           \* the next entry module, config block or run block
  loaded,          \* loadedModules
  drained,         \* modules in the order their queue was drained, which is
                   \* the order their config and run blocks were collected in
  phase,           \* phase
  value,           \* providerCache
  pending,         \* the maps, "factory" or "provider", a name has an entry in
  providers,       \* names with an entry in providerInstances
  chain,           \* decorators
  constants,       \* constantNames
  path,            \* resolutionPath
  stack,           \* the JavaScript call stack
  throwing,        \* an exception is propagating into the top frame
  made,            \* history: values registered or produced for each name
  decorated,       \* history: every decorator registered for each name
  handed,          \* history: what get returned for each name in the run phase
  budget           \* registrations and calls user code may still perform

booting  == <<requires, boot, block, loaded, drained, phase>>
registry == <<value, pending, providers, chain, constants>>
calls    == <<path, stack, throwing>>
history  == <<made, decorated, handed>>
vars     == <<booting, registry, calls, history, budget>>

-----------------------------------------------------------------------------
(* Frames.  An instance is told from another by its id, and carries the      *)
(* decorators it went through.                                              *)

Instance(id) == [id |-> id, decs |-> <<>>]

\* at: what user code was called for, or the map a get took its producer from.
\* i: the next required module, or the next decorator, 0 while the producer runs.
Frame(k, at, m, n, i, inst) ==
  [k |-> k, at |-> at, m |-> m, n |-> n, i |-> i, inst |-> inst]

UserFrame(at)          == Frame("user", at, Null, Null, 0, Null)
LoadFrame(m)           == Frame("load", "", m, Null, 1, Null)
RegisterFrame(n)       == Frame("register", "", Null, n, 0, Null)
GetFrame(n, from, i, inst) == Frame("get", from, Null, n, i, inst)

Top     == stack[Len(stack)]
Popped  == SubSeq(stack, 1, Len(stack) - 1)
With(f) == [stack EXCEPT ![Len(stack)] = f]

At(k)     == stack # <<>> /\ ~throwing /\ Top.k = k
Caught(k) == stack # <<>> /\ throwing /\ Top.k = k
Idle      == stack = <<>> /\ ~throwing

Init ==
  /\ requires \in RequiresChoices
  /\ boot = "load" /\ block = 1 /\ loaded = {} /\ drained = <<>> /\ phase = "config"
  /\ value = [n \in Names |-> IF n \in Seeds THEN Instance(1) ELSE Null]
  /\ pending = [n \in Names |-> {}] /\ providers = {}
  /\ chain = [n \in Names |-> <<>>] /\ constants = {}
  /\ path = <<>> /\ stack = <<>> /\ throwing = FALSE
  /\ made = [n \in Names |-> IF n \in Seeds THEN 1 ELSE 0]
  /\ decorated = [n \in Names |-> <<>>] /\ handed = [n \in Names |-> {}]
  /\ budget = Budget

-----------------------------------------------------------------------------
(* applyRegistrationRecord                                                 *)

\* A producer recipe evicts the other producers of its name, keeps decorators.
Replace(n, val, maps) ==
  /\ value' = [value EXCEPT ![n] = val]
  /\ pending' = [pending EXCEPT ![n] = maps]
  /\ providers' = providers \ {n}

RegisterValue(n, isConstant) ==
  /\ Replace(n, Instance(made[n] + 1), {})
  /\ made' = [made EXCEPT ![n] = @ + 1]
  /\ constants' = IF isConstant THEN constants \cup {n} ELSE constants
  /\ UNCHANGED <<chain, decorated, stack, throwing>>

RegisterFactory(n) ==
  /\ Replace(n, Null, {"factory"})
  /\ UNCHANGED <<chain, constants, made, decorated, stack, throwing>>

\* The prior producers are gone before the constructor of the provider runs.
RegisterProvider(n) ==
  /\ Replace(n, Null, {})
  /\ stack' = stack \o <<RegisterFrame(n), UserFrame("ctor")>>
  /\ UNCHANGED <<chain, constants, made, decorated, throwing>>

RegisterDecorator(n, d) ==
  /\ chain' = [chain EXCEPT ![n] = Append(@, d)]
  /\ decorated' = [decorated EXCEPT ![n] = Append(@, d)]
  /\ UNCHANGED <<value, pending, providers, constants, made, stack, throwing>>

Refuse == throwing' = TRUE /\ UNCHANGED <<registry, made, decorated, stack>>

\* d is the function of a decorator that was not registered before.
Unused(d) == \A n \in Names : \A i \in DOMAIN decorated[n] : decorated[n][i] # d

Register(recipe, n, d) ==
  IF recipe # "constant" /\ n \in constants
  THEN Refuse
  ELSE \/ recipe \in {"value", "constant"} /\ RegisterValue(n, recipe = "constant")
       \/ recipe = "factory" /\ RegisterFactory(n)
       \/ recipe = "provider" /\ RegisterProvider(n)
       \/ recipe = "decorator" /\ Unused(d) /\ RegisterDecorator(n, d)

\* The constructor returned an object with $get.
ProviderMade ==
  /\ At("register")
  /\ providers' = providers \cup {Top.n}
  /\ pending' = [pending EXCEPT ![Top.n] = @ \cup {"provider"}]
  /\ stack' = Popped
  /\ UNCHANGED <<booting, value, chain, constants, path, throwing, history, budget>>

-----------------------------------------------------------------------------
(* loadModule                                                              *)

Enter(m, base) ==
  IF m \in loaded THEN stack' = base /\ UNCHANGED loaded
  ELSE stack' = Append(base, LoadFrame(m)) /\ loaded' = loaded \cup {m}

LoadEntry ==
  /\ Idle /\ boot = "load" /\ block <= Len(Entry)
  /\ Enter(Entry[block], stack)
  /\ block' = block + 1
  /\ UNCHANGED <<requires, boot, drained, phase, registry, path, throwing, history, budget>>

Loading  == At("load")

Required == requires[Top.m]

LoadRequired ==
  /\ Loading /\ Top.i <= Len(Required) /\ Required[Top.i] # Null
  /\ Enter(Required[Top.i], With([Top EXCEPT !.i = @ + 1]))
  /\ UNCHANGED <<requires, boot, block, drained, phase, registry, path, throwing, history,
                 budget>>

ModuleNotFound ==
  /\ Loading /\ Top.i <= Len(Required) /\ Required[Top.i] = Null
  /\ throwing' = TRUE
  /\ UNCHANGED <<booting, registry, path, stack, history, budget>>

\* One record of the invoke queue is applied.
DrainRecord(recipe, n, d) ==
  /\ Loading /\ Top.i > Len(Required) /\ budget > 0
  /\ Register(recipe, n, d)
  /\ budget' = budget - 1
  /\ UNCHANGED <<booting, path, handed>>

\* The queue is empty: the blocks of the module are collected.
CollectBlocks ==
  /\ Loading /\ Top.i > Len(Required)
  /\ drained' = Append(drained, Top.m)
  /\ stack' = Popped
  /\ UNCHANGED <<requires, boot, block, loaded, phase, registry, path, throwing, history,
                 budget>>

\* An exception passes through loadModule and registerProvider.
Unwind ==
  /\ Caught("load") \/ Caught("register")
  /\ stack' = Popped
  /\ UNCHANGED <<booting, registry, path, throwing, history, budget>>

-----------------------------------------------------------------------------
(* createInjector after the modules are loaded                              *)

Proceed(next) == boot' = next /\ block' = 1

LoadDone ==
  /\ Idle /\ boot = "load" /\ block > Len(Entry)
  /\ Proceed("config")
  /\ UNCHANGED <<requires, loaded, drained, phase, registry, calls, history, budget>>

\* The next config block, or run block, is invoked.
InvokeBlock ==
  /\ Idle /\ boot \in {"config", "run"} /\ block <= Len(drained)
  /\ block' = block + 1
  /\ stack' = <<UserFrame(boot)>>
  /\ UNCHANGED <<requires, boot, loaded, drained, phase, registry, path, throwing, history,
                 budget>>

Has(n) == value[n] # Null \/ pending[n] # {}

\* Every decorated name has a producer, or there is no injector.
ConfigDone ==
  /\ Idle /\ boot = "config" /\ block > Len(drained)
  /\ IF \A n \in Names : chain[n] # <<>> => Has(n)
     THEN phase' = "run" /\ Proceed("run") /\ UNCHANGED throwing
     ELSE throwing' = TRUE /\ UNCHANGED <<phase, boot, block>>
  /\ UNCHANGED <<requires, loaded, drained, registry, path, stack, history, budget>>

RunDone ==
  /\ Idle /\ boot = "run" /\ block > Len(drained)
  /\ Proceed("ready")
  /\ UNCHANGED <<requires, loaded, drained, phase, registry, calls, history, budget>>

\* Code of the application calls the finished injector.
BeginTurn ==
  /\ Idle /\ boot = "ready" /\ budget > 0
  /\ stack' = <<UserFrame("run")>>
  /\ UNCHANGED <<booting, registry, path, throwing, history, budget>>

\* createInjector threw, or a turn of the application did.
Uncaught ==
  /\ stack = <<>> /\ throwing
  /\ throwing' = FALSE
  /\ boot' = IF boot = "ready" THEN boot ELSE "failed"
  /\ UNCHANGED <<requires, block, loaded, drained, phase, registry, path, stack, history,
                 budget>>

-----------------------------------------------------------------------------
(* User code                                                               *)

InUser == At("user")

May(op) ==
  /\ InUser /\ budget > 0 /\ op \in Ops[Top.at]
  /\ budget' = budget - 1

\* A mistake the properties rule out: a captured $provide goes on working.
ProvideUnguarded(recipe, n, d) ==
  /\ May("provide")
  /\ Register(recipe, n, d)
  /\ UNCHANGED <<booting, path, handed>>

\* A method of $provide, perhaps of one captured during the config phase.
Provide(recipe, n, d) ==
  /\ May("provide")
  /\ IF phase = "config" THEN Register(recipe, n, d) ELSE Refuse
  /\ UNCHANGED <<booting, path, handed>>

\* The config-phase injector has values, and instances of providers under names of
\* their own, and no services: asked for anything else it throws.
ProviderGetFails(n) ==
  /\ May("providerGet") /\ (value[n] = Null \/ n \notin providers)
  /\ throwing' = TRUE
  /\ UNCHANGED <<booting, registry, path, stack, history>>

Throw ==
  /\ May("throw")
  /\ stack' = Popped /\ throwing' = TRUE
  /\ UNCHANGED <<booting, registry, path, history>>

Return ==
  /\ InUser
  /\ stack' = Popped
  /\ UNCHANGED <<booting, registry, path, throwing, history, budget>>

\* A call threw into user code, which catches it or lets it pass.
Catch ==
  /\ Caught("user")
  /\ throwing' = FALSE
  /\ UNCHANGED <<booting, registry, path, stack, history, budget>>

Propagate ==
  /\ Caught("user")
  /\ stack' = Popped
  /\ UNCHANGED <<booting, registry, path, throwing, history, budget>>

-----------------------------------------------------------------------------
(* get                                                                     *)

\* Where get finds n: the cache first, then the maps of producers.
Source(n) ==
  IF value[n] # Null THEN "value"
  ELSE IF "factory" \in pending[n] THEN "factory"
  ELSE IF "provider" \in pending[n] THEN "provider" ELSE "none"

Resolving(n) == \E i \in DOMAIN path : path[i] = n
Cached(n)    == Source(n) = "value" /\ chain[n] = <<>>

Hand(n, inst) ==
  handed' = IF phase = "run" THEN [handed EXCEPT ![n] = @ \cup {inst}] ELSE handed

GetCached(n) ==
  /\ May("get") /\ Cached(n)
  /\ Hand(n, value[n])
  /\ UNCHANGED <<booting, registry, calls, made, decorated>>

\* A cached value waits for its decorators, or a producer has to run.
GetResolves(n) ==
  /\ May("get") /\ ~Cached(n) /\ Source(n) # "none" /\ ~Resolving(n)
  /\ path' = Append(path, n)
  /\ stack' = IF Source(n) = "value"
              THEN Append(stack, GetFrame(n, "value", 1, value[n]))
              ELSE stack \o <<GetFrame(n, Source(n), 0, Null), UserFrame("factory")>>
  /\ UNCHANGED <<booting, registry, throwing, history>>

\* Unknown provider, or a circular dependency.
GetThrows(n) ==
  /\ May("get") /\ (Source(n) = "none" \/ (~Cached(n) /\ Resolving(n)))
  /\ throwing' = TRUE
  /\ UNCHANGED <<booting, registry, path, stack, history>>

\* The producer returned.
Produced ==
  /\ At("get") /\ Top.i = 0
  /\ made' = [made EXCEPT ![Top.n] = @ + 1]
  /\ stack' = With([Top EXCEPT !.i = 1, !.inst = Instance(made'[Top.n])])
  /\ UNCHANGED <<booting, registry, path, throwing, decorated, handed, budget>>

\* A mistake the properties rule out: the chain is consumed before it has run.
DecorateConsumes ==
  /\ At("get") /\ Top.i > 0 /\ chain[Top.n] # <<>>
  /\ stack' = Append(With([Top EXCEPT !.inst.decs = Append(@, Head(chain[Top.n]))]),
                     UserFrame("decorator"))
  /\ chain' = [chain EXCEPT ![Top.n] = Tail(@)]
  /\ UNCHANGED <<booting, value, pending, providers, constants, path, throwing, history,
                 budget>>

\* The next decorator wraps what there is so far.
Decorate ==
  /\ At("get") /\ Top.i \in 1..Len(chain[Top.n])
  /\ stack' = Append(With([Top EXCEPT !.i = @ + 1,
                                      !.inst.decs = Append(@, chain[Top.n][Top.i])]),
                     UserFrame("decorator"))
  /\ UNCHANGED <<booting, registry, path, throwing, history, budget>>

\* The decorated instance is cached, its producer and its chain dropped.
Resolved ==
  /\ At("get") /\ Top.i > Len(chain[Top.n])
  /\ value' = [value EXCEPT ![Top.n] = Top.inst]
  /\ pending' = [pending EXCEPT ![Top.n] = @ \ {Top.at}]
  /\ chain' = [chain EXCEPT ![Top.n] = <<>>]
  /\ Hand(Top.n, Top.inst)
  /\ path' = SubSeq(path, 1, Len(path) - 1)
  /\ stack' = Popped
  /\ UNCHANGED <<booting, providers, constants, throwing, made, decorated, budget>>

\* A mistake the properties rule out: the resolution path is popped on success only.
GetFailsKeepsPath ==
  /\ Caught("get")
  /\ stack' = Popped
  /\ UNCHANGED <<booting, registry, path, throwing, history, budget>>

\* The producer or a decorator threw: n stays unresolved, and may be retried.
GetFails ==
  /\ Caught("get")
  /\ path' = SubSeq(path, 1, Len(path) - 1)
  /\ stack' = Popped
  /\ UNCHANGED <<booting, registry, throwing, history, budget>>

-----------------------------------------------------------------------------
UserOp ==
  \/ \E recipe \in Recipes, n \in Names, d \in Decorators :
        Provide(recipe, n, d) \/ DrainRecord(recipe, n, d)
  \/ \E n \in Names : ProviderGetFails(n) \/ GetCached(n) \/ GetResolves(n) \/ GetThrows(n)
  \/ Throw \/ Return \/ Catch \/ Propagate

Boot ==
  \/ LoadEntry \/ LoadRequired \/ ModuleNotFound \/ CollectBlocks \/ LoadDone
  \/ InvokeBlock \/ ConfigDone \/ RunDone \/ BeginTurn \/ Uncaught \/ Unwind

Engine == ProviderMade \/ Produced \/ Decorate \/ Resolved \/ GetFails

Next == UserOp \/ Boot \/ Engine

Spec == Init /\ [][Next]_vars

-----------------------------------------------------------------------------
(* Properties                                                              *)

Frames == [k : {"user", "load", "register", "get"},
           at : Contexts \cup {"", "value", "provider"},
           m : Modules \cup {Null}, n : Names \cup {Null}, i : Nat,
           inst : Instances \cup {Null}]

\* Every variable has its type.
TypeOK ==
  /\ requires \in RequiresChoices
  /\ boot \in {"load", "config", "run", "ready", "failed"} /\ block \in Nat \ {0}
  /\ loaded \subseteq Modules /\ drained \in Seq(Modules)
  /\ phase \in {"config", "run"}
  /\ value \in [Names -> Instances \cup {Null}]
  /\ pending \in [Names -> SUBSET {"factory", "provider"}]
  /\ providers \subseteq Names /\ constants \subseteq Names
  /\ chain \in [Names -> Seq(Decorators)]
  /\ path \in Seq(Names) /\ stack \in Seq(Frames) /\ throwing \in BOOLEAN
  /\ made \in [Names -> Nat] /\ decorated \in [Names -> Seq(Decorators)]
  /\ handed \in [Names -> SUBSET Instances] /\ budget \in Nat

\* A service is a singleton: whatever fails and is retried, and whoever asks in
\* the middle of whose construction, the run phase hands out one instance of
\* each name (get).
Singleton == \A n \in Names : \A inst, other \in handed[n] : inst = other

\* What the run phase hands out has been through every decorator registered for
\* its name, once and in the order of registration, also when a decorator threw
\* the first time (applyDecoratorChain, get).
DecoratedInOrder == \A n \in Names : \A inst \in handed[n] : inst.decs = decorated[n]

\* A name has one instance, made once and by every decorator of its chain in order
\* (get, applyDecoratorChain).
OneInstance == TypeOK /\ Singleton /\ DecoratedInOrder

\* resolutionPath names what is under construction, from the outermost get to the
\* innermost and each name once: a circular dependency ends in an error instead of
\* a recursion, and a construction that failed leaves nothing behind that a later
\* get takes for a cycle.
Gets == {g \in DOMAIN stack : stack[g].k = "get"}
PathIsUnderConstruction ==
  /\ \E call \in [DOMAIN path -> Gets] :
       /\ \A i \in DOMAIN path : stack[call[i]].n = path[i]
       /\ \A i, j \in DOMAIN path : i < j => call[i] < call[j]
       /\ \A g \in Gets : \E i \in DOMAIN path : call[i] = g
  /\ \A i, j \in DOMAIN path : path[i] = path[j] => i = j

\* Once the run phase has begun nothing is registered any more, not even through
\* a $provide captured earlier: producers are only consumed, and a cached value
\* changes only in the hands of the get that decorates or constructs it.
RegistrationsFrozen ==
  [][phase = "run" =>
       /\ decorated' = decorated /\ constants' = constants /\ providers' = providers
       /\ \A n \in Names :
            /\ pending'[n] \subseteq pending[n]
            /\ value'[n] # value[n] => Len(path') < Len(path) /\ path[Len(path)] = n]_vars

\* A module is drained once, and after every module it requires, but for those
\* whose loading required it (a cycle): its registrations override theirs, and
\* its blocks run after theirs (loadModule).
ModulesInOrder ==
  [][drained' # drained =>
       LET m     == drained'[Len(drained')]
           done  == {drained[i] : i \in DOMAIN drained}
           above == {stack[i].m : i \in DOMAIN stack}
       IN  /\ m \notin done
           /\ \A i \in DOMAIN requires[m] : requires[m][i] \in done \cup above]_vars

\* Modules are drained once and after what they require, and what is registered
\* changes only while blocks of the config phase run (loadModule, $provide).
LoadedInOrder == RegistrationsFrozen /\ ModulesInOrder
=============================================================================
