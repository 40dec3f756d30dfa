--------------------------- MODULE InjectorProofs ---------------------------
(***************************************************************************)
(* Proofs about Injector, for any modules, names, decorators and dependency *)
(* graphs, and any choice of what user code does in its contexts: the path  *)
(* of resolutions is what is under construction, what is registered stays   *)
(* as it is once the run phase begins, modules are drained in order, and a  *)
(* name has one instance.                                                   *)
(***************************************************************************)
EXTENDS Injector, SequenceFacts, TLAPS

-----------------------------------------------------------------------------
(* The inductive invariant                                                  *)

\* What the fields of a frame are depends on what it is a call of.
Shaped(f) ==
  /\ f.k = "user" => f.at \in Contexts
  /\ f.k = "load" => f.m \in Modules /\ f.i > 0
  /\ f.k = "register" => f.n \in Names
  /\ f.k = "get" => /\ f.n \in Names /\ f.at \in {"value", "factory", "provider"}
                    /\ f.i > 0 => f.inst \in Instances

WellFormed == \A p \in DOMAIN stack : Shaped(stack[p])

\* Nothing is loaded or registered in the run phase.
PhaseAgrees ==
  /\ boot \in {"load", "config"} => phase = "config"
  /\ boot \in {"run", "ready"} => phase = "run"
  /\ phase = "run" => \A p \in DOMAIN stack : stack[p].k \in {"user", "get"}

\* The calls of loadModule are the oldest of the stack.
LoadsFirst ==
  \A q \in DOMAIN stack :
    stack[q].k = "load" =>
      boot = "load" /\ \A p \in DOMAIN stack : p < q => stack[p].k = "load"

Drained    == {drained[i] : i \in DOMAIN drained}
IsLoad(p)  == p \in DOMAIN stack /\ stack[p].k = "load"
BeingLoaded == {stack[p].m : p \in {q \in DOMAIN stack : stack[q].k = "load"}}

\* A module that is being loaded is so once, and is not drained yet.
LoadsApart ==
  /\ Drained \subseteq loaded
  /\ BeingLoaded \subseteq loaded \ Drained
  /\ \A p, q \in DOMAIN stack : IsLoad(p) /\ IsLoad(q) /\ stack[p].m = stack[q].m => p = q

\* An exception that nothing but loadModule is left to let through.
Lost == throwing /\ \A p \in DOMAIN stack : stack[p].k = "load"

\* What was begun is being loaded or done, and so is what a call has required.
LoadsAccounted ==
  /\ boot = "load" /\ ~Lost => loaded \subseteq Drained \cup BeingLoaded
  /\ \A p \in DOMAIN stack : IsLoad(p) =>
       \A j \in DOMAIN requires[stack[p].m] :
         j < stack[p].i => requires[stack[p].m][j] \in loaded

Settled(n) == value[n] # Null /\ chain[n] = <<>>

\* What was handed out is the cached value, and will be handed out again; what is
\* under construction is not.
HandedIsCached ==
  /\ \A n \in Names :
       handed[n] # {} => phase = "run" /\ Settled(n) /\ handed[n] = {value[n]}
  /\ phase = "run" => \A g \in Gets : ~Settled(stack[g].n)

Typed   == TypeOK /\ WellFormed
LoadInv == PhaseAgrees /\ LoadsFirst /\ LoadsApart /\ LoadsAccounted
Clean   == PathIsUnderConstruction /\ HandedIsCached

IInv == Typed /\ LoadInv /\ Clean

\* What a name is before it is resolved, and after.
Raw(n) == chain[n] = decorated[n] /\ (value[n] # Null => value[n].decs = <<>>)
Dressed(n) == value[n] # Null /\ chain[n] = <<>> /\ value[n].decs = decorated[n]

\* A decorator in progress has those before it behind it.
Dressing(f) ==
  /\ chain[f.n] = decorated[f.n]
  /\ f.i > 0 => /\ Len(f.inst.decs) = f.i - 1 /\ f.i <= Len(decorated[f.n]) + 1
                /\ \A j \in 1 .. f.i - 1 : f.inst.decs[j] = decorated[f.n][j]

Dressable == \A n \in Names : Raw(n) \/ (phase = "run" /\ Dressed(n))
GetsDress == \A g \in Gets : Dressing(stack[g])

\* Nothing is resolved in the config phase, if user code does not begin to.
Untouched ==
  phase = "config" =>
    \A p \in DOMAIN stack : /\ stack[p].k # "get"
                            /\ stack[p].k = "user" => stack[p].at \in {"ctor", "config"}

DecorInv == Dressable /\ GetsDress /\ Untouched

-----------------------------------------------------------------------------
(* Calls and returns                                                        *)

\* A stack on which the frames of the old one stand, the last of them perhaps
\* further on in its own work.
Rises(t) ==
  /\ t \in Seq(Frames) /\ Len(t) >= Len(stack)
  /\ \A p \in 1 .. Len(stack) : /\ t[p].k = stack[p].k /\ t[p].at = stack[p].at
                                /\ t[p].m = stack[p].m /\ t[p].n = stack[p].n
  /\ \A p \in 1 .. Len(stack) - 1 : t[p] = stack[p]

LEMMA StackFacts ==
  ASSUME TypeOK
  PROVE  /\ Len(stack) \in Nat /\ DOMAIN stack = 1 .. Len(stack)
         /\ \A p \in 1 .. Len(stack) : stack[p] \in Frames
         /\ stack # <<>> => Len(stack) > 0 /\ Len(stack) \in DOMAIN stack /\ Top \in Frames
  <1>1. stack \in Seq(Frames)
    BY DEF TypeOK
  <1>2. Len(stack) \in Nat /\ DOMAIN stack = 1 .. Len(stack)
    BY <1>1
  <1>3. \A p \in 1 .. Len(stack) : stack[p] \in Frames
    BY <1>1, <1>2
  <1>4. stack # <<>> => Len(stack) > 0
    BY <1>1, <1>2, EmptySeq
  <1> QED BY <1>2, <1>3, <1>4 DEF Top

LEMMA Pushed ==
  ASSUME TypeOK, NEW f \in Frames
  PROVE  LET t == Append(stack, f)
         IN  /\ Rises(t) /\ Len(t) = Len(stack) + 1 /\ t[Len(stack) + 1] = f
             /\ \A p \in 1 .. Len(stack) : t[p] = stack[p]
  <1>1. stack \in Seq(Frames)
    BY DEF TypeOK
  <1> QED BY <1>1, AppendFacts DEF Rises

LEMMA PushedTwo ==
  ASSUME TypeOK, NEW f \in Frames, NEW g \in Frames
  PROVE  LET t == stack \o <<f, g>>
         IN  /\ Rises(t) /\ Len(t) = Len(stack) + 2
             /\ t[Len(stack) + 1] = f /\ t[Len(stack) + 2] = g
             /\ \A p \in 1 .. Len(stack) : t[p] = stack[p]
  <1>1. stack \in Seq(Frames) /\ Len(stack) \in Nat
    BY DEF TypeOK
  <1>2. <<f, g>> \in Seq(Frames) /\ Len(<<f, g>>) = 2 /\ <<f, g>>[1] = f /\ <<f, g>>[2] = g
    OBVIOUS
  <1>3. /\ stack \o <<f, g>> \in Seq(Frames) /\ Len(stack \o <<f, g>>) = Len(stack) + 2
        /\ \A p \in 1 .. Len(stack) : (stack \o <<f, g>>)[p] = stack[p]
        /\ \A p \in 1 .. 2 : (stack \o <<f, g>>)[Len(stack) + p] = <<f, g>>[p]
    BY <1>1, <1>2, ConcatFacts
  <1>4. (stack \o <<f, g>>)[Len(stack) + 1] = f /\ (stack \o <<f, g>>)[Len(stack) + 2] = g
    BY <1>2, <1>3
  <1> QED BY <1>1, <1>3, <1>4 DEF Rises

\* f is the running frame, further on.
Furthers(f) == f \in Frames /\ f.k = Top.k /\ f.at = Top.at /\ f.m = Top.m /\ f.n = Top.n

LEMMA Continued ==
  ASSUME TypeOK, stack # <<>>, NEW f, Furthers(f)
  PROVE  /\ Rises(With(f)) /\ Len(With(f)) = Len(stack) /\ With(f)[Len(stack)] = f
         /\ \A p \in 1 .. Len(stack) - 1 : With(f)[p] = stack[p]
  <1>1. stack \in Seq(Frames) /\ Len(stack) \in Nat \ {0} /\ DOMAIN stack = 1 .. Len(stack)
    BY StackFacts DEF TypeOK
  <1>2. f \in Frames
    BY DEF Furthers
  <1>3. /\ With(f) \in Seq(Frames) /\ Len(With(f)) = Len(stack) /\ With(f)[Len(stack)] = f
        /\ \A p \in 1 .. Len(stack) - 1 : With(f)[p] = stack[p]
    <2>1. stack \in Seq(Frames) /\ stack # <<>> /\ f \in Frames
      BY <1>1, <1>2
    <2>2. With(f) = [stack EXCEPT ![Len(stack)] = f]
      BY DEF With
    <2>3. /\ [stack EXCEPT ![Len(stack)] = f] \in Seq(Frames)
          /\ Len([stack EXCEPT ![Len(stack)] = f]) = Len(stack)
          /\ [stack EXCEPT ![Len(stack)] = f][Len(stack)] = f
          /\ \A p \in 1 .. Len(stack) - 1 : [stack EXCEPT ![Len(stack)] = f][p] = stack[p]
      BY <2>1, LastFacts
    <2> QED BY ONLY <2>2, <2>3
  <1> QED BY <1>1, <1>3 DEF Rises, Furthers, Top

LEMMA ContinuedPushed ==
  ASSUME TypeOK, stack # <<>>, NEW f, Furthers(f), NEW g \in Frames
  PROVE  LET t == Append(With(f), g)
         IN  /\ Rises(t) /\ Len(t) = Len(stack) + 1
             /\ t[Len(stack)] = f /\ t[Len(stack) + 1] = g
             /\ \A p \in 1 .. Len(stack) - 1 : t[p] = stack[p]
  <1>1. /\ Rises(With(f)) /\ Len(With(f)) = Len(stack) /\ With(f)[Len(stack)] = f
        /\ \A p \in 1 .. Len(stack) - 1 : With(f)[p] = stack[p]
    BY Continued
  <1>2. With(f) \in Seq(Frames) /\ Len(stack) \in Nat \ {0}
    BY <1>1, StackFacts DEF Rises
  <1>3. /\ Append(With(f), g) \in Seq(Frames)
        /\ Len(Append(With(f), g)) = Len(stack) + 1
        /\ \A k \in 1 .. Len(stack) : Append(With(f), g)[k] = With(f)[k]
        /\ Append(With(f), g)[Len(stack) + 1] = g
    BY <1>1, <1>2, AppendFacts
  <1>4. Append(With(f), g)[Len(stack)] = f
    BY <1>1, <1>2, <1>3
  <1>5. \A p \in 1 .. Len(stack) - 1 : Append(With(f), g)[p] = stack[p]
    BY <1>1, <1>2, <1>3
  <1> QED BY <1>1, <1>2, <1>3, <1>4, <1>5 DEF Rises

LEMMA PoppedFacts ==
  ASSUME TypeOK, stack # <<>>
  PROVE  /\ Popped \in Seq(Frames) /\ Len(Popped) = Len(stack) - 1
         /\ \A p \in 1 .. Len(stack) - 1 : Popped[p] = stack[p]
  <1>1. stack \in Seq(Frames) /\ Len(stack) \in Nat \ {0}
    BY StackFacts DEF TypeOK
  <1>2. Top \in Frames
    BY StackFacts
  <1> QED BY <1>1, <1>2, LastFacts DEF Popped

LEMMA RisesSame ==
  ASSUME TypeOK
  PROVE  Rises(stack)
  BY StackFacts DEF TypeOK, Rises

-----------------------------------------------------------------------------
(* What frames are                                                          *)

LEMMA FrameTypes ==
  ASSUME InjectorAssumption
  PROVE  /\ \A at \in Contexts : UserFrame(at) \in Frames
         /\ \A m \in Modules : LoadFrame(m) \in Frames
         /\ \A n \in Names : RegisterFrame(n) \in Frames
         /\ \A n \in Names, at \in {"value", "factory", "provider"}, i \in Nat,
               inst \in Instances \cup {Null} : GetFrame(n, at, i, inst) \in Frames
  BY DEF Frames, Frame, UserFrame, LoadFrame, RegisterFrame, GetFrame, Contexts

LEMMA FrameShapes ==
  /\ \A at \in Contexts : Shaped(UserFrame(at)) /\ UserFrame(at).k = "user"
                          /\ UserFrame(at).at = at
  /\ \A m \in Modules : Shaped(LoadFrame(m)) /\ LoadFrame(m).k = "load" /\ LoadFrame(m).m = m
                        /\ LoadFrame(m).i = 1
  /\ \A n \in Names : Shaped(RegisterFrame(n)) /\ RegisterFrame(n).k = "register"
  /\ \A n \in Names, at \in {"value", "factory", "provider"} : \A i, inst :
       (i > 0 => inst \in Instances) =>
         /\ Shaped(GetFrame(n, at, i, inst))
         /\ GetFrame(n, at, i, inst).k = "get" /\ GetFrame(n, at, i, inst).n = n
         /\ GetFrame(n, at, i, inst).i = i /\ GetFrame(n, at, i, inst).inst = inst
  BY DEF Shaped, Frame, UserFrame, LoadFrame, RegisterFrame, GetFrame

LEMMA TopShaped ==
  ASSUME TypeOK, WellFormed, stack # <<>>
  PROVE  Shaped(Top)
  BY StackFacts DEF WellFormed, Top

-----------------------------------------------------------------------------
(* Types                                                                    *)

LEMMA InitType ==
  ASSUME InjectorAssumption, Init
  PROVE  TypeOK /\ WellFormed
  <1>1. Instance(1) \in Instances
    BY DEF Instance, Instances
  <1>2. stack = <<>> /\ path = <<>> /\ drained = <<>>
    BY DEF Init
  <1>3. WellFormed
    BY <1>2 DEF WellFormed
  <1>4. value \in [Names -> Instances \cup {Null}] /\ made \in [Names -> Nat]
    BY <1>1 DEF Init
  <1>5. /\ chain \in [Names -> Seq(Decorators)] /\ decorated \in [Names -> Seq(Decorators)]
        /\ pending \in [Names -> SUBSET {"factory", "provider"}]
        /\ handed \in [Names -> SUBSET Instances]
    BY DEF Init
  <1>6. path \in Seq(Names) /\ stack \in Seq(Frames) /\ drained \in Seq(Modules)
    BY <1>2
  <1>9. boot \in {"load", "config", "run", "ready", "failed"} /\ block \in Nat \ {0}
    <2>1. boot = "load" /\ block = 1
      BY DEF Init
    <2> QED BY <2>1
  <1>7. /\ loaded \subseteq Modules /\ phase \in {"config", "run"}
        /\ providers \subseteq Names /\ constants \subseteq Names
        /\ throwing \in BOOLEAN /\ requires \in RequiresChoices
    BY DEF Init
  <1>8. budget \in Nat
    BY DEF Init, InjectorAssumption
  <1> QED BY <1>3, <1>4, <1>5, <1>6, <1>7, <1>8, <1>9 DEF TypeOK

LEMMA InstanceType ==
  ASSUME NEW i \in Nat
  PROVE  Instance(i) \in Instances
  BY DEF Instance, Instances

LEMMA RisesShaped ==
  ASSUME TypeOK, WellFormed, Rises(stack'),
         stack # <<>> => Shaped(stack'[Len(stack)]),
         \A p \in Len(stack) + 1 .. Len(stack') : Shaped(stack'[p])
  PROVE  WellFormed' /\ stack' \in Seq(Frames)
  <1>1. /\ stack' \in Seq(Frames) /\ Len(stack') \in Nat /\ DOMAIN stack' = 1 .. Len(stack')
        /\ Len(stack) \in Nat /\ DOMAIN stack = 1 .. Len(stack)
        /\ (Len(stack) > 0 => stack # <<>>)
    BY StackFacts DEF Rises
  <1>2. ASSUME NEW p \in 1 .. Len(stack')
        PROVE  Shaped(stack'[p])
    <2>1. CASE p \in 1 .. Len(stack) - 1
      BY <1>1, <2>1 DEF Rises, WellFormed
    <2>2. CASE p = Len(stack)
      BY <1>1, <2>2
    <2>3. CASE p \in Len(stack) + 1 .. Len(stack')
      BY <2>3
    <2>4. p \in 1 .. Len(stack) - 1 \/ p = Len(stack) \/ p \in Len(stack) + 1 .. Len(stack')
      <3>1. Len(stack) \in Nat /\ Len(stack') \in Nat
        BY <1>1
      <3> QED BY <3>1
    <2> QED BY <2>1, <2>2, <2>3, <2>4
  <1> QED BY <1>1, <1>2 DEF WellFormed

LEMMA FallsShaped ==
  ASSUME TypeOK, WellFormed, stack # <<>>, stack' = Popped
  PROVE  WellFormed' /\ stack' \in Seq(Frames)
  <1>1. /\ stack' \in Seq(Frames) /\ Len(stack') = Len(stack) - 1
        /\ \A p \in 1 .. Len(stack) - 1 : stack'[p] = stack[p]
    BY PoppedFacts
  <1>2. /\ Len(stack) \in Nat /\ DOMAIN stack = 1 .. Len(stack)
        /\ Len(stack') \in Nat /\ DOMAIN stack' = 1 .. Len(stack')
    BY <1>1, StackFacts
  <1>3. \A p \in 1 .. Len(stack') : p \in 1 .. Len(stack) - 1 /\ p \in 1 .. Len(stack)
    BY <1>1, <1>2
  <1> QED BY <1>1, <1>2, <1>3 DEF WellFormed

LEMMA PathFacts ==
  ASSUME TypeOK
  PROVE  /\ SubSeq(path, 1, Len(path) - 1) \in Seq(Names)
         /\ \A n \in Names : Append(path, n) \in Seq(Names)
  <1>1. path \in Seq(Names) /\ Len(path) \in Nat /\ DOMAIN path = 1 .. Len(path)
    BY DEF TypeOK
  <1>2. \A p \in 1 .. Len(path) - 1 : p \in 1 .. Len(path)
    BY <1>1
  <1>3. \A p \in 1 .. Len(path) - 1 : path[p] \in Names
    BY <1>1, <1>2
  <1> QED BY <1>1, <1>3, SubSeqProperties

\* What the stack and the path are apart from, and what a registration does to it.
RestTyped ==
  /\ requires \in RequiresChoices
  /\ boot \in {"load", "config", "run", "ready", "failed"} /\ block \in Nat \ {0}
  /\ loaded \subseteq Modules /\ drained \in Seq(Modules)
  /\ phase \in {"config", "run"}
  /\ value \in [Names -> Instances \cup {Null}]
  /\ pending \in [Names -> SUBSET {"factory", "provider"}]
  /\ providers \subseteq Names /\ constants \subseteq Names
  /\ chain \in [Names -> Seq(Decorators)]
  /\ throwing \in BOOLEAN
  /\ made \in [Names -> Nat] /\ decorated \in [Names -> Seq(Decorators)]
  /\ handed \in [Names -> SUBSET Instances] /\ budget \in Nat

LEMMA TypeParts ==
  TypeOK <=> RestTyped /\ path \in Seq(Names) /\ stack \in Seq(Frames)
  BY DEF TypeOK, RestTyped

\* The registration of a record, out of a queue or by $provide.
Registering(recipe, n, d) == Register(recipe, n, d) \/ Refuse

RegistryTyped ==
  /\ value \in [Names -> Instances \cup {Null}]
  /\ pending \in [Names -> SUBSET {"factory", "provider"}]
  /\ providers \subseteq Names /\ constants \subseteq Names
  /\ chain \in [Names -> Seq(Decorators)]
  /\ throwing \in BOOLEAN
  /\ made \in [Names -> Nat] /\ decorated \in [Names -> Seq(Decorators)]

\* What it does to the stack: nothing, or the constructor of a provider is called.
Constructs(n) == stack' = stack \o <<RegisterFrame(n), UserFrame("ctor")>>

LEMMA RegisterStack ==
  ASSUME NEW recipe, NEW n \in Names, NEW d, Registering(recipe, n, d)
  PROVE  stack' = stack \/ (Constructs(n) /\ throwing' = throwing)
  BY DEF Registering, Register, RegisterValue, RegisterFactory, RegisterProvider,
         RegisterDecorator, Refuse, Constructs

LEMMA RegisterType ==
  ASSUME TypeOK, NEW recipe, NEW n \in Names, NEW d \in Decorators, Registering(recipe, n, d)
  PROVE  RegistryTyped'
  <1> USE DEF RegistryTyped
  <1>1. TypeOK /\ Instance(made[n] + 1) \in Instances /\ Null \in Instances \cup {Null}
    <2>1. made[n] + 1 \in Nat
      BY DEF TypeOK
    <2> QED BY <2>1, InstanceType
  <1>2. CASE Refuse
    BY <1>1, <1>2 DEF Refuse, TypeOK, registry
  <1>3. ASSUME NEW c \in BOOLEAN, RegisterValue(n, c)
        PROVE  RegistryTyped'
    BY <1>1, <1>3 DEF RegisterValue, Replace, TypeOK
  <1>4. CASE RegisterFactory(n)
    BY <1>1, <1>4 DEF RegisterFactory, Replace, TypeOK
  <1>5. CASE RegisterProvider(n)
    BY <1>1, <1>5 DEF RegisterProvider, Replace, TypeOK
  <1>6. CASE RegisterDecorator(n, d)
    BY <1>1, <1>6 DEF RegisterDecorator, TypeOK
  <1> QED BY <1>2, <1>3, <1>4, <1>5, <1>6 DEF Registering, Register

-----------------------------------------------------------------------------
(* What each action does to the stack                                       *)

\* Calls begin, of frames of these kinds and with user code in these contexts; the
\* calls there were go on.
Begins(kinds, contexts) ==
  /\ Rises(stack')
  /\ stack # <<>> => Shaped(stack'[Len(stack)])
  /\ \A p \in Len(stack) + 1 .. Len(stack') :
       /\ Shaped(stack'[p]) /\ stack'[p].k \in kinds
       /\ stack'[p].k = "user" => stack'[p].at \in contexts

LEMMA BeginsShaped ==
  ASSUME TypeOK, WellFormed, NEW kinds, NEW contexts, Begins(kinds, contexts)
  PROVE  WellFormed' /\ stack' \in Seq(Frames)
  BY RisesShaped DEF Begins

LEMMA BeginsNothing ==
  ASSUME TypeOK, WellFormed, stack' = stack
  PROVE  Begins({}, {})
  <1>1. Rises(stack) /\ Len(stack) \in Nat
    BY RisesSame, StackFacts
  <1>2. stack # <<>> => Shaped(stack[Len(stack)])
    BY TopShaped DEF Top
  <1>3. \A p \in Len(stack) + 1 .. Len(stack) : FALSE
    BY <1>1
  <1> QED BY <1>1, <1>2, <1>3 DEF Begins

LEMMA BeginsOne ==
  ASSUME TypeOK, WellFormed, NEW f \in Frames, Shaped(f), stack' = Append(stack, f),
         NEW contexts, f.k = "user" => f.at \in contexts
  PROVE  Begins({f.k}, contexts)
  <1>1. /\ Rises(stack') /\ Len(stack') = Len(stack) + 1 /\ stack'[Len(stack) + 1] = f
        /\ \A p \in 1 .. Len(stack) : stack'[p] = stack[p]
    BY Pushed
  <1>2. stack # <<>> => Shaped(stack'[Len(stack)])
    <2>1. stack # <<>> => Len(stack) \in 1 .. Len(stack)
      BY StackFacts
    <2> QED BY <1>1, <2>1, TopShaped DEF Top
  <1>3. Len(stack) \in Nat
    BY StackFacts
  <1>4. \A p \in Len(stack) + 1 .. Len(stack') : p = Len(stack) + 1
    BY <1>1, <1>3
  <1> QED BY <1>1, <1>2, <1>4 DEF Begins

LEMMA BeginsTwo ==
  ASSUME TypeOK, WellFormed, NEW f \in Frames, Shaped(f), f.k # "user",
         NEW g \in Frames, Shaped(g), g.k = "user", stack' = stack \o <<f, g>>
  PROVE  Begins({f.k, "user"}, {g.at})
  <1>1. /\ Rises(stack') /\ Len(stack') = Len(stack) + 2
        /\ stack'[Len(stack) + 1] = f /\ stack'[Len(stack) + 2] = g
        /\ \A p \in 1 .. Len(stack) : stack'[p] = stack[p]
    BY PushedTwo
  <1>2. stack # <<>> => Shaped(stack'[Len(stack)])
    <2>1. stack # <<>> => Len(stack) \in 1 .. Len(stack)
      BY StackFacts
    <2> QED BY <1>1, <2>1, TopShaped DEF Top
  <1>3. Len(stack) \in Nat
    BY StackFacts
  <1>4. \A p \in Len(stack) + 1 .. Len(stack') : p = Len(stack) + 1 \/ p = Len(stack) + 2
    BY <1>1, <1>3
  <1> QED BY <1>1, <1>2, <1>4 DEF Begins

LEMMA BeginsFurther ==
  ASSUME TypeOK, WellFormed, stack # <<>>, NEW f, Furthers(f), Shaped(f), stack' = With(f)
  PROVE  Begins({}, {}) /\ Len(stack') = Len(stack)
  <1>1. Rises(stack') /\ Len(stack') = Len(stack) /\ stack'[Len(stack)] = f
    BY Continued
  <1>2. Len(stack) \in Nat
    BY StackFacts
  <1>3. \A p \in Len(stack) + 1 .. Len(stack') : FALSE
    BY <1>1, <1>2
  <1> QED BY <1>1, <1>3 DEF Begins

LEMMA BeginsFurtherOne ==
  ASSUME TypeOK, WellFormed, stack # <<>>, NEW f, Furthers(f), Shaped(f),
         NEW g \in Frames, Shaped(g), NEW contexts, g.k = "user" => g.at \in contexts,
         stack' = Append(With(f), g)
  PROVE  Begins({g.k}, contexts)
  <1>1. /\ Rises(stack') /\ Len(stack') = Len(stack) + 1
        /\ stack'[Len(stack)] = f /\ stack'[Len(stack) + 1] = g
    BY ContinuedPushed
  <1>2. Len(stack) \in Nat
    BY StackFacts
  <1>3. \A p \in Len(stack) + 1 .. Len(stack') : p = Len(stack) + 1
    BY <1>1, <1>2
  <1> QED BY <1>1, <1>3 DEF Begins

\* The next frame of a loadModule, of a get whose producer has returned, and of one
\* that calls a decorator.
NextRequired == [Top EXCEPT !.i = @ + 1]
Made         == [Top EXCEPT !.i = 1, !.inst = Instance(made[Top.n] + 1)]
Decorated    == [Top EXCEPT !.i = @ + 1, !.inst.decs = Append(@, chain[Top.n][Top.i])]

LEMMA NextRequiredFacts ==
  ASSUME TypeOK, WellFormed, Loading
  PROVE  /\ Furthers(NextRequired) /\ Shaped(NextRequired)
         /\ NextRequired.i = Top.i + 1 /\ Top.i \in Nat \ {0} /\ Top.m \in Modules
  <1>1. stack # <<>> /\ Top.k = "load" /\ Top \in Frames /\ Shaped(Top)
    BY StackFacts, TopShaped DEF Loading, At
  <1>0. Top.i \in Nat /\ Top.i + 1 \in Nat /\ NextRequired = [Top EXCEPT !.i = Top.i + 1]
    <2>1. Top.i \in Nat
      BY <1>1 DEF Frames
    <2>2. NextRequired = [Top EXCEPT !.i = Top.i + 1]
      BY DEF NextRequired
    <2> QED BY <2>1, <2>2
  <1>2. NextRequired \in Frames /\ NextRequired.k = "load" /\ NextRequired.at = Top.at
        /\ NextRequired.m = Top.m /\ NextRequired.n = Top.n /\ NextRequired.i = Top.i + 1
        /\ Top.i \in Nat
    BY <1>0, <1>1 DEF Frames
  <1>3. Shaped(NextRequired) /\ Top.m \in Modules /\ Top.i > 0
    BY <1>1, <1>2 DEF Shaped
  <1> QED BY <1>1, <1>2, <1>3 DEF Furthers

LEMMA MadeFacts ==
  ASSUME TypeOK, WellFormed, At("get")
  PROVE  /\ Furthers(Made) /\ Shaped(Made) /\ Made.i = 1 /\ Made.inst.decs = <<>>
         /\ Top.n \in Names
  <1>1. stack # <<>> /\ Top.k = "get" /\ Top \in Frames /\ Shaped(Top)
    BY StackFacts, TopShaped DEF At
  <1>2. Top.n \in Names /\ Top.at \in {"value", "factory", "provider"}
    BY <1>1 DEF Shaped
  <1>3. Instance(made[Top.n] + 1) \in Instances /\ Instance(made[Top.n] + 1).decs = <<>>
    <2>1. made[Top.n] + 1 \in Nat
      BY <1>2 DEF TypeOK
    <2> QED BY <2>1, InstanceType DEF Instance
  <1>4. Made \in Frames /\ Made.k = "get" /\ Made.at = Top.at /\ Made.m = Top.m
        /\ Made.n = Top.n /\ Made.i = 1 /\ Made.inst = Instance(made[Top.n] + 1)
    BY <1>1, <1>3 DEF Made, Frames
  <1>5. Shaped(Made)
    BY <1>1, <1>2, <1>3, <1>4 DEF Shaped
  <1> QED BY <1>1, <1>2, <1>3, <1>4, <1>5 DEF Furthers

LEMMA DecoratedFacts ==
  ASSUME TypeOK, WellFormed, At("get"), Top.i \in 1 .. Len(chain[Top.n])
  PROVE  /\ Furthers(Decorated) /\ Shaped(Decorated) /\ Top.n \in Names
         /\ Decorated.i = Top.i + 1 /\ Top.inst \in Instances
         /\ Decorated.inst.decs = Append(Top.inst.decs, chain[Top.n][Top.i])
  <1>1. stack # <<>> /\ Top.k = "get" /\ Top \in Frames /\ Shaped(Top)
    BY StackFacts, TopShaped DEF At
  <1>2. /\ Top.n \in Names /\ Top.at \in {"value", "factory", "provider"}
        /\ chain[Top.n] \in Seq(Decorators)
    BY <1>1 DEF Shaped, TypeOK
  <1>3. Top.i \in Nat /\ Top.i > 0 /\ chain[Top.n][Top.i] \in Decorators
    BY <1>2
  <1>4. Top.inst \in Instances
    BY <1>1, <1>3 DEF Shaped
  <1>5. Append(Top.inst.decs, chain[Top.n][Top.i]) \in Seq(Decorators)
    BY <1>3, <1>4 DEF Instances
  <1> DEFINE inst == [Top.inst EXCEPT !.decs = Append(@, chain[Top.n][Top.i])]
  <1>6. inst \in Instances /\ inst.decs = Append(Top.inst.decs, chain[Top.n][Top.i])
    BY <1>4, <1>5 DEF Instances
  <1>7. Decorated = [Top EXCEPT !.i = Top.i + 1, !.inst = inst] /\ Top.i + 1 \in Nat
    BY <1>3 DEF Decorated
  <1> HIDE DEF inst
  <1>8. Decorated \in Frames /\ Decorated.k = "get" /\ Decorated.at = Top.at
        /\ Decorated.m = Top.m /\ Decorated.n = Top.n /\ Decorated.i = Top.i + 1
        /\ Decorated.inst = inst
    BY <1>1, <1>3, <1>6, <1>7 DEF Frames
  <1>9. Shaped(Decorated)
    BY <1>1, <1>2, <1>6, <1>8 DEF Shaped
  <1> QED BY <1>1, <1>2, <1>4, <1>6, <1>8, <1>9 DEF Furthers

-----------------------------------------------------------------------------

Falls == stack # <<>> /\ stack' = Popped

LEMMA BeginsMore ==
  ASSUME NEW kinds, NEW contexts, Begins(kinds, contexts),
         NEW more, kinds \subseteq more, NEW wider, contexts \subseteq wider
  PROVE  Begins(more, wider)
  BY DEF Begins

LEMMA RegisterBegins ==
  ASSUME InjectorAssumption, TypeOK, WellFormed,
         NEW recipe, NEW n \in Names, NEW d, Registering(recipe, n, d)
  PROVE  Begins({"register", "user"}, {"ctor"})
  <1>1. CASE stack' = stack
    <2>1. Begins({}, {})
      BY <1>1, BeginsNothing
    <2> QED BY <2>1, BeginsMore
  <1>2. CASE Constructs(n)
    <2>1. /\ RegisterFrame(n) \in Frames /\ UserFrame("ctor") \in Frames
          /\ Shaped(RegisterFrame(n)) /\ Shaped(UserFrame("ctor"))
          /\ RegisterFrame(n).k = "register" /\ UserFrame("ctor").k = "user"
          /\ UserFrame("ctor").at = "ctor"
      BY FrameTypes, FrameShapes DEF Contexts
    <2>2. stack' = stack \o <<RegisterFrame(n), UserFrame("ctor")>>
      BY <1>2 DEF Constructs
    <2> HIDE DEF RegisterFrame, UserFrame
    <2>3. Begins({RegisterFrame(n).k, "user"}, {UserFrame("ctor").at})
      BY <2>1, <2>2, BeginsTwo
    <2> QED BY <2>1, <2>3
  <1> QED BY <1>1, <1>2, RegisterStack

LEMMA LoadBegins ==
  ASSUME InjectorAssumption, TypeOK, WellFormed, NEW m \in Modules
  PROVE  /\ Enter(m, stack) => Begins({"load"}, {})
         /\ Loading /\ Enter(m, With(NextRequired)) => Begins({"load"}, {})
  <1>1. /\ LoadFrame(m) \in Frames /\ Shaped(LoadFrame(m)) /\ LoadFrame(m).k = "load"
        /\ LoadFrame(m).k # "user"
    BY FrameTypes, FrameShapes
  <1>2. ASSUME Enter(m, stack)
        PROVE  Begins({"load"}, {})
    <2>1. CASE stack' = stack
      <3>1. Begins({}, {})
        BY <2>1, BeginsNothing
      <3> QED BY <3>1, BeginsMore
    <2>2. CASE stack' = Append(stack, LoadFrame(m))
      <3>1. Begins({LoadFrame(m).k}, {})
        BY <1>1, <2>2, BeginsOne
      <3> QED BY <1>1, <3>1
    <2> QED BY <1>2, <2>1, <2>2 DEF Enter
  <1>3. ASSUME Loading, Enter(m, With(NextRequired))
        PROVE  Begins({"load"}, {})
    <2>1. stack # <<>> /\ Furthers(NextRequired) /\ Shaped(NextRequired)
      BY <1>3, NextRequiredFacts DEF Loading, At
    <2>2. CASE stack' = With(NextRequired)
      <3>1. Begins({}, {})
        BY <2>1, <2>2, BeginsFurther
      <3> QED BY <3>1, BeginsMore
    <2>3. CASE stack' = Append(With(NextRequired), LoadFrame(m))
      <3>1. Begins({LoadFrame(m).k}, {})
        BY <1>1, <2>1, <2>3, BeginsFurtherOne
      <3> QED BY <1>1, <3>1
    <2> QED BY <1>3, <2>2, <2>3 DEF Enter
  <1> QED BY <1>2, <1>3

LEMMA LoadEntryBegins ==
  ASSUME InjectorAssumption, TypeOK, WellFormed, LoadEntry
  PROVE  /\ Entry[block] \in Modules /\ Enter(Entry[block], stack)
         /\ Begins({"load"}, {})
  <1>1. Entry[block] \in Modules
    <2>1. block \in 1 .. Len(Entry)
      BY DEF LoadEntry, TypeOK
    <2> QED BY <2>1 DEF InjectorAssumption
  <1>2. Enter(Entry[block], stack)
    BY DEF LoadEntry
  <1> QED BY <1>1, <1>2, LoadBegins

LEMMA LoadRequiredBegins ==
  ASSUME InjectorAssumption, TypeOK, WellFormed, LoadRequired
  PROVE  /\ Top.i \in Nat \ {0} /\ Top.m \in Modules /\ Loading
         /\ Required[Top.i] \in Modules /\ Enter(Required[Top.i], With(NextRequired))
         /\ Begins({"load"}, {})
  <1>1. Loading /\ Top.i \in Nat \ {0} /\ Top.m \in Modules
    BY NextRequiredFacts DEF LoadRequired
  <1>2. Required \in Seq(Modules \cup {Null})
    BY <1>1 DEF Required, TypeOK, InjectorAssumption
  <1>3. Required[Top.i] \in Modules
    <2>2. Top.i \in 1 .. Len(Required)
      BY <1>1, <1>2 DEF LoadRequired
    <2>3. Required[Top.i] \in Modules \cup {Null}
      BY <1>2, <2>2
    <2> QED BY <2>3 DEF LoadRequired
  <1>4. Enter(Required[Top.i], With(NextRequired))
    BY DEF LoadRequired, NextRequired
  <1> QED BY <1>1, <1>3, <1>4, LoadBegins

LEMMA InvokeBlockBegins ==
  ASSUME InjectorAssumption, TypeOK, WellFormed, InvokeBlock
  PROVE  Begins({"user"}, {boot})
  <1>1. boot \in Contexts /\ stack = <<>> /\ stack' = <<UserFrame(boot)>>
    BY DEF InvokeBlock, Idle, Contexts
  <1>2. stack' = Append(stack, UserFrame(boot))
    BY <1>1
  <1>3. /\ UserFrame(boot) \in Frames /\ Shaped(UserFrame(boot))
        /\ UserFrame(boot).k = "user" /\ UserFrame(boot).at = boot
    BY <1>1, FrameTypes, FrameShapes
  <1>4. Begins({UserFrame(boot).k}, {boot})
    BY <1>2, <1>3, BeginsOne
  <1> QED BY <1>3, <1>4

LEMMA BeginTurnBegins ==
  ASSUME InjectorAssumption, TypeOK, WellFormed, BeginTurn
  PROVE  Begins({"user"}, {"run"})
  <1>1. "run" \in Contexts /\ stack = <<>> /\ stack' = <<UserFrame("run")>>
    BY DEF BeginTurn, Idle, Contexts
  <1>2. stack' = Append(stack, UserFrame("run"))
    BY <1>1
  <1>3. /\ UserFrame("run") \in Frames /\ Shaped(UserFrame("run"))
        /\ UserFrame("run").k = "user" /\ UserFrame("run").at = "run"
    BY <1>1, FrameTypes, FrameShapes
  <1>4. Begins({UserFrame("run").k}, {"run"})
    BY <1>2, <1>3, BeginsOne
  <1> QED BY <1>3, <1>4

\* The frame of a get that has found what it starts from.
Opened(n) == IF Source(n) = "value" THEN GetFrame(n, "value", 1, value[n])
             ELSE GetFrame(n, Source(n), 0, Null)

LEMMA OpenedFacts ==
  ASSUME InjectorAssumption, TypeOK, NEW n \in Names, Source(n) # "none"
  PROVE  /\ Opened(n) \in Frames /\ Shaped(Opened(n))
         /\ Opened(n).k = "get" /\ Opened(n).n = n
         /\ Source(n) = "value" => value[n] # Null /\ Opened(n).i = 1 /\ Opened(n).inst = value[n]
         /\ Source(n) # "value" => Opened(n).i = 0
  <1>1. value[n] \in Instances \cup {Null}
    BY DEF TypeOK
  <1>2. CASE Source(n) = "value"
    <2>1. value[n] # Null
      BY <1>2 DEF Source
    <2>2. value[n] \in Instances
      BY <1>1, <2>1
    <2>3. Opened(n) = GetFrame(n, "value", 1, value[n])
      BY <1>2 DEF Opened
    <2>4. /\ GetFrame(n, "value", 1, value[n]) \in Frames
          /\ Shaped(GetFrame(n, "value", 1, value[n]))
          /\ GetFrame(n, "value", 1, value[n]).k = "get"
          /\ GetFrame(n, "value", 1, value[n]).n = n
          /\ GetFrame(n, "value", 1, value[n]).i = 1
          /\ GetFrame(n, "value", 1, value[n]).inst = value[n]
      BY <2>2, FrameTypes, FrameShapes
    <2> QED BY <1>2, <2>1, <2>3, <2>4
  <1>3. CASE Source(n) # "value"
    <2>1. Source(n) \in {"value", "factory", "provider"}
      BY <1>3 DEF Source
    <2>2. Opened(n) = GetFrame(n, Source(n), 0, Null)
      BY <1>3 DEF Opened
    <2> HIDE DEF Source
    <2>3. /\ GetFrame(n, Source(n), 0, Null) \in Frames
          /\ Shaped(GetFrame(n, Source(n), 0, Null))
          /\ GetFrame(n, Source(n), 0, Null).k = "get" /\ GetFrame(n, Source(n), 0, Null).n = n
          /\ GetFrame(n, Source(n), 0, Null).i = 0
      BY <2>1, FrameTypes, FrameShapes
    <2> QED BY <1>3, <2>2, <2>3
  <1> QED BY <1>2, <1>3

LEMMA GetResolvesBegins ==
  ASSUME InjectorAssumption, TypeOK, WellFormed, NEW n \in Names, GetResolves(n)
  PROVE  /\ Begins({"get", "user"}, {"factory"})
         /\ stack'[Len(stack) + 1] = Opened(n)
         /\ \A p \in 1 .. Len(stack) : stack'[p] = stack[p]
         /\ \A p \in Len(stack) + 1 .. Len(stack') :
              stack'[p].k = "get" => p = Len(stack) + 1
         /\ Len(stack') > Len(stack)
  <1>1. /\ Opened(n) \in Frames /\ Shaped(Opened(n)) /\ Opened(n).k = "get"
        /\ Len(stack) \in Nat
    BY OpenedFacts, StackFacts DEF GetResolves
  <1>2. CASE Source(n) = "value"
    <2>1. stack' = Append(stack, Opened(n))
      BY <1>2 DEF GetResolves, Opened
    <2>2. /\ Len(stack') = Len(stack) + 1 /\ stack'[Len(stack) + 1] = Opened(n)
          /\ \A p \in 1 .. Len(stack) : stack'[p] = stack[p]
      BY <1>1, <2>1, Pushed
    <2>3. Begins({Opened(n).k}, {"factory"})
      BY <1>1, <2>1, BeginsOne
    <2>4. Begins({"get", "user"}, {"factory"})
      BY <1>1, <2>3, BeginsMore
    <2> QED BY <1>1, <2>2, <2>4
  <1>3. CASE Source(n) # "value"
    <2>1. stack' = stack \o <<Opened(n), UserFrame("factory")>>
      BY <1>3 DEF GetResolves, Opened
    <2>2. /\ UserFrame("factory") \in Frames /\ Shaped(UserFrame("factory"))
          /\ UserFrame("factory").k = "user" /\ UserFrame("factory").at = "factory"
      BY FrameTypes, FrameShapes DEF Contexts
    <2> HIDE DEF UserFrame
    <2>3. /\ Len(stack') = Len(stack) + 2 /\ stack'[Len(stack) + 1] = Opened(n)
          /\ stack'[Len(stack) + 2] = UserFrame("factory")
          /\ \A p \in 1 .. Len(stack) : stack'[p] = stack[p]
      BY <1>1, <2>1, <2>2, PushedTwo
    <2>4. Begins({Opened(n).k, "user"}, {UserFrame("factory").at})
      BY <1>1, <2>1, <2>2, BeginsTwo
    <2>5. Begins({"get", "user"}, {"factory"})
      BY <1>1, <2>2, <2>4
    <2>6. \A p \in Len(stack) + 1 .. Len(stack') : p = Len(stack) + 1 \/ p = Len(stack) + 2
      BY <1>1, <2>3
    <2> QED BY <1>1, <2>2, <2>3, <2>5, <2>6
  <1> QED BY <1>2, <1>3

LEMMA ProducedBegins ==
  ASSUME InjectorAssumption, TypeOK, WellFormed, Produced
  PROVE  /\ Begins({}, {}) /\ Len(stack') = Len(stack) /\ stack'[Len(stack)] = Made
         /\ stack' = With(Made)
  <1>1. stack # <<>> /\ Furthers(Made) /\ Shaped(Made)
    BY MadeFacts DEF Produced, At
  <1>2. stack' = With(Made)
    <2>1. At("get") /\ Top.n \in Names
      BY MadeFacts DEF Produced
    <2>2. made'[Top.n] = made[Top.n] + 1
      BY <2>1 DEF Produced, TypeOK
    <2> QED BY <2>2 DEF Produced, Made
  <1> QED BY <1>1, <1>2, BeginsFurther, Continued

LEMMA DecorateBegins ==
  ASSUME InjectorAssumption, TypeOK, WellFormed, Decorate
  PROVE  /\ Begins({"user"}, {"decorator"}) /\ stack'[Len(stack)] = Decorated
         /\ stack' = Append(With(Decorated), UserFrame("decorator"))
         /\ Len(stack') = Len(stack) + 1
  <1>1. stack # <<>> /\ Furthers(Decorated) /\ Shaped(Decorated)
    BY DecoratedFacts DEF Decorate, At
  <1>2. stack' = Append(With(Decorated), UserFrame("decorator"))
    BY DEF Decorate, Decorated
  <1>3. /\ UserFrame("decorator") \in Frames /\ Shaped(UserFrame("decorator"))
        /\ UserFrame("decorator").k = "user" /\ UserFrame("decorator").at = "decorator"
    BY FrameTypes, FrameShapes DEF Contexts
  <1> HIDE DEF UserFrame
  <1>4. Begins({UserFrame("decorator").k}, {"decorator"})
    BY <1>1, <1>2, <1>3, BeginsFurtherOne
  <1>5. stack'[Len(stack)] = Decorated /\ Len(stack') = Len(stack) + 1
    BY <1>1, <1>2, <1>3, ContinuedPushed
  <1> QED BY <1>2, <1>3, <1>4, <1>5

-----------------------------------------------------------------------------
(* Every action keeps the types and the shapes of frames                    *)

LEMMA HandType ==
  ASSUME TypeOK, NEW n \in Names, NEW inst \in Instances, Hand(n, inst)
  PROVE  handed' \in [Names -> SUBSET Instances]
  BY DEF Hand, TypeOK

LEMMA TypedBegins ==
  ASSUME Typed, NEW kinds, NEW contexts, Begins(kinds, contexts), RestTyped',
         path' \in Seq(Names)
  PROVE  Typed'
  <1>1. WellFormed' /\ stack' \in Seq(Frames)
    BY BeginsShaped DEF Typed
  <1> QED BY <1>1 DEF Typed, TypeOK, RestTyped

LEMMA TypedFalls ==
  ASSUME Typed, Falls, RestTyped', path' \in Seq(Names)
  PROVE  Typed'
  <1>1. WellFormed' /\ stack' \in Seq(Frames)
    BY FallsShaped DEF Typed, Falls
  <1> QED BY <1>1 DEF Typed, TypeOK, RestTyped

LEMMA TypedStays ==
  ASSUME Typed, stack' = stack, RestTyped', path' \in Seq(Names)
  PROVE  Typed'
  <1>1. Begins({}, {})
    BY BeginsNothing DEF Typed
  <1> QED BY <1>1, TypedBegins

LEMMA UserType ==
  ASSUME InjectorAssumption, Typed, UserOp
  PROVE  Typed'
  <1> USE DEF booting, registry, calls, history
  <1>1. RestTyped /\ path \in Seq(Names) /\ TypeOK /\ WellFormed
    BY DEF Typed, TypeOK, RestTyped
  <1>2. ASSUME NEW recipe \in Recipes, NEW n \in Names, NEW d \in Decorators,
               Provide(recipe, n, d) \/ DrainRecord(recipe, n, d)
        PROVE  Typed'
    <2>1. Registering(recipe, n, d)
      BY <1>2 DEF Provide, DrainRecord, Registering
    <2>2. RegistryTyped' /\ Begins({"register", "user"}, {"ctor"})
      BY <1>1, <2>1, RegisterType, RegisterBegins
    <2>3. /\ UNCHANGED <<booting, path, handed>> /\ budget' = budget - 1 /\ budget > 0
      BY <1>2 DEF Provide, DrainRecord, May
    <2>4. RestTyped'
      BY <1>1, <2>2, <2>3 DEF RestTyped, RegistryTyped
    <2> QED BY <1>1, <2>2, <2>3, <2>4, TypedBegins
  <1>3. ASSUME NEW n \in Names, ProviderGetFails(n) \/ GetCached(n) \/ GetThrows(n)
        PROVE  Typed'
    <2>1. stack' = stack /\ path' = path
      BY <1>3 DEF ProviderGetFails, GetCached, GetThrows
    <2>2. CASE ProviderGetFails(n) \/ GetThrows(n)
      <3>1. budget' = budget - 1 /\ budget > 0 /\ throwing' = TRUE
            /\ UNCHANGED <<booting, registry, history>>
        BY <2>2 DEF ProviderGetFails, GetThrows, May
      <3>2. RestTyped'
        BY <1>1, <3>1 DEF RestTyped
      <3> QED BY <1>1, <2>1, <3>2, TypedStays
    <2>3. CASE GetCached(n)
      <3>1. value[n] \in Instances
        BY <1>1, <2>3 DEF GetCached, Cached, Source, TypeOK
      <3>2. handed' \in [Names -> SUBSET Instances]
        BY <1>1, <2>3, <3>1, HandType DEF GetCached
      <3>3. RestTyped'
        BY <1>1, <2>3, <3>2 DEF RestTyped, GetCached, May
      <3> QED BY <1>1, <2>1, <3>3, TypedStays
    <2> QED BY <1>3, <2>2, <2>3
  <1>4. ASSUME NEW n \in Names, GetResolves(n)
        PROVE  Typed'
    <2>1. Begins({"get", "user"}, {"factory"})
      BY <1>1, <1>4, GetResolvesBegins
    <2>2. path' \in Seq(Names)
      BY <1>1, <1>4, PathFacts DEF GetResolves
    <2>3. RestTyped'
      BY <1>1, <1>4 DEF RestTyped, GetResolves, May
    <2> QED BY <2>1, <2>2, <2>3, TypedBegins
  <1>5. CASE Throw
    <2>1. Falls /\ path' = path
      BY <1>5 DEF Throw, May, InUser, At, Falls
    <2>2. RestTyped'
      BY <1>1, <1>5 DEF RestTyped, Throw, May
    <2> QED BY <1>1, <2>1, <2>2, TypedFalls
  <1>6. CASE Return \/ Propagate
    <2>1. Falls /\ path' = path
      BY <1>6 DEF Return, Propagate, InUser, At, Caught, Falls
    <2>2. RestTyped'
      BY <1>1, <1>6 DEF RestTyped, Return, Propagate
    <2> QED BY <1>1, <2>1, <2>2, TypedFalls
  <1>7. CASE Catch
    <2>1. RestTyped' /\ stack' = stack /\ path' = path
      BY <1>1, <1>7 DEF RestTyped, Catch
    <2> QED BY <1>1, <2>1, TypedStays
  <1> QED BY <1>2, <1>3, <1>4, <1>5, <1>6, <1>7 DEF UserOp

LEMMA EnterType ==
  ASSUME TypeOK, NEW m \in Modules, NEW base, Enter(m, base)
  PROVE  loaded' \subseteq Modules
  BY DEF Enter, TypeOK

LEMMA BootType ==
  ASSUME InjectorAssumption, Typed, Boot
  PROVE  Typed'
  <1> USE DEF booting, registry, calls, history
  <1>1. RestTyped /\ path \in Seq(Names) /\ TypeOK /\ WellFormed
    BY DEF Typed, TypeOK, RestTyped
  <1>2. CASE LoadEntry
    <2>1. Begins({"load"}, {}) /\ loaded' \subseteq Modules
      BY <1>1, <1>2, LoadEntryBegins, EnterType
    <2>2. block + 1 \in Nat \ {0}
      BY <1>1 DEF RestTyped
    <2>3. RestTyped' /\ path' = path
      BY <1>1, <1>2, <2>1, <2>2 DEF RestTyped, LoadEntry
    <2> QED BY <1>1, <2>1, <2>3, TypedBegins
  <1>3. CASE LoadRequired
    <2>1. Begins({"load"}, {}) /\ loaded' \subseteq Modules
      BY <1>1, <1>3, LoadRequiredBegins, EnterType
    <2>2. RestTyped' /\ path' = path
      BY <1>1, <1>3, <2>1 DEF RestTyped, LoadRequired
    <2> QED BY <1>1, <2>1, <2>2, TypedBegins
  <1>4. CASE ModuleNotFound \/ LoadDone \/ ConfigDone \/ RunDone \/ Uncaught
    <2>1. stack' = stack /\ path' = path
      BY <1>4 DEF ModuleNotFound, LoadDone, ConfigDone, RunDone, Uncaught
    <2>2. /\ UNCHANGED <<requires, loaded, drained, registry, history, budget>>
          /\ boot' \in {"load", "config", "run", "ready", "failed"}
          /\ block' = block \/ block' = 1
          /\ phase' \in {"config", "run"} /\ throwing' \in BOOLEAN
      <3>1. CASE ModuleNotFound
        BY <1>1, <3>1 DEF ModuleNotFound, RestTyped
      <3>2. CASE LoadDone \/ RunDone
        BY <1>1, <3>2 DEF LoadDone, RunDone, Proceed, RestTyped
      <3>3. CASE ConfigDone
        BY <1>1, <3>3 DEF ConfigDone, Proceed, RestTyped
      <3>4. CASE Uncaught
        BY <1>1, <3>4 DEF Uncaught, RestTyped
      <3> QED BY <1>4, <3>1, <3>2, <3>3, <3>4
    <2>3. block' \in Nat \ {0}
      BY <1>1, <2>2 DEF RestTyped
    <2>4. RestTyped'
      BY <1>1, <2>2, <2>3 DEF RestTyped
    <2> QED BY <1>1, <2>1, <2>4, TypedStays
  <1>5. CASE CollectBlocks
    <2>1. Falls /\ path' = path
      BY <1>5 DEF CollectBlocks, Loading, At, Falls
    <2>2. drained' \in Seq(Modules)
      <3>1. Top.m \in Modules
        BY <1>1, <1>5, NextRequiredFacts DEF CollectBlocks
      <3> QED BY <1>1, <1>5, <3>1 DEF CollectBlocks, RestTyped
    <2>3. RestTyped'
      BY <1>1, <1>5, <2>2 DEF RestTyped, CollectBlocks
    <2> QED BY <1>1, <2>1, <2>3, TypedFalls
  <1>6. CASE Unwind
    <2>1. Falls /\ path' = path
      BY <1>6 DEF Unwind, Caught, Falls
    <2>2. RestTyped'
      BY <1>1, <1>6 DEF RestTyped, Unwind
    <2> QED BY <1>1, <2>1, <2>2, TypedFalls
  <1>7. CASE InvokeBlock
    <2>1. Begins({"user"}, {boot}) /\ path' = path
      BY <1>1, <1>7, InvokeBlockBegins DEF InvokeBlock
    <2>2. block + 1 \in Nat \ {0}
      BY <1>1 DEF RestTyped
    <2>3. RestTyped'
      BY <1>1, <1>7, <2>2 DEF RestTyped, InvokeBlock
    <2> QED BY <1>1, <2>1, <2>3, TypedBegins
  <1>8. CASE BeginTurn
    <2>1. Begins({"user"}, {"run"}) /\ path' = path
      BY <1>1, <1>8, BeginTurnBegins DEF BeginTurn
    <2>2. RestTyped'
      BY <1>1, <1>8 DEF RestTyped, BeginTurn
    <2> QED BY <1>1, <2>1, <2>2, TypedBegins
  <1> QED BY <1>2, <1>3, <1>4, <1>5, <1>6, <1>7, <1>8 DEF Boot

LEMMA EngineType ==
  ASSUME InjectorAssumption, Typed, Engine
  PROVE  Typed'
  <1> USE DEF booting, registry, calls, history
  <1>1. RestTyped /\ path \in Seq(Names) /\ TypeOK /\ WellFormed
    BY DEF Typed, TypeOK, RestTyped
  <1>2. CASE ProviderMade
    <2>1. Falls /\ path' = path /\ Top.n \in Names
      BY <1>1, <1>2, TopShaped DEF ProviderMade, At, Falls, Shaped
    <2>2. RestTyped'
      BY <1>1, <1>2, <2>1 DEF RestTyped, ProviderMade
    <2> QED BY <1>1, <2>1, <2>2, TypedFalls
  <1>3. CASE Produced
    <2>1. Begins({}, {}) /\ path' = path /\ Top.n \in Names
      BY <1>1, <1>3, ProducedBegins, MadeFacts DEF Produced
    <2>2. made' \in [Names -> Nat]
      BY <1>1, <1>3, <2>1 DEF RestTyped, Produced
    <2>3. UNCHANGED <<booting, registry, throwing, decorated, handed, budget>>
      BY <1>3 DEF Produced
    <2>4. RestTyped'
      BY <1>1, <2>2, <2>3 DEF RestTyped
    <2> QED BY <1>1, <2>1, <2>4, TypedBegins
  <1>4. CASE Decorate
    <2>1. Begins({"user"}, {"decorator"}) /\ path' = path
      BY <1>1, <1>4, DecorateBegins DEF Decorate
    <2>2. RestTyped'
      BY <1>1, <1>4 DEF RestTyped, Decorate
    <2> QED BY <1>1, <2>1, <2>2, TypedBegins
  <1>5. CASE Resolved
    <2>1. Falls /\ Top.n \in Names /\ Top.inst \in Instances
      <3>1. stack # <<>> /\ Top.k = "get" /\ Top \in Frames /\ Shaped(Top)
        BY <1>1, <1>5, TopShaped, StackFacts DEF Resolved, At
      <3>2. Top.n \in Names /\ Top.i \in Nat
        BY <3>1 DEF Shaped, Frames
      <3>3. Len(chain[Top.n]) \in Nat
        BY <1>1, <3>2 DEF RestTyped
      <3>4. Top.i > 0
        BY <1>5, <3>2, <3>3 DEF Resolved
      <3> QED BY <1>5, <3>1, <3>4 DEF Resolved, Falls, Shaped
    <2>2. handed' \in [Names -> SUBSET Instances]
      BY <1>1, <1>5, <2>1, HandType DEF Resolved
    <2>3. path' \in Seq(Names)
      BY <1>1, <1>5, PathFacts DEF Resolved
    <2>4. /\ value' \in [Names -> Instances \cup {Null}]
          /\ chain' \in [Names -> Seq(Decorators)]
          /\ pending' \in [Names -> SUBSET {"factory", "provider"}]
      <3>1. <<>> \in Seq(Decorators)
        OBVIOUS
      <3>2. value' \in [Names -> Instances \cup {Null}]
        BY <1>1, <1>5, <2>1 DEF RestTyped, Resolved
      <3>3. chain' \in [Names -> Seq(Decorators)]
        BY <1>1, <1>5, <2>1, <3>1 DEF RestTyped, Resolved
      <3>4. pending' \in [Names -> SUBSET {"factory", "provider"}]
        BY <1>1, <1>5, <2>1 DEF RestTyped, Resolved
      <3> QED BY <3>2, <3>3, <3>4
    <2>5. RestTyped'
      BY <1>1, <1>5, <2>2, <2>4 DEF RestTyped, Resolved
    <2> QED BY <2>1, <2>3, <2>5, TypedFalls
  <1>6. CASE GetFails
    <2>1. Falls
      BY <1>6 DEF GetFails, Caught, Falls
    <2>2. path' \in Seq(Names) /\ RestTyped'
      BY <1>1, <1>6, PathFacts DEF GetFails, RestTyped
    <2> QED BY <2>1, <2>2, TypedFalls
  <1> QED BY <1>2, <1>3, <1>4, <1>5, <1>6 DEF Engine

\* Every variable has its type, and every frame the fields of what it is a call of.
THEOREM TypeCorrect == Spec => []Typed
  <1>1. Init => Typed
    BY InjectorAssumption, InitType DEF Typed
  <1>2. Typed /\ [Next]_vars => Typed'
    <2> SUFFICES ASSUME Typed, [Next]_vars PROVE Typed'
      OBVIOUS
    <2>1. CASE UNCHANGED vars
      <3>1. RestTyped' /\ stack' = stack /\ path' \in Seq(Names)
        BY <2>1 DEF Typed, TypeOK, RestTyped, vars, booting, registry, calls, history
      <3> QED BY <3>1, TypedStays
    <2> QED BY <2>1, InjectorAssumption, UserType, BootType, EngineType DEF Next
  <1> QED BY <1>1, <1>2, PTL DEF Spec

-----------------------------------------------------------------------------
(* The path of resolutions                                                  *)

\* The gets of another stack are those of this one.
GetsStay == Gets' = Gets /\ \A g \in Gets : stack'[g].n = stack[g].n

LEMMA BeginsGets ==
  ASSUME TypeOK, NEW kinds, NEW contexts, Begins(kinds, contexts), "get" \notin kinds
  PROVE  GetsStay
  <1>1. /\ Len(stack) \in Nat /\ DOMAIN stack = 1 .. Len(stack)
        /\ Len(stack') \in Nat /\ DOMAIN stack' = 1 .. Len(stack')
    BY StackFacts DEF Begins, Rises
  <1>2. Len(stack') >= Len(stack)
    BY DEF Begins, Rises
  <1>3. \A p \in 1 .. Len(stack) : stack'[p].k = stack[p].k /\ stack'[p].n = stack[p].n
    BY DEF Begins, Rises
  <1>4. \A p \in Len(stack) + 1 .. Len(stack') : stack'[p].k # "get"
    BY DEF Begins
  <1>5. \A p \in 1 .. Len(stack') : p \in 1 .. Len(stack) \/ p \in Len(stack) + 1 .. Len(stack')
    BY <1>1
  <1>6. \A p \in 1 .. Len(stack) : p \in 1 .. Len(stack')
    BY <1>1, <1>2
  <1>7. Gets' = {g \in DOMAIN stack' : stack'[g].k = "get"}
    BY DEF Gets
  <1>8. Gets = {g \in DOMAIN stack : stack[g].k = "get"}
    BY DEF Gets
  <1>9. Gets' = Gets
    BY <1>1, <1>3, <1>4, <1>5, <1>6, <1>7, <1>8
  <1> QED BY <1>1, <1>3, <1>8, <1>9 DEF GetsStay

\* What is left of a stack after a return.
LEMMA FallsKept ==
  ASSUME TypeOK, Falls
  PROVE  /\ Len(stack) \in Nat /\ Len(stack) > 0 /\ DOMAIN stack = 1 .. Len(stack)
         /\ DOMAIN stack' = 1 .. Len(stack) - 1 /\ Top = stack[Len(stack)]
         /\ \A p \in 1 .. Len(stack) - 1 : stack'[p] = stack[p]
         /\ \A p \in 1 .. Len(stack) : p \in 1 .. Len(stack) - 1 \/ p = Len(stack)
         /\ \A p \in 1 .. Len(stack) - 1 :
              p \in 1 .. Len(stack) /\ p # Len(stack) /\ p < Len(stack)
         /\ Len(stack) \in 1 .. Len(stack)
  <1>1. /\ Len(stack) \in Nat /\ Len(stack) > 0 /\ DOMAIN stack = 1 .. Len(stack)
    BY StackFacts DEF Falls
  <1>2. /\ stack' \in Seq(Frames) /\ Len(stack') = Len(stack) - 1
        /\ \A p \in 1 .. Len(stack) - 1 : stack'[p] = stack[p]
    BY PoppedFacts DEF Falls
  <1>3. DOMAIN stack' = 1 .. Len(stack) - 1
    BY <1>2
  <1>4. /\ \A p \in 1 .. Len(stack) : p \in 1 .. Len(stack) - 1 \/ p = Len(stack)
        /\ \A p \in 1 .. Len(stack) - 1 :
             p \in 1 .. Len(stack) /\ p # Len(stack) /\ p < Len(stack)
        /\ Len(stack) \in 1 .. Len(stack)
    <2>1. Len(stack) \in Nat /\ Len(stack) > 0
      BY <1>1
    <2> QED BY ONLY <2>1
  <1> QED BY <1>1, <1>2, <1>3, <1>4 DEF Top

LEMMA FallsGets ==
  ASSUME TypeOK, Falls
  PROVE  /\ Gets' = Gets \ {Len(stack)}
         /\ \A g \in Gets' : stack'[g].n = stack[g].n /\ stack'[g] = stack[g]
         /\ Len(stack) \in Gets <=> Top.k = "get"
         /\ Top.k # "get" => GetsStay
  <1>1. Gets' = {g \in DOMAIN stack' : stack'[g].k = "get"}
    BY DEF Gets
  <1>2. Gets = {g \in DOMAIN stack : stack[g].k = "get"}
    BY DEF Gets
  <1>3. Gets' = Gets \ {Len(stack)}
    BY <1>1, <1>2, FallsKept
  <1>4. \A g \in Gets' : stack'[g].n = stack[g].n /\ stack'[g] = stack[g]
    BY <1>1, FallsKept
  <1>5. Len(stack) \in DOMAIN stack /\ Top = stack[Len(stack)]
    BY StackFacts DEF Top, Falls
  <1>6. Len(stack) \in Gets <=> Top.k = "get"
    BY <1>2, <1>5
  <1> QED BY <1>3, <1>4, <1>6 DEF GetsStay

LEMMA PathStays ==
  ASSUME PathIsUnderConstruction, GetsStay, path' = path
  PROVE  PathIsUnderConstruction'
  <1>1. PICK call \in [DOMAIN path -> Gets] :
          /\ \A i \in DOMAIN path : stack[call[i]].n = path[i]
          /\ \A i, j \in DOMAIN path : i < j => call[i] < call[j]
          /\ \A g \in Gets : \E i \in DOMAIN path : call[i] = g
    BY DEF PathIsUnderConstruction
  <1>2. call \in [DOMAIN path' -> Gets']
    BY DEF GetsStay
  <1>3. \A i \in DOMAIN path' : stack'[call[i]].n = path'[i]
    BY <1>1 DEF GetsStay
  <1>4. /\ \A i, j \in DOMAIN path' : i < j => call[i] < call[j]
        /\ \A g \in Gets' : \E i \in DOMAIN path' : call[i] = g
    BY <1>1 DEF GetsStay
  <1>5. \A i, j \in DOMAIN path' : path'[i] = path'[j] => i = j
    BY DEF PathIsUnderConstruction
  <1> QED BY <1>2, <1>3, <1>4, <1>5 DEF PathIsUnderConstruction

\* A get begins: its name goes to the end of the path.
LEMMA PathGrows ==
  ASSUME InjectorAssumption, Typed, PathIsUnderConstruction, NEW n \in Names, GetResolves(n)
  PROVE  /\ PathIsUnderConstruction' /\ Gets' = Gets \cup {Len(stack) + 1}
         /\ stack'[Len(stack) + 1] = Opened(n)
         /\ \A g \in Gets : stack'[g] = stack[g] /\ stack'[g].n # n
  <1> DEFINE new == Len(stack) + 1
             last == Len(path) + 1
  <1>1. /\ Begins({"get", "user"}, {"factory"})
        /\ stack'[new] = Opened(n)
        /\ \A p \in 1 .. Len(stack) : stack'[p] = stack[p]
        /\ \A p \in new .. Len(stack') : stack'[p].k = "get" => p = new
        /\ Len(stack') > Len(stack)
    BY GetResolvesBegins DEF Typed
  <1>2. Opened(n).k = "get" /\ Opened(n).n = n
    BY OpenedFacts DEF Typed, GetResolves
  <1>3. /\ Len(stack) \in Nat /\ DOMAIN stack = 1 .. Len(stack)
        /\ Len(stack') \in Nat /\ DOMAIN stack' = 1 .. Len(stack')
    BY <1>1, StackFacts DEF Begins, Rises, Typed
  <1>4. /\ new \in 1 .. Len(stack')
        /\ \A p \in 1 .. Len(stack) : p \in 1 .. Len(stack') /\ p < new
        /\ \A p \in 1 .. Len(stack') : p \in 1 .. Len(stack) \/ p \in new .. Len(stack')
    <2>1. Len(stack) \in Nat /\ Len(stack') \in Nat /\ Len(stack') > Len(stack)
      BY <1>1, <1>3
    <2> QED BY ONLY <2>1
  <1>5. Gets' = {g \in 1 .. Len(stack') : stack'[g].k = "get"}
    BY <1>3 DEF Gets
  <1>6. Gets = {g \in 1 .. Len(stack) : stack[g].k = "get"}
    BY <1>3 DEF Gets
  <1> HIDE DEF new
  <1>7. Gets' = Gets \cup {new}
    BY <1>1, <1>2, <1>4, <1>5, <1>6
  <1>8. \A g \in Gets : stack'[g] = stack[g] /\ g < new
    BY <1>1, <1>4, <1>6
  <1>9. /\ path' = Append(path, n) /\ path \in Seq(Names)
        /\ \A i \in DOMAIN path : path[i] # n
    BY DEF GetResolves, Resolving, Typed, TypeOK
  <1>10. /\ Len(path) \in Nat /\ DOMAIN path = 1 .. Len(path)
         /\ DOMAIN path' = 1 .. last /\ path'[last] = n
         /\ \A i \in 1 .. Len(path) : path'[i] = path[i]
    BY <1>9
  <1>11. /\ \A i \in 1 .. last : i \in 1 .. Len(path) \/ i = last
         /\ \A i \in 1 .. Len(path) : i \in 1 .. last /\ i < last /\ ~(last < i) /\ i # last
         /\ last \in 1 .. last /\ ~(last < last)
    <2>1. Len(path) \in Nat
      BY <1>10
    <2> QED BY ONLY <2>1
  <1> HIDE DEF last
  <1>12. PICK call \in [DOMAIN path -> Gets] :
           /\ \A i \in DOMAIN path : stack[call[i]].n = path[i]
           /\ \A i, j \in DOMAIN path : i < j => call[i] < call[j]
           /\ \A g \in Gets : \E i \in DOMAIN path : call[i] = g
    BY DEF PathIsUnderConstruction
  <1> DEFINE further == [i \in 1 .. last |-> IF i = last THEN new ELSE call[i]]
  <1>13. /\ further[last] = new
         /\ \A i \in 1 .. Len(path) : further[i] = call[i] /\ call[i] \in Gets
    BY <1>10, <1>11, <1>12
  <1>14. further \in [DOMAIN path' -> Gets']
    BY <1>7, <1>10, <1>11, <1>12
  <1> HIDE DEF further
  <1>15. \A i \in DOMAIN path' : stack'[further[i]].n = path'[i]
    BY <1>1, <1>2, <1>8, <1>10, <1>11, <1>12, <1>13
  <1>16. \A i, j \in DOMAIN path' : i < j => further[i] < further[j]
    BY <1>8, <1>10, <1>11, <1>12, <1>13
  <1>17. \A g \in Gets' : \E i \in DOMAIN path' : further[i] = g
    BY <1>7, <1>10, <1>11, <1>12, <1>13
  <1>18. \A i, j \in DOMAIN path' : path'[i] = path'[j] => i = j
    BY <1>9, <1>10, <1>11 DEF PathIsUnderConstruction
  <1>19. PathIsUnderConstruction'
    BY <1>14, <1>15, <1>16, <1>17, <1>18 DEF PathIsUnderConstruction
  <1>20. \A g \in Gets : stack'[g].n # n
    BY <1>8, <1>9, <1>12
  <1> QED BY <1>1, <1>7, <1>8, <1>19, <1>20 DEF new

\* A get ends: the running one is the last of the path.
LEMMA PathShrinks ==
  ASSUME Typed, PathIsUnderConstruction, Falls, Top.k = "get",
         path' = SubSeq(path, 1, Len(path) - 1)
  PROVE  /\ PathIsUnderConstruction' /\ Gets' = Gets \ {Len(stack)}
         /\ Len(path) \in Nat /\ Len(path') = Len(path) - 1
         /\ Len(path) > 0 /\ path[Len(path)] = Top.n
         /\ \A g \in Gets' : stack'[g] = stack[g] /\ stack'[g].n # Top.n
  <1> DEFINE last == Len(path)
             top == Len(stack)
  <1>1. /\ Gets' = Gets \ {top} /\ top \in Gets /\ Top = stack[top]
        /\ \A g \in Gets' : stack'[g].n = stack[g].n /\ stack'[g] = stack[g]
    BY FallsGets, FallsKept DEF Typed
  <1>2. \A g \in Gets : g \in 1 .. top /\ top \in Nat
    BY FallsKept DEF Gets, Typed
  <1>3. PICK call \in [DOMAIN path -> Gets] :
          /\ \A i \in DOMAIN path : stack[call[i]].n = path[i]
          /\ \A i, j \in DOMAIN path : i < j => call[i] < call[j]
          /\ \A g \in Gets : \E i \in DOMAIN path : call[i] = g
    BY DEF PathIsUnderConstruction
  <1>23. path \in Seq(Names)
    BY DEF Typed, TypeOK
  <1>4. last \in Nat /\ DOMAIN path = 1 .. last
    BY <1>23
  <1> HIDE DEF last
  <1>5. PICK k \in 1 .. last : call[k] = top
    BY <1>1, <1>3, <1>4
  <1>6. last > 0 /\ last \in 1 .. last /\ (k # last => k < last)
    BY <1>4, <1>5
  <1>7. k = last
    <2> SUFFICES ASSUME k < last PROVE FALSE
      BY <1>6
    <2>1. call[k] < call[last] /\ call[last] \in Gets
      BY <1>3, <1>4, <1>5, <1>6
    <2>2. call[last] \in 1 .. top /\ top \in Nat
      BY <1>2, <2>1
    <2> HIDE DEF top
    <2> QED BY <1>5, <2>1, <2>2
  <1>8. path[last] = Top.n
    <2>1. last \in DOMAIN path /\ call[last] = top
      BY <1>4, <1>5, <1>7
    <2> QED BY <1>1, <1>3, <2>1
  <1>9. path # <<>> /\ path[last] \in Names
    BY <1>4, <1>6, <1>23
  <1>10. /\ path' \in Seq(Names) /\ Len(path') = last - 1
         /\ \A i \in 1 .. last - 1 : path'[i] = path[i]
    BY <1>9, <1>23, LastFacts DEF last
  <1>11. DOMAIN path' = 1 .. last - 1
    BY <1>10
  <1>12. /\ \A i \in 1 .. last - 1 : i \in 1 .. last /\ i < last /\ i # last
         /\ \A i \in 1 .. last : i \in 1 .. last - 1 \/ i = last
    BY ONLY <1>4, <1>6
  <1> HIDE DEF top
  <1>13. \A i \in 1 .. last - 1 : call[i] \in Gets'
    <2>1. \A i \in 1 .. last - 1 : call[i] \in Gets /\ call[i] < call[last]
      BY <1>3, <1>4, <1>6, <1>12
    <2>2. \A i \in 1 .. last - 1 : call[i] # top
      BY <1>2, <1>5, <1>7, <2>1
    <2> QED BY <1>1, <2>1, <2>2
  <1> DEFINE shorter == [i \in 1 .. last - 1 |-> call[i]]
  <1>14. shorter \in [DOMAIN path' -> Gets']
    BY <1>11, <1>13
  <1>15. \A i \in 1 .. last - 1 : shorter[i] = call[i]
    OBVIOUS
  <1> HIDE DEF shorter
  <1>16. \A i \in DOMAIN path' : stack'[shorter[i]].n = path'[i]
    <2> SUFFICES ASSUME NEW i \in 1 .. last - 1 PROVE stack'[shorter[i]].n = path'[i]
      BY <1>11
    <2>1. shorter[i] = call[i] /\ call[i] \in Gets' /\ i \in DOMAIN path
      BY <1>4, <1>12, <1>13, <1>15
    <2>2. stack'[call[i]].n = stack[call[i]].n
      BY <1>1, <2>1
    <2> QED BY <1>3, <1>10, <2>1, <2>2
  <1>17. \A i, j \in DOMAIN path' : i < j => shorter[i] < shorter[j]
    BY <1>3, <1>4, <1>11, <1>12, <1>15
  <1>18. \A g \in Gets' : \E i \in DOMAIN path' : shorter[i] = g
    <2> SUFFICES ASSUME NEW g \in Gets' PROVE \E i \in DOMAIN path' : shorter[i] = g
      OBVIOUS
    <2>1. g \in Gets /\ g # top
      BY <1>1
    <2>2. PICK i \in 1 .. last : call[i] = g
      BY <1>3, <1>4, <2>1
    <2>3. i # last
      BY <1>5, <1>7, <2>1, <2>2
    <2>4. i \in 1 .. last - 1
      BY <1>12, <2>3
    <2> QED BY <1>11, <1>15, <2>2, <2>4
  <1>19. \A i, j \in DOMAIN path : path[i] = path[j] => i = j
    BY DEF PathIsUnderConstruction
  <1>20. \A i, j \in DOMAIN path' : path'[i] = path'[j] => i = j
    BY <1>4, <1>10, <1>11, <1>12, <1>19
  <1>21. PathIsUnderConstruction'
    BY <1>14, <1>16, <1>17, <1>18, <1>20 DEF PathIsUnderConstruction
  <1>22. \A g \in Gets' : stack[g].n # Top.n
    <2> SUFFICES ASSUME NEW g \in Gets', stack[g].n = Top.n PROVE FALSE
      OBVIOUS
    <2>1. PICK i \in 1 .. last : call[i] = g
      BY <1>1, <1>3, <1>4
    <2>2. path[i] = path[last]
      BY <1>3, <1>4, <1>8, <2>1
    <2>3. i = last
      BY <1>4, <1>6, <1>19, <2>1, <2>2
    <2> QED BY <1>1, <1>5, <1>7, <2>1, <2>3
  <1> QED BY <1>1, <1>4, <1>6, <1>8, <1>10, <1>21, <1>22 DEF last, top

-----------------------------------------------------------------------------
(* The loading of modules                                                   *)

\* The calls of loadModule of another stack are those of this one.
LoadsStay ==
  /\ \A p \in DOMAIN stack' :
       stack'[p].k = "load" => /\ p \in DOMAIN stack /\ stack[p].k = "load"
                               /\ stack'[p].m = stack[p].m /\ stack'[p].i = stack[p].i
  /\ \A p \in DOMAIN stack :
       stack[p].k = "load" => /\ p \in DOMAIN stack' /\ stack'[p].k = "load"
                              /\ stack'[p].m = stack[p].m

LEMMA BeginsLoads ==
  ASSUME TypeOK, NEW kinds, NEW contexts, Begins(kinds, contexts), "load" \notin kinds,
         IsLoad(Len(stack)) => stack'[Len(stack)].i = stack[Len(stack)].i
  PROVE  /\ LoadsStay
         /\ phase = "run" /\ kinds \subseteq {"user", "get"} /\ PhaseAgrees =>
              \A p \in DOMAIN stack' : stack'[p].k \in {"user", "get"}
  <1>1. /\ Len(stack) \in Nat /\ DOMAIN stack = 1 .. Len(stack)
        /\ Len(stack') \in Nat /\ DOMAIN stack' = 1 .. Len(stack')
        /\ Len(stack') >= Len(stack)
    BY StackFacts DEF Begins, Rises
  <1>2. /\ \A p \in 1 .. Len(stack) : p \in 1 .. Len(stack')
        /\ \A p \in 1 .. Len(stack') : p \in 1 .. Len(stack) \/ p \in Len(stack) + 1 .. Len(stack')
        /\ \A p \in 1 .. Len(stack) : p \in 1 .. Len(stack) - 1 \/ p = Len(stack)
    <2>1. Len(stack) \in Nat /\ Len(stack') \in Nat /\ Len(stack') >= Len(stack)
      BY <1>1
    <2> QED BY ONLY <2>1
  <1>3. /\ \A p \in 1 .. Len(stack) : stack'[p].k = stack[p].k /\ stack'[p].m = stack[p].m
        /\ \A p \in 1 .. Len(stack) - 1 : stack'[p] = stack[p]
    BY DEF Begins, Rises
  <1>4. \A p \in Len(stack) + 1 .. Len(stack') : stack'[p].k # "load"
    BY DEF Begins
  <1>5. ASSUME NEW p \in DOMAIN stack', stack'[p].k = "load"
        PROVE  /\ p \in DOMAIN stack /\ stack[p].k = "load"
               /\ stack'[p].m = stack[p].m /\ stack'[p].i = stack[p].i
    <2>1. p \in 1 .. Len(stack)
      BY <1>1, <1>2, <1>4, <1>5
    <2>2. stack[p].k = "load" /\ stack'[p].m = stack[p].m
      BY <1>3, <1>5, <2>1
    <2>3. CASE p \in 1 .. Len(stack) - 1
      BY <1>1, <1>3, <2>1, <2>2, <2>3
    <2>4. CASE p = Len(stack)
      BY <1>1, <2>1, <2>2, <2>4 DEF IsLoad
    <2> QED BY <1>2, <2>1, <2>3, <2>4
  <1>6. ASSUME NEW p \in DOMAIN stack, stack[p].k = "load"
        PROVE  p \in DOMAIN stack' /\ stack'[p].k = "load" /\ stack'[p].m = stack[p].m
    BY <1>1, <1>2, <1>3, <1>6
  <1>7. ASSUME phase = "run", kinds \subseteq {"user", "get"}, PhaseAgrees, NEW p \in DOMAIN stack'
        PROVE  stack'[p].k \in {"user", "get"}
    <2>1. CASE p \in 1 .. Len(stack)
      BY <1>1, <1>3, <1>7, <2>1 DEF PhaseAgrees
    <2>2. CASE p \in Len(stack) + 1 .. Len(stack')
      BY <1>7, <2>2 DEF Begins
    <2> QED BY <1>1, <1>2, <2>1, <2>2
  <1> QED BY <1>5, <1>6, <1>7 DEF LoadsStay

\* No module begins or ends to load.
LEMMA LoadsKept ==
  ASSUME TypeOK, LoadInv, LoadsStay, UNCHANGED booting,
         stack' \in Seq(Frames), Lost => Lost',
         phase = "run" => \A p \in DOMAIN stack' : stack'[p].k \in {"user", "get"}
  PROVE  LoadInv'
  <1> USE DEF booting
  <1>1. PhaseAgrees'
    BY DEF LoadInv, PhaseAgrees
  <1>2. LoadsFirst'
    <2> SUFFICES ASSUME NEW q \in DOMAIN stack', stack'[q].k = "load",
                        NEW p \in DOMAIN stack', p < q
                 PROVE  boot = "load" /\ stack'[p].k = "load"
      <3>1. ASSUME NEW q \in DOMAIN stack', stack'[q].k = "load"
            PROVE  boot = "load"
        BY <3>1 DEF LoadsStay, LoadInv, LoadsFirst
      <3> QED BY <3>1 DEF LoadsFirst
    <2>1. q \in DOMAIN stack /\ stack[q].k = "load"
      BY DEF LoadsStay
    <2>2. p \in DOMAIN stack
      <3>1. /\ Len(stack) \in Nat /\ DOMAIN stack = 1 .. Len(stack)
            /\ Len(stack') \in Nat /\ DOMAIN stack' = 1 .. Len(stack')
        BY StackFacts
      <3>2. p \in 1 .. Len(stack') /\ q \in 1 .. Len(stack)
        BY <2>1, <3>1
      <3>3. p \in 1 .. Len(stack)
        BY <3>1, <3>2
      <3> QED BY <3>1, <3>3
    <2>3. boot = "load" /\ stack[p].k = "load"
      BY <2>1, <2>2 DEF LoadInv, LoadsFirst
    <2> QED BY <2>2, <2>3 DEF LoadsStay
  <1>3. BeingLoaded' = BeingLoaded
    BY DEF BeingLoaded, LoadsStay
  <1>4. Drained' = Drained
    BY DEF Drained
  <1>5. LoadsApart'
    <2>1. Drained' \subseteq loaded' /\ BeingLoaded' \subseteq loaded' \ Drained'
      BY <1>3, <1>4 DEF LoadInv, LoadsApart
    <2>2. ASSUME NEW p \in DOMAIN stack', NEW q \in DOMAIN stack',
                 stack'[p].k = "load", stack'[q].k = "load", stack'[p].m = stack'[q].m
          PROVE  p = q
      BY <2>2 DEF LoadsStay, LoadInv, LoadsApart, IsLoad
    <2> QED BY <2>1, <2>2 DEF LoadsApart, IsLoad
  <1>6. LoadsAccounted'
    <2>1. boot' = "load" /\ ~Lost' => loaded' \subseteq Drained' \cup BeingLoaded'
      BY <1>3, <1>4 DEF LoadInv, LoadsAccounted
    <2>2. ASSUME NEW p \in DOMAIN stack', stack'[p].k = "load",
                 NEW j \in DOMAIN requires[stack'[p].m], j < stack'[p].i
          PROVE  requires[stack'[p].m][j] \in loaded
      <3>1. /\ p \in DOMAIN stack /\ stack[p].k = "load" /\ stack'[p].m = stack[p].m
            /\ stack'[p].i = stack[p].i
        BY <2>2 DEF LoadsStay
      <3> QED BY <2>2, <3>1 DEF LoadInv, LoadsAccounted, IsLoad
    <2> QED BY <2>1, <2>2 DEF LoadsAccounted, IsLoad
  <1> QED BY <1>1, <1>2, <1>5, <1>6 DEF LoadInv

LEMMA FallsLoads ==
  ASSUME TypeOK, Falls, Top.k # "load"
  PROVE  /\ LoadsStay
         /\ phase = "run" /\ PhaseAgrees =>
              \A p \in DOMAIN stack' : stack'[p].k \in {"user", "get"}
  <1>1. ASSUME NEW p \in DOMAIN stack, stack[p].k = "load"
        PROVE  p \in DOMAIN stack' /\ stack'[p] = stack[p]
    BY <1>1, FallsKept
  <1>2. ASSUME NEW p \in DOMAIN stack'
        PROVE  p \in DOMAIN stack /\ stack'[p] = stack[p]
    BY <1>2, FallsKept
  <1> QED BY <1>1, <1>2 DEF LoadsStay, PhaseAgrees

\* A call of loadModule lets an exception through.
LEMMA LoadsUnwind ==
  ASSUME Typed, LoadInv, Falls, Top.k = "load", throwing, UNCHANGED <<booting, throwing>>
  PROVE  LoadInv'
  <1> USE DEF booting
  <1>1. /\ \A p \in DOMAIN stack' : p \in DOMAIN stack /\ stack'[p] = stack[p]
        /\ \A p \in DOMAIN stack : stack[p].k = "load"
        /\ boot = "load"
    <2>1. \A p \in DOMAIN stack' : p \in DOMAIN stack /\ stack'[p] = stack[p]
      BY FallsKept DEF Typed
    <2>2. /\ Len(stack) \in DOMAIN stack /\ stack[Len(stack)].k = "load"
          /\ \A p \in DOMAIN stack : p < Len(stack) \/ p = Len(stack)
      <3>1. /\ DOMAIN stack = 1 .. Len(stack) /\ Top = stack[Len(stack)]
            /\ Len(stack) \in 1 .. Len(stack)
            /\ \A p \in 1 .. Len(stack) : p \in 1 .. Len(stack) - 1 \/ p = Len(stack)
            /\ \A p \in 1 .. Len(stack) - 1 : p < Len(stack)
        BY FallsKept DEF Typed
      <3> QED BY <3>1
    <2> QED BY <2>1, <2>2 DEF LoadInv, LoadsFirst
  <1>2. PhaseAgrees' /\ LoadsFirst'
    BY <1>1 DEF LoadInv, PhaseAgrees, LoadsFirst
  <1>3. BeingLoaded' \subseteq BeingLoaded /\ Drained' = Drained
    BY <1>1 DEF BeingLoaded, Drained
  <1>4. LoadsApart'
    <2>1. Drained' \subseteq loaded' /\ BeingLoaded' \subseteq loaded' \ Drained'
      BY <1>3 DEF LoadInv, LoadsApart
    <2>2. ASSUME NEW p \in DOMAIN stack', NEW q \in DOMAIN stack', stack'[p].m = stack'[q].m
          PROVE  p = q
      BY <1>1, <2>2 DEF LoadInv, LoadsApart, IsLoad
    <2> QED BY <2>1, <2>2 DEF LoadsApart, IsLoad
  <1>5. LoadsAccounted'
    <2>1. Lost'
      BY <1>1 DEF Lost
    <2>2. ASSUME NEW p \in DOMAIN stack',
                 NEW j \in DOMAIN requires[stack'[p].m], j < stack'[p].i
          PROVE  requires[stack'[p].m][j] \in loaded
      BY <1>1, <2>2 DEF LoadInv, LoadsAccounted, IsLoad
    <2> QED BY <2>1, <2>2 DEF LoadsAccounted, IsLoad
  <1> QED BY <1>2, <1>4, <1>5 DEF LoadInv

\* With nothing being loaded.
LEMMA LoadsOver ==
  ASSUME LoadInv, \A p \in DOMAIN stack' : stack'[p].k # "load",
         loaded' = loaded, drained' = drained, boot' # "load", PhaseAgrees'
  PROVE  LoadInv'
  <1>1. BeingLoaded' = {} /\ Drained' = Drained
    BY DEF BeingLoaded, Drained
  <1> QED BY <1>1 DEF LoadInv, LoadsFirst, LoadsApart, LoadsAccounted, IsLoad

\* The queue of a module is empty, and its blocks are collected.
LEMMA LoadsCollect ==
  ASSUME Typed, LoadInv, CollectBlocks
  PROVE  /\ LoadInv'
         /\ Drained' = Drained \cup {Top.m} /\ Top.m \notin Drained
         /\ drained'[Len(drained')] = Top.m
         /\ \A j \in DOMAIN requires[Top.m] : requires[Top.m][j] \in Drained \cup BeingLoaded
  <1> DEFINE top == Len(stack)
  <1>1. /\ Falls /\ Top.k = "load" /\ throwing' = throwing /\ ~throwing
        /\ UNCHANGED <<requires, boot, loaded, phase>>
        /\ drained' = Append(drained, Top.m) /\ Top.i > Len(Required)
    BY DEF CollectBlocks, Loading, At, Falls
  <1>2. /\ top \in Nat /\ DOMAIN stack = 1 .. top /\ top \in DOMAIN stack
        /\ DOMAIN stack' = 1 .. top - 1 /\ stack[top] = Top
        /\ \A p \in 1 .. top - 1 : stack'[p] = stack[p] /\ p \in 1 .. top /\ p # top /\ p < top
        /\ \A p \in 1 .. top : p \in 1 .. top - 1 \/ p = top
    BY <1>1, FallsKept DEF Typed
  <1> HIDE DEF top
  <1>3. Drained' = Drained \cup {Top.m} /\ drained'[Len(drained')] = Top.m
    <2>1. drained \in Seq(Modules) /\ Top.m \in Modules
      BY <1>1, NextRequiredFacts DEF Typed, TypeOK, CollectBlocks
    <2>2. Those(drained') = Those(drained) \cup {Top.m} /\ drained'[Len(drained')] = Top.m
      BY <1>1, <2>1, AppendFacts
    <2> QED BY <2>2 DEF Drained, Those
  <1>4. \A p \in DOMAIN stack : stack[p].k = "load"
    BY <1>1, <1>2 DEF LoadInv, LoadsFirst
  <1>5. boot = "load" /\ ~Lost
    BY <1>1, <1>2 DEF LoadInv, LoadsFirst, Lost
  <1>6. BeingLoaded = BeingLoaded' \cup {Top.m} /\ Top.m \notin BeingLoaded'
    <2>1. BeingLoaded = {stack[p].m : p \in 1 .. top}
      BY <1>2, <1>4 DEF BeingLoaded
    <2>2. BeingLoaded' = {stack[p].m : p \in 1 .. top - 1}
      BY <1>2, <1>4 DEF BeingLoaded
    <2>3. ASSUME NEW p \in 1 .. top - 1, stack[p].m = Top.m PROVE FALSE
      BY <1>2, <1>4, <2>3 DEF LoadInv, LoadsApart, IsLoad
    <2>4. top \in 1 .. top
      BY <1>2
    <2> QED BY <1>2, <2>1, <2>2, <2>3, <2>4
  <1>7. Top.m \in loaded /\ Top.m \notin Drained
    BY <1>6 DEF LoadInv, LoadsApart
  <1>8. loaded \subseteq Drained \cup BeingLoaded
    BY <1>5 DEF LoadInv, LoadsAccounted
  <1>9. PhaseAgrees' /\ LoadsFirst'
    BY <1>1, <1>2 DEF LoadInv, PhaseAgrees, LoadsFirst
  <1>10. LoadsApart'
    <2>1. Drained' \subseteq loaded' /\ BeingLoaded' \subseteq loaded' \ Drained'
      BY <1>1, <1>3, <1>6, <1>7 DEF LoadInv, LoadsApart
    <2>2. ASSUME NEW p \in DOMAIN stack', NEW q \in DOMAIN stack', stack'[p].m = stack'[q].m
          PROVE  p = q
      BY <1>2, <1>4, <2>2 DEF LoadInv, LoadsApart, IsLoad
    <2> QED BY <2>1, <2>2 DEF LoadsApart, IsLoad
  <1>11. LoadsAccounted'
    <2>1. loaded' \subseteq Drained' \cup BeingLoaded'
      BY <1>1, <1>3, <1>6, <1>8
    <2>2. ASSUME NEW p \in DOMAIN stack',
                 NEW j \in DOMAIN requires[stack'[p].m], j < stack'[p].i
          PROVE  requires[stack'[p].m][j] \in loaded
      BY <1>2, <1>4, <2>2 DEF LoadInv, LoadsAccounted, IsLoad
    <2> QED BY <1>1, <2>1, <2>2 DEF LoadsAccounted, IsLoad
  <1>12. \A j \in DOMAIN requires[Top.m] : requires[Top.m][j] \in loaded
    <2>1. \A j \in DOMAIN requires[Top.m] : j < Top.i
      <3>1. requires[Top.m] \in Seq(Modules \cup {Null}) /\ Top.i \in Nat
        BY InjectorAssumption, NextRequiredFacts
           DEF Typed, TypeOK, CollectBlocks, InjectorAssumption
      <3>2. Top.i > Len(requires[Top.m])
        BY <1>1 DEF Required
      <3> QED BY <3>1, <3>2
    <2> QED BY <1>2, <1>4, <2>1 DEF LoadInv, LoadsAccounted, IsLoad
  <1> QED BY <1>3, <1>7, <1>8, <1>9, <1>10, <1>11, <1>12 DEF LoadInv

\* A call of loadModule finds that the module is loaded, or begins to load it.
LEMMA LoadsEnter ==
  ASSUME Typed, LoadInv, NEW m \in Modules, NEW base \in Seq(Frames),
         Len(base) = Len(stack), Enter(m, base),
         boot = "load", ~throwing, UNCHANGED <<requires, boot, drained, phase, throwing>>,
         \A p \in 1 .. Len(stack) :
           /\ stack[p].k = "load" /\ base[p].k = "load" /\ base[p].m = stack[p].m
           /\ \A j \in DOMAIN requires[base[p].m] :
                j < base[p].i => requires[base[p].m][j] \in loaded \cup {m}
  PROVE  LoadInv'
  <1> DEFINE top == Len(stack)
  <1>1. top \in Nat /\ DOMAIN stack = 1 .. top /\ DOMAIN base = 1 .. top
    BY StackFacts DEF Typed
  <1>2. /\ LoadFrame(m) \in Frames /\ LoadFrame(m).k = "load" /\ LoadFrame(m).m = m
        /\ LoadFrame(m).i = 1
    BY InjectorAssumption, FrameTypes, FrameShapes
  <1> HIDE DEF LoadFrame
  <1>3. phase = "config"
    BY DEF LoadInv, PhaseAgrees
  <1>4. BeingLoaded = {stack[p].m : p \in 1 .. top}
    BY <1>1 DEF BeingLoaded
  <1>5. loaded \subseteq Drained \cup BeingLoaded
    <2>1. ~Lost
      BY DEF Lost
    <2> QED BY <2>1 DEF LoadInv, LoadsAccounted
  <1>6. Drained' = Drained /\ Drained \subseteq loaded /\ BeingLoaded \subseteq loaded \ Drained
    BY DEF Drained, LoadInv, LoadsApart
  <1>7. \A p, q \in 1 .. top : stack[p].m = stack[q].m => p = q
    BY <1>1 DEF LoadInv, LoadsApart, IsLoad
  <1>8. CASE m \in loaded
    <2>1. stack' = base /\ loaded' = loaded
      BY <1>8 DEF Enter
    <2> HIDE DEF top
    <2>2. DOMAIN stack' = 1 .. top /\ \A p \in 1 .. top : stack'[p].k = "load" /\ stack'[p].m = stack[p].m
      BY <1>1, <2>1 DEF top
    <2>3. BeingLoaded' = BeingLoaded
      <3>1. BeingLoaded' = {stack'[p].m : p \in 1 .. top}
        BY <2>2 DEF BeingLoaded
      <3> QED BY <1>4, <2>2, <3>1
    <2>4. PhaseAgrees' /\ LoadsFirst'
      BY <1>3, <2>2 DEF LoadInv, PhaseAgrees, LoadsFirst
    <2>5. LoadsApart'
      BY <1>6, <1>7, <2>1, <2>2, <2>3 DEF LoadsApart, IsLoad
    <2>6. \A p \in 1 .. top : \A j \in DOMAIN requires[stack'[p].m] :
             j < stack'[p].i => requires[stack'[p].m][j] \in loaded
      BY <1>8, <2>1 DEF top
    <2>7. LoadsAccounted'
      BY <1>5, <1>6, <2>1, <2>2, <2>3, <2>6 DEF LoadsAccounted, IsLoad
    <2> QED BY <2>4, <2>5, <2>7 DEF LoadInv
  <1>9. CASE m \notin loaded
    <2>1. stack' = Append(base, LoadFrame(m)) /\ loaded' = loaded \cup {m}
      BY <1>9 DEF Enter
    <2>2. /\ DOMAIN stack' = 1 .. top + 1 /\ stack'[top + 1] = LoadFrame(m)
          /\ \A p \in 1 .. top : stack'[p] = base[p]
      BY <1>1, <1>2, <2>1, AppendFacts
    <2>3. /\ \A p \in 1 .. top + 1 : p \in 1 .. top \/ p = top + 1
          /\ \A p \in 1 .. top : p \in 1 .. top + 1
          /\ top + 1 \in 1 .. top + 1
      <3>1. top \in Nat
        BY <1>1
      <3> QED BY ONLY <3>1
    <2>4. /\ \A p \in 1 .. top + 1 : stack'[p].k = "load"
          /\ \A p \in 1 .. top : stack'[p].m = stack[p].m
          /\ stack'[top + 1].m = m /\ stack'[top + 1].i = 1
      BY <1>2, <2>2, <2>3
    <2> HIDE DEF top
    <2>5. BeingLoaded' = BeingLoaded \cup {m}
      <3>1. BeingLoaded' = {stack'[p].m : p \in 1 .. top + 1}
        BY <2>2, <2>4 DEF BeingLoaded
      <3> QED BY <1>4, <2>3, <2>4, <3>1
    <2>6. PhaseAgrees' /\ LoadsFirst'
      BY <1>3, <2>2, <2>4 DEF LoadInv, PhaseAgrees, LoadsFirst
    <2>7. LoadsApart'
      <3>1. Drained' \subseteq loaded' /\ BeingLoaded' \subseteq loaded' \ Drained'
        BY <1>6, <1>9, <2>1, <2>5
      <3>2. \A p \in 1 .. top : stack[p].m # m
        BY <1>4, <1>6, <1>9
      <3>3. ASSUME NEW p \in 1 .. top + 1, NEW q \in 1 .. top + 1, stack'[p].m = stack'[q].m
            PROVE  p = q
        BY <1>7, <2>3, <2>4, <3>2, <3>3
      <3> QED BY <2>2, <3>1, <3>3 DEF LoadsApart, IsLoad
    <2>8. LoadsAccounted'
      <3>1. loaded' \subseteq Drained' \cup BeingLoaded'
        BY <1>5, <1>6, <2>1, <2>5
      <3>2. ASSUME NEW p \in 1 .. top + 1, NEW j \in DOMAIN requires[stack'[p].m],
                   j < stack'[p].i
            PROVE  requires[stack'[p].m][j] \in loaded'
        <4>1. CASE p \in 1 .. top
          BY <2>1, <2>2, <3>2, <4>1 DEF top
        <4>2. CASE p = top + 1
          <5>1. requires[m] \in Seq(Modules \cup {Null}) /\ j \in DOMAIN requires[m] /\ j < 1
            BY InjectorAssumption, <2>4, <3>2, <4>2 DEF Typed, TypeOK, InjectorAssumption
          <5> QED BY <5>1
        <4> QED BY <2>3, <4>1, <4>2
      <3> QED BY <2>2, <3>1, <3>2 DEF LoadsAccounted, IsLoad
    <2> QED BY <2>6, <2>7, <2>8 DEF LoadInv
  <1> QED BY <1>8, <1>9

LEMMA LoadEntryLoads ==
  ASSUME Typed, LoadInv, LoadEntry
  PROVE  LoadInv'
  <1>1. /\ stack = <<>> /\ ~throwing /\ boot = "load"
        /\ UNCHANGED <<requires, boot, drained, phase, throwing>>
    BY DEF LoadEntry, Idle
  <1>2. Entry[block] \in Modules /\ Enter(Entry[block], stack)
    BY InjectorAssumption, LoadEntryBegins DEF Typed
  <1>3. stack \in Seq(Frames) /\ Len(stack) = 0
    BY <1>1
  <1>4. \A p \in 1 .. Len(stack) : FALSE
    BY <1>3
  <1> QED BY <1>1, <1>2, <1>3, <1>4, LoadsEnter

LEMMA LoadRequiredLoads ==
  ASSUME Typed, LoadInv, LoadRequired
  PROVE  LoadInv'
  <1> DEFINE top == Len(stack)
             m == Required[Top.i]
             base == With(NextRequired)
  <1>1. /\ Loading /\ stack # <<>> /\ ~throwing /\ Top.k = "load"
        /\ UNCHANGED <<requires, boot, drained, phase, throwing>>
    BY DEF LoadRequired, Loading, At
  <1>2. m \in Modules /\ Enter(m, base) /\ Top.i \in Nat \ {0}
    BY InjectorAssumption, LoadRequiredBegins DEF Typed
  <1>3. Furthers(NextRequired) /\ NextRequired.i = Top.i + 1
    BY <1>1, NextRequiredFacts DEF Typed
  <1>4. /\ Rises(base) /\ Len(base) = top /\ base[top] = NextRequired
        /\ \A p \in 1 .. top - 1 : base[p] = stack[p]
    BY <1>1, <1>3, Continued DEF Typed
  <1>5. /\ base \in Seq(Frames)
        /\ \A p \in 1 .. top : base[p].k = stack[p].k /\ base[p].m = stack[p].m
    BY <1>4 DEF Rises
  <1>6. /\ DOMAIN stack = 1 .. top /\ top \in Nat /\ top > 0 /\ top \in DOMAIN stack
        /\ stack[top] = Top
    BY <1>1, StackFacts DEF Typed, Top
  <1>7. \A p \in 1 .. top : (p \in 1 .. top - 1 \/ p = top) /\ (p < top \/ p = top)
    <2>1. top \in Nat
      BY <1>6
    <2> HIDE DEF top
    <2> QED BY ONLY <2>1
  <1> HIDE DEF top, base
  <1>8. boot = "load" /\ \A p \in 1 .. top : stack[p].k = "load"
    BY <1>1, <1>6, <1>7 DEF LoadInv, LoadsFirst
  <1>9. ASSUME NEW p \in 1 .. top, NEW j \in DOMAIN requires[base[p].m], j < base[p].i
        PROVE  requires[base[p].m][j] \in loaded \cup {m}
    <2>1. \A k \in DOMAIN requires[stack[p].m] :
            k < stack[p].i => requires[stack[p].m][k] \in loaded
      BY <1>6, <1>8 DEF LoadInv, LoadsAccounted, IsLoad
    <2>2. base[p].m = stack[p].m
      BY <1>5
    <2>3. CASE p \in 1 .. top - 1
      BY <1>4, <1>9, <2>1, <2>2, <2>3
    <2>4. CASE p = top
      <3>1. j < Top.i + 1 /\ stack[p] = Top /\ base[p].m = Top.m
        BY <1>3, <1>4, <1>6, <1>9, <2>2, <2>4
      <3>2. j \in Nat /\ Top.i \in Nat
        <4>1. Top.m \in Modules
          BY <1>1, NextRequiredFacts DEF Typed
        <4>2. requires[Top.m] \in Seq(Modules \cup {Null})
          BY <4>1, InjectorAssumption DEF Typed, TypeOK, InjectorAssumption
        <4> QED BY <1>2, <1>9, <3>1, <4>2
      <3>3. j < Top.i \/ j = Top.i
        BY <3>1, <3>2
      <3>4. CASE j < Top.i
        BY <1>9, <2>1, <2>2, <3>1, <3>4
      <3>5. CASE j = Top.i
        BY <3>1, <3>5 DEF Required
      <3> QED BY <3>3, <3>4, <3>5
    <2> QED BY <1>7, <2>3, <2>4
  <1> HIDE DEF m
  <1> QED BY <1>1, <1>2, <1>4, <1>5, <1>8, <1>9, LoadsEnter DEF top

LEMMA NotLost ==
  ASSUME TypeOK, throwing => stack # <<>> /\ Top.k # "load"
  PROVE  ~Lost
  <1> SUFFICES ASSUME throwing, \A p \in DOMAIN stack : stack[p].k = "load" PROVE FALSE
    BY DEF Lost
  <1>1. Len(stack) \in DOMAIN stack /\ Top = stack[Len(stack)] /\ Top.k # "load"
    BY StackFacts DEF Top
  <1> QED BY <1>1

LEMMA LoadsSame ==
  ASSUME Typed, LoadInv, stack' = stack, UNCHANGED booting,
         throwing => stack # <<>> /\ Top.k # "load"
  PROVE  LoadInv'
  <1>1. ~Lost /\ stack' \in Seq(Frames)
    BY NotLost DEF Typed, TypeOK
  <1>2. LoadsStay
    BY DEF LoadsStay
  <1>3. phase = "run" => \A p \in DOMAIN stack' : stack'[p].k \in {"user", "get"}
    BY DEF LoadInv, PhaseAgrees
  <1> QED BY <1>1, <1>2, <1>3, LoadsKept DEF Typed

LEMMA LoadsFall ==
  ASSUME Typed, LoadInv, Falls, Top.k # "load", UNCHANGED booting
  PROVE  LoadInv'
  <1>1. ~Lost /\ stack' \in Seq(Frames)
    BY NotLost, FallsShaped DEF Typed, Falls
  <1> QED BY <1>1, FallsLoads, LoadsKept DEF Typed, LoadInv

LEMMA LoadsBegin ==
  ASSUME Typed, LoadInv, NEW kinds, NEW contexts, Begins(kinds, contexts), "load" \notin kinds,
         IsLoad(Len(stack)) => stack'[Len(stack)].i = stack[Len(stack)].i,
         UNCHANGED booting, ~throwing, phase = "run" => kinds \subseteq {"user", "get"}
  PROVE  LoadInv'
  <1>1. ~Lost /\ stack' \in Seq(Frames)
    BY BeginsShaped DEF Typed, Lost
  <1>2. /\ LoadsStay
        /\ phase = "run" => \A p \in DOMAIN stack' : stack'[p].k \in {"user", "get"}
    BY BeginsLoads DEF Typed, LoadInv
  <1> QED BY <1>1, <1>2, LoadsKept DEF Typed

\* A registration: of a value, or of a provider whose constructor is called.
LEMMA RegisterLoads ==
  ASSUME InjectorAssumption, Typed, LoadInv, NEW recipe \in Recipes, NEW n \in Names,
         NEW d \in Decorators, Provide(recipe, n, d) \/ DrainRecord(recipe, n, d)
  PROVE  LoadInv' /\ (phase = "run" => Refuse)
  <1>1. Registering(recipe, n, d) /\ UNCHANGED booting
    BY DEF Provide, DrainRecord, Registering
  <1>2. ~throwing /\ stack # <<>>
    BY DEF Provide, DrainRecord, May, InUser, At, Loading
  <1>3. phase = "run" => Refuse
    <2>1. CASE Provide(recipe, n, d)
      BY <2>1 DEF Provide
    <2>2. CASE DrainRecord(recipe, n, d)
      <3>1. Top.k = "load" /\ Len(stack) \in DOMAIN stack /\ Top = stack[Len(stack)]
        BY <1>2, <2>2, StackFacts DEF DrainRecord, Loading, At, Top, Typed
      <3> QED BY <3>1 DEF LoadInv, PhaseAgrees
    <2> QED BY <2>1, <2>2
  <1>4. CASE stack' = stack
    <2>1. UNCHANGED booting /\ (throwing => stack # <<>> /\ Top.k # "load")
      BY <1>1, <1>2
    <2> QED BY <1>3, <1>4, <2>1, LoadsSame
  <1>5. CASE Constructs(n) /\ stack' # stack
    <2>1. phase # "run"
      BY <1>3, <1>5 DEF Refuse
    <2>2. Begins({"register", "user"}, {"ctor"})
      BY <1>1, RegisterBegins DEF Typed
    <2>3. \A p \in 1 .. Len(stack) : stack'[p] = stack[p]
      <3>1. RegisterFrame(n) \in Frames /\ UserFrame("ctor") \in Frames
        BY FrameTypes DEF Contexts
      <3> QED BY <1>5, <3>1, PushedTwo DEF Constructs, Typed
    <2>4. IsLoad(Len(stack)) => stack'[Len(stack)].i = stack[Len(stack)].i
      BY <2>3, StackFacts DEF IsLoad, Typed
    <2> QED BY <1>1, <1>2, <1>3, <2>1, <2>2, <2>4, LoadsBegin
  <1> QED BY <1>1, <1>3, <1>4, <1>5, RegisterStack

LEMMA UserLoads ==
  ASSUME InjectorAssumption, Typed, LoadInv, UserOp
  PROVE  LoadInv'
  <1>1. ASSUME NEW n \in Names, ProviderGetFails(n) \/ GetCached(n) \/ GetThrows(n)
        PROVE  LoadInv'
    <2>1. stack' = stack /\ UNCHANGED booting /\ ~throwing
      BY <1>1 DEF ProviderGetFails, GetCached, GetThrows, May, InUser, At, calls
    <2> QED BY <2>1, LoadsSame
  <1>2. ASSUME NEW n \in Names, GetResolves(n) PROVE LoadInv'
    <2>1. /\ Begins({"get", "user"}, {"factory"})
          /\ \A p \in 1 .. Len(stack) : stack'[p] = stack[p]
      BY <1>2, GetResolvesBegins DEF Typed
    <2>2. IsLoad(Len(stack)) => stack'[Len(stack)].i = stack[Len(stack)].i
      BY <2>1, StackFacts DEF IsLoad, Typed
    <2>3. UNCHANGED booting /\ ~throwing
      BY <1>2 DEF GetResolves, May, InUser, At
    <2> QED BY <2>1, <2>2, <2>3, LoadsBegin
  <1>3. CASE Throw \/ Return \/ Propagate
    <2>1. Falls /\ Top.k # "load" /\ UNCHANGED booting
      BY <1>3 DEF Throw, Return, Propagate, May, InUser, At, Caught, Falls
    <2> QED BY <2>1, LoadsFall
  <1>4. CASE Catch
    BY <1>4, LoadsSame DEF Catch, Caught
  <1> QED BY <1>1, <1>2, <1>3, <1>4, RegisterLoads DEF UserOp

LEMMA BootLoads ==
  ASSUME InjectorAssumption, Typed, LoadInv, Boot
  PROVE  LoadInv'
  <1>1. CASE ModuleNotFound
    <2>1. /\ Loading /\ stack' = stack /\ throwing' = TRUE /\ UNCHANGED booting
          /\ stack' \in Seq(Frames) /\ ~Lost
      BY <1>1 DEF ModuleNotFound, Loading, At, Typed, TypeOK, Lost
    <2>2. LoadsStay /\ (phase = "run" => \A p \in DOMAIN stack' : stack'[p].k \in {"user", "get"})
      BY <2>1 DEF LoadsStay, LoadInv, PhaseAgrees
    <2> QED BY <2>1, <2>2, LoadsKept DEF Typed
  <1>2. CASE Unwind
    <2>1. Falls /\ throwing /\ UNCHANGED <<booting, throwing>>
      BY <1>2 DEF Unwind, Caught, Falls
    <2> QED BY <2>1, LoadsUnwind, LoadsFall
  <1>3. CASE LoadDone \/ ConfigDone \/ RunDone \/ Uncaught
    <2>1. /\ stack = <<>> /\ stack' = stack /\ loaded' = loaded /\ drained' = drained
      BY <1>3 DEF LoadDone, ConfigDone, RunDone, Uncaught, Idle, calls
    <2>2. \A p \in DOMAIN stack' : FALSE
      BY <2>1
    <2>3. boot' # "load" /\ PhaseAgrees'
      <3>1. CASE LoadDone
        BY <2>2, <3>1 DEF LoadDone, Proceed, LoadInv, PhaseAgrees
      <3>2. CASE ConfigDone
        BY <2>2, <3>2 DEF ConfigDone, Proceed, LoadInv, PhaseAgrees
      <3>3. CASE RunDone
        BY <2>2, <3>3 DEF RunDone, Proceed, LoadInv, PhaseAgrees
      <3>4. CASE Uncaught
        BY <2>2, <3>4 DEF Uncaught, LoadInv, PhaseAgrees
      <3> QED BY <1>3, <3>1, <3>2, <3>3, <3>4
    <2> QED BY <2>1, <2>2, <2>3, LoadsOver
  <1>4. CASE InvokeBlock \/ BeginTurn
    <2>1. /\ stack = <<>> /\ boot' = boot /\ boot # "load" /\ phase' = phase
          /\ loaded' = loaded /\ drained' = drained
          /\ stack' = <<UserFrame(boot)>> \/ stack' = <<UserFrame("run")>>
      BY <1>4 DEF InvokeBlock, BeginTurn, Idle, booting
    <2>2. \A p \in DOMAIN stack' : stack'[p].k = "user"
      BY <2>1 DEF UserFrame, Frame
    <2>3. PhaseAgrees'
      BY <2>1, <2>2 DEF LoadInv, PhaseAgrees
    <2> QED BY <2>1, <2>2, <2>3, LoadsOver
  <1> QED BY <1>1, <1>2, <1>3, <1>4, LoadEntryLoads, LoadRequiredLoads, LoadsCollect DEF Boot

LEMMA EngineLoads ==
  ASSUME InjectorAssumption, Typed, LoadInv, Engine
  PROVE  LoadInv'
  <1>1. CASE ProviderMade \/ Resolved \/ GetFails
    <2>1. Falls /\ Top.k # "load" /\ UNCHANGED booting
      BY <1>1 DEF ProviderMade, Resolved, GetFails, At, Caught, Falls
    <2> QED BY <2>1, LoadsFall
  <1>2. CASE Produced
    <2>1. Begins({}, {}) /\ UNCHANGED booting /\ ~throwing /\ stack # <<>> /\ Top.k = "get"
      BY <1>2, ProducedBegins DEF Produced, At, Typed
    <2> QED BY <2>1, LoadsBegin DEF IsLoad, Top
  <1>3. CASE Decorate
    <2>1. /\ Begins({"user"}, {"decorator"}) /\ UNCHANGED booting /\ ~throwing /\ stack # <<>>
          /\ Top.k = "get"
      BY <1>3, DecorateBegins DEF Decorate, At, Typed
    <2> QED BY <2>1, LoadsBegin DEF IsLoad, Top
  <1> QED BY <1>1, <1>2, <1>3 DEF Engine

-----------------------------------------------------------------------------
(* The path of resolutions and what was handed out, step by step             *)

LEMMA CachedMeans == \A n : Cached(n) <=> Settled(n)
  BY DEF Cached, Source, Settled

\* Nothing is resolved, and no resolution begins.
Quiet == GetsStay /\ path' = path

LEMMA SameIsQuiet ==
  ASSUME TypeOK, stack' = stack, path' = path
  PROVE  Quiet
  BY DEF Quiet, GetsStay, Gets

\* The steps that neither begin nor end a get, apart from registrations.
LEMMA QuietSteps ==
  ASSUME InjectorAssumption, Typed,
         Throw \/ Return \/ Catch \/ Propagate \/ Boot \/ ProviderMade \/ Produced \/ Decorate
  PROVE  /\ Quiet
         /\ UNCHANGED <<value, chain, handed>>
         /\ phase' = phase \/ (ConfigDone /\ stack' = <<>>)
  <1> USE DEF booting, registry, calls, history
  <1>1. CASE Throw \/ Return \/ Propagate \/ CollectBlocks \/ Unwind \/ ProviderMade
    <2>1. /\ Falls /\ Top.k # "get" /\ path' = path
          /\ UNCHANGED <<value, chain, handed, phase>>
      BY <1>1 DEF Throw, Return, Propagate, CollectBlocks, Unwind, ProviderMade,
                  May, InUser, Loading, At, Caught, Falls
    <2> QED BY <2>1, FallsGets DEF Quiet, Typed
  <1>2. CASE Catch \/ ModuleNotFound \/ LoadDone \/ RunDone \/ Uncaught
    <2>1. stack' = stack /\ path' = path /\ UNCHANGED <<value, chain, handed, phase>>
      BY <1>2 DEF Catch, ModuleNotFound, LoadDone, RunDone, Uncaught
    <2> QED BY <2>1, SameIsQuiet DEF Typed
  <1>3. CASE ConfigDone
    <2>1. stack = <<>> /\ stack' = stack /\ path' = path /\ UNCHANGED <<value, chain, handed>>
      BY <1>3 DEF ConfigDone, Idle
    <2> QED BY <1>3, <2>1, SameIsQuiet DEF Typed
  <1>4. CASE LoadEntry \/ LoadRequired
    <2>1. Begins({"load"}, {})
      BY <1>4, LoadEntryBegins, LoadRequiredBegins DEF Typed
    <2>2. path' = path /\ UNCHANGED <<value, chain, handed, phase>>
      BY <1>4 DEF LoadEntry, LoadRequired
    <2> QED BY <2>1, <2>2, BeginsGets DEF Quiet, Typed
  <1>5. CASE InvokeBlock \/ BeginTurn
    <2>1. GetsStay
      BY <1>5, InvokeBlockBegins, BeginTurnBegins, BeginsGets DEF Typed
    <2>2. path' = path /\ UNCHANGED <<value, chain, handed, phase>>
      BY <1>5 DEF InvokeBlock, BeginTurn
    <2> QED BY <2>1, <2>2 DEF Quiet
  <1>6. CASE Produced \/ Decorate
    <2>1. GetsStay
      BY <1>6, ProducedBegins, DecorateBegins, BeginsGets DEF Typed
    <2>2. path' = path /\ UNCHANGED <<value, chain, handed, phase>>
      BY <1>6 DEF Produced, Decorate
    <2> QED BY <2>1, <2>2 DEF Quiet
  <1> QED BY <1>1, <1>2, <1>3, <1>4, <1>5, <1>6 DEF Boot

LEMMA QuietKeeps ==
  ASSUME Typed, Clean, Quiet, UNCHANGED <<value, chain, handed>>,
         phase' = phase \/ (phase = "config" /\ stack' = <<>>)
  PROVE  Clean'
  <1>1. PathIsUnderConstruction'
    BY PathStays DEF Clean, Quiet
  <1>3. CASE phase' = phase
    BY <1>1, <1>3 DEF Clean, HandedIsCached, Quiet, GetsStay, Settled
  <1>4. CASE phase = "config" /\ stack' = <<>>
    <2>1. Gets' = {}
      BY <1>4 DEF Gets
    <2>2. \A n \in Names : handed'[n] = {}
      BY <1>4 DEF Clean, HandedIsCached
    <2> QED BY <1>1, <2>1, <2>2 DEF Clean, HandedIsCached
  <1> QED BY <1>3, <1>4

\* What is registered is registered in the config phase.
LEMMA RegisterClean ==
  ASSUME InjectorAssumption, Typed, LoadInv, Clean, NEW recipe \in Recipes, NEW n \in Names,
         NEW d \in Decorators, Provide(recipe, n, d) \/ DrainRecord(recipe, n, d)
  PROVE  Clean'
  <1>1. /\ Registering(recipe, n, d) /\ phase' = phase /\ path' = path /\ handed' = handed
    BY DEF Provide, DrainRecord, Registering, booting
  <1>2. phase = "run" => Refuse
    BY RegisterLoads
  <1>3. Quiet
    BY <1>1, RegisterBegins, BeginsGets DEF Quiet, Typed
  <1>4. CASE phase = "run"
    <2>1. UNCHANGED <<value, chain, handed>>
      BY <1>1, <1>2, <1>4 DEF Refuse, registry
    <2> QED BY <1>1, <1>3, <2>1, QuietKeeps
  <1>5. CASE phase # "run"
    <2>1. PathIsUnderConstruction'
      BY <1>1, <1>3, PathStays DEF Clean, Quiet
    <2> QED BY <1>1, <1>5, <2>1 DEF Clean, HandedIsCached
  <1> QED BY <1>4, <1>5

\* What is handed out from the cache is what was handed out before.
LEMMA GetCachedClean ==
  ASSUME Typed, Clean, NEW n \in Names, GetCached(n)
  PROVE  Clean'
  <1>1. /\ stack' = stack /\ path' = path /\ phase' = phase
        /\ UNCHANGED <<value, chain>> /\ Cached(n) /\ Hand(n, value[n])
    BY DEF GetCached, calls, registry, booting
  <1>2. Quiet
    BY <1>1, SameIsQuiet DEF Typed
  <1>3. CASE phase # "run"
    BY <1>1, <1>2, <1>3, QuietKeeps DEF Hand
  <1>4. CASE phase = "run"
    <2>1. handed' = [handed EXCEPT ![n] = @ \cup {value[n]}] /\ DOMAIN handed = Names
      BY <1>1, <1>4 DEF Hand, Typed, TypeOK
    <2>2. handed[n] \subseteq {value[n]}
      BY DEF Clean, HandedIsCached
    <2>3. handed'[n] = {value[n]} /\ \A o \in Names : o # n => handed'[o] = handed[o]
      BY <2>1, <2>2
    <2>4. \A o : Settled(o)' <=> Settled(o)
      BY <1>1 DEF Settled
    <2>5. ASSUME NEW o \in Names, handed'[o] # {}
          PROVE  phase' = "run" /\ Settled(o)' /\ handed'[o] = {value'[o]}
      <3>1. CASE o = n
        BY <1>1, <1>4, <2>3, <2>4, <3>1, CachedMeans
      <3>2. CASE o # n
        BY <1>1, <1>4, <2>3, <2>4, <2>5, <3>2 DEF Clean, HandedIsCached
      <3> QED BY <3>1, <3>2
    <2>6. \A g \in Gets' : ~Settled(stack[g].n)'
      BY <1>1, <1>2, <1>4 DEF Clean, HandedIsCached, Quiet, GetsStay, Settled
    <2>7. HandedIsCached'
      BY <2>5, <2>6 DEF HandedIsCached
    <2> QED BY <1>2, <2>7, PathStays DEF Clean, Quiet
  <1> QED BY <1>3, <1>4

LEMMA GetResolvesClean ==
  ASSUME InjectorAssumption, Typed, Clean, NEW n \in Names, GetResolves(n)
  PROVE  Clean'
  <1>1. /\ PathIsUnderConstruction' /\ Gets' = Gets \cup {Len(stack) + 1}
        /\ stack'[Len(stack) + 1] = Opened(n)
        /\ \A g \in Gets : stack'[g] = stack[g]
    BY PathGrows DEF Clean
  <1>2. ~Cached(n) /\ Source(n) # "none" /\ UNCHANGED <<value, chain, handed, phase>>
    BY DEF GetResolves, registry, history, booting
  <1>3. Opened(n).n = n
    BY <1>2, OpenedFacts DEF Typed
  <1>4. \A o : ~Cached(o) <=> ~Settled(o)
    BY CachedMeans
  <1>5. \A o \in Names : handed'[o] # {} => phase' = "run" /\ Settled(o)' /\ handed'[o] = {value'[o]}
    BY <1>2 DEF Clean, HandedIsCached, Settled
  <1>6. ASSUME phase' = "run", NEW g \in Gets' PROVE ~Settled(stack[g].n)'
    <2>1. CASE g \in Gets
      BY <1>1, <1>2, <1>6, <2>1 DEF Clean, HandedIsCached, Settled
    <2>2. CASE g = Len(stack) + 1
      BY <1>1, <1>2, <1>3, <1>4, <2>2 DEF Settled
    <2> QED BY <1>1, <1>6, <2>1, <2>2
  <1> QED BY <1>1, <1>5, <1>6 DEF Clean, HandedIsCached

LEMMA GetFailsClean ==
  ASSUME Typed, Clean, GetFails
  PROVE  Clean'
  <1>1. /\ Falls /\ Top.k = "get" /\ path' = SubSeq(path, 1, Len(path) - 1)
        /\ UNCHANGED <<value, chain, handed, phase>>
    BY DEF GetFails, Caught, Falls, registry, history, booting
  <1>2. /\ PathIsUnderConstruction' /\ Gets' = Gets \ {Len(stack)}
        /\ \A g \in Gets' : stack'[g] = stack[g]
    BY <1>1, PathShrinks DEF Clean
  <1> QED BY <1>1, <1>2 DEF Clean, HandedIsCached, Settled

\* The instance that was constructed is cached as it is handed out.
LEMMA ResolvedFacts ==
  ASSUME Typed, Clean, Resolved
  PROVE  /\ PathIsUnderConstruction' /\ Gets' = Gets \ {Len(stack)}
         /\ Len(path') < Len(path) /\ path[Len(path)] = Top.n
         /\ \A g \in Gets' : stack'[g] = stack[g] /\ stack'[g].n # Top.n
         /\ Len(stack) \in Gets /\ Top = stack[Len(stack)]
         /\ Top.n \in Names /\ Top.inst \in Instances /\ Hand(Top.n, Top.inst)
         /\ value' = [value EXCEPT ![Top.n] = Top.inst]
         /\ chain' = [chain EXCEPT ![Top.n] = <<>>]
         /\ phase' = phase
  <1>1. /\ Falls /\ Top.k = "get" /\ path' = SubSeq(path, 1, Len(path) - 1) /\ phase' = phase
        /\ value' = [value EXCEPT ![Top.n] = Top.inst]
        /\ chain' = [chain EXCEPT ![Top.n] = <<>>] /\ Hand(Top.n, Top.inst)
        /\ Top.i > Len(chain[Top.n])
    BY DEF Resolved, At, Falls, booting
  <1>2. /\ PathIsUnderConstruction' /\ Gets' = Gets \ {Len(stack)}
        /\ Len(path) \in Nat /\ Len(path') = Len(path) - 1 /\ path[Len(path)] = Top.n
        /\ \A g \in Gets' : stack'[g] = stack[g] /\ stack'[g].n # Top.n
    BY <1>1, PathShrinks DEF Clean
  <1>3. Len(path') < Len(path)
    BY ONLY <1>2
  <1>4. Len(stack) \in Gets /\ Top = stack[Len(stack)]
    BY <1>1, FallsGets DEF Typed, Top
  <1>5. Top \in Frames /\ Shaped(Top)
    BY <1>1, TopShaped, StackFacts DEF Typed, Falls
  <1>6. Top.n \in Names /\ Top.i \in Nat
    BY <1>1, <1>5 DEF Shaped, Frames
  <1>7. Top.i > 0
    <2>1. Len(chain[Top.n]) \in Nat
      BY <1>6 DEF Typed, TypeOK
    <2> QED BY <1>1, <1>6, <2>1
  <1>8. Top.inst \in Instances
    BY <1>1, <1>5, <1>7 DEF Shaped
  <1> QED BY <1>1, <1>2, <1>3, <1>4, <1>6, <1>8

LEMMA ResolvedClean ==
  ASSUME InjectorAssumption, Typed, Clean, Resolved
  PROVE  Clean'
  <1>9. Top.n \in Names /\ Top.inst \in Instances
    BY ResolvedFacts
  <1>10. PICK n \in Names, inst \in Instances : n = Top.n /\ inst = Top.inst
    BY <1>9
  <1>1. /\ PathIsUnderConstruction' /\ Gets' = Gets \ {Len(stack)}
        /\ \A g \in Gets' : stack'[g] = stack[g] /\ stack'[g].n # n
        /\ Len(stack) \in Gets /\ Top = stack[Len(stack)]
        /\ n \in Names /\ inst \in Instances /\ Hand(n, inst) /\ phase' = phase
        /\ value' = [value EXCEPT ![n] = inst] /\ chain' = [chain EXCEPT ![n] = <<>>]
    BY <1>10, ResolvedFacts
  <1>2. stack[Len(stack)].n = n
    BY <1>1, <1>10
  <1>3. DOMAIN value = Names /\ DOMAIN chain = Names /\ DOMAIN handed = Names
    BY DEF Typed, TypeOK
  <1>4. inst # Null
    BY <1>1, InjectorAssumption DEF InjectorAssumption
  <1>5. /\ value'[n] = inst /\ chain'[n] = <<>>
        /\ \A o \in Names : o # n => value'[o] = value[o] /\ chain'[o] = chain[o]
    BY <1>1, <1>3
  <1>6. Settled(n)' /\ \A o \in Names : o # n => (Settled(o)' <=> Settled(o))
    BY <1>4, <1>5 DEF Settled
  <1>7. CASE phase = "run"
    <2>1. handed' = [handed EXCEPT ![n] = @ \cup {inst}]
      BY <1>1, <1>7 DEF Hand
    <2>2. handed[n] = {}
      BY <1>1, <1>2, <1>7 DEF Clean, HandedIsCached
    <2>3. handed'[n] = {inst} /\ \A o \in Names : o # n => handed'[o] = handed[o]
      BY <1>1, <1>3, <2>1, <2>2
    <2>4. ASSUME NEW o \in Names, handed'[o] # {}
          PROVE  phase' = "run" /\ Settled(o)' /\ handed'[o] = {value'[o]}
      <3>1. CASE o = n
        BY <1>1, <1>5, <1>6, <1>7, <2>3, <3>1
      <3>2. CASE o # n
        BY <1>1, <1>5, <1>6, <1>7, <2>3, <2>4, <3>2 DEF Clean, HandedIsCached
      <3> QED BY <3>1, <3>2
    <2>5. ASSUME NEW g \in Gets' PROVE ~Settled(stack[g].n)'
      <3>1. g \in Gets /\ stack'[g] = stack[g] /\ stack[g].n # n
        BY <1>1
      <3>2. stack[g].n \in Names
        BY <3>1 DEF Typed, WellFormed, Gets, Shaped
      <3>3. ~Settled(stack[g].n)
        BY <1>7, <3>1 DEF Clean, HandedIsCached
      <3> QED BY <1>5, <3>1, <3>2, <3>3 DEF Settled
    <2> QED BY <1>1, <2>4, <2>5 DEF Clean, HandedIsCached
  <1>8. CASE phase # "run"
    BY <1>1, <1>8 DEF Clean, HandedIsCached, Hand
  <1> QED BY <1>7, <1>8

-----------------------------------------------------------------------------
(* The invariant, and what it says                                          *)

LEMMA InitInvariant ==
  ASSUME InjectorAssumption, Init
  PROVE  IInv
  <1>1. Typed
    BY InitType DEF Typed
  <1>2. /\ stack = <<>> /\ path = <<>> /\ drained = <<>> /\ loaded = {}
        /\ boot = "load" /\ phase = "config" /\ handed = [n \in Names |-> {}]
    BY DEF Init
  <1>3. DOMAIN stack = {} /\ DOMAIN path = {} /\ DOMAIN drained = {}
    BY <1>2
  <1>4. Gets = {} /\ Drained = {} /\ BeingLoaded = {}
    BY <1>3 DEF Gets, Drained, BeingLoaded
  <1>5. LoadInv
    BY <1>2, <1>3, <1>4 DEF LoadInv, PhaseAgrees, LoadsFirst, LoadsApart, LoadsAccounted, IsLoad
  <1>6. PathIsUnderConstruction
    <2>1. <<>> \in [DOMAIN path -> Gets]
      BY <1>3
    <2> QED BY <1>3, <1>4, <2>1 DEF PathIsUnderConstruction
  <1>7. HandedIsCached
    BY <1>2 DEF HandedIsCached
  <1> QED BY <1>1, <1>5, <1>6, <1>7 DEF IInv, Clean

LEMMA CleanKept ==
  ASSUME InjectorAssumption, IInv, Next
  PROVE  Clean'
  <1>1. Typed /\ LoadInv /\ Clean
    BY DEF IInv
  <1>2. ASSUME NEW n \in Names, ProviderGetFails(n) \/ GetThrows(n) PROVE Clean'
    <2>1. stack' = stack /\ path' = path /\ UNCHANGED <<value, chain, handed, phase>>
      BY <1>2 DEF ProviderGetFails, GetThrows, registry, history, booting
    <2> QED BY <1>1, <2>1, SameIsQuiet, QuietKeeps DEF Typed
  <1>3. ASSUME Throw \/ Return \/ Catch \/ Propagate \/ Boot \/ ProviderMade \/ Produced \/ Decorate
        PROVE  Clean'
    <2>1. /\ Quiet /\ UNCHANGED <<value, chain, handed>>
          /\ phase' = phase \/ (ConfigDone /\ stack' = <<>>)
      BY <1>1, <1>3, QuietSteps
    <2>2. ConfigDone => phase = "config"
      BY <1>1 DEF ConfigDone, LoadInv, PhaseAgrees
    <2> QED BY <1>1, <2>1, <2>2, QuietKeeps
  <1> QED BY <1>1, <1>2, <1>3, RegisterClean, GetCachedClean, GetResolvesClean, GetFailsClean,
             ResolvedClean DEF Next, UserOp, Engine

THEOREM Invariant == Spec => []IInv
  <1>1. Init => IInv
    BY InjectorAssumption, InitInvariant
  <1>2. IInv /\ [Next]_vars => IInv'
    <2> SUFFICES ASSUME IInv, [Next]_vars PROVE IInv'
      OBVIOUS
    <2>1. CASE Next
      BY <2>1, InjectorAssumption, CleanKept, UserType, BootType, EngineType,
         UserLoads, BootLoads, EngineLoads DEF Next, IInv
    <2>2. CASE UNCHANGED vars
      <3> USE DEF vars, booting, registry, calls, history, IInv
      <3>1. Typed'
        <4>1. RestTyped' /\ stack' = stack /\ path' \in Seq(Names)
          BY <2>2 DEF Typed, TypeOK, RestTyped
        <4> QED BY <4>1, TypedStays
      <3>2. PhaseAgrees' /\ LoadsFirst'
        BY <2>2 DEF LoadInv, PhaseAgrees, LoadsFirst
      <3>3. Drained' = Drained /\ BeingLoaded' = BeingLoaded /\ Lost' = Lost /\ Gets' = Gets
        BY <2>2 DEF Drained, BeingLoaded, Lost, Gets
      <3>4. LoadsApart'
        BY <2>2, <3>3 DEF LoadInv, LoadsApart, IsLoad
      <3>5. LoadsAccounted'
        BY <2>2, <3>3 DEF LoadInv, LoadsAccounted, IsLoad
      <3>6. Clean'
        <4>1. Quiet
          BY <2>2, SameIsQuiet DEF Typed
        <4> QED BY <2>2, <4>1, QuietKeeps
      <3> QED BY <3>1, <3>2, <3>4, <3>5, <3>6 DEF LoadInv
    <2> QED BY <2>1, <2>2
  <1> QED BY <1>1, <1>2, PTL DEF Spec

\* resolutionPath names what is under construction, in order and each name once (get).
THEOREM UnderConstruction == Spec => []PathIsUnderConstruction
  <1>1. IInv => PathIsUnderConstruction
    BY DEF IInv, Clean
  <1> QED BY <1>1, Invariant, PTL

\* The run phase hands out one instance of each name, whatever user code does (get).
THEOREM SingleInstance == Spec => []Singleton
  <1>1. IInv => Singleton
    BY DEF IInv, Clean, HandedIsCached, Singleton
  <1> QED BY <1>1, Invariant, PTL

\* In the run phase, what a step leaves of what was registered.
LEMMA FrozenStep ==
  ASSUME InjectorAssumption, IInv, Next, phase = "run"
  PROVE  /\ decorated' = decorated /\ constants' = constants /\ providers' = providers
         /\ \A n \in Names :
              /\ pending'[n] \subseteq pending[n]
              /\ value'[n] # value[n] => Len(path') < Len(path) /\ path[Len(path)] = n
  <1> USE DEF registry, history
  <1>1. Typed /\ LoadInv /\ Clean
    BY DEF IInv
  <1>2. ASSUME NEW recipe \in Recipes, NEW n \in Names, NEW d \in Decorators,
               Provide(recipe, n, d) \/ DrainRecord(recipe, n, d)
        PROVE  UNCHANGED <<decorated, constants, providers, pending, value>>
    <2>1. Refuse
      BY <1>1, <1>2, RegisterLoads
    <2> QED BY <2>1 DEF Refuse
  <1>3. ASSUME NEW n \in Names,
               ProviderGetFails(n) \/ GetCached(n) \/ GetResolves(n) \/ GetThrows(n)
        PROVE  UNCHANGED <<decorated, constants, providers, pending, value>>
    BY <1>3 DEF ProviderGetFails, GetCached, GetResolves, GetThrows
  <1>4. ASSUME Throw \/ Return \/ Catch \/ Propagate
        PROVE  UNCHANGED <<decorated, constants, providers, pending, value>>
    BY <1>4 DEF Throw, Return, Catch, Propagate
  <1>5. ASSUME Boot
        PROVE  UNCHANGED <<decorated, constants, providers, pending, value>>
    BY <1>5 DEF Boot, LoadEntry, LoadRequired, ModuleNotFound, CollectBlocks, LoadDone,
                InvokeBlock, ConfigDone, RunDone, BeginTurn, Uncaught, Unwind
  <1>6. ASSUME Produced \/ Decorate \/ GetFails
        PROVE  UNCHANGED <<decorated, constants, providers, pending, value>>
    BY <1>6 DEF Produced, Decorate, GetFails
  <1>7. ~ProviderMade
    <2> SUFFICES ASSUME ProviderMade PROVE FALSE
      OBVIOUS
    <2>1. Len(stack) \in DOMAIN stack /\ stack[Len(stack)].k = "register"
      BY <1>1, StackFacts DEF ProviderMade, At, Top, Typed
    <2> QED BY <1>1, <2>1 DEF LoadInv, PhaseAgrees
  <1>8. CASE Resolved
    <2>1. /\ Top.n \in Names /\ value' = [value EXCEPT ![Top.n] = Top.inst]
          /\ Len(path') < Len(path) /\ path[Len(path)] = Top.n
      BY <1>1, <1>8, ResolvedFacts
    <2>2. /\ pending' = [pending EXCEPT ![Top.n] = @ \ {Top.at}]
          /\ UNCHANGED <<decorated, constants, providers>>
      BY <1>8 DEF Resolved
    <2>3. DOMAIN value = Names /\ DOMAIN pending = Names
      BY <1>1 DEF Typed, TypeOK
    <2>4. \A n \in Names : pending'[n] \subseteq pending[n]
      BY <2>2, <2>3
    <2>5. \A n \in Names : value'[n] # value[n] => n = Top.n
      BY <2>1, <2>3
    <2> QED BY <2>1, <2>2, <2>4, <2>5
  <1> QED BY <1>2, <1>3, <1>4, <1>5, <1>6, <1>7, <1>8 DEF Next, UserOp, Engine

\* The module a step has drained, if it has drained one.
LEMMA OrderStep ==
  ASSUME InjectorAssumption, IInv, Next, drained' # drained
  PROVE  LET m     == drained'[Len(drained')]
             done  == {drained[i] : i \in DOMAIN drained}
             above == {stack[i].m : i \in DOMAIN stack}
         IN  /\ m \notin done
             /\ \A i \in DOMAIN requires[m] : requires[m][i] \in done \cup above
  <1>1. Typed /\ LoadInv
    BY DEF IInv
  <1>2. CollectBlocks
    <2> USE DEF booting
    <2>1. UserOp \/ Engine => drained' = drained
      BY DEF UserOp, Engine, Provide, DrainRecord, ProviderGetFails, GetCached, GetResolves,
             GetThrows, Throw, Return, Catch, Propagate, ProviderMade, Produced, Decorate,
             Resolved, GetFails
    <2>2. Boot => CollectBlocks \/ drained' = drained
      BY DEF Boot, LoadEntry, LoadRequired, ModuleNotFound, LoadDone, InvokeBlock, ConfigDone,
             RunDone, BeginTurn, Uncaught, Unwind
    <2> QED BY <2>1, <2>2 DEF Next
  <1>3. /\ drained'[Len(drained')] = Top.m /\ Top.m \notin Drained
        /\ \A j \in DOMAIN requires[Top.m] : requires[Top.m][j] \in Drained \cup BeingLoaded
    BY <1>1, <1>2, LoadsCollect
  <1>4. BeingLoaded \subseteq {stack[i].m : i \in DOMAIN stack}
    BY DEF BeingLoaded
  <1> QED BY <1>3, <1>4 DEF Drained

\* Modules are drained once and after what they require, and once the run phase
\* has begun nothing is registered (loadModule, $provide, get).
THEOREM LoadingIsOrdered == Spec => LoadedInOrder
  <1>1. IInv /\ [Next]_vars =>
          [phase = "run" =>
             /\ decorated' = decorated /\ constants' = constants /\ providers' = providers
             /\ \A n \in Names :
                  /\ pending'[n] \subseteq pending[n]
                  /\ value'[n] # value[n] => Len(path') < Len(path) /\ path[Len(path)] = n]_vars
    BY InjectorAssumption, FrozenStep
  <1>2. IInv /\ [Next]_vars =>
          [drained' # drained =>
             LET m     == drained'[Len(drained')]
                 done  == {drained[i] : i \in DOMAIN drained}
                 above == {stack[i].m : i \in DOMAIN stack}
             IN  /\ m \notin done
                 /\ \A i \in DOMAIN requires[m] : requires[m][i] \in done \cup above]_vars
    BY InjectorAssumption, OrderStep
  <1>3. Spec => RegistrationsFrozen
    BY <1>1, Invariant, PTL DEF Spec, RegistrationsFrozen
  <1>4. Spec => ModulesInOrder
    BY <1>2, Invariant, PTL DEF Spec, ModulesInOrder
  <1> QED BY <1>3, <1>4, PTL DEF LoadedInOrder

-----------------------------------------------------------------------------
(* Decorators                                                               *)

LEMMA UntouchedBegins ==
  ASSUME TypeOK, Untouched, NEW kinds, NEW contexts, Begins(kinds, contexts), phase' = phase,
         phase = "config" => "get" \notin kinds /\ contexts \subseteq {"ctor", "config"}
  PROVE  Untouched'
  <1> SUFFICES ASSUME phase = "config", NEW p \in DOMAIN stack'
               PROVE  /\ stack'[p].k # "get"
                      /\ stack'[p].k = "user" => stack'[p].at \in {"ctor", "config"}
    BY DEF Untouched
  <1>1. /\ Len(stack) \in Nat /\ DOMAIN stack = 1 .. Len(stack)
        /\ Len(stack') \in Nat /\ DOMAIN stack' = 1 .. Len(stack')
    BY StackFacts DEF Begins, Rises
  <1>2. p \in 1 .. Len(stack) \/ p \in Len(stack) + 1 .. Len(stack')
    BY <1>1
  <1>3. CASE p \in 1 .. Len(stack)
    <2>1. stack'[p].k = stack[p].k /\ stack'[p].at = stack[p].at /\ p \in DOMAIN stack
      BY <1>1, <1>3 DEF Begins, Rises
    <2> QED BY <2>1 DEF Untouched
  <1>4. CASE p \in Len(stack) + 1 .. Len(stack')
    BY <1>4 DEF Begins
  <1> QED BY <1>2, <1>3, <1>4

LEMMA UntouchedFalls ==
  ASSUME TypeOK, Untouched, Falls, phase' = phase
  PROVE  Untouched'
  <1>1. \A p \in DOMAIN stack' : p \in DOMAIN stack /\ stack'[p] = stack[p]
    BY FallsKept
  <1> QED BY <1>1 DEF Untouched

LEMMA UntouchedHasNoGets ==
  ASSUME Typed, Untouched, Gets # {}
  PROVE  phase = "run"
  BY DEF Untouched, Gets, Typed, TypeOK

\* With nothing registered, and no get that goes on.
LEMMA DressingKept ==
  ASSUME Typed, Dressable, GetsDress, UNCHANGED <<value, chain, decorated>>,
         phase' = phase \/ phase' = "run", Gets' \subseteq Gets,
         \A g \in Gets' : stack'[g] = stack[g]
  PROVE  Dressable' /\ GetsDress'
  <1>1. Dressable'
    BY DEF Dressable, Raw, Dressed
  <1>2. ASSUME NEW g \in Gets' PROVE Dressing(stack[g])'
    BY DEF GetsDress, Dressing
  <1> QED BY <1>1, <1>2 DEF GetsDress

LEMMA BeginsDressing ==
  ASSUME Typed, Dressable, GetsDress, UNCHANGED <<value, chain, decorated>>, phase' = phase,
         NEW kinds, NEW contexts, Begins(kinds, contexts), "get" \notin kinds,
         stack # <<>> => Top.k # "get"
  PROVE  Dressable' /\ GetsDress'
  <1>1. Gets' = Gets
    BY BeginsGets DEF GetsStay, Typed
  <1>2. ASSUME NEW g \in Gets PROVE stack'[g] = stack[g]
    <2>1. /\ Len(stack) \in Nat /\ g \in 1 .. Len(stack) /\ stack[g].k = "get"
      BY StackFacts DEF Typed, Gets
    <2>2. g # Len(stack)
      BY <2>1 DEF Top
    <2>3. g \in 1 .. Len(stack) - 1
      BY <2>1, <2>2
    <2> QED BY <2>3 DEF Begins, Rises
  <1> QED BY <1>1, <1>2, DressingKept

\* A registration: what a value was wrapped in before is gone with it.
LEMMA RegisterDecor ==
  ASSUME InjectorAssumption, IInv, DecorInv, NEW recipe \in Recipes, NEW n \in Names,
         NEW d \in Decorators, Provide(recipe, n, d) \/ DrainRecord(recipe, n, d)
  PROVE  DecorInv'
  <1>1. /\ Typed /\ LoadInv /\ Registering(recipe, n, d) /\ phase' = phase
    BY DEF IInv, Provide, DrainRecord, Registering, booting
  <1>2. Begins({"register", "user"}, {"ctor"})
    BY <1>1, RegisterBegins DEF Typed
  <1>3. Untouched'
    BY <1>1, <1>2, UntouchedBegins DEF DecorInv, Typed
  <1>4. CASE phase = "run"
    <2>1. Refuse
      BY <1>1, <1>4, RegisterLoads
    <2>2. stack' = stack /\ UNCHANGED <<value, chain, decorated>>
      BY <2>1 DEF Refuse, registry
    <2>3. Gets' = Gets
      BY <2>2 DEF Gets
    <2> QED BY <1>1, <1>3, <2>2, <2>3, DressingKept DEF DecorInv
  <1>5. CASE phase # "run"
    <2>1. Gets' = {}
      BY <1>1, <1>2, <1>5, UntouchedHasNoGets, BeginsGets DEF DecorInv, GetsStay, Typed
    <2>2. \A o \in Names : Raw(o)
      BY <1>5 DEF DecorInv, Dressable
    <2>3. /\ DOMAIN value = Names /\ DOMAIN chain = Names /\ DOMAIN decorated = Names
      BY <1>1 DEF Typed, TypeOK
    <2>4. Dressable'
      <3>1. CASE Refuse
        BY <2>2, <3>1 DEF Refuse, registry, Dressable, Raw
      <3>2. CASE \E isConstant \in BOOLEAN : RegisterValue(n, isConstant)
        <4>1. /\ value'[n].decs = <<>> /\ \A o \in Names : o # n => value'[o] = value[o]
              /\ UNCHANGED <<chain, decorated>>
          BY <2>3, <3>2 DEF RegisterValue, Replace, Instance
        <4> QED BY <2>2, <4>1 DEF Dressable, Raw
      <3>3. CASE RegisterFactory(n) \/ RegisterProvider(n)
        <4>1. /\ value'[n] = Null /\ \A o \in Names : o # n => value'[o] = value[o]
              /\ UNCHANGED <<chain, decorated>>
          BY <2>3, <3>3 DEF RegisterFactory, RegisterProvider, Replace
        <4> QED BY <2>2, <4>1 DEF Dressable, Raw
      <3>4. CASE RegisterDecorator(n, d)
        <4>1. /\ value' = value /\ chain'[n] = Append(chain[n], d)
              /\ decorated'[n] = Append(decorated[n], d)
              /\ \A o \in Names : o # n => chain'[o] = chain[o] /\ decorated'[o] = decorated[o]
          BY <2>3, <3>4 DEF RegisterDecorator
        <4> QED BY <2>2, <4>1 DEF Dressable, Raw
      <3> QED BY <1>1, <3>1, <3>2, <3>3, <3>4 DEF Registering, Register
    <2> QED BY <1>3, <2>1, <2>4 DEF DecorInv, GetsDress
  <1> QED BY <1>4, <1>5

\* A get begins with all decorators ahead of it.
LEMMA GetResolvesDecor ==
  ASSUME InjectorAssumption, IInv, DecorInv, "get" \notin Ops["ctor"] \cup Ops["config"],
         NEW n \in Names, GetResolves(n)
  PROVE  DecorInv'
  <1>1. /\ Typed /\ Clean
    BY DEF IInv
  <1>2. /\ UNCHANGED <<value, chain, decorated, phase>> /\ ~Cached(n) /\ Source(n) # "none"
        /\ InUser /\ "get" \in Ops[Top.at]
    BY DEF GetResolves, May, registry, history, booting
  <1>3. phase = "run"
    <2> SUFFICES ASSUME phase = "config" PROVE FALSE
      BY <1>1 DEF Typed, TypeOK
    <2>1. Len(stack) \in DOMAIN stack /\ stack[Len(stack)].k = "user" /\ Top = stack[Len(stack)]
      BY <1>1, <1>2, StackFacts DEF InUser, At, Top, Typed
    <2>2. Top.at \in {"ctor", "config"}
      BY <2>1 DEF DecorInv, Untouched
    <2> QED BY <1>2, <2>2
  <1>4. /\ Gets' = Gets \cup {Len(stack) + 1} /\ stack'[Len(stack) + 1] = Opened(n)
        /\ \A g \in Gets : stack'[g] = stack[g]
    BY <1>1, PathGrows DEF Clean
  <1>5. ~Settled(n)
    BY <1>2, CachedMeans
  <1>6. Raw(n)
    BY <1>5 DEF DecorInv, Dressable, Dressed, Settled
  <1>7. /\ Opened(n).n = n
        /\ Source(n) = "value" => value[n] # Null /\ Opened(n).i = 1 /\ Opened(n).inst = value[n]
        /\ Source(n) # "value" => Opened(n).i = 0
    BY <1>1, <1>2, OpenedFacts DEF Typed
  <1>8. Dressing(Opened(n))
    <2>1. Len(decorated[n]) \in Nat
      BY <1>1 DEF Typed, TypeOK
    <2>2. CASE Source(n) = "value"
      <3>1. Opened(n).i = 1 /\ Opened(n).inst.decs = <<>> /\ chain[n] = decorated[n]
        BY <1>6, <1>7, <2>2 DEF Raw
      <3> HIDE DEF Opened
      <3>2. /\ Len(Opened(n).inst.decs) = Opened(n).i - 1 /\ Opened(n).i <= Len(decorated[n]) + 1
            /\ 1 .. Opened(n).i - 1 = {}
        BY <2>1, <3>1
      <3> QED BY <1>7, <3>1, <3>2 DEF Dressing
    <2>3. CASE Source(n) # "value"
      BY <1>6, <1>7, <2>3 DEF Dressing, Raw
    <2> QED BY <2>2, <2>3
  <1>9. ASSUME NEW g \in Gets' PROVE Dressing(stack[g])'
    <2>1. CASE g = Len(stack) + 1
      <3>1. Dressing(stack'[g])
        BY <1>4, <1>8, <2>1
      <3> QED BY <1>2, <3>1 DEF Dressing
    <2>2. CASE g \in Gets
      <3>1. Dressing(stack'[g])
        BY <1>4, <2>2 DEF DecorInv, GetsDress
      <3> QED BY <1>2, <3>1 DEF Dressing
    <2> QED BY <1>4, <2>1, <2>2
  <1>10. Dressable'
    BY <1>2 DEF DecorInv, Dressable, Raw, Dressed
  <1>11. Untouched'
    <2>1. phase' = phase
      BY <1>2
    <2> QED BY <1>3, <2>1 DEF Untouched
  <1> QED BY <1>9, <1>10, <1>11 DEF DecorInv, GetsDress

\* The get on top goes on, and the others wait.
LEMMA TopDressing ==
  ASSUME Typed, DecorInv, At("get"), GetsStay, UNCHANGED <<value, chain, decorated, phase>>,
         NEW f, Furthers(f), stack'[Len(stack)] = f, Dressing(f),
         \A p \in 1 .. Len(stack) - 1 : stack'[p] = stack[p]
  PROVE  DecorInv'
  <1>1. /\ Len(stack) \in Nat /\ \A g \in Gets : g \in 1 .. Len(stack)
    BY StackFacts DEF Typed, Gets
  <1>2. ASSUME NEW g \in Gets' PROVE Dressing(stack[g])'
    <2>1. g \in Gets
      BY DEF GetsStay
    <2>2. g \in 1 .. Len(stack) - 1 \/ g = Len(stack)
      BY <1>1, <2>1
    <2>3. Dressing(stack'[g])
      BY <2>1, <2>2 DEF DecorInv, GetsDress
    <2> QED BY <2>3 DEF Dressing
  <1>3. Dressable'
    BY DEF DecorInv, Dressable, Raw, Dressed
  <1>4. phase = "run"
    <2>1. Len(stack) \in Gets
      BY StackFacts DEF At, Top, Gets, Typed
    <2> QED BY <2>1, UntouchedHasNoGets DEF DecorInv
  <1>5. Untouched'
    BY <1>4 DEF Untouched
  <1> QED BY <1>2, <1>3, <1>5 DEF DecorInv, GetsDress

LEMMA TopDresses ==
  ASSUME Typed, DecorInv, At("get")
  PROVE  Dressing(Top) /\ Top.n \in Names /\ Top.i \in Nat /\ Top \in Frames
  <1>1. Len(stack) \in Gets /\ Top = stack[Len(stack)]
    BY StackFacts DEF At, Top, Gets, Typed
  <1>2. Top \in Frames /\ Shaped(Top) /\ Top.k = "get"
    BY StackFacts, TopShaped DEF Typed, At
  <1> QED BY <1>1, <1>2 DEF DecorInv, GetsDress, Shaped, Frames

LEMMA ProducedDecor ==
  ASSUME InjectorAssumption, IInv, DecorInv, Produced
  PROVE  DecorInv'
  <1>1. /\ Typed /\ At("get") /\ UNCHANGED <<value, chain, decorated, phase>>
    BY DEF IInv, Produced, registry, booting
  <1>2. /\ Begins({}, {}) /\ stack'[Len(stack)] = Made /\ stack # <<>>
    BY <1>1, ProducedBegins DEF Typed, At
  <1>3. GetsStay /\ \A p \in 1 .. Len(stack) - 1 : stack'[p] = stack[p]
    BY <1>1, <1>2, BeginsGets DEF Typed, Begins, Rises
  <1>4. Furthers(Made) /\ Made.i = 1 /\ Made.inst.decs = <<>>
    BY <1>1, MadeFacts DEF Typed
  <1>5. Dressing(Top) /\ Top.n \in Names
    BY <1>1, TopDresses
  <1> HIDE DEF Made
  <1>6. Dressing(Made)
    <2>1. Made.n = Top.n /\ chain[Top.n] = decorated[Top.n]
      BY <1>4, <1>5 DEF Furthers, Dressing
    <2>2. Len(decorated[Top.n]) \in Nat
      BY <1>1, <1>5 DEF Typed, TypeOK
    <2>3. Len(<<>>) = 1 - 1 /\ 1 <= Len(decorated[Top.n]) + 1 /\ 1 .. 1 - 1 = {}
      BY <2>2
    <2> QED BY <1>4, <2>1, <2>3 DEF Dressing
  <1> QED BY <1>1, <1>2, <1>3, <1>4, <1>6, TopDressing

LEMMA DecorateDecor ==
  ASSUME InjectorAssumption, IInv, DecorInv, Decorate
  PROVE  DecorInv'
  <1>1. /\ Typed /\ At("get") /\ UNCHANGED <<value, chain, decorated, phase>>
        /\ Top.i \in 1 .. Len(chain[Top.n])
    BY DEF IInv, Decorate, registry, booting, history
  <1>2. /\ Begins({"user"}, {"decorator"}) /\ stack'[Len(stack)] = Decorated /\ stack # <<>>
    BY <1>1, DecorateBegins DEF Typed, At
  <1>3. GetsStay /\ \A p \in 1 .. Len(stack) - 1 : stack'[p] = stack[p]
    BY <1>1, <1>2, BeginsGets DEF Typed, Begins, Rises
  <1>4. /\ Furthers(Decorated) /\ Decorated.i = Top.i + 1 /\ Top.inst \in Instances
        /\ Decorated.inst.decs = Append(Top.inst.decs, chain[Top.n][Top.i])
    BY <1>1, DecoratedFacts DEF Typed
  <1>5. Dressing(Top) /\ Top.n \in Names /\ Top.i \in Nat
    BY <1>1, TopDresses
  <1> HIDE DEF Decorated
  <1>6. PICK i \in Nat, s \in Seq(Decorators), c \in Seq(Decorators) :
          /\ i = Top.i /\ s = Top.inst.decs /\ c = chain[Top.n]
    BY <1>1, <1>4, <1>5 DEF Instances, Typed, TypeOK
  <1>7. /\ c = decorated[Top.n] /\ i \in 1 .. Len(c) /\ Len(s) = i - 1
        /\ \A j \in 1 .. i - 1 : s[j] = c[j]
    <2>1. i \in 1 .. Len(c) /\ Len(c) \in Nat
      BY <1>1, <1>6
    <2>2. i > 0
      BY ONLY <2>1, i \in Nat
    <2>3. /\ chain[Top.n] = decorated[Top.n]
          /\ Top.i > 0 => /\ Len(Top.inst.decs) = Top.i - 1
                          /\ \A j \in 1 .. Top.i - 1 : Top.inst.decs[j] = decorated[Top.n][j]
      BY <1>5 DEF Dressing
    <2> QED BY <1>6, <2>1, <2>2, <2>3
  <1>8. c[i] \in Decorators
    BY <1>6, <1>7
  <1>9. /\ Len(Append(s, c[i])) = i /\ i + 1 <= Len(c) + 1
        /\ \A j \in 1 .. i : Append(s, c[i])[j] = c[j]
    <2>1. /\ Len(Append(s, c[i])) = Len(s) + 1 /\ Append(s, c[i])[Len(s) + 1] = c[i]
          /\ \A j \in 1 .. Len(s) : Append(s, c[i])[j] = s[j]
      BY <1>6, <1>8, AppendFacts
    <2>2. Len(c) \in Nat /\ i \in Nat /\ i <= Len(c) /\ Len(s) + 1 = i
      BY <1>6, <1>7
    <2>3. \A j \in 1 .. i : j \in 1 .. i - 1 \/ j = i
      BY <2>2
    <2> QED BY <1>7, <2>1, <2>2, <2>3
  <1>10. Dressing(Decorated)
    <2>1. /\ Decorated.n = Top.n /\ Decorated.i = i + 1 /\ Decorated.inst.decs = Append(s, c[i])
      BY <1>4, <1>6 DEF Furthers
    <2>2. i + 1 - 1 = i
      BY <1>6
    <2>3. chain[Decorated.n] = decorated[Decorated.n] /\ decorated[Decorated.n] = c
      BY <1>6, <1>7, <2>1
    <2>4. /\ Len(Decorated.inst.decs) = Decorated.i - 1
          /\ Decorated.i <= Len(decorated[Decorated.n]) + 1
      BY <1>9, <2>1, <2>2, <2>3
    <2>5. \A j \in 1 .. Decorated.i - 1 : Decorated.inst.decs[j] = decorated[Decorated.n][j]
      BY <1>9, <2>1, <2>2, <2>3
    <2> QED BY <2>3, <2>4, <2>5 DEF Dressing
  <1> QED BY <1>1, <1>2, <1>3, <1>4, <1>10, TopDressing

\* What is resolved has been through all of its decorators.
LEMMA ResolvedDecor ==
  ASSUME InjectorAssumption, IInv, DecorInv, Resolved
  PROVE  DecorInv'
  <1>1. Typed /\ Clean /\ At("get") /\ Falls /\ decorated' = decorated /\ Top.i > Len(chain[Top.n])
    BY DEF IInv, Resolved, At, Falls
  <1>2. /\ Gets' = Gets \ {Len(stack)}
        /\ \A g \in Gets' : stack'[g] = stack[g] /\ stack'[g].n # Top.n
        /\ Len(stack) \in Gets /\ Top.n \in Names /\ Top.inst \in Instances
        /\ value' = [value EXCEPT ![Top.n] = Top.inst]
        /\ chain' = [chain EXCEPT ![Top.n] = <<>>]
        /\ phase' = phase
    BY <1>1, ResolvedFacts
  <1>3. phase = "run"
    BY <1>1, <1>2, UntouchedHasNoGets DEF DecorInv
  <1>4. Dressing(Top) /\ Top.i \in Nat
    BY <1>1, TopDresses
  <1>5. PICK n \in Names, inst \in Instances, i \in Nat :
          n = Top.n /\ inst = Top.inst /\ i = Top.i
    BY <1>2, <1>4
  <1>6. inst.decs \in Seq(Decorators) /\ decorated[n] \in Seq(Decorators) /\ inst # Null
    BY <1>1, InjectorAssumption DEF Instances, Typed, TypeOK, InjectorAssumption
  <1>7. inst.decs = decorated[n]
    <2>1. /\ chain[n] = decorated[n] /\ i > Len(decorated[n])
          /\ i > 0 => /\ Len(inst.decs) = i - 1 /\ i <= Len(decorated[n]) + 1
                      /\ \A j \in 1 .. i - 1 : inst.decs[j] = decorated[n][j]
      BY <1>1, <1>4, <1>5 DEF Dressing
    <2>2. Len(inst.decs) \in Nat /\ Len(decorated[n]) \in Nat
      BY <1>6
    <2>3. i > 0 /\ i - 1 = Len(decorated[n]) /\ Len(inst.decs) = Len(decorated[n])
      BY <2>1, <2>2
    <2> QED BY <1>6, <2>1, <2>3
  <1>8. DOMAIN value = Names /\ DOMAIN chain = Names
    BY <1>1 DEF Typed, TypeOK
  <1>9. /\ value'[n] = inst /\ chain'[n] = <<>>
        /\ \A o \in Names : o # n => value'[o] = value[o] /\ chain'[o] = chain[o]
    BY <1>2, <1>5, <1>8
  <1>10. Dressable'
    <2>1. Dressed(n)'
      BY <1>1, <1>6, <1>7, <1>9 DEF Dressed
    <2>2. ASSUME NEW o \in Names, o # n PROVE Raw(o)' \/ Dressed(o)'
      BY <1>1, <1>9, <2>2 DEF DecorInv, Dressable, Raw, Dressed
    <2> QED BY <1>2, <1>3, <2>1, <2>2 DEF Dressable
  <1>11. ASSUME NEW g \in Gets' PROVE Dressing(stack[g])'
    <2>1. g \in Gets /\ stack'[g] = stack[g] /\ stack[g].n # n
      BY <1>2, <1>5
    <2>2. stack[g].n \in Names /\ Dressing(stack[g])
      BY <1>1, <2>1 DEF Typed, WellFormed, Gets, Shaped, DecorInv, GetsDress
    <2> QED BY <1>1, <1>9, <2>1, <2>2 DEF Dressing
  <1>12. Untouched'
    BY <1>2, <1>3 DEF Untouched
  <1> QED BY <1>10, <1>11, <1>12 DEF DecorInv, GetsDress

\* The other steps leave alone what is cached and what is decorated.
LEMMA OtherDecor ==
  ASSUME InjectorAssumption, IInv, DecorInv,
         \/ \E n \in Names : ProviderGetFails(n) \/ GetCached(n) \/ GetThrows(n)
         \/ Throw \/ Return \/ Catch \/ Propagate \/ Boot \/ ProviderMade \/ GetFails
  PROVE  DecorInv'
  <1> USE DEF booting, registry, calls, history, DecorInv
  <1>1. Typed /\ PhaseAgrees /\ (phase = "config" \/ phase = "run")
    BY DEF IInv, LoadInv, Typed, TypeOK
  <1>2. ASSUME stack' = stack, UNCHANGED <<value, chain, decorated>>,
               phase' = phase \/ phase' = "run"
        PROVE  DecorInv'
    <2>1. Gets' = Gets
      BY <1>2 DEF Gets
    <2>2. Untouched'
      BY <1>2 DEF Untouched
    <2> QED BY <1>1, <1>2, <2>1, <2>2, DressingKept
  <1>3. ASSUME Falls, UNCHANGED <<value, chain, decorated, phase>>
        PROVE  DecorInv'
    <2>1. Gets' \subseteq Gets /\ \A g \in Gets' : stack'[g] = stack[g]
      BY <1>1, <1>3, FallsGets DEF Typed
    <2>2. Untouched'
      BY <1>1, <1>3, UntouchedFalls DEF Typed
    <2> QED BY <1>1, <1>3, <2>1, <2>2, DressingKept
  <1>4. ASSUME NEW kinds, NEW contexts, Begins(kinds, contexts), "get" \notin kinds,
               phase = "config" => contexts \subseteq {"ctor", "config"},
               stack # <<>> => Top.k # "get",
               UNCHANGED <<value, chain, decorated, phase>>
        PROVE  DecorInv'
    <2>1. Untouched'
      BY <1>1, <1>4, UntouchedBegins DEF Typed
    <2> QED BY <1>1, <1>4, <2>1, BeginsDressing
  <1>5. ASSUME NEW n \in Names, ProviderGetFails(n) \/ GetCached(n) \/ GetThrows(n)
        PROVE  DecorInv'
    BY <1>2, <1>5 DEF ProviderGetFails, GetCached, GetThrows
  <1>6. CASE Throw \/ Return \/ Propagate \/ CollectBlocks \/ Unwind \/ ProviderMade \/ GetFails
    BY <1>3, <1>6 DEF Throw, Return, Propagate, CollectBlocks, Unwind, ProviderMade, GetFails,
                      May, InUser, Loading, At, Caught, Falls
  <1>7. CASE Catch \/ ModuleNotFound \/ LoadDone \/ ConfigDone \/ RunDone \/ Uncaught
    <2>1. /\ stack' = stack /\ UNCHANGED <<value, chain, decorated>>
          /\ phase' = phase \/ phase' = "run"
      BY <1>7 DEF Catch, ModuleNotFound, LoadDone, ConfigDone, RunDone, Uncaught
    <2> QED BY <1>2, <2>1
  <1>8. CASE LoadEntry
    <2>1. stack = <<>> /\ Begins({"load"}, {}) /\ UNCHANGED <<value, chain, decorated, phase>>
      BY <1>1, <1>8, LoadEntryBegins DEF LoadEntry, Idle, Typed
    <2> QED BY <1>4, <2>1
  <1>9. CASE LoadRequired
    <2>1. Top.k = "load" /\ Begins({"load"}, {}) /\ UNCHANGED <<value, chain, decorated, phase>>
      BY <1>1, <1>9, LoadRequiredBegins DEF LoadRequired, Loading, At, Typed
    <2> QED BY <1>4, <2>1
  <1>10. CASE InvokeBlock
    <2>1. /\ stack = <<>> /\ Begins({"user"}, {boot}) /\ UNCHANGED <<value, chain, decorated, phase>>
          /\ boot \in {"config", "run"}
      BY <1>1, <1>10, InvokeBlockBegins DEF InvokeBlock, Idle, Typed
    <2>2. phase = "config" => {boot} \subseteq {"ctor", "config"}
      BY <1>1, <2>1 DEF PhaseAgrees
    <2> QED BY <1>4, <2>1, <2>2
  <1>11. CASE BeginTurn
    <2>1. /\ stack = <<>> /\ Begins({"user"}, {"run"}) /\ UNCHANGED <<value, chain, decorated, phase>>
          /\ boot = "ready"
      BY <1>1, <1>11, BeginTurnBegins DEF BeginTurn, Idle, Typed
    <2>2. phase # "config"
      BY <1>1, <2>1 DEF PhaseAgrees
    <2> QED BY <1>4, <2>1, <2>2
  <1> QED BY <1>5, <1>6, <1>7, <1>8, <1>9, <1>10, <1>11 DEF Boot

\* As long as provider constructors and config blocks do not resolve services
\* themselves, a name has one instance, made by every decorator of its chain in
\* order (get, applyDecoratorChain).
THEOREM InstancesAreWhole ==
  ASSUME "get" \notin Ops["ctor"] \cup Ops["config"]
  PROVE  Spec => []OneInstance
  <1>1. Init => DecorInv
    <2> SUFFICES ASSUME Init PROVE DecorInv
      OBVIOUS
    <2>1. DOMAIN stack = {} /\ Gets = {}
      BY DEF Init, Gets
    <2>2. Dressable
      BY DEF Init, Dressable, Raw, Instance
    <2> QED BY <2>1, <2>2 DEF DecorInv, GetsDress, Untouched
  <1>2. IInv /\ DecorInv /\ [Next]_vars => DecorInv'
    <2> SUFFICES ASSUME IInv, DecorInv, [Next]_vars PROVE DecorInv'
      OBVIOUS
    <2>1. CASE Next
      BY <2>1, InjectorAssumption, RegisterDecor, GetResolvesDecor, ProducedDecor, DecorateDecor,
         ResolvedDecor, OtherDecor DEF Next, UserOp, Engine
    <2>2. CASE UNCHANGED vars
      <3>1. stack' = stack /\ UNCHANGED <<value, chain, decorated, phase>>
        BY <2>2 DEF vars, booting, registry, calls, history
      <3>2. Gets' = Gets
        BY <3>1 DEF Gets
      <3>3. Untouched'
        BY <3>1 DEF DecorInv, Untouched
      <3> QED BY <3>1, <3>2, <3>3, DressingKept DEF DecorInv, IInv
    <2> QED BY <2>1, <2>2
  <1>3. IInv /\ DecorInv => OneInstance
    <2> SUFFICES ASSUME IInv, DecorInv PROVE OneInstance
      OBVIOUS
    <2>1. TypeOK /\ Singleton
      BY DEF IInv, Typed, Clean, HandedIsCached, Singleton
    <2>2. ASSUME NEW n \in Names, NEW inst \in handed[n] PROVE inst.decs = decorated[n]
      <3>1. Settled(n) /\ inst = value[n]
        BY <2>2 DEF IInv, Clean, HandedIsCached
      <3>2. Raw(n) \/ Dressed(n)
        BY DEF DecorInv, Dressable
      <3> QED BY <3>1, <3>2 DEF Settled, Raw, Dressed
    <2> QED BY <2>1, <2>2 DEF OneInstance, DecoratedInOrder
  <1> QED BY <1>1, <1>2, <1>3, Invariant, PTL DEF Spec
=============================================================================
