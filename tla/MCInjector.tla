----------------------------- MODULE MCInjector -----------------------------
(***************************************************************************)
(* Injector on two services and three modules.                             *)
(***************************************************************************)
EXTENDS Injector, TLC

CONSTANTS m1, m2, m3, a, b, d, e

MCEntry == <<m1, m3>>

\* A shared module, a cycle, a module that is missing.
MCRequiresChoices ==
  {(m1 :> <<m2, m3>>) @@ (m2 :> <<m3>>) @@ (m3 :> <<>>),
   (m1 :> <<m2>>)     @@ (m2 :> <<m1>>) @@ (m3 :> <<m2>>),
   (m1 :> <<Null>>)   @@ (m2 :> <<>>)   @@ (m3 :> <<>>)}

\* No config block and no constructor uses $injector.
MCOps ==
  [ctor      |-> {"provide", "throw"},
   config    |-> {"provide", "providerGet"},
   factory   |-> {"provide", "get", "throw"},
   decorator |-> {"get", "throw"},
   run       |-> {"provide", "get"}]
=============================================================================
