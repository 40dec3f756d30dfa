---------------------------- MODULE AbstractHttp ----------------------------
(***************************************************************************)
(* What $http promises the callers of its server stage, whatever caches,    *)
(* in-flight sharing, timers and aborts do underneath: a request reports    *)
(* one outcome and keeps it; it is the outcome of its own exchange with the *)
(* server, or, for a cacheable request, of an exchange for the same key;    *)
(* and no two exchanges for one key are ever outstanding together.          *)
(***************************************************************************)
CONSTANTS
  Requests,
  Keys,          \* what cacheable requests may share: URLs
  NoKey          \* the key of a request that is not cacheable

VARIABLES
  key,           \* the key of each request, once the server stage has it
  exchange,      \* its own exchange with the server: none, out, ok or fail
  result         \* what it reports: none, pending, ok or fail

vars == <<key, exchange, result>>

Init ==
  /\ key = [r \in Requests |-> NoKey]
  /\ exchange = [r \in Requests |-> "none"]
  /\ result = [r \in Requests |-> "none"]

Ask(r, k, st) ==
  /\ result[r] = "none"
  /\ key' = [key EXCEPT ![r] = k]
  /\ result' = [result EXCEPT ![r] = st]

\* A request with an exchange of its own.
Open(r, k) ==
  /\ Ask(r, k, "pending")
  /\ k # NoKey => \A s \in Requests : key[s] = k => exchange[s] # "out"
  /\ exchange' = [exchange EXCEPT ![r] = "out"]

\* One that is refused before anything is sent.
Refuse(r, k) == Ask(r, k, "fail") /\ UNCHANGED exchange

\* The exchanges whose outcome a request with key k may report.
Shareable(k) == {s \in Requests : k # NoKey /\ key[s] = k /\ exchange[s] # "none"}

\* One that will report what another exchange gives.
Join(r, k) == Ask(r, k, "pending") /\ Shareable(k) # {} /\ UNCHANGED exchange

\* One that is answered from the store, where only successes are.
Serve(r, k) ==
  /\ Ask(r, k, "ok")
  /\ \E s \in Shareable(k) : exchange[s] = "ok"
  /\ UNCHANGED exchange

Answer(r, st) ==
  /\ exchange[r] = "out"
  /\ exchange' = [exchange EXCEPT ![r] = st]
  /\ result' = [result EXCEPT ![r] = st]
  /\ UNCHANGED key

Share(r, st) ==
  /\ result[r] = "pending" /\ exchange[r] = "none"
  /\ \E s \in Shareable(key[r]) : exchange[s] = st
  /\ result' = [result EXCEPT ![r] = st]
  /\ UNCHANGED <<key, exchange>>

Next ==
  \E r \in Requests :
    \/ \E k \in Keys \cup {NoKey} : Open(r, k) \/ Refuse(r, k) \/ Join(r, k) \/ Serve(r, k)
    \/ \E st \in {"ok", "fail"} : Answer(r, st) \/ Share(r, st)

Spec == Init /\ [][Next]_vars
=============================================================================
