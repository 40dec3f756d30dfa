------------------------------- MODULE Timers -------------------------------
(***************************************************************************)
(* $timeout and $interval: the registries that make a task cancellable, the *)
(* browser's timers, the promises of the tasks and the digest around each   *)
(* call of a callback.  Callbacks and the watches of that digest are        *)
(* application code, which may schedule and cancel any task.                *)
(*                                                                         *)
(* A task is a call of $timeout or $interval; its callback and its options  *)
(* are chosen with it.  The promise of a task is its outcome: what follows  *)
(* from an outcome is module Q's.                                           *)
(***************************************************************************)
EXTENDS Naturals, Sequences, FiniteSets

CONSTANTS
  Tasks,         \* numbers above 0: the calls of $timeout and $interval
  Timeouts,      \* those of $timeout
  Count,         \* the repetitions of a task: 1 of a timeout, 0 of an endless interval
  SkipsApply,    \* the tasks with invokeApply = false
  MaxTicks,      \* bound: calls of one callback
  MaxNesting     \* bound: timers fired by a clock driven from inside a digest

ASSUME TimersAssumption ==
  /\ Tasks \subseteq Nat \ {0} /\ Timeouts \subseteq Tasks
  /\ \A t \in Tasks : Count[t] \in Nat
  /\ MaxTicks \in Nat /\ MaxNesting \in Nat

Timeout(t) == t \in Timeouts

VARIABLES
  entry,         \* the tasks in deferreds or intervals
  timer,         \* the tasks whose browser timer is armed
  promise,       \* per task: "none", "pending", "canceled", "rejected" or "resolved"
  iteration,     \* per task: iteration, and for a timeout the calls of its callback
  progress,      \* per task: the last iteration reported by notify
  calls          \* the callbacks and digests in progress, the running one first

taskVars == <<entry, timer, promise, iteration, progress, calls>>

\* A call of onFire or onTick, in its callback or in the digest of $apply; a
\* failed one has an exception to report when it ends.
Call(t, at, failed) == [task |-> t, at |-> at, failed |-> failed]
\* A digest that application code started itself.
OwnDigest == Call(0, "digest", FALSE)

Running == calls[1]
Returns == Tail(calls)
At(at) == calls # <<>> /\ Running.at = at

Init ==
  /\ entry = {} /\ timer = {}
  /\ promise = [t \in Tasks |-> "none"]
  /\ iteration = [t \in Tasks |-> 0] /\ progress = [t \in Tasks |-> 0]
  /\ calls = <<>>

Settle(t, outcome) == IF promise[t] = "pending" THEN [promise EXCEPT ![t] = outcome] ELSE promise

-----------------------------------------------------------------------------
(* Application code: in a turn of its own, in a callback or in a digest     *)

Schedule(t) ==
  /\ promise[t] = "none"
  /\ entry' = entry \cup {t} /\ timer' = timer \cup {t}
  /\ promise' = [promise EXCEPT ![t] = "pending"]
  /\ UNCHANGED <<iteration, progress, calls>>

\* A mistake the properties rule out: the browser's timer goes on.
CancelKeepsTimer(t) ==
  /\ t \in entry
  /\ entry' = entry \ {t}
  /\ promise' = Settle(t, "canceled")
  /\ UNCHANGED <<timer, iteration, progress, calls>>

Cancel(t) ==
  /\ t \in entry
  /\ entry' = entry \ {t} /\ timer' = timer \ {t}
  /\ promise' = Settle(t, "canceled")
  /\ UNCHANGED <<iteration, progress, calls>>

BeginDigest ==
  /\ calls = <<>>
  /\ calls' = <<OwnDigest>>
  /\ UNCHANGED <<entry, timer, promise, iteration, progress>>

-----------------------------------------------------------------------------
(* A timer fires                                                            *)

InDigest == \E k \in DOMAIN calls : calls[k].at = "digest"

\* The event loop runs a timer that is due; the clock behind the injected
\* defer and setInterval may also be driven from inside a digest.  A timeout
\* leaves its registry before its callback runs.
Fires(t) ==
  /\ t \in timer /\ iteration[t] < MaxTicks
  /\ calls = <<>> \/ (At("digest") /\ Len(calls) < MaxNesting)
  /\ entry' = IF Timeout(t) THEN entry \ {t} ELSE entry
  /\ timer' = IF Timeout(t) THEN timer \ {t} ELSE timer
  /\ iteration' = [iteration EXCEPT ![t] = @ + 1]
  /\ calls' = <<Call(t, IF t \in SkipsApply \/ InDigest THEN "bare" ELSE "applied", FALSE)>> \o calls
  /\ UNCHANGED <<promise, progress>>

\* The callback ends, by a throw or not.  run resolves a timeout with what the
\* callback returned, and $apply digests in either case.
CallbackEnds(failed) ==
  /\ At("bare") \/ At("applied")
  /\ calls' = <<Call(Running.task, IF Running.at = "applied" THEN "digest" ELSE "end", failed)>>
              \o Returns
  /\ promise' = IF Timeout(Running.task) /\ ~failed THEN Settle(Running.task, "resolved") ELSE promise
  /\ UNCHANGED <<entry, timer, iteration, progress>>

\* The digest of $apply ends, or throws for want of convergence.
DigestEnds(failed) ==
  /\ At("digest")
  /\ calls' = IF Running = OwnDigest THEN Returns
              ELSE <<Call(Running.task, "end", failed \/ Running.failed)>> \o Returns
  /\ UNCHANGED <<entry, timer, promise, iteration, progress>>

\* A mistake the properties rule out: the exception is reported and no more.
FireEndsUnrejected ==
  /\ At("end") /\ Timeout(Running.task)
  /\ calls' = Returns
  /\ UNCHANGED <<entry, timer, promise, iteration, progress>>

\* The rest of onFire: an exception, the callback's or the digest's, rejects.
FireEnds ==
  /\ At("end") /\ Timeout(Running.task)
  /\ promise' = IF Running.failed THEN Settle(Running.task, "rejected") ELSE promise
  /\ calls' = Returns
  /\ UNCHANGED <<entry, timer, iteration, progress>>

\* The rest of onTick: progress, and the end of a run that is capped.
TickEnds ==
  /\ At("end") /\ ~Timeout(Running.task)
  /\ LET t == Running.task
         last == Count[t] > 0 /\ iteration[t] >= Count[t]
     IN  /\ progress' = IF promise[t] = "pending"
                        THEN [progress EXCEPT ![t] = iteration[t]] ELSE progress
         /\ entry' = IF last THEN entry \ {t} ELSE entry
         /\ timer' = IF last THEN timer \ {t} ELSE timer
         /\ promise' = IF last THEN Settle(t, "resolved") ELSE promise
  /\ calls' = Returns
  /\ UNCHANGED iteration

Application == ~At("end")

Next ==
  \/ \E t \in Tasks : Application /\ Schedule(t)
  \/ \E t \in Tasks : Application /\ Cancel(t)
  \/ BeginDigest
  \/ \E t \in Tasks : Fires(t)
  \/ \E failed \in BOOLEAN : CallbackEnds(failed)
  \/ \E failed \in BOOLEAN : DigestEnds(failed)
  \/ FireEnds
  \/ TickEnds

Spec == Init /\ [][Next]_taskVars

Engine == FireEnds \/ TickEnds \/ (\E failed \in BOOLEAN : CallbackEnds(failed) \/ DigestEnds(failed))

\* Calls return, and a timer that stays due fires: the event loop starves none.
Fairness == WF_taskVars(Engine) /\ \A t \in Tasks : SF_taskVars(Fires(t))

FairSpec == Spec /\ Fairness

-----------------------------------------------------------------------------
(* Properties                                                              *)

TypeOK ==
  /\ entry \subseteq Tasks /\ timer \subseteq Tasks
  /\ promise \in [Tasks -> {"none", "pending", "canceled", "rejected", "resolved"}]
  /\ iteration \in [Tasks -> 0 .. MaxTicks] /\ progress \in [Tasks -> 0 .. MaxTicks]
  /\ calls \in Seq([task : Tasks \cup {0}, at : {"bare", "applied", "digest", "end"},
                    failed : BOOLEAN])

\* Whoever holds the promise of a task can still stop it exactly as long as a
\* timer is armed for it, and nothing is armed for a promise that is settled: a
\* cancel inside the callback, a callback that throws and a digest that fails
\* after the callback returned all leave the registries exact.
Registered ==
  /\ entry = timer
  /\ \A t \in entry : promise[t] = "pending"
  /\ \A t \in Tasks : promise[t] = "pending" =>
       t \in entry \/ \E k \in DOMAIN calls : calls[k].task = t

\* A capped interval that was not cancelled resolves with what it reported last,
\* and not before its last repetition, also when callbacks threw, digests failed
\* or a tick overtook another.
CountKept ==
  \A t \in Tasks \ Timeouts : promise[t] = "resolved" =>
    0 < Count[t] /\ Count[t] <= progress[t] /\ progress[t] = iteration[t]

\* The registries of $timeout and $interval are exact, whatever callbacks and
\* digests do in between (timeout.ts, interval.ts).
RegistryExact == TypeOK /\ Registered /\ CountKept

\* It resolves after exactly that many repetitions (async-types.ts:192).
CountExact ==
  \A t \in Tasks \ Timeouts : promise[t] = "resolved" => iteration[t] = Count[t]

\* After cancel returned true the callback is not called again.
CanceledIsSilent ==
  [][\A t \in Tasks : promise[t] = "canceled" =>
       iteration'[t] = iteration[t] /\ promise'[t] = "canceled"]_taskVars

\* Every timeout and every capped interval settles, by its end or a cancel: there
\* is always a time to come when none is pending.
TasksSettle == []<>(\A t \in Tasks : Count[t] > 0 => promise[t] # "pending")
=============================================================================
