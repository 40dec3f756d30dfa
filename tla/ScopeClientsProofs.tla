------------------------- MODULE ScopeClientsProofs -------------------------
(***************************************************************************)
(* Proofs about what lives on the digest cycle and keeps a state of its own. *)
(* Timers, for any number of tasks, of repetitions and of calls that a clock *)
(* driven from inside a digest nests: the registries of $timeout and         *)
(* $interval are exact, a capped interval keeps its count, and what was      *)
(* cancelled is silent.  What shares no state with them: a group of any      *)
(* number of watches, collections of any size and content, the rows of       *)
(* ngRepeat for them, the event directives on any tree of scopes, and the    *)
(* order in which the nodes of any trees link.                               *)
(***************************************************************************)
EXTENDS Timers, SequenceFacts, FiniteSetTheorems, TLAPS

CONSTANTS
  Watches, Groups, Values, Unseen, ListenerMay, Passes, \* of WatchGroup
  Items, Undefined, Keys, MaxLength,                    \* of WatchCollection
  Entries, MaxRows, Cases, Default, Shapes, InLink, MaxIds, \* of Structural
  Scopes, Root, Chain, LocalDigests, MaxEvents, MaxCalls, MaxDepth, \* of DomEvents
  Nodes, Kids, Hosts, Conflicting, Bound, Roots, LinkTimes, MaxFailures \* of Linking

VARIABLES
  group, gCell, gLast, newValues, oldValues, scheduled, gFirstRun, live, queued, lastDirty,
  gPass, gAt, dirty, heard,
  value, old, oldLength, due, cFirstRun, veryOld, delegate, detaching, watching, seen,
  disturbed,
  sKind, shape, dom, rows, alive, shown, outer, sMade, sCall, wanted,
  ePhase, frames, eQueue, eTimer, fired, eCalls, ran, listening, unnoticed, eFailed,
  linked, lQueue, drains, waiting, arrived, lCancelled, lDead, linkers, lFailures, lThrown, done

G == INSTANCE WatchGroup WITH
       cell <- gCell, last <- gLast, firstRun <- gFirstRun, pass <- gPass, at <- gAt

C == INSTANCE WatchCollection WITH firstRun <- cFirstRun

St == INSTANCE Structural WITH
        Items <- Entries, kind <- sKind, made <- sMade, call <- sCall

Ev == INSTANCE DomEvents WITH
        phase <- ePhase, stack <- frames, queue <- eQueue, timer <- eTimer, calls <- eCalls,
        unseen <- unnoticed, failed <- eFailed

Lk == INSTANCE Linking WITH
        Links <- LinkTimes, queue <- lQueue, cancelled <- lCancelled, dead <- lDead,
        stack <- linkers, failures <- lFailures, thrown <- lThrown

-----------------------------------------------------------------------------
(* $timeout and $interval                                                   *)

CallRecords ==
  [task : Tasks \cup {0}, at : {"bare", "applied", "digest", "end"}, failed : BOOLEAN]

Outcomes == {"none", "pending", "canceled", "rejected", "resolved"}

\* The calls in progress, in no order.
Active == Those(calls)

\* A call that begins, and the running one.
LEMMA CallsOps ==
  ASSUME TypeOK
  PROVE  /\ \A c \in CallRecords : /\ <<c>> \o calls \in Seq(CallRecords)
                                   /\ Those(<<c>> \o calls) = {c} \cup Active
         /\ calls # <<>> =>
              /\ Running \in CallRecords /\ Returns \in Seq(CallRecords)
              /\ Active = {Running} \cup Those(Returns)
              /\ \A c \in CallRecords : /\ <<c>> \o Returns \in Seq(CallRecords)
                                        /\ Those(<<c>> \o Returns) = {c} \cup Those(Returns)
  <1>1. calls \in Seq(CallRecords)
    BY DEF TypeOK, CallRecords
  <1>2. \A c \in CallRecords : /\ <<c>> \o calls \in Seq(CallRecords)
                               /\ Those(<<c>> \o calls) = {c} \cup Active
    BY <1>1, ConsFacts DEF Active
  <1>3. ASSUME calls # <<>>
        PROVE  /\ Running \in CallRecords /\ Returns \in Seq(CallRecords)
               /\ Active = {Running} \cup Those(Returns)
    BY <1>1, <1>3, TailFacts DEF Active, Running, Returns
  <1> QED BY <1>2, <1>3, ConsFacts

LEMMA ActiveTyped ==
  ASSUME TypeOK
  PROVE  \A c \in Active : c \in CallRecords /\ c.task \in Tasks \cup {0}
  <1>1. calls \in Seq(CallRecords)
    BY DEF TypeOK, CallRecords
  <1>2. \A k \in DOMAIN calls : calls[k] \in CallRecords
    BY <1>1, ElementOfSeq
  <1>3. \A c \in CallRecords : c.task \in Tasks \cup {0}
    BY DEF CallRecords
  <1> QED BY <1>2, <1>3 DEF Active, Those

-----------------------------------------------------------------------------
(* Type correctness                                                        *)

LEMMA SettleType ==
  ASSUME TypeOK, NEW t \in Tasks, NEW o \in Outcomes
  PROVE  Settle(t, o) \in [Tasks -> Outcomes]
  BY DEF Settle, TypeOK, Outcomes

\* What a call with a task is a call of.
CallOwner ==
  \A c \in Active : c.task = 0 => c = OwnDigest

LEMMA TypeStep ==
  ASSUME TypeOK, CallOwner, [Next]_taskVars
  PROVE  TypeOK'
  <1> USE DEF Outcomes
  <1>1. CASE UNCHANGED taskVars
    BY <1>1 DEF TypeOK, taskVars
  <1>2. ASSUME NEW t \in Tasks, Schedule(t) PROVE TypeOK'
    BY <1>2 DEF Schedule, TypeOK
  <1>3. ASSUME NEW t \in Tasks, Cancel(t) PROVE TypeOK'
    BY <1>3, SettleType DEF Cancel, TypeOK
  <1>4. CASE BeginDigest
    BY <1>4 DEF BeginDigest, OwnDigest, Call, TypeOK
  <1>5. ASSUME NEW t \in Tasks, Fires(t) PROVE TypeOK'
    <2>1. \A at \in {"bare", "applied"} : <<Call(t, at, FALSE)>> \o calls \in Seq(CallRecords)
      BY CallsOps, TimersAssumption DEF Call, CallRecords
    <2>2. calls' \in Seq(CallRecords)
      BY <1>5, <2>1 DEF Fires
    <2>3. iteration' \in [Tasks -> 0 .. MaxTicks]
      BY <1>5, TimersAssumption DEF Fires, TypeOK
    <2> QED BY <1>5, <2>2, <2>3 DEF Fires, TypeOK, CallRecords
  <1>6. ASSUME calls # <<>>
        PROVE  /\ Running \in CallRecords /\ Running \in Active
               /\ Returns \in Seq(CallRecords)
               /\ \A at \in {"end", "digest"}, failed \in BOOLEAN :
                    <<Call(Running.task, at, failed)>> \o Returns \in Seq(CallRecords)
    <2>1. /\ Running \in CallRecords /\ Running \in Active
          /\ Returns \in Seq(CallRecords)
      BY <1>6, CallsOps
    <2>2. \A at \in {"end", "digest"}, failed \in BOOLEAN : Call(Running.task, at, failed) \in CallRecords
      BY <2>1 DEF Call, CallRecords
    <2> QED BY <2>1, <2>2, CallsOps
  <1>7. ASSUME NEW failed \in BOOLEAN, CallbackEnds(failed) PROVE TypeOK'
    <2>1. calls # <<>> /\ Running.at \in {"bare", "applied"}
      BY <1>7 DEF CallbackEnds, At
    <2>2. Running.task \in Tasks
      BY <1>6, <2>1 DEF CallOwner, OwnDigest, Call, CallRecords
    <2>3. calls' \in Seq(CallRecords)
      BY <1>6, <1>7, <2>1 DEF CallbackEnds
    <2>4. promise' \in [Tasks -> Outcomes]
      BY <1>7, <2>2, SettleType DEF CallbackEnds, TypeOK
    <2> QED BY <1>7, <2>3, <2>4 DEF CallbackEnds, TypeOK, CallRecords
  <1>8. ASSUME NEW failed \in BOOLEAN, DigestEnds(failed) PROVE TypeOK'
    <2>1. calls # <<>>
      BY <1>8 DEF DigestEnds, At
    <2>2. (failed \/ Running.failed) \in BOOLEAN
      BY <1>6, <2>1 DEF CallRecords
    <2>3. calls' \in Seq(CallRecords)
      BY <1>6, <1>8, <2>1, <2>2 DEF DigestEnds
    <2> QED BY <1>8, <2>3 DEF DigestEnds, TypeOK, CallRecords
  <1>9. CASE FireEnds
    <2>1. calls # <<>> /\ Running.at = "end"
      BY <1>9 DEF FireEnds, At
    <2>2. Running.task \in Tasks
      BY <1>6, <2>1 DEF CallOwner, OwnDigest, Call, CallRecords
    <2> QED BY <1>6, <1>9, <2>1, <2>2, SettleType DEF FireEnds, TypeOK, CallRecords
  <1>10. CASE TickEnds
    <2>1. calls # <<>> /\ Running.at = "end"
      BY <1>10 DEF TickEnds, At
    <2>2. Running.task \in Tasks
      BY <1>6, <2>1 DEF CallOwner, OwnDigest, Call, CallRecords
    <2> QED BY <1>6, <1>10, <2>1, <2>2, SettleType DEF TickEnds, TypeOK, CallRecords
  <1> QED BY <1>1, <1>2, <1>3, <1>4, <1>5, <1>7, <1>8, <1>9, <1>10 DEF Next

-----------------------------------------------------------------------------
(* The registries                                                          *)

\* A task with a call in progress has been scheduled; a timeout has left its
\* registry by then, and after its callback is settled or has failed.
FiredOnce ==
  \A c \in Active : c.task # 0 =>
    /\ promise[c.task] # "none"
    /\ c.task \in Timeouts =>
         /\ c.task \notin entry
         /\ c.at \in {"digest", "end"} /\ ~c.failed => promise[c.task] # "pending"

\* A task that is pending is in its registry, unless it is a timeout that has
\* fired and whose call is in progress.
PendingHeld ==
  \A t \in Tasks : promise[t] = "pending" =>
    t \in entry \/ (t \in Timeouts /\ \E c \in Active : c.task = t)

IInv ==
  /\ TypeOK /\ CallOwner /\ FiredOnce /\ PendingHeld /\ CountKept
  /\ entry = timer /\ \A t \in entry : promise[t] = "pending"

\* What a step of a call in progress starts from.
LEMMA RunningOwner ==
  ASSUME IInv, calls # <<>>
  PROVE  /\ Running \in Active /\ Running \in CallRecords
         /\ Active = {Running} \cup Those(Returns)
         /\ Running.at # "digest" \/ Running.failed => Running.task \in Tasks
         /\ Running # OwnDigest => Running.task \in Tasks
  <1>1. /\ Running \in Active /\ Running \in CallRecords
        /\ Active = {Running} \cup Those(Returns)
    BY CallsOps DEF IInv
  <1>2. Running.task = 0 => Running = OwnDigest
    BY <1>1 DEF IInv, CallOwner
  <1> QED BY <1>1, <1>2 DEF OwnDigest, Call, CallRecords

LEMMA ScheduleStep ==
  ASSUME IInv, NEW t \in Tasks, Schedule(t), TypeOK'
  PROVE  IInv'
  <1>1. Active' = Active
    BY DEF Schedule, Active, Those
  <1>2. promise[t] = "none" /\ promise' = [promise EXCEPT ![t] = "pending"]
    BY DEF Schedule
  <1>3. \A u \in Tasks : promise'[u] = IF u = t THEN "pending" ELSE promise[u]
    BY <1>2 DEF IInv, TypeOK
  <1>4. \A c \in Active : c.task # t
    BY <1>2, TimersAssumption DEF IInv, FiredOnce
  <1>5. \A c \in Active : c.task \in Tasks \cup {0}
    BY ActiveTyped DEF IInv
  <1>6. FiredOnce' /\ CallOwner'
    BY <1>1, <1>3, <1>4, <1>5 DEF Schedule, IInv, FiredOnce, CallOwner
  <1>7. PendingHeld'
    BY <1>1, <1>3 DEF Schedule, IInv, PendingHeld
  <1>8. CountKept'
    BY <1>3 DEF Schedule, IInv, CountKept
  <1>9. entry' = timer' /\ \A u \in entry' : promise'[u] = "pending"
    BY <1>3 DEF Schedule, IInv, TypeOK
  <1> QED BY <1>6, <1>7, <1>8, <1>9 DEF IInv

LEMMA CancelStep ==
  ASSUME IInv, NEW t \in Tasks, Cancel(t), TypeOK'
  PROVE  IInv'
  <1>1. Active' = Active
    BY DEF Cancel, Active, Those
  <1>2. t \in entry /\ promise[t] = "pending"
    BY DEF Cancel, IInv
  <1>3. \A u \in Tasks : promise'[u] = IF u = t THEN "canceled" ELSE promise[u]
    BY <1>2 DEF Cancel, Settle, IInv, TypeOK
  <1>4. \A c \in Active : c.task \in Tasks \cup {0}
    BY ActiveTyped DEF IInv
  <1>5. FiredOnce' /\ CallOwner'
    BY <1>1, <1>3, <1>4 DEF Cancel, IInv, FiredOnce, CallOwner
  <1>6. PendingHeld'
    BY <1>1, <1>3 DEF Cancel, IInv, PendingHeld
  <1>7. CountKept'
    BY <1>3 DEF Cancel, IInv, CountKept
  <1>8. entry' = timer' /\ \A u \in entry' : promise'[u] = "pending"
    BY <1>3 DEF Cancel, IInv, TypeOK
  <1> QED BY <1>5, <1>6, <1>7, <1>8 DEF IInv

LEMMA FiresStep ==
  ASSUME IInv, NEW t \in Tasks, Fires(t), TypeOK'
  PROVE  IInv'
  <1>1. PICK c \in CallRecords : /\ calls' = <<c>> \o calls
                                 /\ c.task = t /\ c.at \in {"bare", "applied"}
    <2> DEFINE at == IF t \in SkipsApply \/ InDigest THEN "bare" ELSE "applied"
    <2>1. Call(t, at, FALSE) \in CallRecords
      BY DEF Call, CallRecords
    <2>2. calls' = <<Call(t, at, FALSE)>> \o calls
      BY DEF Fires
    <2>3. Call(t, at, FALSE).task = t /\ Call(t, at, FALSE).at \in {"bare", "applied"}
      BY DEF Call
    <2> QED BY <2>1, <2>2, <2>3
  <1>2. Active' = {c} \cup Active
    BY <1>1, CallsOps DEF IInv, Active
  <1>3. t \in entry /\ promise[t] = "pending"
    BY DEF Fires, IInv
  <1>4. CallOwner'
    BY <1>1, <1>2, TimersAssumption DEF IInv, CallOwner
  <1>5. FiredOnce'
    BY <1>1, <1>2, <1>3 DEF Fires, Timeout, IInv, FiredOnce
  <1>6. PendingHeld'
    BY <1>1, <1>2 DEF Fires, Timeout, IInv, PendingHeld
  <1>7. CountKept'
    BY <1>3 DEF Fires, IInv, TypeOK, CountKept
  <1>8. entry' = timer' /\ \A u \in entry' : promise'[u] = "pending"
    BY DEF Fires, IInv
  <1> QED BY <1>4, <1>5, <1>6, <1>7, <1>8 DEF IInv

LEMMA CallbackEndsStep ==
  ASSUME IInv, NEW failed \in BOOLEAN, CallbackEnds(failed), TypeOK'
  PROVE  IInv'
  <1> DEFINE r == Running.task
             c == Call(r, IF Running.at = "applied" THEN "digest" ELSE "end", failed)
  <1>1. calls # <<>> /\ Running.at \in {"bare", "applied"}
    BY DEF CallbackEnds, At
  <1>2. Running \in Active /\ Running \in CallRecords /\ Active = {Running} \cup Those(Returns)
        /\ r \in Tasks
    BY <1>1, RunningOwner
  <1>3. c \in CallRecords /\ c.task = r /\ c.at \in {"digest", "end"} /\ c.failed = failed
    BY <1>2 DEF Call, CallRecords
  <1>4. Active' = {c} \cup Those(Returns)
    BY <1>1, <1>3, CallsOps DEF CallbackEnds, IInv, Active
  <1>5. \A u \in Tasks : promise'[u] =
          IF u = r /\ r \in Timeouts /\ ~failed /\ promise[r] = "pending"
          THEN "resolved" ELSE promise[u]
    BY <1>2 DEF CallbackEnds, Timeout, Settle, IInv, TypeOK
  <1>6. \A d \in Active : d.task \in Tasks \cup {0}
    BY ActiveTyped DEF IInv
  <1>7. CallOwner'
    BY <1>2, <1>3, <1>4, TimersAssumption DEF IInv, CallOwner
  <1>8. FiredOnce'
    <2>1. ASSUME NEW d \in Those(Returns), d.task # 0
          PROVE  /\ promise'[d.task] # "none"
                 /\ d.task \in Timeouts =>
                      /\ d.task \notin entry'
                      /\ d.at \in {"digest", "end"} /\ ~d.failed => promise'[d.task] # "pending"
      BY <1>2, <1>5, <1>6, <2>1 DEF CallbackEnds, IInv, FiredOnce
    <2>2. /\ promise'[r] # "none"
          /\ r \in Timeouts => /\ r \notin entry'
                               /\ ~failed => promise'[r] # "pending"
      BY <1>2, <1>5, TimersAssumption DEF CallbackEnds, IInv, FiredOnce
    <2> QED BY <1>3, <1>4, <2>1, <2>2 DEF FiredOnce
  <1>9. PendingHeld'
    BY <1>2, <1>3, <1>4, <1>5 DEF CallbackEnds, IInv, PendingHeld
  <1>10. CountKept'
    BY <1>2, <1>5 DEF CallbackEnds, IInv, CountKept
  <1>11. entry' = timer' /\ \A u \in entry' : promise'[u] = "pending"
    BY <1>2, <1>5, TimersAssumption DEF CallbackEnds, IInv, TypeOK, FiredOnce
  <1> QED BY <1>7, <1>8, <1>9, <1>10, <1>11 DEF IInv

LEMMA DigestEndsStep ==
  ASSUME IInv, NEW failed \in BOOLEAN, DigestEnds(failed), TypeOK'
  PROVE  IInv'
  <1>1. calls # <<>> /\ Running.at = "digest"
    BY DEF DigestEnds, At
  <1>2. Running \in Active /\ Running \in CallRecords /\ Active = {Running} \cup Those(Returns)
    BY <1>1, RunningOwner
  <1>3. CASE Running = OwnDigest
    <2>1. Active' = Those(Returns)
      BY <1>3 DEF DigestEnds, Active
    <2>2. Running.task = 0
      BY <1>3 DEF OwnDigest, Call
    <2>3. 0 \notin Tasks
      BY TimersAssumption
    <2>4. PendingHeld'
      BY <1>2, <2>1, <2>2, <2>3 DEF DigestEnds, IInv, PendingHeld
    <2> QED BY <1>2, <2>1, <2>4 DEF DigestEnds, IInv, CallOwner, FiredOnce, CountKept
  <1>4. CASE Running # OwnDigest
    <2> DEFINE c == Call(Running.task, "end", failed \/ Running.failed)
    <2>1. Running.task \in Tasks
      BY <1>1, <1>4, RunningOwner
    <2>2. (failed \/ Running.failed) \in BOOLEAN
      BY <1>2 DEF CallRecords
    <2>3. c \in CallRecords /\ c.task = Running.task /\ c.at = "end"
          /\ (~c.failed => ~Running.failed)
      BY <1>2, <2>2 DEF Call, CallRecords
    <2>4. Active' = {c} \cup Those(Returns)
      BY <1>1, <1>4, <2>3, CallsOps DEF DigestEnds, IInv, Active
    <2>5. CallOwner'
      BY <1>2, <2>1, <2>3, <2>4, TimersAssumption DEF IInv, CallOwner
    <2>6. FiredOnce'
      BY <1>1, <1>2, <2>3, <2>4 DEF DigestEnds, IInv, FiredOnce
    <2>7. PendingHeld'
      BY <1>2, <2>3, <2>4 DEF DigestEnds, IInv, PendingHeld
    <2> QED BY <2>5, <2>6, <2>7 DEF DigestEnds, IInv, CountKept
  <1> QED BY <1>3, <1>4

LEMMA FireEndsStep ==
  ASSUME IInv, FireEnds, TypeOK'
  PROVE  IInv'
  <1> DEFINE r == Running.task
  <1>1. calls # <<>> /\ Running.at = "end" /\ r \in Timeouts
    BY DEF FireEnds, At, Timeout
  <1>2. Running \in Active /\ Running \in CallRecords /\ Active = {Running} \cup Those(Returns)
        /\ r \in Tasks
    BY <1>1, RunningOwner
  <1>3. Active' = Those(Returns)
    BY DEF FireEnds, Active
  <1>4. \A u \in Tasks : promise'[u] =
          IF u = r /\ Running.failed /\ promise[r] = "pending" THEN "rejected" ELSE promise[u]
    BY <1>2 DEF FireEnds, Settle, IInv, TypeOK
  <1>5. promise'[r] # "pending"
    BY <1>1, <1>2, <1>4, TimersAssumption DEF IInv, FiredOnce
  <1>6. \A d \in Active : d.task \in Tasks \cup {0}
    BY ActiveTyped DEF IInv
  <1>7. CallOwner' /\ FiredOnce'
    BY <1>2, <1>3, <1>4, <1>6 DEF FireEnds, IInv, CallOwner, FiredOnce
  <1>8. PendingHeld'
    BY <1>2, <1>3, <1>4, <1>5 DEF FireEnds, IInv, PendingHeld
  <1>9. CountKept'
    BY <1>1, <1>4 DEF FireEnds, IInv, CountKept
  <1>10. entry' = timer' /\ \A u \in entry' : promise'[u] = "pending"
    BY <1>1, <1>2, <1>4, TimersAssumption DEF FireEnds, IInv, TypeOK, FiredOnce
  <1> QED BY <1>7, <1>8, <1>9, <1>10 DEF IInv

LEMMA TickEndsStep ==
  ASSUME IInv, TickEnds, TypeOK'
  PROVE  IInv'
  <1> DEFINE r == Running.task
             last == Count[r] > 0 /\ iteration[r] >= Count[r]
  <1>1. calls # <<>> /\ Running.at = "end" /\ r \notin Timeouts
    BY DEF TickEnds, At, Timeout
  <1>2. Running \in Active /\ Running \in CallRecords /\ Active = {Running} \cup Those(Returns)
        /\ r \in Tasks
    BY <1>1, RunningOwner
  <1>3. Active' = Those(Returns)
    BY DEF TickEnds, Active
  <1>4. \A u \in Tasks : promise'[u] =
          IF u = r /\ last /\ promise[r] = "pending" THEN "resolved" ELSE promise[u]
    BY <1>2 DEF TickEnds, Settle, IInv, TypeOK
  <1>5. \A u \in Tasks : progress'[u] =
          IF u = r /\ promise[r] = "pending" THEN iteration[r] ELSE progress[u]
    BY <1>2 DEF TickEnds, IInv, TypeOK
  <1>6. \A d \in Active : d.task \in Tasks \cup {0}
    BY ActiveTyped DEF IInv
  <1>7. entry' \subseteq entry /\ entry' = timer' /\ (last => r \notin entry')
        /\ \A u \in entry : u # r \/ ~last => u \in entry'
    BY DEF TickEnds, IInv
  <1>8. CallOwner' /\ FiredOnce'
    BY <1>1, <1>2, <1>3, <1>4, <1>6, <1>7 DEF IInv, CallOwner, FiredOnce
  <1>9. PendingHeld'
    BY <1>1, <1>2, <1>3, <1>4, <1>7 DEF IInv, PendingHeld
  <1>10. CountKept'
    <2>1. ASSUME NEW t \in Tasks \ Timeouts, promise'[t] = "resolved"
          PROVE  0 < Count[t] /\ Count[t] <= progress'[t] /\ progress'[t] = iteration'[t]
      <3>1. iteration' = iteration
        BY DEF TickEnds
      <3>2. CASE promise[t] = "pending"
        <4>1. t = r /\ last
          BY <1>4, <2>1, <3>2
        <4>2. Count[t] \in Nat /\ iteration[t] \in Nat
          BY TimersAssumption DEF IInv, TypeOK
        <4> QED BY <1>5, <3>1, <3>2, <4>1, <4>2
      <3>3. CASE promise[t] # "pending"
        BY <1>4, <1>5, <2>1, <3>1, <3>3 DEF IInv, CountKept
      <3> QED BY <3>2, <3>3
    <2> QED BY <2>1 DEF CountKept
  <1>11. \A u \in entry' : promise'[u] = "pending"
    BY <1>4, <1>7 DEF IInv, TypeOK
  <1> QED BY <1>7, <1>8, <1>9, <1>10, <1>11 DEF IInv

LEMMA BeginDigestStep ==
  ASSUME IInv, BeginDigest, TypeOK'
  PROVE  IInv'
  <1>1. calls = <<>> /\ calls' = <<OwnDigest>>
    BY DEF BeginDigest
  <1>2. OwnDigest \in CallRecords /\ OwnDigest.task = 0
    BY DEF OwnDigest, Call, CallRecords
  <1>3. Active = {}
    BY <1>1 DEF Active, Those
  <1>4. Active' = {OwnDigest}
    <2>1. calls' = <<OwnDigest>> \o calls /\ calls \in Seq(CallRecords)
      BY <1>1, <1>2 DEF IInv, TypeOK, CallRecords
    <2> QED BY <1>2, <1>3, <2>1, CallsOps DEF IInv, Active
  <1>5. CallOwner' /\ FiredOnce'
    BY <1>2, <1>4 DEF CallOwner, FiredOnce
  <1>6. PendingHeld'
    BY <1>3 DEF BeginDigest, IInv, PendingHeld
  <1> QED BY <1>5, <1>6 DEF BeginDigest, IInv, CountKept

\* The invariant is inductive.
LEMMA InvariantStep ==
  ASSUME IInv, [Next]_taskVars
  PROVE  IInv'
  <1>1. TypeOK'
    BY TypeStep DEF IInv
  <1>2. CASE UNCHANGED taskVars
    BY <1>1, <1>2 DEF taskVars, IInv, CallOwner, FiredOnce, PendingHeld, CountKept, Active, Those
  <1> QED BY <1>1, <1>2, ScheduleStep, CancelStep, BeginDigestStep, FiresStep, CallbackEndsStep,
             DigestEndsStep, FireEndsStep, TickEndsStep DEF Next

LEMMA InvariantInit ==
  ASSUME Init
  PROVE  IInv
  <1>1. calls \in Seq(CallRecords)
    BY DEF Init
  <1>2. Active = {}
    BY DEF Init, Active, Those
  <1>3. TypeOK
    BY <1>1, TimersAssumption DEF Init, TypeOK, CallRecords
  <1> QED BY <1>2, <1>3 DEF Init, IInv, CallOwner, FiredOnce, PendingHeld, CountKept

\* The invariant says what is promised.
LEMMA InvariantSuffices ==
  ASSUME IInv
  PROVE  RegistryExact
  BY DEF IInv, PendingHeld, Active, Those, RegistryExact, Registered

\* $timeout and $interval keep their registries: an entry, an armed timer and a
\* pending promise are there together, whatever callbacks, digests and nested
\* ticks throw, cancel or schedule, and a capped interval resolves with its count.
THEOREM RegistriesExact == Spec => []RegistryExact
  <1>1. Init => IInv
    BY InvariantInit
  <1>2. IInv /\ [Next]_taskVars => IInv'
    BY InvariantStep
  <1>3. IInv => RegistryExact
    BY InvariantSuffices
  <1> QED BY <1>1, <1>2, <1>3, PTL DEF Spec

-----------------------------------------------------------------------------
(* What was cancelled                                                      *)

LEMMA SilentStep ==
  ASSUME IInv, [Next]_taskVars, NEW t \in Tasks, promise[t] = "canceled"
  PROVE  iteration'[t] = iteration[t] /\ promise'[t] = "canceled"
  <1>1. t \notin timer
    BY DEF IInv
  <1>2. promise[t] \notin {"none", "pending"} /\ iteration \in [Tasks -> 0 .. MaxTicks]
        /\ promise \in [Tasks -> Outcomes]
    BY DEF IInv, TypeOK, Outcomes
  <1>3. ASSUME NEW u, NEW o PROVE Settle(u, o)[t] = promise[t]
    BY <1>2 DEF Settle, Outcomes
  <1>4. CASE UNCHANGED taskVars
    BY <1>4 DEF taskVars
  <1>5. ASSUME NEW u \in Tasks, Schedule(u) \/ Cancel(u)
        PROVE  iteration'[t] = iteration[t] /\ promise'[t] = "canceled"
    BY <1>2, <1>3, <1>5 DEF Schedule, Cancel, Outcomes
  <1>6. ASSUME NEW u \in Tasks, Fires(u)
        PROVE  iteration'[t] = iteration[t] /\ promise'[t] = "canceled"
    BY <1>1, <1>2, <1>6 DEF Fires
  <1>7. ASSUME NEW failed \in BOOLEAN, CallbackEnds(failed) \/ DigestEnds(failed)
        PROVE  iteration'[t] = iteration[t] /\ promise'[t] = "canceled"
    BY <1>3, <1>7 DEF CallbackEnds, DigestEnds
  <1>8. CASE BeginDigest \/ FireEnds \/ TickEnds
    BY <1>3, <1>8 DEF BeginDigest, FireEnds, TickEnds
  <1> QED BY <1>4, <1>5, <1>6, <1>7, <1>8 DEF Next

\* After cancel returned true neither the callback nor anything else comes of
\* the task: its timer is not armed, and its promise keeps the cancellation.
THEOREM CanceledSilent == Spec => CanceledIsSilent
  <1>1. Init => IInv
    BY InvariantInit
  <1>2. IInv /\ [Next]_taskVars => IInv'
    BY InvariantStep
  <1>3. IInv /\ [Next]_taskVars =>
          [\A t \in Tasks : promise[t] = "canceled" =>
             iteration'[t] = iteration[t] /\ promise'[t] = "canceled"]_taskVars
    BY SilentStep
  <1> QED BY <1>1, <1>2, <1>3, PTL DEF Spec, CanceledIsSilent

-----------------------------------------------------------------------------
(* The count of an interval, where no clock is driven from inside a digest  *)

\* One call at a time: what has not ended has repetitions to go, or is in the
\* last of them.
CountInv ==
  /\ IInv
  /\ Len(calls) <= 1
  /\ \A t \in Tasks \ Timeouts :
       /\ promise[t] = "none" => iteration[t] = 0
       /\ promise[t] = "pending" /\ Count[t] > 0 =>
            \/ iteration[t] < Count[t]
            \/ iteration[t] = Count[t] /\ calls # <<>> /\ Running.task = t
       /\ promise[t] = "resolved" => iteration[t] = Count[t]

LEMMA CountStep ==
  ASSUME MaxNesting <= 1, CountInv, [Next]_taskVars
  PROVE  CountInv'
  <1>1. IInv'
    BY InvariantStep DEF CountInv
  <1>2. calls \in Seq(CallRecords) /\ Len(calls) \in Nat
    BY DEF CountInv, IInv, TypeOK, CallRecords
  <1>3. /\ promise \in [Tasks -> Outcomes] /\ iteration \in [Tasks -> 0 .. MaxTicks]
        /\ MaxTicks \in Nat /\ \A t \in Tasks : Count[t] \in Nat /\ iteration[t] \in Nat
    BY TimersAssumption DEF CountInv, IInv, TypeOK, Outcomes
  <1>4. ASSUME calls # <<>>
        PROVE  /\ Returns = <<>> /\ Returns \in Seq(CallRecords) /\ Running \in CallRecords
               /\ \A c \in CallRecords : /\ Len(<<c>> \o Returns) = 1
                                        /\ (<<c>> \o Returns)[1] = c
    <2>1. /\ Len(calls) \in Nat \ {0} /\ Running \in CallRecords /\ Returns \in Seq(CallRecords)
          /\ Len(Returns) = Len(calls) - 1
      BY <1>2, <1>4, TailFacts DEF Running, Returns
    <2>2. Len(Returns) = 0
      BY <2>1 DEF CountInv
    <2> QED BY <2>1, <2>2, EmptySeq, ConsFacts
  <1>5. CASE UNCHANGED taskVars
    BY <1>1, <1>5 DEF taskVars, CountInv, Running
  <1>6. ASSUME NEW t \in Tasks, Schedule(t) PROVE CountInv'
    BY <1>1, <1>3, <1>6 DEF Schedule, CountInv, Running
  <1>7. ASSUME NEW t \in Tasks, Cancel(t) PROVE CountInv'
    BY <1>1, <1>3, <1>7 DEF Cancel, Settle, CountInv, Running
  <1>8. CASE BeginDigest
    <2>1. Len(calls') = 1
      BY <1>8 DEF BeginDigest
    <2> QED BY <1>1, <1>3, <1>8, <2>1 DEF BeginDigest, CountInv
  <1>9. ASSUME NEW t \in Tasks, Fires(t) PROVE CountInv'
    <2>0. MaxNesting \in Nat /\ (calls # <<>> => Len(calls) # 0)
      BY <1>2, EmptySeq, TimersAssumption
    <2>1. calls = <<>> /\ promise[t] = "pending"
      BY <1>2, <1>9, <2>0 DEF Fires, CountInv, IInv, At
    <2>2. Len(calls') = 1 /\ calls' # <<>> /\ Running'.task = t
      BY <1>9, <2>1 DEF Fires, Running, Call
    <2>3. \A u \in Tasks : iteration'[u] = IF u = t THEN iteration[u] + 1 ELSE iteration[u]
      BY <1>3, <1>9 DEF Fires
    <2>4. promise' = promise
      BY <1>9 DEF Fires
    <2> QED BY <1>1, <1>3, <2>1, <2>2, <2>3, <2>4 DEF CountInv
  <1>10. ASSUME NEW failed \in BOOLEAN, CallbackEnds(failed) PROVE CountInv'
    <2> DEFINE c == Call(Running.task, IF Running.at = "applied" THEN "digest" ELSE "end", failed)
    <2>1. calls # <<>> /\ Running.at \in {"bare", "applied"}
      BY <1>10 DEF CallbackEnds, At
    <2>2. Running.task \in Tasks
      BY <2>1, RunningOwner DEF CountInv
    <2>3. c \in CallRecords /\ c.task = Running.task
      BY <2>2 DEF Call, CallRecords
    <2>4. Len(calls') = 1 /\ calls' # <<>> /\ Running' = c
      BY <1>4, <1>10, <2>1, <2>3 DEF CallbackEnds, Running
    <2>5. \A u \in Tasks \ Timeouts : promise'[u] = promise[u]
      BY <1>3, <1>10, <2>2 DEF CallbackEnds, Settle, Timeout
    <2>6. iteration' = iteration
      BY <1>10 DEF CallbackEnds
    <2> QED BY <1>1, <1>3, <2>1, <2>3, <2>4, <2>5, <2>6 DEF CountInv
  <1>11. ASSUME NEW failed \in BOOLEAN, DigestEnds(failed) PROVE CountInv'
    <2> DEFINE c == Call(Running.task, "end", failed \/ Running.failed)
    <2>1. calls # <<>> /\ UNCHANGED <<promise, iteration>>
      BY <1>11 DEF DigestEnds, At
    <2>2. CASE Running = OwnDigest
      <3>1. calls' = <<>> /\ 0 \notin Tasks /\ Running.task = 0
        BY <1>4, <1>11, <2>1, <2>2, TimersAssumption DEF DigestEnds, OwnDigest, Call
      <3> QED BY <1>1, <1>3, <2>1, <3>1 DEF CountInv
    <2>3. CASE Running # OwnDigest
      <3>1. c \in CallRecords /\ c.task = Running.task
        BY <1>4, <2>1 DEF Call, CallRecords
      <3>2. Len(calls') = 1 /\ calls' # <<>> /\ Running' = c
        BY <1>4, <1>11, <2>1, <2>3, <3>1 DEF DigestEnds, Running
      <3> QED BY <1>1, <1>3, <2>1, <3>1, <3>2 DEF CountInv
    <2> QED BY <2>2, <2>3
  <1>12. CASE FireEnds
    <2>1. calls # <<>> /\ Running.task \in Timeouts /\ calls' = Returns /\ iteration' = iteration
      BY <1>12 DEF FireEnds, At, Timeout
    <2>2. \A u \in Tasks \ Timeouts : promise'[u] = promise[u]
      BY <1>3, <1>12, <2>1 DEF FireEnds, Settle
    <2> QED BY <1>1, <1>3, <1>4, <2>1, <2>2 DEF CountInv
  <1>13. CASE TickEnds
    <2> DEFINE t == Running.task
    <2>1. calls # <<>> /\ t \notin Timeouts /\ calls' = Returns /\ iteration' = iteration
          /\ Running.at = "end"
      BY <1>13 DEF TickEnds, At, Timeout
    <2>2. t \in Tasks
      BY <2>1, RunningOwner DEF CountInv, OwnDigest, Call
    <2>3. \A u \in Tasks : promise'[u] =
            IF u = t /\ Count[t] > 0 /\ iteration[t] >= Count[t] /\ promise[t] = "pending"
            THEN "resolved" ELSE promise[u]
      BY <1>3, <1>13, <2>2 DEF TickEnds, Settle
    <2> QED BY <1>1, <1>3, <1>4, <2>1, <2>2, <2>3 DEF CountInv
  <1> QED BY <1>5, <1>6, <1>7, <1>8, <1>9, <1>10, <1>11, <1>12, <1>13 DEF Next

\* Where every tick has ended before the next one fires, an interval resolves
\* after exactly its count; run interval_count shows that a tick which fires in
\* the digest of another one makes it resolve with more.
THEOREM CountsExact ==
  ASSUME MaxNesting <= 1
  PROVE  Spec => []CountExact
  <1>1. Init => CountInv
    BY InvariantInit DEF Init, CountInv
  <1>2. CountInv /\ [Next]_taskVars => CountInv'
    BY CountStep
  <1>3. CountInv => CountExact
    BY DEF CountInv, CountExact
  <1> QED BY <1>1, <1>2, <1>3, PTL DEF Spec

-----------------------------------------------------------------------------
(* $watchGroup                                                             *)

\* What a group is made of: the watches of a scope, some of which are grouped.
GroupGiven(n) ==
  /\ n \in Nat /\ Watches = 1 .. n
  /\ Groups \subseteq SUBSET Watches
  /\ Unseen \notin Values /\ Passes \in Nat

\* No call of the listener throws: the rest of its reaction would be lost.
GroupInv == G!TypeOK /\ G!Coalesced

\* What the listener was called with is what the watches of the group saw last.
Heard ==
  \A i \in group : gLast[i] # Unseen /\ queued = 0 => heard = G!Grouped(newValues)

UpToDate(i) == G!Watched(i) => gCell[i] = gLast[i]

\* A pass has seen everything above where it is, up to the watcher that was dirty
\* last; and what comes after that one is clean until something else is dirty.
GroupPass ==
  gPass > 0 =>
    IF dirty THEN /\ gAt < lastDirty
                  /\ \A i \in Watches : gAt < i /\ i < lastDirty => UpToDate(i)
             ELSE /\ \A i \in Watches : gAt < i => UpToDate(i)
                  /\ lastDirty # 0 => \A i \in Watches : i < lastDirty => UpToDate(i)

LEMMA GroupCount ==
  ASSUME NEW n, GroupGiven(n)
  PROVE  G!N = n
  <1>1. Cardinality(1 .. n) = IF 1 > n THEN 0 ELSE n - 1 + 1
    BY FS_Interval DEF GroupGiven
  <1>2. G!Cardinality(Watches) = Cardinality(Watches)
    BY DEF G!Cardinality, Cardinality
  <1> QED BY <1>1, <1>2 DEF GroupGiven, G!N

LEMMA GroupStarts ==
  ASSUME NEW n, GroupGiven(n), G!Init
  PROVE  GroupInv /\ Heard /\ GroupPass
  <1>1. group \subseteq Watches
    BY DEF GroupGiven, G!Init
  <1>2. G!N = n
    BY GroupCount
  <1>3. G!TypeOK
    <2>1. scheduled \in BOOLEAN /\ gFirstRun \in BOOLEAN /\ live \in BOOLEAN /\ dirty \in BOOLEAN
      BY Zenon DEF G!Init
    <2>2. /\ gLast \in [Watches -> Values \cup {Unseen}]
          /\ newValues \in [Watches -> Values \cup {Unseen}]
          /\ oldValues \in [Watches -> Values \cup {Unseen}]
      BY DEF G!Init, G!Before
    <2>3. /\ gCell \in [Watches -> Values] /\ queued \in 0 .. 1
          /\ lastDirty \in 0 .. G!N /\ gPass \in 0 .. Passes /\ gAt \in 0 .. G!N
      BY <1>2 DEF GroupGiven, G!Init
    <2> QED BY <1>1, <2>1, <2>2, <2>3, Zenon DEF G!TypeOK
  <1>4. \A i \in group : gLast[i] = Unseen
    BY <1>1 DEF G!Init, G!Before
  <1>5. group # {} => ~scheduled /\ queued = 0
    BY DEF G!Init
  <1>6. G!Coalesced
    BY <1>4, <1>5 DEF G!Coalesced
  <1>7. Heard /\ GroupPass
    BY <1>4 DEF GroupGiven, G!Init, Heard, GroupPass
  <1> QED BY <1>3, <1>6, <1>7 DEF GroupInv

LEMMA GroupStep ==
  ASSUME NEW n, GroupGiven(n), "throw" \notin ListenerMay, GroupInv, [G!Next]_(G!groupVars)
  PROVE  GroupInv'
  <1> USE DEF GroupGiven, GroupInv
  <1>n. G!N = n /\ (G!N)' = n
    BY GroupCount DEF G!N
  <1>1. CASE UNCHANGED G!groupVars
    <2>1. G!TypeOK'
      BY <1>n, <1>1 DEF G!groupVars, G!TypeOK, G!Coalesced
    <2>2. G!Coalesced'
      BY <1>1 DEF G!groupVars, G!TypeOK, G!Coalesced
    <2> QED BY <2>1, <2>2
  <1>2. ASSUME NEW i \in Watches, NEW v \in Values, G!Assign(i, v) PROVE GroupInv'
    <2>1. G!TypeOK'
      BY <1>n, <1>2 DEF G!Assign, G!TypeOK, G!Coalesced
    <2>2. G!Coalesced'
      BY <1>2 DEF G!Assign, G!TypeOK, G!Coalesced
    <2> QED BY <2>1, <2>2
  <1>3. CASE G!Deregister
    <2>0. (/\ scheduled \in BOOLEAN /\ gFirstRun \in BOOLEAN
           /\ live \in BOOLEAN /\ dirty \in BOOLEAN)'
      BY <1>3, Zenon DEF G!Deregister, G!TypeOK, G!Coalesced
    <2>1. G!TypeOK'
      BY <1>n, <2>0, <1>3 DEF G!Deregister, G!TypeOK, G!Coalesced
    <2>2. G!Coalesced'
      BY <1>3 DEF G!Deregister, G!TypeOK, G!Coalesced
    <2> QED BY <2>1, <2>2
  <1>4. CASE G!BeginDigest
    <2>0. (/\ scheduled \in BOOLEAN /\ gFirstRun \in BOOLEAN
           /\ live \in BOOLEAN /\ dirty \in BOOLEAN)'
      BY <1>4, Zenon DEF G!BeginDigest, G!TypeOK, G!Coalesced
    <2>1. G!TypeOK'
      BY <1>n, <2>0, <1>4 DEF G!BeginDigest, G!TypeOK, G!Coalesced
    <2>2. G!Coalesced'
      BY <1>4 DEF G!BeginDigest, G!TypeOK, G!Coalesced
    <2> QED BY <2>1, <2>2
  <1>5. ASSUME NEW throws \in BOOLEAN, G!CallListener(throws) PROVE GroupInv'
    <2>0. (/\ scheduled \in BOOLEAN /\ gFirstRun \in BOOLEAN
           /\ live \in BOOLEAN /\ dirty \in BOOLEAN)'
      BY <1>5, Zenon DEF G!CallListener, G!Draining, G!Assigned, G!TypeOK, G!Coalesced
    <2>1. G!TypeOK'
      <3>0. gCell \in [Watches -> Values] /\ G!Assigned(ListenerMay)
        BY <1>5 DEF G!CallListener, G!TypeOK
      <3>1. gCell' \in [Watches -> Values]
        <4>1. CASE gCell' = gCell
          BY <3>0, <4>1
        <4>2. ASSUME NEW i \in Watches, NEW v \in Values, gCell' = [gCell EXCEPT ![i] = v]
              PROVE  gCell' \in [Watches -> Values]
          BY <3>0, <4>2
        <4> QED BY <3>0, <4>1, <4>2 DEF G!Assigned
      <3>2. queued' \in 0 .. 1
        BY <1>5 DEF G!CallListener, G!Draining, G!TypeOK
      <3> QED BY <1>n, <2>0, <3>1, <3>2, <1>5 DEF G!CallListener, G!TypeOK
    <2>2. G!Coalesced'
      BY <1>5 DEF G!CallListener, G!Draining, G!Assigned, G!TypeOK, G!Coalesced
    <2> QED BY <2>1, <2>2
  <1>6. CASE G!CallEmpty
    <2>1. G!TypeOK'
      BY <1>n, <1>6 DEF G!CallEmpty, G!Draining, G!TypeOK, G!Coalesced
    <2>2. G!Coalesced'
      BY <1>6 DEF G!CallEmpty, G!Draining, G!TypeOK, G!Coalesced
    <2> QED BY <2>1, <2>2
  <1>7. ASSUME NEW i \in Watches, G!EmptySlot(i) PROVE GroupInv'
    <2>1. G!TypeOK'
      BY <1>n, <1>7 DEF G!EmptySlot, G!Visits, G!TypeOK, G!Coalesced
    <2>2. G!Coalesced'
      BY <1>7 DEF G!EmptySlot, G!Visits, G!TypeOK, G!Coalesced
    <2> QED BY <2>1, <2>2
  <1>8. ASSUME NEW i \in Watches, G!GroupDirty(i) PROVE GroupInv'
    <2>1. G!TypeOK'
      BY <1>n, <1>8 DEF G!GroupDirty, G!Seen, G!Visits, G!TypeOK, G!Coalesced
    <2>2. G!Coalesced'
      BY <1>8 DEF G!GroupDirty, G!Seen, G!Visits, G!TypeOK, G!Coalesced
    <2> QED BY <2>1, <2>2
  <1>9. ASSUME NEW i \in Watches, G!OtherDirty(i) PROVE GroupInv'
    <2>1. G!TypeOK'
      BY <1>n, <1>9 DEF G!OtherDirty, G!Seen, G!Visits, G!Assigned, G!TypeOK, G!Coalesced
    <2>2. G!Coalesced'
      BY <1>9 DEF G!OtherDirty, G!Seen, G!Visits, G!Assigned, G!TypeOK, G!Coalesced
    <2> QED BY <2>1, <2>2
  <1>10. ASSUME NEW i \in Watches, G!Clean(i) PROVE GroupInv'
    <2>1. G!TypeOK'
      BY <1>n, <1>10 DEF G!Clean, G!Visits, G!TypeOK, G!Coalesced
    <2>2. G!Coalesced'
      BY <1>10 DEF G!Clean, G!Visits, G!TypeOK, G!Coalesced
    <2> QED BY <2>1, <2>2
  <1>11. CASE G!PassEnds
    <2>0. (/\ scheduled \in BOOLEAN /\ gFirstRun \in BOOLEAN
           /\ live \in BOOLEAN /\ dirty \in BOOLEAN)'
      BY <1>11, Zenon DEF G!PassEnds, G!TypeOK, G!Coalesced
    <2>1. G!TypeOK'
      BY <1>n, <2>0, <1>11 DEF G!PassEnds, G!TypeOK, G!Coalesced
    <2>2. G!Coalesced'
      BY <1>11 DEF G!PassEnds, G!TypeOK, G!Coalesced
    <2> QED BY <2>1, <2>2
  <1> QED BY <1>1, <1>2, <1>3, <1>4, <1>5, <1>6, <1>7, <1>8, <1>9, <1>10, <1>11 DEF G!Next

LEMMA GroupPassStep ==
  ASSUME NEW n, GroupGiven(n), {"throw", "assign"} \cap ListenerMay = {},
         GroupInv, Heard, GroupPass, [G!Next]_(G!groupVars)
  PROVE  Heard' /\ GroupPass'
  <1> USE GroupCount DEF GroupGiven, GroupInv, UpToDate, G!Watched
  <1>1. CASE UNCHANGED G!groupVars
    BY <1>1 DEF G!groupVars, Heard, GroupPass, G!Grouped
  <1>2. ASSUME NEW i \in Watches, NEW v \in Values, G!Assign(i, v) PROVE Heard' /\ GroupPass'
    BY <1>2 DEF G!Assign, Heard, GroupPass, G!Grouped
  <1>3. CASE G!Deregister
    BY <1>3 DEF G!Deregister, Heard, GroupPass, G!Grouped
  <1>4. CASE G!BeginDigest
    BY <1>4 DEF G!BeginDigest, Heard, GroupPass, G!Grouped
  <1>5. ASSUME NEW throws \in BOOLEAN, G!CallListener(throws) PROVE Heard' /\ GroupPass'
    BY <1>5 DEF G!CallListener, G!Draining, G!Assigned, Heard, GroupPass, G!Grouped
  <1>6. CASE G!CallEmpty
    BY <1>6 DEF G!CallEmpty, G!Draining, G!TypeOK, Heard, GroupPass, G!Grouped
  <1>7. ASSUME NEW i \in Watches, G!EmptySlot(i) PROVE Heard' /\ GroupPass'
    BY <1>7 DEF G!EmptySlot, G!Visits, G!TypeOK, Heard, GroupPass, G!Grouped
  <1>8. ASSUME NEW i \in Watches, G!GroupDirty(i) PROVE Heard' /\ GroupPass'
    <2>1. queued' = 1
      BY <1>8 DEF G!GroupDirty, G!TypeOK, G!Coalesced
    <2>2. GroupPass'
      BY <1>8 DEF G!GroupDirty, G!Seen, G!Visits, G!TypeOK, GroupPass
    <2> QED BY <2>1, <2>2 DEF Heard
  <1>9. ASSUME NEW i \in Watches, G!OtherDirty(i) PROVE Heard' /\ GroupPass'
    <2>1. Heard'
      BY <1>9 DEF G!OtherDirty, G!Seen, G!TypeOK, Heard, G!Grouped
    <2>2. GroupPass'
      BY <1>9 DEF G!OtherDirty, G!Seen, G!Visits, G!TypeOK, GroupPass
    <2> QED BY <2>1, <2>2
  <1>10. ASSUME NEW i \in Watches, G!Clean(i) PROVE Heard' /\ GroupPass'
    <2>1. Heard'
      BY <1>10 DEF G!Clean, Heard, G!Grouped
    <2>2. GroupPass'
      BY <1>10 DEF G!Clean, G!Visits, G!TypeOK, GroupPass
    <2> QED BY <2>1, <2>2
  <1>11. CASE G!PassEnds
    <2>1. Heard'
      BY <1>11 DEF G!PassEnds, Heard, G!Grouped
    <2>2. GroupPass'
      BY <1>11 DEF G!PassEnds, G!TypeOK, GroupPass
    <2> QED BY <2>1, <2>2
  <1> QED BY <1>1, <1>2, <1>3, <1>4, <1>5, <1>6, <1>7, <1>8, <1>9, <1>10, <1>11 DEF G!Next

\* However many watches a group has, its listener is queued at most once at a
\* time, exactly while the flag says so, and knows what each watch saw before,
\* unless the listener throws ($watchGroup).
THEOREM GroupsCoalesce ==
  ASSUME NEW n, GroupGiven(n), "throw" \notin ListenerMay
  PROVE  G!Init /\ [][G!Next]_(G!groupVars) => [](G!TypeOK /\ G!Coalesced)
  <1>1. G!Init => GroupInv
    BY GroupStarts
  <1>2. GroupInv /\ [G!Next]_(G!groupVars) => GroupInv'
    BY GroupStep
  <1>3. GroupInv => G!TypeOK /\ G!Coalesced
    BY DEF GroupInv
  <1> QED BY <1>1, <1>2, <1>3, PTL

\* A digest that ends has called the group's listener with the values its watches
\* have, where the listener neither throws nor assigns: a listener that does is
\* called before a pass that may stop at the watcher that was dirty last.
THEOREM GroupsHear ==
  ASSUME NEW n, GroupGiven(n), {"throw", "assign"} \cap ListenerMay = {}
  PROVE  G!Init /\ [][G!Next]_(G!groupVars) => G!GroupHears
  <1>1. G!Init => GroupInv /\ Heard /\ GroupPass
    BY GroupStarts
  <1>2. GroupInv /\ Heard /\ GroupPass /\ [G!Next]_(G!groupVars) => (GroupInv /\ Heard /\ GroupPass)'
    BY GroupStep, GroupPassStep
  <1>3. GroupInv /\ Heard /\ GroupPass /\ [G!Next]_(G!groupVars)
          => [G!PassEnds /\ gPass' = 0 /\ ~dirty /\ queued = 0 /\ live /\ group # {}
                => heard = G!Grouped(gCell)]_(G!groupVars)
    <2> SUFFICES ASSUME GroupInv, Heard, GroupPass, G!PassEnds, ~dirty, queued = 0, live, group # {}
                 PROVE  heard = G!Grouped(gCell)
      OBVIOUS
    <2>1. \A i \in group : gCell[i] = gLast[i] /\ gLast[i] # Unseen
      BY DEF G!PassEnds, GroupPass, UpToDate, G!Watched, GroupInv, G!TypeOK, GroupGiven
    <2>2. \A i \in group : newValues[i] = gCell[i]
      BY <2>1 DEF GroupInv, G!Coalesced
    <2>3. heard = G!Grouped(newValues)
      BY <2>1 DEF Heard
    <2> QED BY <2>2, <2>3 DEF G!Grouped
  <1> QED BY <1>1, <1>2, <1>3, PTL DEF G!GroupHears

-----------------------------------------------------------------------------
(* $watchCollection                                                        *)

CollectionGiven == IsFiniteSet(Keys) /\ MaxLength \in Nat /\ Undefined \in Items

LEMMA SameCount ==
  \A S : C!Cardinality(S) = Cardinality(S)
  BY DEF C!Cardinality, Cardinality

CollectionInv == C!TypeOK /\ C!SnapshotExact

\* The copy made for the listener and the last evaluation.
CopyInv ==
  /\ due => value = seen
  /\ ~due /\ ~cFirstRun /\ ~disturbed => veryOld = seen

\* The three kinds of collection and what they are made of.
LEMMA CollectionForms ==
  ASSUME CollectionGiven, NEW c \in C!Collections
  PROVE  \/ /\ c.kind = "array" /\ c.items \in Seq(Items) /\ Len(c.items) <= MaxLength
            /\ c = C!Array(c.items)
         \/ /\ c.kind = "object" /\ DOMAIN c.items \subseteq Keys
            /\ c.items \in [DOMAIN c.items -> Items]
            /\ c = C!Object(c.items)
         \/ /\ c.kind = "single" /\ c.items[1] \in Items
            /\ c = C!Single(c.items[1])
  <1>1. CASE c \in C!Arrays
    <2>1. PICK m \in 0 .. MaxLength : \E s \in [1 .. m -> Items] : c = C!Array(s)
      BY <1>1 DEF C!Arrays, C!BoundedSeq, C!SeqOf, CollectionGiven
    <2>2. PICK s \in [1 .. m -> Items] : c = C!Array(s)
      BY <2>1
    <2>3. s \in Seq(Items) /\ Len(s) = m
      BY DEF CollectionGiven
    <2> QED BY <2>2, <2>3 DEF C!Array, CollectionGiven
  <1>2. CASE c \in C!Objects
    BY <1>2 DEF C!Objects, C!Object
  <1>3. CASE c \in {C!Single(i) : i \in Items}
    BY <1>3 DEF C!Single
  <1> QED BY <1>1, <1>2, <1>3 DEF C!Collections

\* An array is compared item by item with the snapshot, and with its length.
LEMMA ArrayCompared ==
  ASSUME CollectionGiven, value \in C!Collections, old \in C!Collections, value.kind = "array"
  PROVE  /\ C!CompareArray.old = value /\ C!CompareArray.length = oldLength
         /\ C!CompareArray.differences \in Nat
         /\ C!CompareArray.differences > 0 <=> value # old
  <1> DEFINE start == IF old.kind = "array" THEN old.items ELSE <<>>
             items == value.items
             resized == [i \in 1 .. Len(items) |-> IF i <= Len(start) THEN start[i] ELSE Undefined]
             written == {i \in 1 .. Len(items) : items[i] # resized[i]}
  <1>1. items \in Seq(Items) /\ value = C!Array(items)
    BY CollectionForms
  <1>2. start \in Seq(Items) /\ (old.kind = "array" => old = C!Array(start))
    BY CollectionForms
  <1>3. IsFiniteSet(written) /\ Cardinality(written) \in Nat /\ (Cardinality(written) = 0 <=> written = {})
    <2>1. IsFiniteSet(1 .. Len(items))
      BY <1>1, FS_Interval
    <2>2. IsFiniteSet(written)
      BY <2>1, FS_Subset
    <2> QED BY <2>2, FS_CardinalityType, FS_EmptySet
  <1>4. [i \in 1 .. Len(items) |-> IF i \in written THEN items[i] ELSE resized[i]] = items
    <2>1. items = [i \in 1 .. Len(items) |-> items[i]]
      BY <1>1
    <2>2. \A i \in 1 .. Len(items) : (IF i \in written THEN items[i] ELSE resized[i]) = items[i]
      OBVIOUS
    <2> QED BY <2>1, <2>2
  <1>5. value # old <=> old.kind # "array" \/ Len(items) # Len(start) \/ written # {}
    <2>1. CASE old.kind # "array"
      BY <2>1
    <2>2. CASE old.kind = "array"
      <3>1. value = old <=> items = start
        BY <1>1, <1>2, <2>2 DEF C!Array
      <3>2. ASSUME Len(items) = Len(start), written = {} PROVE items = start
        <4>1. \A i \in 1 .. Len(items) : items[i] = resized[i]
          BY <3>2
        <4>2. \A i \in 1 .. Len(items) : items[i] = start[i]
          BY <1>1, <1>2, <3>2, <4>1
        <4> QED BY <1>1, <1>2, <3>2, <4>2
      <3>3. items = start => Len(items) = Len(start) /\ written = {}
        BY <1>1, <1>2
      <3> QED BY <2>2, <3>1, <3>2, <3>3
    <2> QED BY <2>1, <2>2
  <1>6. C!CompareArray = C!Outcome(C!Array(items), oldLength,
              Cardinality(written) + (IF old.kind = "array" THEN 0 ELSE 1)
                                   + (IF Len(items) = Len(start) THEN 0 ELSE 1))
    BY <1>4, SameCount DEF C!CompareArray
  <1> HIDE DEF start, items, resized, written
  <1>7. C!CompareArray.old = value /\ C!CompareArray.length = oldLength
    BY <1>1, <1>6 DEF C!Outcome
  <1>8. C!CompareArray.differences = Cardinality(written) + (IF old.kind = "array" THEN 0 ELSE 1)
                                       + (IF Len(items) = Len(start) THEN 0 ELSE 1)
    BY <1>6 DEF C!Outcome
  <1> QED BY <1>3, <1>5, <1>7, <1>8

\* An object whose snapshot has the right length: it is looked through for keys
\* that are gone exactly if some are.
LEMMA ObjectCompared ==
  ASSUME CollectionGiven, value \in C!Collections, old \in C!Collections, value.kind = "object",
         old.kind = "object" => oldLength = Cardinality(DOMAIN old.items)
  PROVE  /\ C!CompareObject.old = value
         /\ C!CompareObject.length = Cardinality(DOMAIN value.items)
         /\ C!CompareObject.differences \in Nat
         /\ C!CompareObject.differences > 0 <=> value # old
  <1> DEFINE restart == old.kind # "object"
             start == IF restart THEN <<>> ELSE old.items
             length == IF restart THEN 0 ELSE oldLength
             map == value.items
             added == DOMAIN map \ DOMAIN start
             changed == {k \in DOMAIN map \cap DOMAIN start : map[k] # start[k]}
             written == [k \in DOMAIN map \cup DOMAIN start |->
                           IF k \in added \cup changed THEN map[k] ELSE start[k]]
             shrinks == length + Cardinality(added) > Cardinality(DOMAIN map)
  <1>1. /\ DOMAIN map \subseteq Keys /\ map \in [DOMAIN map -> Items] /\ value = C!Object(map)
        /\ DOMAIN start \subseteq Keys
        /\ ~restart => start \in [DOMAIN start -> Items] /\ old = C!Object(start)
    <2>1. DOMAIN <<>> = {}
      OBVIOUS
    <2> QED BY <2>1, CollectionForms
  <1>2. /\ IsFiniteSet(DOMAIN map) /\ IsFiniteSet(DOMAIN start)
        /\ IsFiniteSet(added) /\ IsFiniteSet(changed)
    BY <1>1, FS_Subset DEF CollectionGiven
  <1>3. length = Cardinality(DOMAIN start)
    BY FS_EmptySet
  <1>4. shrinks <=> ~(DOMAIN start \subseteq DOMAIN map)
    <2>1. Cardinality(DOMAIN start \cup added) = Cardinality(DOMAIN start) + Cardinality(added)
      <3>1. DOMAIN start \cap added = {}
        OBVIOUS
      <3>2. Cardinality(DOMAIN start \cap added) = 0
        BY <3>1, FS_EmptySet
      <3>3. Cardinality(DOMAIN start \cup added)
              = Cardinality(DOMAIN start) + Cardinality(added) - Cardinality(DOMAIN start \cap added)
        BY <1>2, FS_Union
      <3> QED BY <1>2, <3>2, <3>3, FS_CardinalityType
    <2>2. DOMAIN map \subseteq DOMAIN start \cup added
      OBVIOUS
    <2>3. CASE DOMAIN start \subseteq DOMAIN map
      <3>1. DOMAIN start \cup added = DOMAIN map
        BY <2>3
      <3>2. Cardinality(DOMAIN start) + Cardinality(added) = Cardinality(DOMAIN map)
        BY <2>1, <3>1
      <3>3. Cardinality(DOMAIN map) \in Nat
        BY <1>2, FS_CardinalityType
      <3>4. ~shrinks
        BY <1>3, <3>2, <3>3
      <3> QED BY <2>3, <3>4
    <2>4. CASE ~(DOMAIN start \subseteq DOMAIN map)
      <3>1. IsFiniteSet(DOMAIN start \cup added)
        BY <1>2, FS_Union
      <3>2. DOMAIN start \cup added # DOMAIN map
        BY <2>4
      <3>3. Cardinality(DOMAIN map) < Cardinality(DOMAIN start \cup added)
        BY <2>2, <3>1, <3>2, FS_Subset, FS_CardinalityType
      <3> QED BY <1>3, <2>1, <2>4, <3>3
    <2> QED BY <2>3, <2>4
  <1>5. (IF shrinks THEN [k \in DOMAIN map |-> written[k]] ELSE written) = map
    <2>1. \A k \in DOMAIN map : written[k] = map[k]
      OBVIOUS
    <2>2. CASE shrinks
      BY <1>1, <2>1, <2>2
    <2>3. CASE ~shrinks
      <3>1. DOMAIN map \cup DOMAIN start = DOMAIN map
        BY <1>4, <2>3
      <3> QED BY <1>1, <2>1, <2>3, <3>1
    <2> QED BY <2>2, <2>3
  <1>6. /\ Cardinality(added) \in Nat /\ (Cardinality(added) = 0 <=> added = {})
        /\ Cardinality(changed) \in Nat /\ (Cardinality(changed) = 0 <=> changed = {})
    BY <1>2, FS_CardinalityType, FS_EmptySet
  <1>7. value # old <=> restart \/ shrinks \/ added # {} \/ changed # {}
    <2>1. CASE restart
      BY <2>1
    <2>2. CASE ~restart
      <3>1. value = old <=> map = start
        BY <1>1, <2>2 DEF C!Object
      <3>2. map = start <=> ~shrinks /\ added = {} /\ changed = {}
        BY <1>1, <1>4, <2>2
      <3> QED BY <2>2, <3>1, <3>2
    <2> QED BY <2>1, <2>2
  <1>8. C!CompareObject = C!Outcome(C!Object(IF shrinks THEN [k \in DOMAIN map |-> written[k]] ELSE written),
              Cardinality(DOMAIN map),
              Cardinality(added) + Cardinality(changed) + (IF restart THEN 1 ELSE 0)
                                 + (IF shrinks THEN 1 ELSE 0))
    BY SameCount DEF C!CompareObject
  <1> QED BY <1>1, <1>5, <1>6, <1>7, <1>8 DEF C!Outcome

LEMMA SingleCompared ==
  ASSUME CollectionGiven, value \in C!Collections, old \in C!Collections, value.kind = "single"
  PROVE  /\ C!CompareSingle.old = value /\ C!CompareSingle.length = oldLength
         /\ C!CompareSingle.differences \in Nat
         /\ C!CompareSingle.differences > 0 <=> value # old
  <1>1. value = C!Single(value.items[1]) /\ (old.kind = "single" => old = C!Single(old.items[1]))
    BY CollectionForms
  <1>2. value = old <=> old.kind = "single" /\ value.items[1] = old.items[1]
    BY <1>1
  <1> QED BY <1>2 DEF C!CompareSingle, C!Outcome

\* The snapshot an evaluation leaves is the collection, and it counts a difference
\* exactly if the collection is not what the snapshot was.
LEMMA ComparedExactly ==
  ASSUME CollectionGiven, CollectionInv
  PROVE  /\ C!Compared.old = value
         /\ value.kind = "object" => C!Compared.length = Cardinality(DOMAIN value.items)
         /\ value.kind # "object" => C!Compared.length = oldLength
         /\ C!Compared.differences > 0 <=> value # old
  <1>1. value \in C!Collections /\ old \in C!Collections
    BY DEF CollectionInv, C!TypeOK
  <1>2. old.kind = "object" => oldLength = Cardinality(DOMAIN old.items)
    BY SameCount DEF CollectionInv, C!SnapshotExact
  <1>3. value.kind \in {"array", "object", "single"}
    BY <1>1, CollectionForms
  <1>4. CASE value.kind = "array"
    BY <1>1, <1>4, ArrayCompared DEF C!Compared
  <1>5. CASE value.kind = "object"
    BY <1>1, <1>2, <1>5, ObjectCompared DEF C!Compared
  <1>6. CASE value.kind = "single"
    BY <1>1, <1>6, SingleCompared DEF C!Compared
  <1> QED BY <1>3, <1>4, <1>5, <1>6

LEMMA CollectionStarts ==
  ASSUME CollectionGiven, C!Init
  PROVE  CollectionInv /\ CopyInv
  <1>1. C!Nothing \in C!Collections /\ C!Nothing.kind = "single"
    BY DEF CollectionGiven, C!Nothing, C!Collections, C!Single
  <1>2. 0 \in 0 .. C!Cardinality(Keys)
    BY SameCount, FS_CardinalityType DEF CollectionGiven
  <1>3. C!TypeOK
    BY <1>1, <1>2, Zenon DEF C!Init, C!TypeOK
  <1>4. C!SnapshotExact
    BY <1>1 DEF C!Init, C!SnapshotExact
  <1>5. CopyInv
    BY Zenon DEF C!Init, CopyInv
  <1> QED BY <1>3, <1>4, <1>5 DEF CollectionInv

LEMMA CollectionStep ==
  ASSUME CollectionGiven, CollectionInv, [C!Next]_(C!collectionVars)
  PROVE  CollectionInv'
  <1> USE DEF CollectionInv
  <1>1. CASE UNCHANGED C!collectionVars
    BY <1>1 DEF C!collectionVars, C!TypeOK, C!SnapshotExact
  <1>2. ASSUME NEW v \in C!Collections, C!Change(v) PROVE CollectionInv'
    BY <1>2 DEF C!Change, C!TypeOK, C!SnapshotExact
  <1>3. CASE C!Evaluate
    <2>1. /\ old' = value /\ seen' = value /\ value \in C!Collections
          /\ value.kind = "object" => oldLength' = Cardinality(DOMAIN value.items)
          /\ value.kind # "object" => oldLength' = oldLength
      BY <1>3, ComparedExactly DEF C!Evaluate, C!TypeOK
    <2>2. oldLength' \in 0 .. Cardinality(Keys)
      <3>1. CASE value.kind = "object"
        <4>1. DOMAIN value.items \subseteq Keys
          BY <2>1, <3>1, CollectionForms
        <4> QED BY <2>1, <3>1, <4>1, FS_Subset, FS_CardinalityType DEF CollectionGiven
      <3>2. CASE value.kind # "object"
        BY <2>1, <3>2, SameCount DEF C!TypeOK
      <3> QED BY <3>1, <3>2
    <2>3. due' \in BOOLEAN
      BY <1>3, Zenon DEF C!Evaluate
    <2>4. C!TypeOK'
      BY <1>3, <2>1, <2>2, <2>3, SameCount DEF C!Evaluate, C!TypeOK
    <2>5. C!SnapshotExact'
      BY <2>1, SameCount DEF C!SnapshotExact
    <2> QED BY <2>4, <2>5
  <1>4. ASSUME NEW v \in C!Collections, C!Listen(v) PROVE CollectionInv'
    <2>1. {detaching', disturbed'} \subseteq BOOLEAN
      BY <1>4, Zenon DEF C!Listen
    <2>2. C!TypeOK'
      BY <1>4, <2>1 DEF C!Listen, C!TypeOK
    <2>3. C!SnapshotExact'
      BY <1>4 DEF C!Listen, C!SnapshotExact
    <2> QED BY <2>2, <2>3
  <1>5. CASE C!ListenerThrows
    BY <1>5 DEF C!ListenerThrows, C!TypeOK, C!SnapshotExact
  <1>6. CASE C!Detach
    BY <1>6 DEF C!Detach, C!TypeOK, C!SnapshotExact
  <1> QED BY <1>1, <1>2, <1>3, <1>4, <1>5, <1>6 DEF C!Next

LEMMA CopyStep ==
  ASSUME CollectionGiven, CollectionInv, CopyInv, [C!Next]_(C!collectionVars)
  PROVE  CopyInv'
  <1>1. CASE UNCHANGED C!collectionVars
    BY <1>1 DEF C!collectionVars, CopyInv
  <1>2. ASSUME NEW v \in C!Collections, C!Change(v) PROVE CopyInv'
    BY <1>2 DEF C!Change, CopyInv
  <1>3. CASE C!Evaluate
    <2>1. due' <=> cFirstRun \/ value # old
      BY <1>3, ComparedExactly DEF C!Evaluate
    <2>2. ~cFirstRun => old = seen
      BY <1>3 DEF C!Evaluate, CollectionInv, C!SnapshotExact
    <2> QED BY <1>3, <2>1, <2>2 DEF C!Evaluate, CopyInv
  <1>4. ASSUME NEW v \in C!Collections, C!Listen(v) PROVE CopyInv'
    BY <1>4 DEF C!Listen, CopyInv
  <1>5. CASE C!ListenerThrows
    BY <1>5 DEF C!ListenerThrows, CopyInv
  <1>6. CASE C!Detach
    BY <1>6 DEF C!Detach, CopyInv
  <1> QED BY <1>1, <1>2, <1>3, <1>4, <1>5, <1>6 DEF C!Next

\* The listener of $watchCollection is due after an evaluation exactly if the
\* collection is not what it was at the one before, for collections of any size
\* and kind, although only the lengths tell whether a key is gone: the snapshot is
\* a copy of the collection, and its length that of its keys.  The old value it is
\* then given is the collection of the evaluation before, unless its last call threw
\* or changed the collection in place.
THEOREM CollectionsCompared ==
  ASSUME CollectionGiven
  PROVE  C!Init /\ [][C!Next]_(C!collectionVars)
           => [](C!TypeOK /\ C!SnapshotExact) /\ C!ChangeSeen /\ C!OldHanded
  <1>1. C!Init => CollectionInv /\ CopyInv
    BY CollectionStarts
  <1>2. CollectionInv /\ CopyInv /\ [C!Next]_(C!collectionVars) => CollectionInv' /\ CopyInv'
    BY CollectionStep, CopyStep
  <1>3. CollectionInv /\ [C!Next]_(C!collectionVars)
          => [C!Evaluate => (due' <=> cFirstRun \/ value # seen)]_(C!collectionVars)
    <2> SUFFICES ASSUME CollectionInv, C!Evaluate
                 PROVE  due' <=> cFirstRun \/ value # seen
      OBVIOUS
    <2>1. due' <=> cFirstRun \/ value # old
      BY ComparedExactly DEF C!Evaluate
    <2>2. ~cFirstRun => old = seen
      BY DEF CollectionInv, C!SnapshotExact
    <2> QED BY <2>1, <2>2
  <1>4. CollectionInv => C!TypeOK /\ C!SnapshotExact
    BY DEF CollectionInv
  <1>5. CollectionInv /\ CopyInv /\ [C!Next]_(C!collectionVars)
          => [C!Evaluate /\ due' /\ ~cFirstRun /\ ~disturbed
                => C!Handed = seen /\ C!Handed # value]_(C!collectionVars)
    <2> SUFFICES ASSUME CollectionInv, CopyInv, C!Evaluate, due', ~cFirstRun, ~disturbed
                 PROVE  C!Handed = seen /\ C!Handed # value
      OBVIOUS
    <2>1. due' <=> cFirstRun \/ value # old
      BY ComparedExactly DEF C!Evaluate
    <2>2. old = seen
      BY DEF C!Evaluate, CollectionInv, C!SnapshotExact
    <2>3. C!Handed = veryOld /\ veryOld = seen
      BY DEF C!Evaluate, CopyInv, C!Handed
    <2> QED BY <2>1, <2>2, <2>3
  <1> QED BY <1>1, <1>2, <1>3, <1>4, <1>5, PTL DEF C!ChangeSeen, C!OldHanded

-----------------------------------------------------------------------------
(* ngRepeat                                                                *)

Entry(K, V) == [key : K, value : V]

\* The items a collection may contain; code in a row does not destroy the
\* surrounding scope while it links.
RowsGiven(K, V) ==
  Entries \subseteq Entry(K, V) /\ MaxRows \in Nat /\ InLink = FALSE

Line(K, V) == [id : Nat, key : K, value : V, place : Nat, index : Nat, total : Nat]
ToDo(K, V) == [key : K, value : V, place : Nat]
ListenerFields == {"todo", "total", "anchor", "next", "linking", "before"}

\* Keys and scopes of the rows that have a place, or keep it, are distinct.
RowsApart(K, V) ==
  /\ sKind = "repeat" /\ outer \in BOOLEAN /\ sMade \in Nat
  /\ rows \in Seq(Line(K, V)) /\ wanted \in Seq(Entry(K, V))
  /\ \A i \in DOMAIN rows : rows[i].id \in 1 .. sMade
  /\ \A i, j \in DOMAIN rows : rows[i].key = rows[j].key \/ rows[i].id = rows[j].id => i = j
  /\ \A i, j \in DOMAIN wanted : wanted[i].key = wanted[j].key => i = j

\* The listener goes through the items in order.  What it has placed, what is
\* still to place and the rows nobody took over yet add up.
Listening(K, V) ==
  /\ DOMAIN sCall = ListenerFields
  /\ sCall.next \in Seq(Line(K, V)) /\ sCall.todo \in Seq(ToDo(K, V))
  /\ sCall.linking \in BOOLEAN /\ sCall.total = Len(wanted)
  /\ Len(sCall.next) + Len(sCall.todo) = Len(wanted)
  /\ \A k \in DOMAIN sCall.todo :
       /\ sCall.todo[k].key = wanted[Len(sCall.next) + k].key
       /\ sCall.todo[k].value = wanted[Len(sCall.next) + k].value

Placed ==
  /\ \A k \in DOMAIN sCall.next :
       /\ sCall.next[k].key = wanted[k].key /\ sCall.next[k].value = wanted[k].value
       /\ sCall.next[k].index = k - 1 /\ sCall.next[k].total = Len(wanted)
       /\ sCall.next[k].id \in 1 .. sMade
  /\ \A i, j \in DOMAIN sCall.next : sCall.next[i].id = sCall.next[j].id => i = j
  /\ \A i \in DOMAIN rows : \A k \in DOMAIN sCall.next :
       rows[i].id # sCall.next[k].id /\ rows[i].key # sCall.next[k].key

\* A scope is alive for a row that was placed, one to be taken over, and the one
\* being linked, which is for an item that had no row.
Living ==
  /\ alive = St!IdsOf(rows) \cup St!IdsOf(sCall.next) \cup (IF sCall.linking THEN {sMade} ELSE {})
  /\ sCall.linking => /\ sCall.todo # <<>> /\ sMade \in Nat \ {0}
                      /\ \A i \in DOMAIN rows : /\ rows[i].id # sMade
                                                /\ rows[i].key # sCall.todo[1].key
                      /\ \A k \in DOMAIN sCall.next : sCall.next[k].id # sMade

\* The rows there were when the listener began, by the key and id of each.
Kept(b) ==
  \/ \E i \in DOMAIN rows : rows[i].key = b.key /\ rows[i].id = b.id
  \/ \E k \in DOMAIN sCall.next : sCall.next[k].key = b.key /\ sCall.next[k].id = b.id

InListener(K, V) ==
  outer /\ Listening(K, V) /\ Placed /\ Living /\ \A b \in sCall.before : Kept(b)
AtRest ==
  IF outer THEN St!RowsAsAsked ELSE rows = <<>> /\ alive = {}

RowsInv(K, V) ==
  RowsApart(K, V) /\ IF sCall = <<>> THEN AtRest ELSE InListener(K, V)

LEMMA RowsStart ==
  ASSUME NEW K, NEW V, RowsGiven(K, V), St!Init, sKind = "repeat"
  PROVE  RowsInv(K, V)
  BY DEF RowsInv, RowsApart, AtRest, St!Init, St!RowsAsAsked, St!IdsOf

LEMMA EveryKeyOnce ==
  ASSUME NEW K, NEW V, RowsGiven(K, V), NEW items \in Seq(Entries), St!Distinct(items)
  PROVE  \A i, j \in DOMAIN items : items[i].key = items[j].key => i = j
  <1> DEFINE T == {items[k].key : k \in DOMAIN items}
             f == [k \in DOMAIN items |-> items[k].key]
  <1>1. f \in Surjection(DOMAIN items, T)
    BY DEF Surjection
  <1>2. DOMAIN items = 1 .. Len(items) /\ Len(items) \in Nat
    OBVIOUS
  <1>3. IsFiniteSet(DOMAIN items) /\ Cardinality(DOMAIN items) = Len(items)
    BY <1>2, FS_Interval
  <1>4. Cardinality(T) = Len(items)
    BY DEF St!Distinct, St!Cardinality, Cardinality
  <1> HIDE DEF T, f
  <1>5. f \in Injection(DOMAIN items, T)
    BY <1>1, <1>3, <1>4, FS_Surjection
  <1> QED BY <1>5 DEF Injection, IsInjective, f

\* What the listeners change at once: all rows leave, or none.
LEMMA NoRowsStep ==
  ASSUME NEW K, NEW V, RowsGiven(K, V), RowsInv(K, V), St!NoRows
  PROVE  RowsInv(K, V)'
  <1>1. sCall = <<>> /\ sCall' = <<>> /\ outer /\ outer' /\ rows' = <<>> /\ wanted' = <<>>
    BY DEF St!NoRows, St!TearDown, St!Idle
  <1>2. alive' = {} /\ sMade' = sMade /\ sKind' = sKind
    BY <1>1 DEF St!NoRows, St!TearDown, St!Idle, RowsInv, AtRest, St!RowsAsAsked
  <1>3. RowsApart(K, V)'
    BY <1>1, <1>2 DEF RowsInv, RowsApart
  <1>4. AtRest'
    BY <1>1, <1>2 DEF AtRest, St!RowsAsAsked, St!IdsOf
  <1> QED BY <1>1, <1>3, <1>4 DEF RowsInv

LEMMA ReconcileStep ==
  ASSUME NEW K, NEW V, RowsGiven(K, V), RowsInv(K, V),
         NEW items \in St!Collections, St!Reconcile(items)
  PROVE  RowsInv(K, V)'
  <1> DEFINE todo == [k \in DOMAIN items |-> [key |-> items[k].key, value |-> items[k].value, place |-> 1]]
  <1>1. items \in Seq(Entries)
    BY DEF St!Collections, St!BoundedSeq, St!SeqOf, RowsGiven
  <1>2. /\ sCall = <<>> /\ outer /\ outer' /\ rows' = rows /\ wanted' = items
        /\ alive' = alive /\ sMade' = sMade /\ sKind' = sKind
        /\ sCall' = St!Listener(todo) /\ St!Distinct(items)
    BY DEF St!Reconcile, St!Idle, RowsInv, RowsApart
  <1>3. \A k \in DOMAIN items : items[k].key \in K /\ items[k].value \in V
    BY <1>1 DEF RowsGiven, Entry
  <1>4. /\ todo \in Seq(ToDo(K, V)) /\ Len(todo) = Len(items) /\ DOMAIN todo = DOMAIN items
        /\ \A k \in DOMAIN todo : todo[k].key = items[k].key /\ todo[k].value = items[k].value
    <2>1. DOMAIN items = 1 .. Len(items) /\ Len(items) \in Nat
      BY <1>1
    <2>2. todo \in [1 .. Len(items) -> ToDo(K, V)]
      BY <1>3, <2>1 DEF ToDo
    <2>3. todo \in Seq(ToDo(K, V)) /\ Len(todo) = Len(items) /\ DOMAIN todo = DOMAIN items
      BY <2>1, <2>2
    <2> QED BY <2>3
  <1> HIDE DEF todo
  <1>5. /\ DOMAIN sCall' = ListenerFields /\ sCall'.todo = todo /\ sCall'.total = Len(items)
        /\ sCall'.next = <<>> /\ sCall'.linking = FALSE
        /\ sCall'.before = {[key |-> rows[k].key, id |-> rows[k].id] : k \in DOMAIN rows}
    BY <1>2, <1>4 DEF St!Listener, ListenerFields
  <1>6. sCall' # <<>>
    <2>1. "todo" \in DOMAIN sCall' /\ "todo" \notin DOMAIN <<>>
      BY <1>5 DEF ListenerFields
    <2> QED BY <2>1
  <1>7. items \in Seq(Entry(K, V))
    <2>1. \A k \in 1 .. Len(items) : items[k] \in Entry(K, V)
      BY <1>1 DEF RowsGiven
    <2>2. items \in [1 .. Len(items) -> Entry(K, V)] /\ Len(items) \in Nat
      BY <1>1, <2>1
    <2> QED BY <2>2
  <1>8. RowsApart(K, V)'
    <2>1. \A i, j \in DOMAIN items : items[i].key = items[j].key => i = j
      BY <1>1, <1>2, EveryKeyOnce
    <2> QED BY <1>2, <1>7, <2>1 DEF RowsInv, RowsApart
  <1>9. Listening(K, V)'
    <2>1. sCall'.linking \in BOOLEAN
      BY <1>5
    <2>2. /\ sCall'.next \in Seq(Line(K, V)) /\ Len(sCall'.next) = 0
          /\ Len(sCall'.next) + Len(sCall'.todo) = Len(wanted')
      BY <1>1, <1>2, <1>4, <1>5
    <2>3. \A k \in DOMAIN sCall'.todo : /\ sCall'.todo[k].key = wanted'[Len(sCall'.next) + k].key
                                        /\ sCall'.todo[k].value = wanted'[Len(sCall'.next) + k].value
      BY <1>1, <1>2, <1>4, <1>5, <2>2
    <2> QED BY <1>2, <1>4, <1>5, <2>1, <2>2, <2>3, Zenon DEF Listening
  <1>10. Placed'
    BY <1>5 DEF Placed
  <1>11. Living'
    BY <1>2, <1>5 DEF Living, RowsInv, AtRest, St!RowsAsAsked, St!IdsOf
  <1>12. \A b \in sCall'.before : Kept(b)'
    BY <1>2, <1>5 DEF Kept
  <1> QED BY <1>2, <1>6, <1>8, <1>9, <1>10, <1>11, <1>12 DEF RowsInv, InListener

\* The next item of the listener gets a row: an old one or the one just linked.
Places(id) ==
  /\ sCall.todo # <<>> /\ wanted' = wanted
  /\ DOMAIN sCall' = ListenerFields /\ sCall'.todo = Tail(sCall.todo)
  /\ sCall'.next = Append(sCall.next, St!Row(id)) /\ sCall'.linking = FALSE
  /\ sCall'.total = sCall.total /\ sCall'.before = sCall.before

LEMMA PlacesRow ==
  ASSUME NEW K, NEW V, RowsApart(K, V), InListener(K, V), NEW id \in 1 .. sMade, Places(id),
         \A k \in DOMAIN sCall.next : sCall.next[k].id # id
  PROVE  /\ Listening(K, V)' /\ sCall' # <<>>
         /\ \A k \in DOMAIN sCall'.next :
              /\ sCall'.next[k].key = wanted[k].key /\ sCall'.next[k].value = wanted[k].value
              /\ sCall'.next[k].index = k - 1 /\ sCall'.next[k].total = Len(wanted)
              /\ sCall'.next[k].id \in 1 .. sMade
         /\ \A j, k \in DOMAIN sCall'.next : sCall'.next[j].id = sCall'.next[k].id => j = k
         /\ \A k \in DOMAIN sCall.next : k \in DOMAIN sCall'.next /\ sCall'.next[k] = sCall.next[k]
         /\ \A k \in DOMAIN sCall'.next :
              \/ k \in DOMAIN sCall.next
              \/ sCall'.next[k].id = id /\ sCall'.next[k].key = sCall.todo[1].key
         /\ \E k \in DOMAIN sCall'.next :
              sCall'.next[k].id = id /\ sCall'.next[k].key = sCall.todo[1].key
  <1> DEFINE row == St!Row(id)
  <1>1. /\ sCall.next \in Seq(Line(K, V)) /\ sCall.todo \in Seq(ToDo(K, V))
        /\ sCall.total = Len(wanted) /\ Len(sCall.next) + Len(sCall.todo) = Len(wanted)
        /\ Len(wanted) \in Nat /\ sCall.todo # <<>> /\ sMade \in Nat
    <2>1. /\ sCall.next \in Seq(Line(K, V)) /\ sCall.todo \in Seq(ToDo(K, V))
          /\ sCall.total = Len(wanted) /\ sCall.todo # <<>> /\ sMade \in Nat
          /\ Len(sCall.next) + Len(sCall.todo) = Len(wanted) /\ wanted \in Seq(Entry(K, V))
      BY Zenon DEF RowsApart, InListener, Listening, Places
    <2>2. \A s \in Seq(Entry(K, V)) : Len(s) \in Nat
      OBVIOUS
    <2> QED BY <2>1, <2>2, Zenon
  <1>2. /\ Len(sCall.todo) \in Nat \ {0} /\ sCall.todo[1] \in ToDo(K, V)
        /\ Tail(sCall.todo) \in Seq(ToDo(K, V)) /\ Len(Tail(sCall.todo)) = Len(sCall.todo) - 1
        /\ \A k \in 1 .. Len(sCall.todo) - 1 : Tail(sCall.todo)[k] = sCall.todo[k + 1]
    BY <1>1, TailFacts
  <1>3. Len(sCall.next) \in Nat
    BY <1>1
  <1>p. St!Position = Len(sCall.next) /\ St!Item = sCall.todo[1]
    <2>1. \A a, b, c \in Nat : a + b = c => c - b = a
      OBVIOUS
    <2>2. Len(sCall.todo) \in Nat
      BY <1>2
    <2>3. St!Position = Len(sCall.next)
      BY <1>1, <1>3, <2>1, <2>2, Zenon DEF St!Position
    <2>4. \A s \in Seq(ToDo(K, V)) : s # <<>> => Head(s) = s[1]
      OBVIOUS
    <2> QED BY <1>1, <2>3, <2>4, Zenon DEF St!Item
  <1>4. \A k \in DOMAIN sCall.todo : /\ sCall.todo[k].key = wanted[Len(sCall.next) + k].key
                                     /\ sCall.todo[k].value = wanted[Len(sCall.next) + k].value
    BY Zenon DEF InListener, Listening
  <1>5. /\ row = [id |-> id, key |-> sCall.todo[1].key, value |-> sCall.todo[1].value,
                  place |-> sCall.todo[1].place, index |-> Len(sCall.next), total |-> Len(wanted)]
        /\ row \in Line(K, V)
    <2>1. row = [id |-> id, key |-> sCall.todo[1].key, value |-> sCall.todo[1].value,
                 place |-> sCall.todo[1].place, index |-> Len(sCall.next), total |-> Len(wanted)]
      BY <1>1, <1>p, Zenon DEF St!Row
    <2>2. /\ sCall.todo[1].key \in K /\ sCall.todo[1].value \in V /\ sCall.todo[1].place \in Nat
      BY <1>2 DEF ToDo
    <2>3. id \in Nat
      BY <1>1
    <2> QED BY <1>1, <1>3, <2>1, <2>2, <2>3 DEF Line
  <1>6. /\ row.id = id /\ row.key = sCall.todo[1].key /\ row.value = sCall.todo[1].value
        /\ row.index = Len(sCall.next) /\ row.total = Len(wanted)
    BY <1>5
  <1>7. sCall'.next = Append(sCall.next, row) /\ sCall'.todo = Tail(sCall.todo)
    BY DEF Places
  <1> HIDE DEF row
  <1>8. /\ sCall'.next \in Seq(Line(K, V)) /\ Len(sCall'.next) = Len(sCall.next) + 1
        /\ \A k \in 1 .. Len(sCall.next) : sCall'.next[k] = sCall.next[k]
        /\ sCall'.next[Len(sCall.next) + 1] = row
    BY <1>1, <1>5, <1>7, AppendFacts
  <1>9. /\ DOMAIN sCall.next = 1 .. Len(sCall.next) /\ DOMAIN sCall'.next = 1 .. Len(sCall.next) + 1
        /\ DOMAIN sCall'.todo = 1 .. Len(sCall.todo) - 1
    BY <1>1, <1>2, <1>7, <1>8
  <1>10. Listening(K, V)'
    <2>1. \A k \in DOMAIN sCall'.todo : /\ sCall'.todo[k].key = wanted[Len(sCall'.next) + k].key
                                        /\ sCall'.todo[k].value = wanted[Len(sCall'.next) + k].value
      <3> TAKE k \in DOMAIN sCall'.todo
      <3>1. k + 1 \in DOMAIN sCall.todo /\ sCall'.todo[k] = sCall.todo[k + 1]
        BY <1>1, <1>2, <1>7, <1>9
      <3>2. Len(sCall'.next) + k = Len(sCall.next) + (k + 1)
        <4>1. \A a \in Nat : \A b \in 1 .. Len(sCall.todo) - 1 : (a + 1) + b = a + (b + 1)
          BY <1>2
        <4> QED BY <1>3, <1>8, <1>9, <4>1, Zenon
      <3> QED BY <1>4, <3>1, <3>2
    <2>2. Len(sCall'.next) + Len(sCall'.todo) = Len(wanted)
      <3>1. Len(sCall'.next) = Len(sCall.next) + 1 /\ Len(sCall'.todo) = Len(sCall.todo) - 1
        BY <1>2, <1>7, <1>8
      <3>2. \A a, b \in Nat : (a + 1) + (b - 1) = a + b
        OBVIOUS
      <3>3. Len(sCall.todo) \in Nat
        BY <1>2
      <3> QED BY <1>1, <1>3, <3>1, <3>2, <3>3, Zenon
    <2>3. sCall'.linking \in BOOLEAN
      BY DEF Places
    <2> QED BY <1>1, <1>2, <1>7, <1>8, <2>1, <2>2, <2>3, Zenon DEF Listening, Places
  <1>11. sCall' # <<>>
    <2>1. "todo" \in DOMAIN sCall' /\ "todo" \notin DOMAIN <<>>
      BY DEF Places, ListenerFields
    <2> QED BY <2>1
  <1>12. \A k \in DOMAIN sCall'.next :
           /\ sCall'.next[k].key = wanted[k].key /\ sCall'.next[k].value = wanted[k].value
           /\ sCall'.next[k].index = k - 1 /\ sCall'.next[k].total = Len(wanted)
           /\ sCall'.next[k].id \in 1 .. sMade
    <2> TAKE k \in DOMAIN sCall'.next
    <2>1. CASE k \in DOMAIN sCall.next
      <3>1. /\ sCall.next[k].key = wanted[k].key /\ sCall.next[k].value = wanted[k].value
            /\ sCall.next[k].index = k - 1 /\ sCall.next[k].total = Len(wanted)
            /\ sCall.next[k].id \in 1 .. sMade
        BY <2>1, Zenon DEF InListener, Placed
      <3> QED BY <1>8, <1>9, <2>1, <3>1
    <2>2. CASE k = Len(sCall.next) + 1
      <3>1. 1 \in DOMAIN sCall.todo
        BY <1>1, <1>2
      <3>2. /\ sCall.todo[1].key = wanted[Len(sCall.next) + 1].key
            /\ sCall.todo[1].value = wanted[Len(sCall.next) + 1].value
        BY <1>4, <3>1
      <3>3. sCall'.next[k] = row /\ k - 1 = Len(sCall.next)
        BY <1>3, <1>8, <2>2
      <3> QED BY <1>6, <2>2, <3>2, <3>3, Zenon
    <2> QED BY <1>3, <1>9, <2>1, <2>2
  <1>13. \A j, k \in DOMAIN sCall'.next : sCall'.next[j].id = sCall'.next[k].id => j = k
    <2>1. \A j, k \in DOMAIN sCall.next : sCall.next[j].id = sCall.next[k].id => j = k
      BY Zenon DEF InListener, Placed
    <2>2. \A k \in DOMAIN sCall.next : sCall'.next[k] = sCall.next[k]
      BY <1>8, <1>9
    <2>3. \A k \in DOMAIN sCall'.next : k \in DOMAIN sCall.next \/ k = Len(sCall.next) + 1
      BY <1>3, <1>9
    <2>4. \A k \in DOMAIN sCall.next : sCall.next[k].id # sCall'.next[Len(sCall.next) + 1].id
      BY <1>6, <1>8, Zenon
    <2> TAKE j, k \in DOMAIN sCall'.next
    <2>5. CASE j \in DOMAIN sCall.next /\ k \in DOMAIN sCall.next
      BY <2>1, <2>2, <2>5, Zenon
    <2>6. CASE j \in DOMAIN sCall.next /\ k = Len(sCall.next) + 1
      BY <2>2, <2>4, <2>6, Zenon
    <2>7. CASE j = Len(sCall.next) + 1 /\ k \in DOMAIN sCall.next
      BY <2>2, <2>4, <2>7, Zenon
    <2>8. CASE j = Len(sCall.next) + 1 /\ k = Len(sCall.next) + 1
      BY <2>8, Zenon
    <2> QED BY <2>3, <2>5, <2>6, <2>7, <2>8, Zenon
  <1>14. \A k \in DOMAIN sCall'.next :
           \/ k \in DOMAIN sCall.next
           \/ sCall'.next[k].id = id /\ sCall'.next[k].key = sCall.todo[1].key
    BY <1>3, <1>6, <1>8, <1>9
  <1>15. \E k \in DOMAIN sCall'.next :
           sCall'.next[k].id = id /\ sCall'.next[k].key = sCall.todo[1].key
    <2>1. Len(sCall.next) + 1 \in DOMAIN sCall'.next
      BY <1>3, <1>9
    <2> QED BY <1>6, <1>8, <2>1
  <1>16. \A k \in DOMAIN sCall.next : k \in DOMAIN sCall'.next /\ sCall'.next[k] = sCall.next[k]
    BY <1>3, <1>8, <1>9
  <1> QED BY <1>10, <1>11, <1>12, <1>13, <1>14, <1>15, <1>16

\* A row is handed over from the rows there were to the rows placed.
LEMMA ReuseStep ==
  ASSUME NEW K, NEW V, RowsGiven(K, V), RowsInv(K, V), St!Reuse
  PROVE  RowsInv(K, V)'
  <1>1. /\ sCall # <<>> /\ sCall.todo # <<>> /\ ~sCall.linking
        /\ RowsApart(K, V) /\ InListener(K, V)
    BY DEF St!Reuse, St!Working, RowsInv
  <1>2. PICK i \in DOMAIN rows :
          /\ rows[i].key = St!Item.key
          /\ rows' = St!RemoveAt(rows, i)
          /\ sCall' = [sCall EXCEPT !.todo = Tail(@), !.anchor = St!Last(St!NodesOf(rows[i].id)),
                                    !.next = Append(@, St!Row(rows[i].id))]
    BY <1>1 DEF St!Reuse, St!Existing, RowsApart
  <1>3. rows \in Seq(Line(K, V)) /\ sCall.todo \in Seq(ToDo(K, V)) /\ DOMAIN sCall = ListenerFields
    BY <1>1, Zenon DEF RowsApart, InListener, Listening
  <1>4. St!Item = sCall.todo[1]
    BY <1>1, <1>3 DEF St!Item
  <1>5. wanted' = wanted /\ sMade' = sMade /\ sKind' = sKind /\ outer' = outer /\ alive' = alive
    BY DEF St!Reuse
  <1>6. Places(rows[i].id)
    <2>1. sCall.linking = FALSE
      BY <1>1, Zenon DEF InListener, Listening
    <2> QED BY <1>1, <1>2, <1>3, <1>5, <2>1 DEF Places, ListenerFields
  <1>7. rows[i].id \in 1 .. sMade /\ \A k \in DOMAIN sCall.next : sCall.next[k].id # rows[i].id
    BY <1>1, <1>2, Zenon DEF RowsApart, InListener, Placed
  <1>8. /\ Listening(K, V)' /\ sCall' # <<>>
        /\ \A k \in DOMAIN sCall'.next :
             /\ sCall'.next[k].key = wanted[k].key /\ sCall'.next[k].value = wanted[k].value
             /\ sCall'.next[k].index = k - 1 /\ sCall'.next[k].total = Len(wanted)
             /\ sCall'.next[k].id \in 1 .. sMade
        /\ \A j, k \in DOMAIN sCall'.next : sCall'.next[j].id = sCall'.next[k].id => j = k
        /\ \A k \in DOMAIN sCall.next : k \in DOMAIN sCall'.next /\ sCall'.next[k] = sCall.next[k]
        /\ \A k \in DOMAIN sCall'.next :
             \/ k \in DOMAIN sCall.next
             \/ sCall'.next[k].id = rows[i].id /\ sCall'.next[k].key = sCall.todo[1].key
        /\ \E k \in DOMAIN sCall'.next :
             sCall'.next[k].id = rows[i].id /\ sCall'.next[k].key = sCall.todo[1].key
    BY <1>1, <1>6, <1>7, PlacesRow
  <1>9. /\ DOMAIN rows = 1 .. Len(rows) /\ i \in 1 .. Len(rows) /\ Len(rows) \in Nat
        /\ rows' \in Seq(Line(K, V)) /\ Len(rows') = Len(rows) - 1 /\ DOMAIN rows' = 1 .. Len(rows) - 1
        /\ \A k \in 1 .. Len(rows) - 1 : rows'[k] = IF k < i THEN rows[k] ELSE rows[k + 1]
    <2>1. DOMAIN rows = 1 .. Len(rows) /\ i \in 1 .. Len(rows) /\ Len(rows) \in Nat
      BY <1>2, <1>3
    <2>2. /\ rows' \in Seq(Line(K, V)) /\ Len(rows') = Len(rows) - 1
          /\ \A k \in 1 .. Len(rows) - 1 : rows'[k] = IF k < i THEN rows[k] ELSE rows[k + 1]
      BY <1>2, <1>3, <2>1, DropFacts DEF St!RemoveAt
    <2> QED BY <2>1, <2>2
  <1>10. \A k \in DOMAIN rows' :
           \E m \in DOMAIN rows : m # i /\ rows'[k] = rows[m] /\ m = IF k < i THEN k ELSE k + 1
    BY <1>9
  <1>11. \A m \in DOMAIN rows : m # i => \E k \in DOMAIN rows' : rows'[k] = rows[m]
    <2> TAKE m \in DOMAIN rows
    <2> HAVE m # i
    <2>1. CASE m < i
      BY <1>9, <2>1
    <2>2. CASE m > i
      <3>1. m - 1 \in DOMAIN rows' /\ ~(m - 1 < i) /\ (m - 1) + 1 = m
        BY <1>9, <2>2
      <3> QED BY <1>9, <3>1
    <2> QED BY <1>9, <2>1, <2>2
  <1>12. RowsApart(K, V)'
    <2>1. \A j \in DOMAIN rows : rows[j].id \in 1 .. sMade
      BY <1>1, Zenon DEF RowsApart
    <2>2. \A j, k \in DOMAIN rows : rows[j].key = rows[k].key \/ rows[j].id = rows[k].id => j = k
      BY <1>1, Zenon DEF RowsApart
    <2>3. \A j \in DOMAIN rows' : rows'[j].id \in 1 .. sMade
      BY <1>10, <2>1
    <2>4. \A j, k \in DOMAIN rows' :
            rows'[j].key = rows'[k].key \/ rows'[j].id = rows'[k].id => j = k
      BY <1>9, <1>10, <2>2
    <2> QED BY <1>1, <1>5, <1>9, <2>3, <2>4, Zenon DEF RowsApart
  <1>13. \A j \in DOMAIN rows' : \A k \in DOMAIN sCall'.next :
           rows'[j].id # sCall'.next[k].id /\ rows'[j].key # sCall'.next[k].key
    <2> TAKE j \in DOMAIN rows'
    <2> TAKE k \in DOMAIN sCall'.next
    <2>1. PICK m \in DOMAIN rows : m # i /\ rows'[j] = rows[m]
      BY <1>10
    <2>2. CASE k \in DOMAIN sCall.next
      <3>1. rows[m].id # sCall.next[k].id /\ rows[m].key # sCall.next[k].key
        BY <1>1, <2>1, <2>2, Zenon DEF InListener, Placed
      <3> QED BY <1>8, <2>1, <2>2, <3>1, Zenon
    <2>3. CASE sCall'.next[k].id = rows[i].id /\ sCall'.next[k].key = sCall.todo[1].key
      <3>1. rows[m].id # rows[i].id /\ rows[m].key # rows[i].key
        BY <1>1, <1>2, <2>1, Zenon DEF RowsApart
      <3> QED BY <1>2, <1>4, <2>1, <2>3, <3>1, Zenon
    <2> QED BY <1>8, <2>2, <2>3, Zenon
  <1>14. Placed'
    BY <1>5, <1>8, <1>13, Zenon DEF Placed
  <1>15. Living'
    <2>1. St!IdsOf(rows) = St!IdsOf(rows') \cup {rows[i].id}
      BY <1>2, <1>10, <1>11 DEF St!IdsOf
    <2>2. St!IdsOf(sCall'.next) = St!IdsOf(sCall.next) \cup {rows[i].id}
      BY <1>8 DEF St!IdsOf
    <2>3. (St!IdsOf(rows))' = St!IdsOf(rows') /\ (St!IdsOf(sCall.next))' = St!IdsOf(sCall'.next)
      BY DEF St!IdsOf
    <2>4. alive = St!IdsOf(rows) \cup St!IdsOf(sCall.next)
      BY <1>1 DEF InListener, Living
    <2>5. ~sCall'.linking
      BY <1>6 DEF Places
    <2> QED BY <1>5, <2>1, <2>2, <2>3, <2>4, <2>5 DEF Living
  <1>16. \A b \in sCall'.before : Kept(b)'
    <2> TAKE b \in sCall'.before
    <2>1. Kept(b)
      BY <1>1, <1>6 DEF InListener, Places
    <2>2. ASSUME NEW m \in DOMAIN rows, m # i, rows[m].key = b.key /\ rows[m].id = b.id PROVE Kept(b)'
      <3>1. \E k \in DOMAIN rows' : rows'[k].key = b.key /\ rows'[k].id = b.id
        BY <1>11, <2>2
      <3> QED BY <3>1, Zenon DEF Kept
    <2>3. CASE rows[i].key = b.key /\ rows[i].id = b.id
      <3>1. \E k \in DOMAIN sCall'.next : sCall'.next[k].key = b.key /\ sCall'.next[k].id = b.id
        BY <1>2, <1>4, <1>8, <2>3
      <3> QED BY <3>1, Zenon DEF Kept
    <2>4. ASSUME NEW k \in DOMAIN sCall.next, sCall.next[k].key = b.key /\ sCall.next[k].id = b.id
          PROVE  Kept(b)'
      <3>1. \E n \in DOMAIN sCall'.next : sCall'.next[n].key = b.key /\ sCall'.next[n].id = b.id
        BY <1>8, <2>4, Zenon
      <3> QED BY <3>1, Zenon DEF Kept
    <2> QED BY <2>1, <2>2, <2>3, <2>4 DEF Kept
  <1> QED BY <1>1, <1>5, <1>8, <1>12, <1>14, <1>15, <1>16, Zenon DEF RowsInv, InListener

\* A scope is made for an item without a row.
LEMMA CloneStep ==
  ASSUME NEW K, NEW V, RowsGiven(K, V), RowsInv(K, V), St!Clone
  PROVE  RowsInv(K, V)'
  <1>1. /\ sCall # <<>> /\ sCall.todo # <<>> /\ ~sCall.linking
        /\ RowsApart(K, V) /\ InListener(K, V)
    BY DEF St!Clone, St!Working, RowsInv
  <1>2. /\ sMade' = sMade + 1 /\ alive' = alive \cup {sMade + 1} /\ sCall' = [sCall EXCEPT !.linking = TRUE]
        /\ rows' = rows /\ outer' = outer /\ wanted' = wanted /\ sKind' = sKind
        /\ \A k \in DOMAIN rows : rows[k].key # St!Item.key
    BY <1>1 DEF St!Clone, St!Existing, RowsApart
  <1>3. sMade \in Nat /\ DOMAIN sCall = ListenerFields /\ sCall.todo \in Seq(ToDo(K, V))
    BY <1>1, Zenon DEF RowsApart, InListener, Listening
  <1>4. /\ DOMAIN sCall' = ListenerFields /\ sCall'.linking = TRUE /\ sCall'.todo = sCall.todo
        /\ sCall'.next = sCall.next /\ sCall'.total = sCall.total /\ sCall'.before = sCall.before
    BY <1>2, <1>3 DEF ListenerFields
  <1>5. St!Item = sCall.todo[1]
    BY <1>1, <1>3 DEF St!Item
  <1>6. sCall' # <<>>
    <2>1. "todo" \in DOMAIN sCall' /\ "todo" \notin DOMAIN <<>>
      BY <1>4 DEF ListenerFields
    <2> QED BY <2>1
  <1>7. \A n \in 1 .. sMade : n \in 1 .. sMade + 1 /\ n # sMade + 1
    BY <1>3
  <1>8. \A k \in DOMAIN rows : rows[k].id \in 1 .. sMade
    BY <1>1, Zenon DEF RowsApart
  <1>9. \A k \in DOMAIN sCall.next : sCall.next[k].id \in 1 .. sMade
    BY <1>1, Zenon DEF InListener, Placed
  <1>10. RowsApart(K, V)'
    <2>1. sMade + 1 \in Nat
      BY <1>3
    <2> QED BY <1>1, <1>2, <1>7, <1>8, <2>1, Zenon DEF RowsApart
  <1>11. Listening(K, V)'
    <2>1. sCall'.linking \in BOOLEAN
      BY <1>4
    <2> QED BY <1>1, <1>2, <1>4, <2>1, Zenon DEF InListener, Listening
  <1>12. Placed'
    <2>1. \A k \in DOMAIN sCall.next : sCall.next[k].id \in 1 .. sMade'
      BY <1>2, <1>7, <1>9, Zenon
    <2>2. Placed
      BY <1>1, Zenon DEF InListener
    <2> QED BY <1>2, <1>4, <2>1, <2>2 DEF Placed
  <1>13. Living'
    <2>1. (St!IdsOf(rows))' = St!IdsOf(rows) /\ (St!IdsOf(sCall.next))' = St!IdsOf(sCall.next)
      BY <1>2, <1>4 DEF St!IdsOf
    <2>2. alive = St!IdsOf(rows) \cup St!IdsOf(sCall.next)
      BY <1>1 DEF InListener, Living
    <2>3. alive' = (St!IdsOf(rows))' \cup (St!IdsOf(sCall.next))' \cup {sMade'}
      BY <1>2, <2>1, <2>2
    <2>4. sMade' \in Nat \ {0}
      BY <1>2, <1>3
    <2>5. /\ \A i \in DOMAIN rows' : rows'[i].id # sMade' /\ rows'[i].key # sCall'.todo[1].key
          /\ \A k \in DOMAIN sCall'.next : sCall'.next[k].id # sMade'
      BY <1>2, <1>4, <1>5, <1>7, <1>8, <1>9
    <2> QED BY <1>1, <1>4, <2>3, <2>4, <2>5 DEF Living
  <1>14. \A b \in sCall'.before : Kept(b)'
    <2>1. \A b \in sCall.before : Kept(b)
      BY <1>1, Zenon DEF InListener
    <2>2. \A b : Kept(b)' <=> Kept(b)
      BY <1>2, <1>4 DEF Kept
    <2> QED BY <1>4, <2>1, <2>2, Zenon
  <1> QED BY <1>1, <1>2, <1>6, <1>10, <1>11, <1>12, <1>13, <1>14, Zenon DEF RowsInv, InListener

\* The clone that was linked gets its place.
LEMMA AttachStep ==
  ASSUME NEW K, NEW V, RowsGiven(K, V), RowsInv(K, V), St!Attach
  PROVE  RowsInv(K, V)'
  <1>1. sCall # <<>> /\ sCall.linking /\ RowsApart(K, V) /\ InListener(K, V)
    BY DEF St!Attach, RowsInv
  <1>2. /\ rows' = rows /\ outer' = outer /\ wanted' = wanted /\ sKind' = sKind /\ sMade' = sMade
        /\ alive' = alive
        /\ sCall' = [sCall EXCEPT !.todo = Tail(@), !.linking = FALSE,
                                  !.anchor = St!Last(St!NodesOf(sMade)), !.next = Append(@, St!Row(sMade))]
    BY <1>1 DEF St!Attach, RowsApart
  <1>3. /\ sCall.todo # <<>> /\ sMade \in Nat \ {0}
        /\ alive = St!IdsOf(rows) \cup St!IdsOf(sCall.next) \cup {sMade}
        /\ \A i \in DOMAIN rows : rows[i].id # sMade /\ rows[i].key # sCall.todo[1].key
        /\ \A k \in DOMAIN sCall.next : sCall.next[k].id # sMade
    BY <1>1 DEF InListener, Living
  <1>4. DOMAIN sCall = ListenerFields
    BY <1>1, Zenon DEF InListener, Listening
  <1>5. Places(sMade)
    BY <1>2, <1>3, <1>4 DEF Places, ListenerFields
  <1>6. sMade \in 1 .. sMade
    BY <1>3
  <1>7. /\ Listening(K, V)' /\ sCall' # <<>>
        /\ \A k \in DOMAIN sCall'.next :
             /\ sCall'.next[k].key = wanted[k].key /\ sCall'.next[k].value = wanted[k].value
             /\ sCall'.next[k].index = k - 1 /\ sCall'.next[k].total = Len(wanted)
             /\ sCall'.next[k].id \in 1 .. sMade
        /\ \A j, k \in DOMAIN sCall'.next : sCall'.next[j].id = sCall'.next[k].id => j = k
        /\ \A k \in DOMAIN sCall.next : k \in DOMAIN sCall'.next /\ sCall'.next[k] = sCall.next[k]
        /\ \A k \in DOMAIN sCall'.next :
             \/ k \in DOMAIN sCall.next
             \/ sCall'.next[k].id = sMade /\ sCall'.next[k].key = sCall.todo[1].key
        /\ \E k \in DOMAIN sCall'.next :
             sCall'.next[k].id = sMade /\ sCall'.next[k].key = sCall.todo[1].key
    BY <1>1, <1>3, <1>5, <1>6, PlacesRow
  <1>8. RowsApart(K, V)'
    BY <1>1, <1>2, Zenon DEF RowsApart
  <1>9. \A j \in DOMAIN rows' : \A k \in DOMAIN sCall'.next :
          rows'[j].id # sCall'.next[k].id /\ rows'[j].key # sCall'.next[k].key
    <2> TAKE j \in DOMAIN rows'
    <2> TAKE k \in DOMAIN sCall'.next
    <2>1. CASE k \in DOMAIN sCall.next
      <3>1. rows[j].id # sCall.next[k].id /\ rows[j].key # sCall.next[k].key
        BY <1>1, <1>2, <2>1, Zenon DEF InListener, Placed
      <3> QED BY <1>2, <1>7, <2>1, <3>1, Zenon
    <2>2. CASE sCall'.next[k].id = sMade /\ sCall'.next[k].key = sCall.todo[1].key
      BY <1>2, <1>3, <2>2, Zenon
    <2> QED BY <1>7, <2>1, <2>2, Zenon
  <1>10. Placed'
    <2>1. wanted' = wanted /\ sMade' = sMade
      BY <1>2
    <2> QED BY <1>7, <1>9, <2>1, Zenon DEF Placed
  <1>11. Living'
    <2>1. St!IdsOf(sCall'.next) = St!IdsOf(sCall.next) \cup {sMade}
      BY <1>7 DEF St!IdsOf
    <2>2. (St!IdsOf(rows))' = St!IdsOf(rows) /\ (St!IdsOf(sCall.next))' = St!IdsOf(sCall'.next)
      BY <1>2 DEF St!IdsOf
    <2>3. ~sCall'.linking
      BY <1>5 DEF Places
    <2> QED BY <1>2, <1>3, <2>1, <2>2, <2>3 DEF Living
  <1>12. \A b \in sCall'.before : Kept(b)'
    <2> TAKE b \in sCall'.before
    <2>1. Kept(b)
      BY <1>1, <1>5 DEF InListener, Places
    <2> QED BY <1>2, <1>7, <2>1, Zenon DEF Kept
  <1> QED BY <1>1, <1>2, <1>7, <1>8, <1>10, <1>11, <1>12, Zenon DEF RowsInv, InListener

\* The listener is through: what was placed is what was asked for, and of the rows
\* there were, those that are left go.
LEMMA FinishStep ==
  ASSUME NEW K, NEW V, RowsGiven(K, V), RowsInv(K, V), St!Finish
  PROVE  /\ RowsInv(K, V)'
         /\ \A b \in sCall.before : \A k \in DOMAIN rows' : rows'[k].key = b.key => rows'[k].id = b.id
  <1>1. /\ sCall # <<>> /\ sCall.todo = <<>> /\ RowsApart(K, V) /\ InListener(K, V)
    BY DEF St!Finish, RowsInv
  <1>2. /\ alive' = alive \ St!IdsOf(rows) /\ rows' = sCall.next /\ sCall' = <<>>
        /\ outer' = outer /\ wanted' = wanted /\ sKind' = sKind /\ sMade' = sMade
    BY <1>1 DEF St!Finish, RowsApart
  <1>3. /\ sCall.next \in Seq(Line(K, V)) /\ Len(sCall.next) + Len(sCall.todo) = Len(wanted)
    BY <1>1, Zenon DEF InListener, Listening
  <1>4. Len(sCall.next) = Len(wanted) /\ DOMAIN sCall.next = DOMAIN wanted
    <2>1. Len(sCall.todo) = 0 /\ Len(sCall.next) \in Nat
      BY <1>1, <1>3
    <2>2. wanted \in Seq(Entry(K, V))
      BY <1>1, Zenon DEF RowsApart
    <2>3. Len(sCall.next) = Len(wanted)
      BY <1>3, <2>1
    <2> QED BY <1>3, <2>2, <2>3
  <1>5. \A k \in DOMAIN sCall.next :
          /\ sCall.next[k].key = wanted[k].key /\ sCall.next[k].value = wanted[k].value
          /\ sCall.next[k].index = k - 1 /\ sCall.next[k].total = Len(wanted)
          /\ sCall.next[k].id \in 1 .. sMade
    BY <1>1, Zenon DEF InListener, Placed
  <1>6. \A j, k \in DOMAIN sCall.next : sCall.next[j].key = sCall.next[k].key => j = k
    <2>1. \A j, k \in DOMAIN wanted : wanted[j].key = wanted[k].key => j = k
      BY <1>1, Zenon DEF RowsApart
    <2> QED BY <1>4, <1>5, <2>1
  <1>7. RowsApart(K, V)'
    <2>1. \A j, k \in DOMAIN sCall.next : sCall.next[j].id = sCall.next[k].id => j = k
      BY <1>1, Zenon DEF InListener, Placed
    <2>2. \A j, k \in DOMAIN sCall.next :
            sCall.next[j].key = sCall.next[k].key \/ sCall.next[j].id = sCall.next[k].id => j = k
      BY <1>6, <2>1, Zenon
    <2> QED BY <1>1, <1>2, <1>3, <1>5, <2>2, Zenon DEF RowsApart
  <1>8. AtRest'
    <2>1. ~sCall.linking
      BY <1>1 DEF InListener, Living
    <2>2. alive = St!IdsOf(rows) \cup St!IdsOf(sCall.next)
      BY <1>1, <2>1 DEF InListener, Living
    <2>3. St!IdsOf(rows) \cap St!IdsOf(sCall.next) = {}
      <3>1. \A i \in DOMAIN rows : \A k \in DOMAIN sCall.next : rows[i].id # sCall.next[k].id
        BY <1>1, Zenon DEF InListener, Placed
      <3> QED BY <3>1 DEF St!IdsOf
    <2>4. alive' = (St!IdsOf(rows))'
      BY <1>2, <2>2, <2>3 DEF St!IdsOf
    <2>5. (St!RowsAsAsked)'
      BY <1>2, <1>4, <1>5, <2>4 DEF St!RowsAsAsked
    <2> QED BY <1>1, <1>2, <2>5 DEF AtRest, InListener
  <1>9. \A b \in sCall.before : \A k \in DOMAIN rows' : rows'[k].key = b.key => rows'[k].id = b.id
    <2> SUFFICES ASSUME NEW b \in sCall.before, NEW k \in DOMAIN sCall.next, sCall.next[k].key = b.key
                 PROVE  sCall.next[k].id = b.id
      BY <1>2
    <2>1. Kept(b)
      BY <1>1, Zenon DEF InListener
    <2>2. \A i \in DOMAIN rows : rows[i].key # b.key
      BY <1>1, Zenon DEF InListener, Placed
    <2>3. PICK j \in DOMAIN sCall.next : sCall.next[j].key = b.key /\ sCall.next[j].id = b.id
      BY <2>1, <2>2, Zenon DEF Kept
    <2> QED BY <1>6, <2>3, Zenon
  <1> QED BY <1>2, <1>7, <1>8, <1>9, Zenon DEF RowsInv

LEMMA DestroyStep ==
  ASSUME NEW K, NEW V, RowsGiven(K, V), RowsInv(K, V), St!Destroy
  PROVE  RowsInv(K, V)'
  <1>1. /\ sCall = <<>> /\ sCall' = <<>> /\ outer' = FALSE /\ alive' = {} /\ rows' = <<>>
        /\ wanted' = wanted /\ sKind' = sKind /\ sMade' = sMade
    <2>1. sCall = <<>>
      BY Zenon DEF St!Destroy, St!Idle, RowsGiven
    <2>2. sKind = "repeat"
      BY DEF RowsInv, RowsApart
    <2> QED BY <2>1, <2>2 DEF St!Destroy
  <1>2. RowsApart(K, V)'
    <2>1. outer' \in BOOLEAN
      BY <1>1
    <2>2. rows' \in Seq(Line(K, V)) /\ DOMAIN rows' = {}
      BY <1>1
    <2> QED BY <1>1, <2>1, <2>2, Zenon DEF RowsInv, RowsApart
  <1>3. AtRest'
    BY <1>1 DEF AtRest
  <1> QED BY <1>1, <1>2, <1>3 DEF RowsInv

\* What goes on inside the rows changes neither.
LEMMA RowsSame ==
  ASSUME NEW K, NEW V, RowsInv(K, V),
         UNCHANGED <<sKind, rows, alive, outer, sMade, sCall, wanted>>
  PROVE  RowsInv(K, V)'
  <1>1. RowsApart(K, V)' <=> RowsApart(K, V)
    BY DEF RowsApart
  <1>2. AtRest' <=> AtRest
    BY DEF AtRest, St!RowsAsAsked, St!IdsOf
  <1>3. InListener(K, V)' <=> InListener(K, V)
    BY DEF InListener, Listening, Placed, Living, Kept, St!IdsOf
  <1> QED BY <1>1, <1>2, <1>3 DEF RowsInv

LEMMA RowsStep ==
  ASSUME NEW K, NEW V, RowsGiven(K, V), RowsInv(K, V), [St!Next]_(St!structuralVars)
  PROVE  RowsInv(K, V)'
  <1> USE DEF St!structuralVars
  <1>1. CASE UNCHANGED St!structuralVars
    BY <1>1, RowsSame
  <1>2. CASE St!NoRows
    BY <1>2, NoRowsStep
  <1>3. ASSUME NEW items \in St!Collections, St!Reconcile(items) PROVE RowsInv(K, V)'
    BY <1>3, ReconcileStep
  <1>4. sKind = "repeat"
    BY DEF RowsInv, RowsApart
  <1>5. ASSUME NEW key \in St!Range(Cases), St!Switch(key) PROVE RowsInv(K, V)'
    BY <1>4, <1>5 DEF St!Switch
  <1>6. ASSUME NEW item \in Entries, St!IfTruthy(item) PROVE RowsInv(K, V)'
    BY <1>4, <1>6 DEF St!IfTruthy
  <1>7. CASE St!IfFalsy
    BY <1>4, <1>7 DEF St!IfFalsy
  <1>8. CASE St!Reuse
    BY <1>8, ReuseStep
  <1>9. CASE St!Clone
    BY <1>9, CloneStep
  <1>10. CASE St!Attach
    BY <1>10, AttachStep
  <1>11. CASE St!Finish
    BY <1>11, FinishStep
  <1>12. CASE St!Destroy
    BY <1>12, DestroyStep
  <1>13. ASSUME NEW id \in alive, NEW k \in DOMAIN shape, St!InnerTruthy(id, k) \/ St!InnerFalsy(id, k)
         PROVE  RowsInv(K, V)'
    BY <1>13, RowsSame DEF St!InnerTruthy, St!InnerFalsy
  <1> QED BY <1>1, <1>2, <1>3, <1>5, <1>6, <1>7, <1>8, <1>9, <1>10, <1>11, <1>12, <1>13 DEF St!Next

\* However many items a collection of ngRepeat has, and whatever became of it since
\* the last digest: between two listeners there is a row with a live scope of its
\* own for each item, in order and with its locals, a row whose key was there has
\* kept its scope and nodes, and no scope is left when the surrounding one is gone.
\* Code in a row that destroys the surrounding scope while it links is excluded.
THEOREM RowsFollowItems ==
  ASSUME NEW K, NEW V, RowsGiven(K, V)
  PROVE  St!Init /\ sKind = "repeat" /\ [][St!Next]_(St!structuralVars)
           => /\ []((sCall = <<>> /\ outer => St!RowsAsAsked) /\ (sCall = <<>> /\ ~outer => alive = {}))
              /\ St!RowsKept
  <1>1. St!Init /\ sKind = "repeat" => RowsInv(K, V)
    BY RowsStart
  <1>2. RowsInv(K, V) /\ [St!Next]_(St!structuralVars) => RowsInv(K, V)'
    BY RowsStep
  <1>3. RowsInv(K, V) => (sCall = <<>> /\ outer => St!RowsAsAsked) /\ (sCall = <<>> /\ ~outer => alive = {})
    BY DEF RowsInv, AtRest
  <1>4. RowsInv(K, V) /\ [St!Next]_(St!structuralVars)
          => [St!Finish /\ sKind = "repeat" =>
                \A b \in sCall.before : \A k \in DOMAIN rows' :
                  rows'[k].key = b.key => rows'[k].id = b.id]_(St!structuralVars)
    BY FinishStep
  <1> QED BY <1>1, <1>2, <1>3, <1>4, PTL DEF St!RowsKept

-----------------------------------------------------------------------------
(* Event directives                                                        *)

\* Application code calls $digest on the root only.
EventsGiven ==
  Root \in Scopes /\ Chain \in [Scopes -> Seq(Scopes)] /\ LocalDigests = FALSE

EventFrames ==
  [kind : {"apply", "digest", "code", "handler", "listener"}, scope : Scopes, event : Nat,
   dirty : BOOLEAN]
Deferred == [event : Nat, scope : Scopes]

EventTypes ==
  /\ ePhase \in [Scopes -> {"absent", "null", "$apply", "$digest"}] /\ ePhase[Root] # "absent"
  /\ frames \in Seq(EventFrames) /\ eQueue \in Seq(Deferred)
  /\ eTimer \in BOOLEAN /\ unnoticed \in BOOLEAN /\ fired \in Nat /\ ran \in Seq(Nat)

\* A phase has a call of $apply or $digest that will clear it; the lowest call is
\* one of them; a digest is one of the root; and one that found everything clean
\* ends next.
HolderOf(s, i) == frames[i].scope = s /\ frames[i].kind \in {"apply", "digest"}
Bottomed ==
  /\ \A s \in Scopes : ePhase[s] \in {"$apply", "$digest"} => \E i \in DOMAIN frames : HolderOf(s, i)
  /\ frames # <<>> => frames[1].kind \in {"apply", "digest"}
  /\ \A i \in DOMAIN frames : frames[i].kind = "digest" =>
       /\ frames[i].scope = Root
       /\ ~frames[i].dirty => i = Len(frames) /\ eQueue = <<>>

\* Work is left to the timeout or to the lowest call, and what a handler changed
\* to a pass that the lowest call is still going to make.
Covered ==
  /\ eQueue # <<>> => eTimer \/ frames # <<>>
  /\ unnoticed => frames # <<>> /\ (frames[1].kind = "digest" => frames[1].dirty)

EventInv == EventTypes /\ Bottomed /\ Covered

\* An event is in one place: its handler waits, runs or has run.
RanAt(e, k) == k \in DOMAIN ran /\ ran[k] = e
QueuedAt(e, k) == k \in DOMAIN eQueue /\ eQueue[k].event = e
RunningAt(e, k) == k \in DOMAIN frames /\ frames[k].kind = "handler" /\ frames[k].event = e
EachInOnePlace ==
  \A e, j, k :
    /\ RanAt(e, j) /\ RanAt(e, k) => j = k
    /\ QueuedAt(e, j) /\ QueuedAt(e, k) => j = k
    /\ RunningAt(e, j) /\ RunningAt(e, k) => j = k
    /\ ~(RanAt(e, j) /\ QueuedAt(e, k))
    /\ ~(RanAt(e, j) /\ RunningAt(e, k))
    /\ ~(QueuedAt(e, j) /\ RunningAt(e, k))
InSomePlace ==
  \A e : e \in 1 .. fired <=> \E k : RanAt(e, k) \/ QueuedAt(e, k) \/ RunningAt(e, k)
InPlace == EachInOnePlace /\ InSomePlace

LEMMA EventStack ==
  ASSUME EventTypes
  PROVE  /\ Len(frames) \in Nat /\ DOMAIN frames = 1 .. Len(frames)
         /\ \A f \in EventFrames :
              /\ Append(frames, f) \in Seq(EventFrames)
              /\ Len(Append(frames, f)) = Len(frames) + 1
              /\ \A k \in 1 .. Len(frames) : Append(frames, f)[k] = frames[k]
              /\ Append(frames, f)[Len(frames) + 1] = f
         /\ \A f, g \in EventFrames :
              /\ frames \o <<f, g>> \in Seq(EventFrames)
              /\ Len(frames \o <<f, g>>) = Len(frames) + 2
              /\ \A k \in 1 .. Len(frames) : (frames \o <<f, g>>)[k] = frames[k]
              /\ (frames \o <<f, g>>)[Len(frames) + 1] = f
              /\ (frames \o <<f, g>>)[Len(frames) + 2] = g
         /\ frames # <<>> =>
              /\ Len(frames) \in Nat \ {0} /\ Ev!Caller = frames[Len(frames)] /\ Ev!Caller \in EventFrames
              /\ Ev!Pop \in Seq(EventFrames) /\ Len(Ev!Pop) = Len(frames) - 1
              /\ \A k \in 1 .. Len(frames) - 1 : Ev!Pop[k] = frames[k]
              /\ \A f \in EventFrames :
                   /\ Append(Ev!Pop, f) \in Seq(EventFrames)
                   /\ Len(Append(Ev!Pop, f)) = Len(frames)
                   /\ \A k \in 1 .. Len(frames) - 1 : Append(Ev!Pop, f)[k] = frames[k]
                   /\ Append(Ev!Pop, f)[Len(frames)] = f
  <1>1. frames \in Seq(EventFrames)
    BY DEF EventTypes
  <1>2. Len(frames) \in Nat /\ DOMAIN frames = 1 .. Len(frames)
    BY <1>1
  <1>3. \A f \in EventFrames :
          /\ Append(frames, f) \in Seq(EventFrames)
          /\ Len(Append(frames, f)) = Len(frames) + 1
          /\ \A k \in 1 .. Len(frames) : Append(frames, f)[k] = frames[k]
          /\ Append(frames, f)[Len(frames) + 1] = f
    BY <1>1, AppendFacts
  <1>4. ASSUME NEW f \in EventFrames, NEW g \in EventFrames
        PROVE  /\ frames \o <<f, g>> \in Seq(EventFrames)
               /\ Len(frames \o <<f, g>>) = Len(frames) + 2
               /\ \A k \in 1 .. Len(frames) : (frames \o <<f, g>>)[k] = frames[k]
               /\ (frames \o <<f, g>>)[Len(frames) + 1] = f
               /\ (frames \o <<f, g>>)[Len(frames) + 2] = g
    <2>1. <<f, g>> \in Seq(EventFrames) /\ Len(<<f, g>>) = 2 /\ <<f, g>>[1] = f /\ <<f, g>>[2] = g
      OBVIOUS
    <2>2. /\ frames \o <<f, g>> \in Seq(EventFrames)
          /\ Len(frames \o <<f, g>>) = Len(frames) + Len(<<f, g>>)
          /\ \A k \in 1 .. Len(frames) : (frames \o <<f, g>>)[k] = frames[k]
          /\ \A k \in 1 .. Len(<<f, g>>) : (frames \o <<f, g>>)[Len(frames) + k] = <<f, g>>[k]
      BY <1>1, <2>1, ConcatFacts
    <2> QED BY <2>1, <2>2
  <1>5. ASSUME frames # <<>>
        PROVE  /\ Len(frames) \in Nat \ {0} /\ Ev!Caller = frames[Len(frames)] /\ Ev!Caller \in EventFrames
               /\ Ev!Pop \in Seq(EventFrames) /\ Len(Ev!Pop) = Len(frames) - 1
               /\ \A k \in 1 .. Len(frames) - 1 : Ev!Pop[k] = frames[k]
    <2>1. Len(frames) \in Nat \ {0}
      BY <1>1, <1>5
    <2>2. Ev!Caller = frames[Len(frames)] /\ Ev!Caller \in EventFrames
      BY <1>1, <2>1 DEF Ev!Caller, Ev!Last
    <2>3. Ev!Pop = SubSeq(frames, 1, Len(frames) - 1)
      BY DEF Ev!Pop, Ev!Front
    <2> QED BY <1>1, <1>5, <2>1, <2>2, <2>3, LastFacts
  <1>6. ASSUME frames # <<>>, NEW f \in EventFrames
        PROVE  /\ Append(Ev!Pop, f) \in Seq(EventFrames)
               /\ Len(Append(Ev!Pop, f)) = Len(frames)
               /\ \A k \in 1 .. Len(frames) - 1 : Append(Ev!Pop, f)[k] = frames[k]
               /\ Append(Ev!Pop, f)[Len(frames)] = f
    <2>1. /\ Append(Ev!Pop, f) \in Seq(EventFrames)
          /\ Len(Append(Ev!Pop, f)) = Len(Ev!Pop) + 1
          /\ \A k \in 1 .. Len(Ev!Pop) : Append(Ev!Pop, f)[k] = Ev!Pop[k]
          /\ Append(Ev!Pop, f)[Len(Ev!Pop) + 1] = f
      BY <1>5, <1>6, AppendFacts
    <2> QED BY <1>5, <1>6, <2>1
  <1> QED BY <1>2, <1>3, <1>4, <1>5, <1>6

\* An event, or application code, begins an $apply: nothing that is about to end
\* is below it.
LEMMA ApplyBegins ==
  ASSUME EventsGiven, EventInv, Ev!UserCode, NEW s \in Scopes, NEW f \in EventFrames,
         f.kind \in {"code", "handler"}, Ev!BeginApply(s, f), fired' \in Nat,
         UNCHANGED <<eQueue, eTimer, unnoticed, ran>>
  PROVE  EventInv'
  <1> DEFINE a == Ev!Frame("apply", s, 0)
  <1>1. a \in EventFrames /\ a.kind = "apply" /\ a.scope = s
    BY DEF Ev!Frame, EventFrames
  <1>2. frames' = frames \o <<a, f>> /\ ePhase' = [ePhase EXCEPT ![s] = "$apply"]
    BY DEF Ev!BeginApply
  <1> HIDE DEF a
  <1>3. EventTypes /\ Bottomed /\ Covered
    BY DEF EventInv
  <1>4. /\ frames' \in Seq(EventFrames) /\ Len(frames') = Len(frames) + 2 /\ Len(frames) \in Nat
        /\ \A k \in 1 .. Len(frames) : frames'[k] = frames[k]
        /\ frames'[Len(frames) + 1] = a /\ frames'[Len(frames) + 2] = f
        /\ DOMAIN frames = 1 .. Len(frames)
    BY <1>1, <1>2, <1>3, EventStack
  <1>5. DOMAIN frames' = 1 .. Len(frames) + 2 /\ frames' # <<>>
    BY <1>4
  <1>6. EventTypes'
    <2>1. /\ ePhase' \in [Scopes -> {"absent", "null", "$apply", "$digest"}] /\ ePhase'[Root] # "absent"
      BY <1>2, <1>3 DEF EventTypes, EventsGiven
    <2> QED BY <1>3, <1>4, <2>1, Zenon DEF EventTypes
  <1>7. Bottomed'
    <2>1. ASSUME NEW t \in Scopes, ePhase'[t] \in {"$apply", "$digest"} PROVE \E j \in DOMAIN frames' : HolderOf(t, j)'
      <3>1. CASE t = s
        <4>1. PICK n \in DOMAIN frames' : n = Len(frames) + 1
          BY <1>4, <1>5
        <4>2. frames'[n] = a
          BY <1>4, <4>1
        <4> QED BY <1>1, <3>1, <4>1, <4>2 DEF HolderOf
      <3>2. CASE t # s
        <4>1. ePhase[t] \in {"$apply", "$digest"}
          BY <1>2, <1>3, <2>1, <3>2 DEF EventTypes
        <4>2. PICK j \in DOMAIN frames : HolderOf(t, j)
          BY <1>3, <4>1 DEF Bottomed
        <4>3. j \in DOMAIN frames' /\ frames'[j] = frames[j]
          BY <1>4, <1>5, <4>2
        <4> QED BY <4>2, <4>3 DEF HolderOf
      <3> QED BY <3>1, <3>2
    <2>2. frames'[1].kind \in {"apply", "digest"}
      <3>1. CASE frames = <<>>
        BY <1>1, <1>4, <3>1
      <3>2. CASE frames # <<>>
        BY <1>3, <1>4, <3>2 DEF Bottomed
      <3> QED BY <3>1, <3>2
    <2>3. ASSUME NEW j \in DOMAIN frames', frames'[j].kind = "digest"
          PROVE  frames'[j].scope = Root /\ frames'[j].dirty
      <3>0. j # Len(frames) + 1 /\ j # Len(frames) + 2
        BY <1>1, <1>4, <2>3
      <3>1. j \in DOMAIN frames /\ frames'[j] = frames[j]
        BY <1>4, <1>5, <3>0
      <3>2. frames # <<>>
        BY <1>4, <3>1
      <3>2a. Ev!Caller = frames[Len(frames)]
        BY <1>3, <3>2, EventStack
      <3>3. j # Len(frames)
        BY <2>3, <3>1, <3>2, <3>2a DEF Ev!UserCode, Ev!Idle, Ev!Callbacks
      <3> QED BY <1>3, <2>3, <3>1, <3>3 DEF Bottomed
    <2> QED BY <2>1, <2>2, <2>3 DEF Bottomed
  <1>8. Covered'
    <2>1. frames # <<>> => frames'[1] = frames[1]
      BY <1>4
    <2>2. frames = <<>> => ~unnoticed
      BY <1>3 DEF Covered
    <2>3. frames = <<>> => frames'[1].kind = "apply"
      BY <1>1, <1>4
    <2> QED BY <1>3, <1>5, <2>1, <2>2, <2>3 DEF Covered
  <1> QED BY <1>6, <1>7, <1>8 DEF EventInv

\* The event loop begins a digest of the root.
LEMMA DigestBegins ==
  ASSUME EventsGiven, EventInv, frames = <<>>, Ev!BeginDigest(Root, <<>>), eTimer' \in BOOLEAN, fired' \in Nat,
         UNCHANGED <<eQueue, unnoticed, ran>>
  PROVE  EventInv'
  <1> DEFINE d == Ev!Frame("digest", Root, 0)
  <1>1. d \in EventFrames /\ d.kind = "digest" /\ d.scope = Root /\ d.dirty = TRUE
    BY DEF EventsGiven, Ev!Frame, EventFrames
  <1>2. frames' = Append(<<>>, d) /\ ePhase' = [ePhase EXCEPT ![Root] = "$digest"]
    BY DEF Ev!BeginDigest
  <1> HIDE DEF d
  <1>3. EventTypes /\ Bottomed /\ Covered
    BY DEF EventInv
  <1>4. frames' \in Seq(EventFrames) /\ Len(frames') = 1 /\ DOMAIN frames' = {1} /\ frames'[1] = d
    BY <1>1, <1>2
  <1>5. EventTypes'
    <2>1. /\ ePhase' \in [Scopes -> {"absent", "null", "$apply", "$digest"}] /\ ePhase'[Root] # "absent"
      BY <1>2, <1>3 DEF EventTypes, EventsGiven
    <2> QED BY <1>3, <1>4, <2>1, Zenon DEF EventTypes
  <1>6. \A t \in Scopes : ePhase'[t] \in {"$apply", "$digest"} => t = Root
    <2>1. \A t \in Scopes : ePhase[t] \notin {"$apply", "$digest"}
      BY <1>3 DEF Bottomed
    <2> QED BY <1>2, <1>3, <2>1 DEF EventTypes
  <1>7. Bottomed'
    <2>1. HolderOf(Root, 1)'
      BY <1>1, <1>4 DEF HolderOf
    <2> QED BY <1>1, <1>4, <1>6, <2>1 DEF Bottomed
  <1>8. Covered'
    <2>0. Len(frames') # 0 /\ Len(<<>>) = 0
      BY <1>4
    <2>1. frames' # <<>>
      BY <2>0, Zenon
    <2>2. frames'[1].dirty
      BY <1>1, <1>4, Zenon
    <2> QED BY <2>1, <2>2, Zenon DEF Covered
  <1> QED BY <1>5, <1>7, <1>8 DEF EventInv

\* The end of an $apply: the digest of the root that follows, or one further down
\* the stack, sees to what is queued and unseen.
LEMMA ApplyEndsInv ==
  ASSUME EventsGiven, EventInv, Ev!ApplyEnds
  PROVE  EventInv'
  <1> DEFINE d == Ev!Frame("digest", Root, 0)
             next == Append(Ev!Pop, d)
             cleared == [ePhase EXCEPT ![Ev!Caller.scope] = "null"]
  <1>1. d \in EventFrames /\ d.kind = "digest" /\ d.scope = Root /\ d.dirty = TRUE
    BY DEF EventsGiven, Ev!Frame, EventFrames
  <1>2. /\ frames # <<>> /\ Ev!Caller.kind = "apply"
        /\ UNCHANGED <<eQueue, eTimer, fired, ran, unnoticed>>
        /\ \/ cleared[Root] # "null" /\ frames' = Ev!Pop /\ ePhase' = cleared
           \/ frames' = next /\ ePhase' = [cleared EXCEPT ![Root] = "$digest"]
    BY DEF Ev!ApplyEnds, Ev!Idle
  <1> HIDE DEF d
  <1>3. EventTypes /\ Bottomed /\ Covered
    BY DEF EventInv
  <1>4. /\ Len(frames) \in Nat \ {0} /\ DOMAIN frames = 1 .. Len(frames)
        /\ Ev!Caller = frames[Len(frames)] /\ Ev!Caller \in EventFrames /\ Ev!Caller.scope \in Scopes
        /\ Ev!Pop \in Seq(EventFrames) /\ Len(Ev!Pop) = Len(frames) - 1
        /\ \A k \in 1 .. Len(frames) - 1 : Ev!Pop[k] = frames[k]
        /\ next \in Seq(EventFrames) /\ Len(next) = Len(frames)
        /\ \A k \in 1 .. Len(frames) - 1 : next[k] = frames[k]
        /\ next[Len(frames)] = d
    BY <1>1, <1>2, <1>3, EventStack DEF EventFrames
  <1>5. \A t \in Scopes : cleared[t] \in {"$apply", "$digest"} =>
          \E j \in 1 .. Len(frames) - 1 : HolderOf(t, j)
    <2> SUFFICES ASSUME NEW t \in Scopes, cleared[t] \in {"$apply", "$digest"}
                 PROVE  \E j \in 1 .. Len(frames) - 1 : HolderOf(t, j)
      OBVIOUS
    <2>1. t # Ev!Caller.scope /\ ePhase[t] \in {"$apply", "$digest"}
      BY <1>3, <1>4 DEF EventTypes
    <2>2. PICK j \in DOMAIN frames : HolderOf(t, j)
      BY <1>3, <2>1 DEF Bottomed
    <2>3. j # Len(frames)
      BY <1>4, <2>1, <2>2 DEF HolderOf
    <2> QED BY <1>4, <2>2, <2>3
  <1>6. cleared \in [Scopes -> {"absent", "null", "$apply", "$digest"}] /\ cleared[Root] # "absent"
    BY <1>3, <1>4 DEF EventTypes, EventsGiven
  <1> HIDE DEF cleared, next
  <1>7. CASE cleared[Root] # "null" /\ frames' = Ev!Pop /\ ePhase' = cleared
    <2>1. Len(frames) - 1 \in Nat \ {0} /\ frames' # <<>> /\ DOMAIN frames' = 1 .. Len(frames) - 1
      BY <1>4, <1>5, <1>6, <1>7 DEF EventsGiven
    <2>2. \A k \in DOMAIN frames' : k \in DOMAIN frames /\ k # Len(frames) /\ frames'[k] = frames[k]
      BY <1>4, <1>7, <2>1
    <2>3. EventTypes'
      BY <1>2, <1>3, <1>4, <1>6, <1>7, Zenon DEF EventTypes
    <2>4. Bottomed'
      <3>1. \A t \in Scopes : ePhase'[t] \in {"$apply", "$digest"} => \E j \in DOMAIN frames' : HolderOf(t, j)'
        BY <1>5, <1>7, <2>1, <2>2 DEF HolderOf
      <3>2. frames'[1].kind \in {"apply", "digest"}
        BY <1>2, <1>3, <2>1, <2>2 DEF Bottomed
      <3>3. \A j \in DOMAIN frames' : frames'[j].kind = "digest" => frames'[j].scope = Root /\ frames'[j].dirty
        BY <1>3, <2>2 DEF Bottomed
      <3> QED BY <3>1, <3>2, <3>3 DEF Bottomed
    <2>5. Covered'
      BY <1>2, <1>3, <2>1, <2>2 DEF Covered
    <2> QED BY <2>3, <2>4, <2>5 DEF EventInv
  <1>8. CASE frames' = next /\ ePhase' = [cleared EXCEPT ![Root] = "$digest"]
    <2>1. frames' # <<>> /\ DOMAIN frames' = 1 .. Len(frames) /\ Len(frames') = Len(frames) /\ frames'[Len(frames)] = d
      BY <1>4, <1>8
    <2>2. \A k \in DOMAIN frames' : k # Len(frames) => k \in 1 .. Len(frames) - 1 /\ frames'[k] = frames[k]
      BY <1>4, <2>1, <1>8
    <2>3. EventTypes'
      <3>1. /\ ePhase' \in [Scopes -> {"absent", "null", "$apply", "$digest"}] /\ ePhase'[Root] # "absent"
        BY <1>6, <1>8 DEF EventsGiven
      <3> QED BY <1>2, <1>3, <1>4, <1>8, <3>1, Zenon DEF EventTypes
    <2>4. Bottomed'
      <3>1. ASSUME NEW t \in Scopes, ePhase'[t] \in {"$apply", "$digest"}
            PROVE  \E j \in DOMAIN frames' : HolderOf(t, j)'
        <4>1. CASE t = Root
          BY <1>1, <1>4, <2>1, <4>1 DEF HolderOf
        <4>2. CASE t # Root
          <5>1. cleared[t] \in {"$apply", "$digest"}
            BY <1>6, <1>8, <3>1, <4>2
          <5>2. PICK j \in 1 .. Len(frames) - 1 : HolderOf(t, j)
            BY <1>5, <5>1
          <5>3. j \in DOMAIN frames' /\ frames'[j] = frames[j]
            BY <1>4, <1>8, <2>1, <5>2
          <5> QED BY <5>2, <5>3 DEF HolderOf
        <4> QED BY <4>1, <4>2
      <3>2. frames'[1].kind \in {"apply", "digest"}
        BY <1>1, <1>2, <1>3, <1>4, <2>1, <2>2 DEF Bottomed
      <3>3. \A j \in DOMAIN frames' : frames'[j].kind = "digest" => frames'[j].scope = Root /\ frames'[j].dirty
        BY <1>1, <1>3, <1>4, <2>1, <2>2 DEF Bottomed
      <3> QED BY <3>1, <3>2, <3>3 DEF Bottomed
    <2>5. Covered'
      BY <1>1, <1>2, <1>3, <1>4, <2>1, <2>2 DEF Covered
    <2> QED BY <2>3, <2>4, <2>5 DEF EventInv
  <1> QED BY <1>2, <1>7, <1>8

\* A frame on top of the stack.
LEMMA FramePushed ==
  ASSUME EventTypes, Bottomed, NEW f \in EventFrames, f.kind \in {"handler", "listener"},
         frames' = Append(frames, f), frames # <<>>, ePhase' = ePhase,
         \A i \in DOMAIN frames : frames[i].kind = "digest" => frames[i].dirty
  PROVE  Bottomed' /\ frames' \in Seq(EventFrames) /\ frames' # <<>> /\ frames'[1] = frames[1]
  <1>1. /\ Len(frames) \in Nat \ {0} /\ DOMAIN frames = 1 .. Len(frames)
        /\ frames' \in Seq(EventFrames) /\ Len(frames') = Len(frames) + 1
        /\ \A k \in 1 .. Len(frames) : frames'[k] = frames[k]
        /\ frames'[Len(frames) + 1] = f
    BY EventStack
  <1>2. DOMAIN frames' = 1 .. Len(frames) + 1 /\ 1 \in 1 .. Len(frames)
    BY <1>1
  <1>3. frames' # <<>> /\ frames'[1] = frames[1]
    BY <1>1, <1>2
  <1>4. ASSUME NEW t \in Scopes, ePhase'[t] \in {"$apply", "$digest"}
        PROVE  \E j \in DOMAIN frames' : HolderOf(t, j)'
    <2>1. PICK j \in DOMAIN frames : HolderOf(t, j)
      BY <1>4 DEF Bottomed
    <2>2. j \in DOMAIN frames' /\ frames'[j] = frames[j]
      BY <1>1, <1>2, <2>1
    <2> QED BY <2>1, <2>2 DEF HolderOf
  <1>5. ASSUME NEW j \in DOMAIN frames', frames'[j].kind = "digest"
        PROVE  frames'[j].scope = Root /\ frames'[j].dirty
    <2>1. j # Len(frames) + 1
      BY <1>1, <1>5
    <2>2. j \in DOMAIN frames /\ frames'[j] = frames[j]
      BY <1>1, <1>2, <2>1
    <2> QED BY <1>5, <2>2 DEF Bottomed
  <1>6. frames'[1].kind \in {"apply", "digest"}
    BY <1>3 DEF Bottomed
  <1> QED BY <1>1, <1>3, <1>4, <1>5, <1>6 DEF Bottomed

LEMMA DrainInv ==
  ASSUME EventsGiven, EventInv, Ev!Drain
  PROVE  EventInv'
  <1> DEFINE h == Ev!Frame("handler", Head(eQueue).scope, Head(eQueue).event)
  <1>1. /\ frames # <<>> /\ Ev!Caller.kind = "digest" /\ eQueue # <<>>
        /\ frames' = Append(frames, h) /\ eQueue' = Tail(eQueue)
        /\ UNCHANGED <<ePhase, eTimer, fired, ran, unnoticed>>
    BY DEF Ev!Drain, Ev!Idle
  <1>2. EventTypes /\ Bottomed /\ Covered
    BY DEF EventInv
  <1>3. Head(eQueue) \in Deferred /\ eQueue' \in Seq(Deferred)
    BY <1>1, <1>2 DEF EventTypes
  <1>4. h \in EventFrames /\ h.kind = "handler"
    BY <1>3 DEF Ev!Frame, EventFrames, Deferred
  <1> HIDE DEF h
  <1>5. \A i \in DOMAIN frames : frames[i].kind = "digest" => frames[i].dirty
    BY <1>1, <1>2 DEF Bottomed
  <1>6. Bottomed' /\ frames' \in Seq(EventFrames) /\ frames' # <<>> /\ frames'[1] = frames[1]
    BY <1>1, <1>2, <1>4, <1>5, FramePushed
  <1>7. EventTypes'
    BY <1>1, <1>2, <1>3, <1>6, Zenon DEF EventTypes
  <1>8. Covered'
    BY <1>1, <1>2, <1>6, Zenon DEF Covered
  <1> QED BY <1>6, <1>7, <1>8 DEF EventInv

LEMMA PassInv ==
  ASSUME EventsGiven, EventInv, Ev!Pass
  PROVE  EventInv'
  <1> DEFINE l == Ev!Frame("listener", Ev!Caller.scope, 0)
             c == [Ev!Caller EXCEPT !.dirty = FALSE]
             next == Append(Ev!Pop, c)
  <1>1. /\ frames # <<>> /\ Ev!Caller.kind = "digest" /\ eQueue = <<>> /\ Ev!Caller.dirty
        /\ unnoticed' = (unnoticed /\ Ev!Caller.scope # Root)
        /\ frames' = Append(frames, l) \/ frames' = next
        /\ UNCHANGED <<ePhase, eQueue, eTimer, fired, ran>>
    BY DEF Ev!Pass, Ev!Idle
  <1>2. EventTypes /\ Bottomed /\ Covered
    BY DEF EventInv
  <1>3. /\ Len(frames) \in Nat \ {0} /\ DOMAIN frames = 1 .. Len(frames)
        /\ Ev!Caller = frames[Len(frames)] /\ Ev!Caller \in EventFrames
    BY <1>1, <1>2, EventStack
  <1>3a. Len(frames) \in DOMAIN frames
    BY <1>3
  <1>4. Ev!Caller.scope = Root /\ unnoticed' = FALSE
    <2>1. Ev!Caller.scope = Root
      BY <1>1, <1>2, <1>3, <1>3a DEF Bottomed
    <2> QED BY <1>1, <2>1
  <1>5. l \in EventFrames /\ l.kind = "listener"
    BY <1>4 DEF Ev!Frame, EventFrames, EventsGiven
  <1>6. c \in EventFrames /\ c.kind = "digest" /\ c.scope = Root
    BY <1>1, <1>3, <1>4 DEF EventFrames
  <1>7. /\ next \in Seq(EventFrames) /\ Len(next) = Len(frames)
        /\ \A k \in 1 .. Len(frames) - 1 : next[k] = frames[k]
        /\ next[Len(frames)] = c
    BY <1>1, <1>2, <1>6, EventStack
  <1> HIDE DEF l, c, next
  <1>8. \A i \in DOMAIN frames : frames[i].kind = "digest" => frames[i].dirty
    BY <1>1, <1>2, <1>3, <1>3a DEF Bottomed
  <1>9. Bottomed' /\ frames' \in Seq(EventFrames) /\ frames' # <<>>
    <2>1. CASE frames' = Append(frames, l)
      BY <1>1, <1>2, <1>5, <1>8, <2>1, FramePushed
    <2>2. CASE frames' = next
      <3>1. DOMAIN frames' = 1 .. Len(frames) /\ frames' # <<>> /\ Len(frames') = Len(frames)
        BY <1>3, <1>7, <2>2
      <3>2. ASSUME NEW t \in Scopes, ePhase'[t] \in {"$apply", "$digest"}
            PROVE  \E j \in DOMAIN frames' : HolderOf(t, j)'
        <4>1. PICK j \in DOMAIN frames : HolderOf(t, j)
          BY <1>1, <1>2, <3>2 DEF Bottomed
        <4>2. CASE j = Len(frames)
          <5>1. frames'[j] = c /\ t = Root
            BY <1>3, <1>4, <1>7, <2>2, <4>1, <4>2 DEF HolderOf
          <5> QED BY <1>3, <1>6, <3>1, <4>1, <5>1 DEF HolderOf
        <4>3. CASE j # Len(frames)
          <5>1. frames'[j] = frames[j]
            BY <1>3, <1>7, <2>2, <4>3
          <5> QED BY <1>3, <3>1, <4>1, <5>1 DEF HolderOf
        <4> QED BY <4>2, <4>3
      <3>3. frames'[1].kind \in {"apply", "digest"}
        <4>1. CASE Len(frames) = 1
          BY <1>6, <1>7, <2>2, <4>1
        <4>2. CASE Len(frames) # 1
          <5>1. frames'[1] = frames[1]
            BY <1>3, <1>7, <2>2, <4>2
          <5> QED BY <1>1, <1>2, <5>1 DEF Bottomed
        <4> QED BY <4>1, <4>2
      <3>4. ASSUME NEW j \in DOMAIN frames', frames'[j].kind = "digest"
            PROVE  frames'[j].scope = Root /\ (~frames'[j].dirty => j = Len(frames'))
        <4>1. CASE j = Len(frames)
          <5>1. frames'[j] = c
            BY <1>7, <2>2, <4>1
          <5> QED BY <1>6, <3>1, <4>1, <5>1
        <4>2. CASE j # Len(frames)
          <5>1. frames'[j] = frames[j] /\ j \in DOMAIN frames
            BY <1>3, <1>7, <2>2, <3>1, <4>2
          <5> QED BY <1>2, <1>8, <3>4, <5>1 DEF Bottomed
        <4> QED BY <4>1, <4>2
      <3> QED BY <1>1, <1>7, <2>2, <3>1, <3>2, <3>3, <3>4 DEF Bottomed
    <2> QED BY <1>1, <2>1, <2>2
  <1>10. EventTypes'
    BY <1>1, <1>2, <1>4, <1>9, Zenon DEF EventTypes
  <1>11. Covered'
    BY <1>1, <1>4, <1>9, Zenon DEF Covered
  <1> QED BY <1>9, <1>10, <1>11 DEF EventInv

\* The top frame taken off, and with a call of $digest its phase.
LEMMA FramePopped ==
  ASSUME EventTypes, Bottomed, frames # <<>>, frames' = Ev!Pop, UNCHANGED eQueue,
         \/ Ev!Caller.kind \notin {"apply", "digest"} /\ ePhase' = ePhase
         \/ Ev!Caller.kind = "digest" /\ ePhase' = [ePhase EXCEPT ![Ev!Caller.scope] = "null"]
  PROVE  /\ Bottomed' /\ frames' \in Seq(EventFrames)
         /\ frames' # <<>> => frames'[1] = frames[1] /\ (frames[1].kind = "digest" => frames[1].dirty)
         /\ frames' = <<>> => Ev!Caller = frames[1] /\ Ev!Caller.kind = "digest"
  <1>1. /\ Len(frames) \in Nat \ {0} /\ DOMAIN frames = 1 .. Len(frames)
        /\ Ev!Caller = frames[Len(frames)] /\ Ev!Caller \in EventFrames
        /\ frames' \in Seq(EventFrames) /\ Len(frames') = Len(frames) - 1
        /\ \A k \in 1 .. Len(frames) - 1 : frames'[k] = frames[k]
    BY EventStack
  <1>2. /\ DOMAIN frames' = 1 .. Len(frames) - 1 /\ DOMAIN frames' \subseteq DOMAIN frames
        /\ \A k \in DOMAIN frames' : k # Len(frames) /\ frames'[k] = frames[k]
    BY <1>1
  <1>3. ASSUME NEW t \in Scopes, ePhase'[t] \in {"$apply", "$digest"}
        PROVE  \E j \in DOMAIN frames' : HolderOf(t, j)'
    <2>1. ePhase[t] \in {"$apply", "$digest"} /\ (Ev!Caller.kind = "digest" => t # Ev!Caller.scope)
      BY <1>3 DEF EventTypes
    <2>2. PICK j \in DOMAIN frames : HolderOf(t, j)
      BY <2>1 DEF Bottomed
    <2>3. j # Len(frames)
      BY <1>1, <2>1, <2>2 DEF HolderOf
    <2>4. j \in DOMAIN frames' /\ frames'[j] = frames[j]
      BY <1>1, <1>2, <2>2, <2>3
    <2> QED BY <2>2, <2>4 DEF HolderOf
  <1>4. ASSUME NEW j \in DOMAIN frames', frames'[j].kind = "digest"
        PROVE  frames'[j].scope = Root /\ frames'[j].dirty
    BY <1>2, <1>4 DEF Bottomed
  <1>5. ASSUME frames' # <<>>
        PROVE  /\ 1 \in DOMAIN frames' /\ frames'[1] = frames[1] /\ frames'[1].kind \in {"apply", "digest"}
               /\ (frames[1].kind = "digest" => frames[1].dirty)
    <2>1. Len(frames') # 0
      BY <1>1, <1>5
    <2>2. 1 \in DOMAIN frames'
      BY <1>1, <1>2, <2>1
    <2>3. frames'[1] = frames[1] /\ frames'[1].kind \in {"apply", "digest"}
      BY <1>2, <2>2 DEF Bottomed
    <2>4. frames'[1].kind = "digest" => frames'[1].dirty
      BY <1>4, <2>2
    <2> QED BY <2>2, <2>3, <2>4
  <1>6. ASSUME frames' = <<>> PROVE Ev!Caller = frames[1] /\ Ev!Caller.kind = "digest"
    <2>1. Len(frames') = 0
      BY <1>6
    <2>2. Len(frames) \in Nat /\ Len(frames') = Len(frames) - 1
      BY <1>1
    <2>3. \A a \in Nat : \A b : b = a - 1 /\ b = 0 => a = 1
      OBVIOUS
    <2>4. Len(frames) = 1
      BY <2>1, <2>2, <2>3, Zenon
    <2> QED BY <1>1, <2>4 DEF Bottomed
  <1>7. Bottomed'
    BY <1>3, <1>4, <1>5 DEF Bottomed
  <1> QED BY <1>1, <1>5, <1>6, <1>7

LEMMA DigestEndsInv ==
  ASSUME EventsGiven, EventInv, Ev!DigestEnds
  PROVE  EventInv'
  <1>1. /\ frames # <<>> /\ Ev!Caller.kind = "digest" /\ eQueue = <<>> /\ ~Ev!Caller.dirty
        /\ frames' = Ev!Pop /\ ePhase' = [ePhase EXCEPT ![Ev!Caller.scope] = "null"]
        /\ UNCHANGED <<eQueue, eTimer, fired, ran, unnoticed>>
    BY DEF Ev!DigestEnds, Ev!Idle
  <1>2. EventTypes /\ Bottomed /\ Covered
    BY DEF EventInv
  <1>3. /\ Bottomed' /\ frames' \in Seq(EventFrames)
        /\ frames' # <<>> => frames'[1] = frames[1] /\ (frames[1].kind = "digest" => frames[1].dirty)
        /\ frames' = <<>> => Ev!Caller = frames[1] /\ Ev!Caller.kind = "digest"
    BY <1>1, <1>2, FramePopped
  <1>4. ePhase' \in [Scopes -> {"absent", "null", "$apply", "$digest"}] /\ ePhase'[Root] # "absent"
    <2>1. Ev!Caller \in EventFrames
      BY <1>1, <1>2, EventStack
    <2>2. Ev!Caller.scope \in Scopes
      BY <2>1 DEF EventFrames
    <2> QED BY <1>1, <1>2, <2>2 DEF EventTypes, EventsGiven
  <1>5. EventTypes'
    BY <1>1, <1>2, <1>3, <1>4, Zenon DEF EventTypes
  <1>6. Covered'
    BY <1>1, <1>2, <1>3, Zenon DEF Covered
  <1> QED BY <1>3, <1>5, <1>6 DEF EventInv

LEMMA ReturnsInv ==
  ASSUME EventsGiven, EventInv, Ev!Returns
  PROVE  EventInv'
  <1>1. /\ frames # <<>> /\ Ev!Caller.kind \in {"code", "handler", "listener"}
        /\ frames' = Ev!Pop
        /\ \/ Ev!Caller.kind = "handler" /\ ran' = Append(ran, Ev!Caller.event) /\ unnoticed' = TRUE
           \/ UNCHANGED <<ran, unnoticed>>
        /\ UNCHANGED <<ePhase, eQueue, eTimer, fired>>
    BY DEF Ev!Returns, Ev!Idle, Ev!Callbacks
  <1>2. EventTypes /\ Bottomed /\ Covered
    BY DEF EventInv
  <1>3. /\ Bottomed' /\ frames' \in Seq(EventFrames)
        /\ frames' # <<>> => frames'[1] = frames[1] /\ (frames[1].kind = "digest" => frames[1].dirty)
        /\ frames' = <<>> => Ev!Caller = frames[1] /\ Ev!Caller.kind = "digest"
    BY <1>1, <1>2, FramePopped
  <1>4. frames' # <<>>
    BY <1>1, <1>3
  <1>5. ran' \in Seq(Nat) /\ unnoticed' \in BOOLEAN
    <2>1. Ev!Caller \in EventFrames
      BY <1>1, <1>2, EventStack
    <2>2. Ev!Caller.event \in Nat
      BY <2>1 DEF EventFrames
    <2>3. ran \in Seq(Nat) /\ \A e \in Nat : Append(ran, e) \in Seq(Nat)
      BY <1>2, AppendFacts DEF EventTypes
    <2>4. ran' \in Seq(Nat)
      BY <1>1, <2>2, <2>3, Zenon
    <2> QED BY <1>1, <1>2, <2>4, Zenon DEF EventTypes
  <1>6. EventTypes'
    BY <1>1, <1>2, <1>3, <1>5, Zenon DEF EventTypes
  <1>7. Covered'
    BY <1>1, <1>2, <1>3, <1>4, Zenon DEF Covered
  <1> QED BY <1>3, <1>6, <1>7 DEF EventInv

\* A scope finds itself in a phase only while something is on the stack.
LEMMA InPhaseCalled ==
  ASSUME EventsGiven, EventInv, NEW s \in Scopes, Ev!InPhase(s)
  PROVE  frames # <<>>
  <1>1. EventTypes /\ Bottomed
    BY DEF EventInv
  <1>2. PICK k \in DOMAIN Chain[s] : ePhase[Chain[s][k]] \notin {"absent", "null"}
    BY DEF Ev!InPhase
  <1>3. Chain[s][k] \in Scopes
    BY <1>2 DEF EventsGiven
  <1>4. ePhase[Chain[s][k]] \in {"$apply", "$digest"}
    BY <1>1, <1>2, <1>3 DEF EventTypes
  <1>5. PICK j \in DOMAIN frames : HolderOf(Chain[s][k], j)
    BY <1>1, <1>3, <1>4 DEF Bottomed
  <1> QED BY <1>5

LEMMA FireInv ==
  ASSUME EventsGiven, EventInv, NEW s \in Scopes, Ev!Fire(s)
  PROVE  EventInv'
  <1>1. Ev!UserCode /\ fired' = fired + 1 /\ UNCHANGED <<ran, unnoticed>>
    BY DEF Ev!Fire
  <1>2. EventTypes /\ Bottomed /\ Covered
    BY DEF EventInv
  <1>3. fired' \in Nat
    BY <1>1, <1>2 DEF EventTypes
  <1>4. CASE Ev!InPhase(s)
    <2> DEFINE item == [event |-> fired + 1, scope |-> s]
    <2>1. /\ eQueue' = Append(eQueue, item)
          /\ eTimer' = (eTimer \/ (~Ev!InPhase(Root) /\ eQueue = <<>>))
          /\ UNCHANGED <<ePhase, frames>>
      BY <1>4 DEF Ev!Fire
    <2>2. eQueue' \in Seq(Deferred) /\ eTimer' \in BOOLEAN
      <3>1. item \in Deferred
        BY <1>2 DEF Deferred, EventTypes
      <3>2. eQueue' \in Seq(Deferred)
        BY <1>2, <2>1, <3>1 DEF EventTypes
      <3> QED BY <2>1, <3>2, Zenon
    <2>3. EventTypes'
      BY <1>1, <1>2, <1>3, <2>1, <2>2, Zenon DEF EventTypes
    <2>4. frames # <<>>
      BY <1>4, InPhaseCalled
    <2>5. Ev!Caller = frames[Len(frames)] /\ Ev!Caller.kind # "digest"
      BY <1>1, <1>2, <2>4, EventStack DEF Ev!UserCode, Ev!Idle, Ev!Callbacks
    <2>6. Bottomed'
      BY <1>2, <2>1, <2>5, Zenon DEF Bottomed, HolderOf
    <2>7. Covered'
      BY <1>1, <1>2, <2>1, <2>4, Zenon DEF Covered
    <2> QED BY <2>3, <2>6, <2>7 DEF EventInv
  <1>5. CASE ~Ev!InPhase(s)
    <2> DEFINE h == Ev!Frame("handler", s, fired + 1)
    <2>1. Ev!BeginApply(s, h) /\ UNCHANGED <<eQueue, eTimer>>
      BY <1>5 DEF Ev!Fire
    <2>2. h \in EventFrames /\ h.kind = "handler"
      BY <1>2 DEF Ev!Frame, EventFrames, EventTypes
    <2> HIDE DEF h
    <2> QED BY <1>1, <1>3, <2>1, <2>2, ApplyBegins
  <1> QED BY <1>4, <1>5

LEMMA EventStep ==
  ASSUME EventsGiven, EventInv, [Ev!Next]_(Ev!eventVars)
  PROVE  EventInv'
  <1>1. ASSUME NEW s \in Scopes, Ev!CallApply(s) PROVE EventInv'
    <2> DEFINE c == Ev!Frame("code", s, 0)
    <2>1. c \in EventFrames /\ c.kind = "code"
      BY DEF Ev!Frame, EventFrames
    <2>2. Ev!BeginApply(s, c) /\ Ev!UserCode /\ UNCHANGED <<eQueue, eTimer, unnoticed, ran, fired>>
      BY <1>1 DEF Ev!CallApply, Ev!UserCode
    <2> HIDE DEF c
    <2>3. fired' \in Nat
      BY <2>2 DEF EventInv, EventTypes
    <2> QED BY <2>1, <2>2, <2>3, ApplyBegins
  <1>2. ASSUME NEW s \in Scopes, Ev!CallDigest(s) PROVE EventInv'
    <2>1. /\ Ev!BeginDigest(Root, <<>>) /\ frames = <<>> /\ UNCHANGED <<eQueue, eTimer, unnoticed, ran, fired>>
      BY <1>2 DEF Ev!CallDigest, Ev!Idle, EventsGiven
    <2>2. fired' \in Nat /\ eTimer' \in BOOLEAN
      BY <2>1, Zenon DEF EventInv, EventTypes
    <2> QED BY <2>1, <2>2, DigestBegins
  <1>3. ASSUME NEW s \in Scopes, Ev!Destroy(s) PROVE EventInv'
    BY <1>3, Zenon DEF Ev!Destroy, EventInv, EventTypes, Bottomed, Covered, HolderOf
  <1>4. ASSUME Ev!Timeout PROVE EventInv'
    <2>1. frames = <<>> /\ eTimer' = FALSE /\ UNCHANGED <<eQueue, fired, ran, unnoticed>>
      BY <1>4 DEF Ev!Timeout, Ev!Idle
    <2>2. CASE eQueue = <<>>
      <3>1. UNCHANGED <<ePhase, frames>>
        BY <1>4, <2>2 DEF Ev!Timeout
      <3> QED BY <2>1, <2>2, <3>1, Zenon DEF EventInv, EventTypes, Bottomed, Covered, HolderOf
    <2>3. CASE eQueue # <<>>
      <3>1. Ev!BeginDigest(Root, <<>>)
        BY <1>4, <2>3 DEF Ev!Timeout
      <3>2. fired' \in Nat /\ eTimer' \in BOOLEAN
        BY <2>1 DEF EventInv, EventTypes
      <3> QED BY <2>1, <3>1, <3>2, DigestBegins
    <2> QED BY <2>2, <2>3
  <1>5. ASSUME UNCHANGED Ev!eventVars PROVE EventInv'
    BY <1>5, Zenon DEF Ev!eventVars, EventInv, EventTypes, Bottomed, Covered, HolderOf
  <1> QED BY <1>1, <1>2, <1>3, <1>4, <1>5, ApplyEndsInv, DrainInv, PassInv, DigestEndsInv, ReturnsInv, FireInv
          DEF Ev!Next

\* What an action makes of the places.
LEMMA EventQueued ==
  ASSUME InPlace, fired \in Nat, fired' = fired + 1, NEW n,
         \A e : ~QueuedAt(e, n),
         \A e, k : QueuedAt(e, k)' <=> QueuedAt(e, k) \/ (e = fired + 1 /\ k = n),
         \A e, k : RanAt(e, k)' <=> RanAt(e, k), \A e, k : RunningAt(e, k)' <=> RunningAt(e, k)
  PROVE  InPlace'
  <1>1. \A e : e \in 1 .. fired' <=> e \in 1 .. fired \/ e = fired + 1
    OBVIOUS
  <1>2. fired + 1 \notin 1 .. fired
    OBVIOUS
  <1>3. \A k : ~RanAt(fired + 1, k) /\ ~QueuedAt(fired + 1, k) /\ ~RunningAt(fired + 1, k)
    BY <1>2, Zenon DEF InPlace, InSomePlace
  <1>4. EachInOnePlace /\ InSomePlace
    BY DEF InPlace
  <1>5. EachInOnePlace'
    BY <1>3, <1>4 DEF EachInOnePlace
  <1>6. ASSUME NEW e
        PROVE  e \in 1 .. fired' <=> \E k : RanAt(e, k)' \/ QueuedAt(e, k)' \/ RunningAt(e, k)'
    <2>1. e \in 1 .. fired <=> \E k : RanAt(e, k) \/ QueuedAt(e, k) \/ RunningAt(e, k)
      BY <1>4, Zenon DEF InSomePlace
    <2> QED BY <1>1, <2>1, Zenon
  <1> QED BY <1>5, <1>6, Zenon DEF InPlace, InSomePlace

LEMMA EventRunning ==
  ASSUME InPlace, fired \in Nat, fired' = fired + 1, NEW n,
         \A e : ~RunningAt(e, n),
         \A e, k : RunningAt(e, k)' <=> RunningAt(e, k) \/ (e = fired + 1 /\ k = n),
         \A e, k : RanAt(e, k)' <=> RanAt(e, k), \A e, k : QueuedAt(e, k)' <=> QueuedAt(e, k)
  PROVE  InPlace'
  <1>1. \A e : e \in 1 .. fired' <=> e \in 1 .. fired \/ e = fired + 1
    OBVIOUS
  <1>2. fired + 1 \notin 1 .. fired
    OBVIOUS
  <1>3. \A k : ~RanAt(fired + 1, k) /\ ~QueuedAt(fired + 1, k) /\ ~RunningAt(fired + 1, k)
    BY <1>2, Zenon DEF InPlace, InSomePlace
  <1>4. EachInOnePlace /\ InSomePlace
    BY DEF InPlace
  <1>5. EachInOnePlace'
    BY <1>3, <1>4 DEF EachInOnePlace
  <1>6. ASSUME NEW e
        PROVE  e \in 1 .. fired' <=> \E k : RanAt(e, k)' \/ QueuedAt(e, k)' \/ RunningAt(e, k)'
    <2>1. e \in 1 .. fired <=> \E k : RanAt(e, k) \/ QueuedAt(e, k) \/ RunningAt(e, k)
      BY <1>4, Zenon DEF InSomePlace
    <2> QED BY <1>1, <2>1, Zenon
  <1> QED BY <1>5, <1>6, Zenon DEF InPlace, InSomePlace

LEMMA EventTaken ==
  ASSUME InPlace, fired' = fired, NEW h, NEW n, QueuedAt(h, 1),
         \A e : ~RunningAt(e, n), \A e, k : QueuedAt(e, k) => k \in Nat \ {0},
         \A e, k : RunningAt(e, k)' <=> RunningAt(e, k) \/ (e = h /\ k = n),
         \A e, k : QueuedAt(e, k)' <=> k \in Nat \ {0} /\ QueuedAt(e, k + 1),
         \A e, k : RanAt(e, k)' <=> RanAt(e, k)
  PROVE  InPlace'
  <1>1. EachInOnePlace /\ InSomePlace
    BY DEF InPlace
  <1>2. \A k : ~RanAt(h, k) /\ ~RunningAt(h, k) /\ (QueuedAt(h, k) => k = 1)
    BY <1>1, Zenon DEF EachInOnePlace
  <1>3. \A k \in Nat \ {0} : k + 1 # 1
    OBVIOUS
  <1>4. \A k : ~QueuedAt(h, k)'
    BY <1>2, <1>3, Zenon
  <1>5. \A j, k \in Nat \ {0} : j + 1 = k + 1 => j = k
    OBVIOUS
  <1>6. EachInOnePlace'
    <2> SUFFICES ASSUME NEW e, NEW j, NEW k
                 PROVE  /\ RanAt(e, j)' /\ RanAt(e, k)' => j = k
                        /\ QueuedAt(e, j)' /\ QueuedAt(e, k)' => j = k
                        /\ RunningAt(e, j)' /\ RunningAt(e, k)' => j = k
                        /\ ~(RanAt(e, j)' /\ QueuedAt(e, k)')
                        /\ ~(RanAt(e, j)' /\ RunningAt(e, k)')
                        /\ ~(QueuedAt(e, j)' /\ RunningAt(e, k)')
      BY Zenon DEF EachInOnePlace
    <2>1. QueuedAt(e, j)' /\ QueuedAt(e, k)' => j = k
      <3> SUFFICES ASSUME QueuedAt(e, j)', QueuedAt(e, k)' PROVE j = k
        OBVIOUS
      <3>1. j \in Nat \ {0} /\ k \in Nat \ {0} /\ QueuedAt(e, j + 1) /\ QueuedAt(e, k + 1)
        OBVIOUS
      <3>2. j + 1 = k + 1
        BY <1>1, <3>1, Zenon DEF EachInOnePlace
      <3> QED BY <1>5, <3>1, <3>2
    <2>2. RanAt(e, j)' /\ RanAt(e, k)' => j = k
      BY <1>1, Zenon DEF EachInOnePlace
    <2>3. RunningAt(e, j)' /\ RunningAt(e, k)' => j = k
      BY <1>1, <1>2, Zenon DEF EachInOnePlace
    <2>4. ~(RanAt(e, j)' /\ QueuedAt(e, k)')
      BY <1>1, Zenon DEF EachInOnePlace
    <2>5. ~(RanAt(e, j)' /\ RunningAt(e, k)')
      BY <1>1, <1>2, Zenon DEF EachInOnePlace
    <2>6. ~(QueuedAt(e, j)' /\ RunningAt(e, k)')
      BY <1>1, <1>4, Zenon DEF EachInOnePlace
    <2> QED BY <2>1, <2>2, <2>3, <2>4, <2>5, <2>6
  <1>7. ASSUME NEW e PROVE (\E k : QueuedAt(e, k)) <=> e = h \/ \E k : QueuedAt(e, k)'
    <2>1. ASSUME NEW k, QueuedAt(e, k), e # h PROVE \E l : QueuedAt(e, l)'
      <3>1. k # 1
        BY <1>1, <2>1 DEF QueuedAt
      <3>2. PICK l \in Nat \ {0} : k = l + 1
        <4>1. k \in Nat \ {0}
          BY <2>1
        <4> QED BY <3>1, <4>1
      <3>3. QueuedAt(e, l)'
        BY <2>1, <3>2
      <3> QED BY <3>3
    <2>2. ASSUME NEW k, QueuedAt(e, k)' PROVE \E l : QueuedAt(e, l)
      BY <2>2
    <2> QED BY <2>1, <2>2
  <1>8. ASSUME NEW e
        PROVE  e \in 1 .. fired' <=> \E k : RanAt(e, k)' \/ QueuedAt(e, k)' \/ RunningAt(e, k)'
    <2>1. e \in 1 .. fired <=> \E k : RanAt(e, k) \/ QueuedAt(e, k) \/ RunningAt(e, k)
      BY <1>1, Zenon DEF InSomePlace
    <2> QED BY <1>7, <2>1, Zenon
  <1> QED BY <1>6, <1>8, Zenon DEF InPlace, InSomePlace

LEMMA EventRan ==
  ASSUME InPlace, fired' = fired, NEW h, NEW n, NEW m, RunningAt(h, n),
         \A e : ~RanAt(e, m),
         \A e, k : RunningAt(e, k)' <=> RunningAt(e, k) /\ k # n,
         \A e, k : RanAt(e, k)' <=> RanAt(e, k) \/ (e = h /\ k = m),
         \A e : RunningAt(e, n) => e = h,
         \A e, k : QueuedAt(e, k)' <=> QueuedAt(e, k)
  PROVE  InPlace'
  <1>1. EachInOnePlace /\ InSomePlace
    BY DEF InPlace
  <1>2. \A k : ~RanAt(h, k) /\ ~QueuedAt(h, k) /\ (RunningAt(h, k) => k = n)
    BY <1>1, Zenon DEF EachInOnePlace
  <1>3. EachInOnePlace'
    <2> SUFFICES ASSUME NEW e, NEW j, NEW k
                 PROVE  /\ RanAt(e, j)' /\ RanAt(e, k)' => j = k
                        /\ QueuedAt(e, j)' /\ QueuedAt(e, k)' => j = k
                        /\ RunningAt(e, j)' /\ RunningAt(e, k)' => j = k
                        /\ ~(RanAt(e, j)' /\ QueuedAt(e, k)')
                        /\ ~(RanAt(e, j)' /\ RunningAt(e, k)')
                        /\ ~(QueuedAt(e, j)' /\ RunningAt(e, k)')
      BY Zenon DEF EachInOnePlace
    <2>1. RanAt(e, j)' /\ RanAt(e, k)' => j = k
      BY <1>1, <1>2, Zenon DEF EachInOnePlace
    <2>2. QueuedAt(e, j)' /\ QueuedAt(e, k)' => j = k
      BY <1>1, Zenon DEF EachInOnePlace
    <2>3. RunningAt(e, j)' /\ RunningAt(e, k)' => j = k
      BY <1>1, Zenon DEF EachInOnePlace
    <2>4. ~(RanAt(e, j)' /\ QueuedAt(e, k)')
      BY <1>1, <1>2, Zenon DEF EachInOnePlace
    <2>5. ~(RanAt(e, j)' /\ RunningAt(e, k)')
      BY <1>1, <1>2, Zenon DEF EachInOnePlace
    <2>6. ~(QueuedAt(e, j)' /\ RunningAt(e, k)')
      BY <1>1, Zenon DEF EachInOnePlace
    <2> QED BY <2>1, <2>2, <2>3, <2>4, <2>5, <2>6
  <1>4. ASSUME NEW e
        PROVE  e \in 1 .. fired' <=> \E k : RanAt(e, k)' \/ QueuedAt(e, k)' \/ RunningAt(e, k)'
    <2>1. e \in 1 .. fired <=> \E k : RanAt(e, k) \/ QueuedAt(e, k) \/ RunningAt(e, k)
      BY <1>1, Zenon DEF InSomePlace
    <2>2. ASSUME NEW k, RunningAt(e, k) PROVE \E l : RanAt(e, l)' \/ RunningAt(e, l)'
      <3>1. CASE k = n
        <4>1. e = h
          BY <2>2, <3>1
        <4>2. RanAt(e, m)'
          BY <4>1, Zenon
        <4> QED BY <4>2, Zenon
      <3>2. CASE k # n
        <4>1. RunningAt(e, k)'
          BY <2>2, <3>2, Zenon
        <4> QED BY <4>1, Zenon
      <3> QED BY <3>1, <3>2
    <2>3. ASSUME NEW k, RanAt(e, k)' PROVE \E l : RanAt(e, l) \/ RunningAt(e, l)
      BY <2>3, Zenon
    <2> QED BY <2>1, <2>2, <2>3, Zenon
  <1> QED BY <1>3, <1>4, Zenon DEF InPlace, InSomePlace

\* Nothing moves.
LEMMA PlacesKept ==
  ASSUME InPlace, fired' = fired,
         \A e, k : RunningAt(e, k)' <=> RunningAt(e, k),
         \A e, k : RanAt(e, k)' <=> RanAt(e, k), \A e, k : QueuedAt(e, k)' <=> QueuedAt(e, k)
  PROVE  InPlace'
  <1>1. EachInOnePlace /\ InSomePlace
    BY DEF InPlace
  <1>2. EachInOnePlace'
    BY <1>1, Zenon DEF EachInOnePlace
  <1>3. InSomePlace'
    BY <1>1 DEF InSomePlace
  <1> QED BY <1>2, <1>3, Zenon DEF InPlace

LEMMA PlacesStep ==
  ASSUME EventsGiven, EventInv, InPlace, [Ev!Next]_(Ev!eventVars)
  PROVE  InPlace'
  <1> DEFINE n == Len(frames)
  <1>1. EventTypes /\ Bottomed
    BY DEF EventInv
  <1>2. /\ n \in Nat /\ DOMAIN frames = 1 .. n
        /\ frames # <<>> => /\ n \in Nat \ {0} /\ Ev!Caller = frames[n] /\ Ev!Caller \in EventFrames
                            /\ Ev!Pop \in Seq(EventFrames) /\ Len(Ev!Pop) = n - 1
                            /\ \A k \in 1 .. n - 1 : Ev!Pop[k] = frames[k]
    BY <1>1, EventStack
  <1>3. /\ fired \in Nat /\ eQueue \in Seq(Deferred) /\ ran \in Seq(Nat)
        /\ Len(eQueue) \in Nat /\ DOMAIN eQueue = 1 .. Len(eQueue)
        /\ Len(ran) \in Nat /\ DOMAIN ran = 1 .. Len(ran)
    BY <1>1 DEF EventTypes
  <1>4. ASSUME UNCHANGED <<frames, eQueue, ran, fired>> PROVE InPlace'
    <2>1. \A e, k : /\ RunningAt(e, k)' <=> RunningAt(e, k)
                    /\ RanAt(e, k)' <=> RanAt(e, k)
                    /\ QueuedAt(e, k)' <=> QueuedAt(e, k)
      BY <1>4 DEF RanAt, QueuedAt, RunningAt
    <2> QED BY <1>4, <2>1, PlacesKept
  <1>5. ASSUME NEW s \in Scopes, NEW f \in EventFrames, Ev!BeginApply(s, f)
        PROVE  /\ \A e : ~RunningAt(e, n + 2)
               /\ \A e, k : RunningAt(e, k)' <=>
                    RunningAt(e, k) \/ (f.kind = "handler" /\ e = f.event /\ k = n + 2)
    <2> DEFINE a == Ev!Frame("apply", s, 0)
    <2>1. a \in EventFrames /\ a.kind = "apply"
      BY DEF Ev!Frame, EventFrames
    <2>2. frames' = frames \o <<a, f>>
      BY <1>5 DEF Ev!BeginApply
    <2> HIDE DEF a
    <2>3. /\ frames' \in Seq(EventFrames) /\ Len(frames') = n + 2
          /\ \A k \in 1 .. n : frames'[k] = frames[k]
          /\ frames'[n + 1] = a /\ frames'[n + 2] = f
      <3>1. /\ frames \o <<a, f>> \in Seq(EventFrames) /\ Len(frames \o <<a, f>>) = Len(frames) + 2
            /\ \A k \in 1 .. Len(frames) : (frames \o <<a, f>>)[k] = frames[k]
            /\ (frames \o <<a, f>>)[Len(frames) + 1] = a /\ (frames \o <<a, f>>)[Len(frames) + 2] = f
        <4>1. \A p, q \in EventFrames :
                /\ frames \o <<p, q>> \in Seq(EventFrames)
                /\ Len(frames \o <<p, q>>) = Len(frames) + 2
                /\ \A k \in 1 .. Len(frames) : (frames \o <<p, q>>)[k] = frames[k]
                /\ (frames \o <<p, q>>)[Len(frames) + 1] = p
                /\ (frames \o <<p, q>>)[Len(frames) + 2] = q
          BY <1>1, EventStack
        <4>2. a \in EventFrames /\ f \in EventFrames
          BY <1>5, <2>1
        <4> QED BY <4>1, <4>2, Zenon
      <3> QED BY <2>2, <3>1, Zenon
    <2> HIDE DEF n
    <2>4. DOMAIN frames' = 1 .. n + 2
      BY <2>3
    <2>5. n + 2 \notin DOMAIN frames /\ n + 1 \notin DOMAIN frames
      BY <1>2
    <2>6. ASSUME NEW e, NEW k
          PROVE  RunningAt(e, k)' <=>
                   RunningAt(e, k) \/ (f.kind = "handler" /\ e = f.event /\ k = n + 2)
      <3>1. CASE k \in 1 .. n
        BY <1>2, <2>3, <2>4, <3>1 DEF RunningAt
      <3>2. CASE k = n + 1
        BY <1>2, <2>1, <2>3, <2>5, <3>2 DEF RunningAt
      <3>3. CASE k = n + 2
        BY <1>2, <2>3, <2>4, <2>5, <3>3 DEF RunningAt
      <3>4. CASE k \notin 1 .. n + 2
        BY <1>2, <2>4, <3>4 DEF RunningAt
      <3> QED BY <1>2, <3>1, <3>2, <3>3, <3>4
    <2>7. \A e : ~RunningAt(e, n + 2)
      BY <2>5 DEF RunningAt
    <2> QED BY <2>6, <2>7
  <1>6. ASSUME NEW f \in EventFrames, frames' = Append(frames, f)
        PROVE  /\ \A e : ~RunningAt(e, n + 1)
               /\ \A e, k : RunningAt(e, k)' <=>
                    RunningAt(e, k) \/ (f.kind = "handler" /\ e = f.event /\ k = n + 1)
    <2>1. /\ frames' \in Seq(EventFrames) /\ Len(frames') = n + 1
          /\ \A k \in 1 .. n : frames'[k] = frames[k]
          /\ frames'[n + 1] = f
      BY <1>1, <1>6, EventStack
    <2> HIDE DEF n
    <2>2. DOMAIN frames' = 1 .. n + 1 /\ n + 1 \notin DOMAIN frames
      BY <1>2, <2>1
    <2>3. ASSUME NEW e, NEW k
          PROVE  RunningAt(e, k)' <=>
                   RunningAt(e, k) \/ (f.kind = "handler" /\ e = f.event /\ k = n + 1)
      <3>1. CASE k \in 1 .. n
        BY <1>2, <2>1, <2>2, <3>1 DEF RunningAt
      <3>2. CASE k = n + 1
        BY <1>2, <2>1, <2>2, <3>2 DEF RunningAt
      <3>3. CASE k \notin 1 .. n + 1
        BY <1>2, <2>2, <3>3 DEF RunningAt
      <3> QED BY <1>2, <3>1, <3>2, <3>3
    <2>4. \A e : ~RunningAt(e, n + 1)
      BY <2>2 DEF RunningAt
    <2> QED BY <2>3, <2>4
  <1>7. ASSUME frames # <<>>, frames' = Ev!Pop, NEW e, NEW k
        PROVE  RunningAt(e, k)' <=> RunningAt(e, k) /\ k # n
    <2>1. /\ frames' \in Seq(EventFrames) /\ Len(frames') = n - 1
          /\ \A i \in 1 .. n - 1 : frames'[i] = frames[i]
          /\ n \in Nat \ {0}
      BY <1>2, <1>7
    <2> HIDE DEF n
    <2>2. DOMAIN frames' = 1 .. n - 1
      BY <2>1
    <2>3. CASE k \in 1 .. n - 1
      BY <1>2, <2>1, <2>2, <2>3 DEF RunningAt
    <2>4. CASE k \notin 1 .. n - 1
      BY <1>2, <2>1, <2>2, <2>4 DEF RunningAt
    <2> QED BY <2>3, <2>4
  <1>8. ASSUME frames # <<>>, Ev!Caller.kind # "handler", NEW f \in EventFrames, f.kind # "handler",
               frames' = Append(Ev!Pop, f), NEW e, NEW k
        PROVE  RunningAt(e, k)' <=> RunningAt(e, k)
    <2>1. /\ frames' \in Seq(EventFrames) /\ Len(frames') = n
          /\ \A i \in 1 .. n - 1 : frames'[i] = frames[i]
          /\ n \in Nat \ {0} /\ frames'[n] = f
      BY <1>1, <1>8, EventStack
    <2>2. frames[n].kind # "handler"
      BY <1>2, <1>8
    <2> HIDE DEF n
    <2>3. DOMAIN frames' = 1 .. n
      BY <2>1
    <2>4. CASE k \in 1 .. n - 1
      BY <1>2, <2>1, <2>3, <2>4 DEF RunningAt
    <2>5. CASE k = n
      BY <1>2, <1>8, <2>1, <2>2, <2>5 DEF RunningAt
    <2>6. CASE k \notin 1 .. n
      BY <1>2, <2>1, <2>3, <2>6 DEF RunningAt
    <2> QED BY <2>1, <2>4, <2>5, <2>6
  <1> HIDE DEF n
  <1>9. UNCHANGED eQueue => \A e, k : QueuedAt(e, k)' <=> QueuedAt(e, k)
    BY DEF QueuedAt
  <1>10. UNCHANGED ran => \A e, k : RanAt(e, k)' <=> RanAt(e, k)
    BY DEF RanAt
  <1>11. UNCHANGED frames => \A e, k : RunningAt(e, k)' <=> RunningAt(e, k)
    BY DEF RunningAt
  <1>12. ASSUME UNCHANGED <<eQueue, ran, fired>>, \A e, k : RunningAt(e, k)' <=> RunningAt(e, k)
         PROVE  InPlace'
    BY <1>9, <1>10, <1>12, PlacesKept
  <1>13. ASSUME frames # <<>>, frames' = Ev!Pop, Ev!Caller.kind # "handler", NEW e, NEW k
         PROVE  RunningAt(e, k)' <=> RunningAt(e, k)
    <2>1. ~RunningAt(e, n)
      BY <1>2, <1>13 DEF RunningAt
    <2>2. RunningAt(e, k)' <=> RunningAt(e, k) /\ k # n
      BY <1>7, <1>13
    <2> QED BY <2>1, <2>2
  <1>14. ASSUME NEW s \in Scopes, Ev!CallApply(s) PROVE InPlace'
    <2> DEFINE c == Ev!Frame("code", s, 0)
    <2>1. c \in EventFrames /\ c.kind = "code"
      BY DEF Ev!Frame, EventFrames
    <2>2. Ev!BeginApply(s, c) /\ UNCHANGED <<eQueue, ran, fired>>
      BY <1>14 DEF Ev!CallApply
    <2> HIDE DEF c
    <2>3. \A e, k : RunningAt(e, k)' <=> RunningAt(e, k)
      BY <1>5, <2>1, <2>2
    <2> QED BY <1>12, <2>2, <2>3
  <1>15. ASSUME frames = <<>>, Ev!BeginDigest(Root, <<>>), UNCHANGED <<eQueue, ran, fired>> PROVE InPlace'
    <2> DEFINE d == Ev!Frame("digest", Root, 0)
    <2>1. d \in EventFrames /\ d.kind = "digest"
      BY DEF Ev!Frame, EventFrames, EventsGiven
    <2>2. frames' = Append(frames, d)
      BY <1>15 DEF Ev!BeginDigest
    <2> HIDE DEF d
    <2>3. \A e, k : RunningAt(e, k)' <=> RunningAt(e, k)
      BY <1>6, <2>1, <2>2
    <2> QED BY <1>12, <1>15, <2>3
  <1>16. ASSUME NEW s \in Scopes, Ev!CallDigest(s) PROVE InPlace'
    BY <1>15, <1>16 DEF Ev!CallDigest, Ev!Idle, EventsGiven
  <1>17. ASSUME Ev!Timeout PROVE InPlace'
    <2>1. CASE eQueue = <<>>
      BY <1>4, <1>17, <2>1 DEF Ev!Timeout
    <2>2. CASE eQueue # <<>>
      BY <1>15, <1>17, <2>2 DEF Ev!Timeout, Ev!Idle
    <2> QED BY <2>1, <2>2
  <1>18. ASSUME Ev!ApplyEnds PROVE InPlace'
    <2> DEFINE d == Ev!Frame("digest", Root, 0)
    <2>1. d \in EventFrames /\ d.kind = "digest"
      BY DEF Ev!Frame, EventFrames, EventsGiven
    <2>2. /\ frames # <<>> /\ Ev!Caller.kind = "apply" /\ UNCHANGED <<eQueue, ran, fired>>
          /\ frames' = Ev!Pop \/ frames' = Append(Ev!Pop, d)
      BY <1>18 DEF Ev!ApplyEnds, Ev!Idle
    <2> HIDE DEF d
    <2>3. CASE frames' = Ev!Pop
      BY <1>12, <1>13, <2>2, <2>3
    <2>4. CASE frames' = Append(Ev!Pop, d)
      BY <1>8, <1>12, <2>1, <2>2, <2>4
    <2> QED BY <2>2, <2>3, <2>4
  <1>19. ASSUME Ev!Drain PROVE InPlace'
    <2> DEFINE h == Ev!Frame("handler", Head(eQueue).scope, Head(eQueue).event)
    <2>1. /\ frames' = Append(frames, h) /\ eQueue # <<>> /\ eQueue' = Tail(eQueue)
          /\ UNCHANGED <<ran, fired>>
      BY <1>19 DEF Ev!Drain
    <2>2. /\ Len(eQueue) \in Nat \ {0} /\ Head(eQueue) = eQueue[1] /\ Head(eQueue) \in Deferred
          /\ eQueue' \in Seq(Deferred) /\ Len(eQueue') = Len(eQueue) - 1
          /\ \A k \in 1 .. Len(eQueue) - 1 : eQueue'[k] = eQueue[k + 1]
      BY <1>3, <2>1
    <2>3. h \in EventFrames /\ h.kind = "handler" /\ h.event = Head(eQueue).event
      BY <2>2 DEF Ev!Frame, EventFrames, Deferred
    <2> HIDE DEF h
    <2>4. /\ \A e : ~RunningAt(e, n + 1)
          /\ \A e, k : RunningAt(e, k)' <=> RunningAt(e, k) \/ (e = h.event /\ k = n + 1)
      BY <1>6, <2>1, <2>3
    <2>5. QueuedAt(h.event, 1)
      BY <1>3, <2>2, <2>3 DEF QueuedAt
    <2>6. \A e, k : QueuedAt(e, k) => k \in Nat \ {0}
      BY <1>3 DEF QueuedAt
    <2>7. DOMAIN eQueue' = 1 .. Len(eQueue) - 1
      BY <2>2
    <2>8. ASSUME NEW e, NEW k PROVE QueuedAt(e, k)' <=> k \in Nat \ {0} /\ QueuedAt(e, k + 1)
      <3>1. CASE k \in 1 .. Len(eQueue) - 1
        BY <1>3, <2>2, <2>7, <3>1 DEF QueuedAt
      <3>2. CASE k \notin 1 .. Len(eQueue) - 1
        BY <1>3, <2>2, <2>7, <3>2 DEF QueuedAt
      <3> QED BY <3>1, <3>2
    <2>9. \A e, k : RanAt(e, k)' <=> RanAt(e, k)
      BY <1>10, <2>1
    <2> QED BY <2>1, <2>4, <2>5, <2>6, <2>8, <2>9, EventTaken
  <1>20. ASSUME Ev!Pass PROVE InPlace'
    <2> DEFINE l == Ev!Frame("listener", Ev!Caller.scope, 0)
               c == [Ev!Caller EXCEPT !.dirty = FALSE]
    <2>1. /\ frames # <<>> /\ Ev!Caller.kind = "digest" /\ UNCHANGED <<eQueue, ran, fired>>
          /\ frames' = Append(frames, l) \/ frames' = Append(Ev!Pop, c)
      BY <1>20 DEF Ev!Pass, Ev!Idle
    <2>2. Ev!Caller \in EventFrames
      BY <1>2, <2>1
    <2>3. /\ l \in EventFrames /\ l.kind = "listener" /\ c \in EventFrames /\ c.kind = "digest"
      BY <2>1, <2>2 DEF Ev!Frame, EventFrames
    <2> HIDE DEF l, c
    <2>4. CASE frames' = Append(frames, l)
      <3>1. \A e, k : RunningAt(e, k)' <=> RunningAt(e, k)
        BY <1>6, <2>3, <2>4
      <3> QED BY <1>12, <2>1, <3>1
    <2>5. CASE frames' = Append(Ev!Pop, c)
      BY <1>8, <1>12, <2>1, <2>3, <2>5
    <2> QED BY <2>1, <2>4, <2>5
  <1>21. ASSUME Ev!DigestEnds PROVE InPlace'
    BY <1>12, <1>13, <1>21 DEF Ev!DigestEnds, Ev!Idle
  <1>22. ASSUME Ev!Returns PROVE InPlace'
    <2>1. frames # <<>> /\ frames' = Ev!Pop /\ UNCHANGED <<eQueue, fired>>
      BY <1>22 DEF Ev!Returns, Ev!Idle
    <2>2. CASE Ev!Caller.kind # "handler"
      BY <1>12, <1>13, <1>22, <2>1, <2>2 DEF Ev!Returns
    <2>3. CASE Ev!Caller.kind = "handler"
      <3> DEFINE h == Ev!Caller.event
                 m == Len(ran) + 1
      <3>1. ran' = Append(ran, h)
        BY <1>22, <2>3 DEF Ev!Returns
      <3>2. h \in Nat /\ n \in Nat \ {0} /\ Ev!Caller = frames[n]
        BY <1>2, <2>1 DEF EventFrames
      <3>3. RunningAt(h, n) /\ \A e : RunningAt(e, n) => e = h
        BY <1>2, <2>3, <3>2 DEF RunningAt
      <3> HIDE DEF h
      <3>4. /\ ran' \in Seq(Nat) /\ Len(ran') = Len(ran) + 1
            /\ \A k \in 1 .. Len(ran) : ran'[k] = ran[k]
            /\ ran'[m] = h
        BY <1>3, <3>1, <3>2, AppendFacts
      <3>5. DOMAIN ran' = 1 .. Len(ran) + 1 /\ m \notin DOMAIN ran /\ m \in DOMAIN ran'
        BY <1>3, <3>4
      <3>6. ASSUME NEW e, NEW k PROVE RanAt(e, k)' <=> RanAt(e, k) \/ (e = h /\ k = m)
        <4>1. CASE k \in 1 .. Len(ran)
          <5>1. k # m /\ k \in DOMAIN ran /\ k \in DOMAIN ran' /\ ran'[k] = ran[k]
            BY <1>3, <3>4, <3>5, <4>1
          <5> QED BY <5>1, Zenon DEF RanAt
        <4>2. CASE k = m
          BY <1>3, <3>4, <3>5, <4>2 DEF RanAt
        <4>3. CASE k \notin 1 .. Len(ran) + 1
          BY <1>3, <3>5, <4>3 DEF RanAt
        <4> QED BY <1>3, <4>1, <4>2, <4>3
      <3>7. \A e : ~RanAt(e, m)
        BY <3>5 DEF RanAt
      <3> HIDE DEF m
      <3>8. \A e, k : RunningAt(e, k)' <=> RunningAt(e, k) /\ k # n
        BY <1>7, <2>1
      <3> QED BY <1>9, <2>1, <3>3, <3>6, <3>7, <3>8, EventRan
    <2> QED BY <2>2, <2>3
  <1>23. ASSUME NEW s \in Scopes, Ev!Fire(s) PROVE InPlace'
    <2>1. fired' = fired + 1 /\ UNCHANGED ran
      BY <1>23 DEF Ev!Fire
    <2>2. CASE Ev!InPhase(s)
      <3> DEFINE item == [event |-> fired + 1, scope |-> s]
                 m == Len(eQueue) + 1
      <3>1. eQueue' = Append(eQueue, item) /\ UNCHANGED frames
        BY <1>23, <2>2 DEF Ev!Fire
      <3>2. item \in Deferred /\ item.event = fired + 1
        BY <1>3 DEF Deferred
      <3> HIDE DEF item
      <3>3. /\ eQueue' \in Seq(Deferred) /\ Len(eQueue') = Len(eQueue) + 1
            /\ \A k \in 1 .. Len(eQueue) : eQueue'[k] = eQueue[k]
            /\ eQueue'[m] = item
        BY <1>3, <3>1, <3>2, AppendFacts
      <3>4. DOMAIN eQueue' = 1 .. Len(eQueue) + 1 /\ m \notin DOMAIN eQueue /\ m \in DOMAIN eQueue'
        BY <1>3, <3>3
      <3>5. ASSUME NEW e, NEW k PROVE QueuedAt(e, k)' <=> QueuedAt(e, k) \/ (e = fired + 1 /\ k = m)
        <4>1. CASE k \in 1 .. Len(eQueue)
          <5>1. k # m /\ k \in DOMAIN eQueue /\ k \in DOMAIN eQueue' /\ eQueue'[k] = eQueue[k]
            BY <1>3, <3>3, <3>4, <4>1
          <5> QED BY <5>1, Zenon DEF QueuedAt
        <4>2. CASE k = m
          BY <1>3, <3>2, <3>3, <3>4, <4>2 DEF QueuedAt
        <4>3. CASE k \notin 1 .. Len(eQueue) + 1
          BY <1>3, <3>4, <4>3 DEF QueuedAt
        <4> QED BY <1>3, <4>1, <4>2, <4>3
      <3>6. \A e : ~QueuedAt(e, m)
        BY <3>4 DEF QueuedAt
      <3> HIDE DEF m
      <3> QED BY <1>3, <1>10, <1>11, <2>1, <3>1, <3>5, <3>6, EventQueued
    <2>3. CASE ~Ev!InPhase(s)
      <3> DEFINE h == Ev!Frame("handler", s, fired + 1)
      <3>1. Ev!BeginApply(s, h) /\ UNCHANGED eQueue
        BY <1>23, <2>3 DEF Ev!Fire
      <3>2. h \in EventFrames /\ h.kind = "handler" /\ h.event = fired + 1
        BY <1>3 DEF Ev!Frame, EventFrames
      <3> HIDE DEF h
      <3>3. /\ \A e : ~RunningAt(e, n + 2)
            /\ \A e, k : RunningAt(e, k)' <=> RunningAt(e, k) \/ (e = fired + 1 /\ k = n + 2)
        BY <1>5, <3>1, <3>2
      <3> QED BY <1>3, <1>9, <1>10, <2>1, <3>1, <3>3, EventRunning
    <2> QED BY <2>2, <2>3
  <1>24. ASSUME NEW s \in Scopes, Ev!Destroy(s) PROVE InPlace'
    BY <1>4, <1>24 DEF Ev!Destroy
  <1>25. ASSUME UNCHANGED Ev!eventVars PROVE InPlace'
    BY <1>4, <1>25 DEF Ev!eventVars
  <1> QED BY <1>14, <1>16, <1>17, <1>18, <1>19, <1>20, <1>21, <1>22, <1>23, <1>24, <1>25 DEF Ev!Next

\* Every event is handled once: a handler runs for an event at most once; when the
\* event loop is idle and no timeout is left, the handler of every event has run,
\* nothing is queued, and a pass of the root began after the last handler.
THEOREM EventsAreHandled ==
  ASSUME EventsGiven
  PROVE  Ev!Init /\ [][Ev!Next]_(Ev!eventVars) =>
           []( /\ Ev!RunOnce /\ Ev!ChangesSeen
               /\ Ev!Idle /\ ~eTimer => 1 .. fired \subseteq Ev!Range(ran))
  <1> DEFINE Inv == EventInv /\ InPlace
             Goal == /\ Ev!RunOnce /\ Ev!ChangesSeen
                     /\ Ev!Idle /\ ~eTimer => 1 .. fired \subseteq Ev!Range(ran)
  <1>1. Ev!Init => Inv
    <2> SUFFICES ASSUME Ev!Init PROVE Inv
      OBVIOUS
    <2>1. /\ frames = <<>> /\ eQueue = <<>> /\ ran = <<>> /\ fired = 0
          /\ eTimer = FALSE /\ unnoticed = FALSE
          /\ ePhase = [s \in Scopes |-> IF s = Root THEN "null" ELSE "absent"]
      BY DEF Ev!Init
    <2>2. EventTypes
      <3>1. ePhase \in [Scopes -> {"absent", "null", "$apply", "$digest"}] /\ ePhase[Root] # "absent"
        BY <2>1 DEF EventsGiven
      <3>2. frames \in Seq(EventFrames) /\ eQueue \in Seq(Deferred) /\ fired \in Nat /\ ran \in Seq(Nat)
        BY <2>1
      <3> QED BY <2>1, <3>1, <3>2, Zenon DEF EventTypes
    <2>3. Bottomed
      BY <2>1 DEF Bottomed, EventsGiven
    <2>4. Covered
      BY <2>1, Zenon DEF Covered
    <2>5. \A e, k : ~RanAt(e, k) /\ ~QueuedAt(e, k) /\ ~RunningAt(e, k)
      BY <2>1 DEF RanAt, QueuedAt, RunningAt
    <2>6. InPlace
      <3>1. \A e : e \notin 1 .. fired
        BY <2>1
      <3> QED BY <2>5, <3>1, Zenon DEF InPlace, EachInOnePlace, InSomePlace
    <2> QED BY <2>2, <2>3, <2>4, <2>6 DEF EventInv
  <1>2. Inv /\ [Ev!Next]_(Ev!eventVars) => Inv'
    BY EventStep, PlacesStep
  <1>3. Inv => Goal
    <2> SUFFICES ASSUME Inv PROVE Goal
      OBVIOUS
    <2>1. EventTypes /\ Covered /\ EachInOnePlace /\ InSomePlace
      BY DEF EventInv, InPlace
    <2>2. Ev!RunOnce
      <3>1. \A a, b \in DOMAIN ran : ran[a] = ran[b] => a = b
        <4> SUFFICES ASSUME NEW a \in DOMAIN ran, NEW b \in DOMAIN ran, ran[a] = ran[b] PROVE a = b
          OBVIOUS
        <4>1. RanAt(ran[a], a) /\ RanAt(ran[a], b)
          BY DEF RanAt
        <4> QED BY <2>1, <4>1, Zenon DEF EachInOnePlace
      <3>2. \A a \in DOMAIN ran : ran[a] \in 1 .. fired
        <4> SUFFICES ASSUME NEW a \in DOMAIN ran PROVE ran[a] \in 1 .. fired
          OBVIOUS
        <4>1. RanAt(ran[a], a)
          BY DEF RanAt
        <4> QED BY <2>1, <4>1, Zenon DEF InSomePlace
      <3> QED BY <3>1, <3>2 DEF Ev!RunOnce, Ev!IsInjective, Ev!Range
    <2>3. Ev!ChangesSeen
      BY <2>1, Zenon DEF Covered, Ev!ChangesSeen, Ev!Idle
    <2>4. ASSUME Ev!Idle, ~eTimer, NEW e \in 1 .. fired PROVE e \in Ev!Range(ran)
      <3>1. frames = <<>> /\ eQueue = <<>>
        BY <2>1, <2>4, Zenon DEF Covered, Ev!Idle
      <3>2. \A k : ~QueuedAt(e, k) /\ ~RunningAt(e, k)
        BY <3>1 DEF QueuedAt, RunningAt
      <3>3. PICK k : RanAt(e, k)
        BY <2>1, <2>4, <3>2, Zenon DEF InSomePlace
      <3> QED BY <3>3 DEF RanAt, Ev!Range
    <2> QED BY <2>2, <2>3, <2>4
  <1> QED BY <1>1, <1>2, <1>3, PTL

-----------------------------------------------------------------------------
(* Linking                                                                 *)

Apart(s) == \A j, k \in DOMAIN s : s[j] = s[k] => j = k

\* A linker's nodes are a tree, in which no node is twice.  Where one of them waits
\* for a template, the linker links once.
LinkingGiven(tree) ==
  /\ Kids \in [Nodes -> Seq(Nodes)] /\ MaxFailures \in Nat
  /\ \A m, n \in Nodes : \A j \in DOMAIN Kids[m] : \A k \in DOMAIN Kids[n] :
       Kids[m][j] = Kids[n][k] => m = n /\ j = k
  /\ Roots \in Seq(Nodes) /\ tree \in [Lk!Linkers -> SUBSET Nodes] /\ LinkTimes \in [Lk!Linkers -> Nat]
  /\ \A l \in Lk!Linkers :
       /\ Roots[l] \in tree[l]
       /\ \A n \in tree[l] : \A j \in DOMAIN Kids[n] : Kids[n][j] \in tree[l] \ {Roots[l]}
       /\ tree[l] \cap Hosts # {} => LinkTimes[l] <= 1

\* A call of a linker, a node linked by it, the queue it waits in, and the calls.
LinkNames == [linker : Lk!Linkers, number : Nat]
Targets == [link : LinkNames, node : Nodes]
QueueNames == [of : {"linker"}, linker : Lk!Linkers]
                \cup [of : {"host"}, target : [target : Targets, time : Nat]]
NodeFrames ==
  [target : Targets, queue : QueueNames, kid : Nat \ {0},
   step : {"enter", "controllers", "pre", "children", "post", "postLink"}]
LinkerFrames == [linker : Lk!Linkers \cup Targets, queue : QueueNames, step : {"linker"}]
LinkEvents ==
  [target : Targets, step : {"install", "drop", "controllers", "pre", "post", "postLink"}]

\* The types of the state.
LinkTypes ==
  /\ linked \in [Lk!Linkers -> Nat] /\ lFailures \in 0 .. MaxFailures
  /\ linkers \in Seq(NodeFrames \cup LinkerFrames) /\ done \in Seq(LinkEvents)
  /\ waiting \in Seq(Targets) /\ arrived \in Seq([entry : Targets, ok : BOOLEAN])
  /\ drains \in Seq(QueueNames)
  /\ lQueue \in [DOMAIN lQueue -> Seq(Targets)] /\ DOMAIN lQueue \subseteq QueueNames

\* The lowest call is that of a linker; above it are its nodes, which share its queue.
Base == linkers[Len(linkers)]
NodeAt(i) == i \in DOMAIN linkers /\ i < Len(linkers)
Based ==
  linkers # <<>> =>
    /\ Base \in LinkerFrames
    /\ Base.queue.of = "linker" => linked[Base.queue.linker] >= 1
    /\ Base.queue.of = "host" => Base.queue.target.time < Len(done)
    /\ \A i : NodeAt(i) =>
         /\ linkers[i] \in NodeFrames /\ linkers[i].queue = Base.queue
         /\ Base.queue.of = "linker" => linkers[i].target.link.linker = Base.queue.linker

\* What was called of a node, whether bindings that threw cut it off, where it runs
\* or waits, and whether linking it began.
Called(t, step) == [target |-> t, step |-> step] \in Those(done)
Cut(t) == \E u \in lThrown : t \in u.left
Untouched(t) == (\A step : ~Called(t, step)) /\ ~Cut(t)
RunsAt(t, i) == NodeAt(i) /\ linkers[i].target = t
Runs(t) == \E i : RunsAt(t, i)
QueuedIn(t, q) == q \in DOMAIN lQueue /\ t \in Those(lQueue[q])
Queued(t) == \E q : QueuedIn(t, q)
Awaits(t) == t \in Those(waiting) \/ \E k \in DOMAIN arrived : arrived[k].entry = t
Undrained(q) == (linkers # <<>> /\ Base.queue = q) \/ q \in Those(drains)
Begun(t) == Runs(t) \/ Queued(t) \/ Cut(t) \/ \E step : Called(t, step)
\* A child, linked by the same call of the linker.
Kid(t, j) == [link |-> t.link, node |-> Kids[t.node][j]]

\* A host waits in one place: in a queue that is not drained, for its template, or
\* with it; and until it leaves that place nothing of it is called.
HostsWait ==
  /\ \A q \in DOMAIN lQueue : Apart(lQueue[q]) /\ \A t \in Those(lQueue[q]) : t.node \in Hosts
  /\ \A t, q, r : QueuedIn(t, q) /\ QueuedIn(t, r) => q = r
  /\ Apart(waiting) /\ Apart(drains)
  /\ \A j, k \in DOMAIN arrived : arrived[j].entry = arrived[k].entry => j = k
  /\ \A k \in DOMAIN arrived : arrived[k].entry \notin Those(waiting)
  /\ \A t : Awaits(t) => Queued(t) /\ Untouched(t) /\ ~Runs(t)
  /\ \A t, q : QueuedIn(t, q) /\ Undrained(q) => ~Awaits(t) /\ Untouched(t) /\ ~Runs(t)

\* A queue is drained once for each call of a linker, and a name is not used again.
QueuesNamed ==
  /\ Those(drains) \subseteq DOMAIN lQueue
  /\ linkers # <<>> => Base.queue \notin Those(drains)
  /\ \A q \in DOMAIN lQueue :
       /\ q.of = "host" => q.target.time < Len(done)
       /\ q.of = "linker" => linked[q.linker] >= 1 /\ LinkTimes[q.linker] <= 1

\* What a node at each step has still to call, and what it has called.
Ahead(step) ==
  CASE step = "enter" -> {"install", "drop", "controllers", "pre", "post", "postLink"}
    [] step = "controllers" -> {"controllers", "pre", "post", "postLink"}
    [] step = "pre" -> {"pre", "post", "postLink"}
    [] step \in {"children", "post"} -> {"post", "postLink"}
    [] step = "postLink" -> {"postLink"}
Before(step) ==
  CASE step = "pre" -> {"controllers"}
    [] step \in {"children", "post"} -> {"pre"}
    [] step = "postLink" -> {"post"}
    [] OTHER -> {}
KidDone(t, j) == Kids[t.node][j] \in Hosts \cup Conflicting \/ Called(Kid(t, j), "postLink")
StepsOK(f) ==
  /\ \A step \in Ahead(f.step) : ~Called(f.target, step)
  /\ \A step \in Before(f.step) : Called(f.target, step)
  /\ ~Cut(f.target)
  /\ f.step = "enter" => ~Queued(f.target)
  /\ f.step \in {"enter", "controllers", "pre"} => f.kid = 1
\* A node that waits for a child is at it, and has seen the others before it.
KidsOK(i, f) ==
  /\ i > 1 => /\ f.step = "children" /\ f.kid > 1 /\ f.kid - 1 \in DOMAIN Kids[f.target.node]
              /\ linkers[i - 1].target = Kid(f.target, f.kid - 1)
  /\ f.step = "children" =>
       \A j \in DOMAIN Kids[f.target.node] : j < f.kid /\ (i > 1 => j < f.kid - 1) => KidDone(f.target, j)
  /\ f.step = "post" => \A j \in DOMAIN Kids[f.target.node] : KidDone(f.target, j)
NodesRun ==
  /\ \A t, i, j : RunsAt(t, i) /\ RunsAt(t, j) => i = j
  /\ \A i : NodeAt(i) => StepsOK(linkers[i]) /\ KidsOK(i, linkers[i])

\* A node has begun only if the one it is in has come to it.
Passed(t, j) ==
  \/ Called(t, "postLink")
  \/ Cut(t) /\ Called(t, "pre")
  \/ \E i :
       /\ RunsAt(t, i)
       /\ linkers[i].step \in {"post", "postLink"} \/ (linkers[i].step = "children" /\ linkers[i].kid > j)
BegunInOrder(tree) ==
  \A t : Begun(t) =>
    /\ t \in Targets /\ t.node \in tree[t.link.linker] /\ t.link.number \in 1 .. linked[t.link.linker]
    /\ \A m \in Nodes : \A j \in DOMAIN Kids[m] :
         t.node = Kids[m][j] /\ t.node # Roots[t.link.linker] => Passed([link |-> t.link, node |-> m], j)

\* Nothing is called twice, and each step after the one it follows.
Earlier(k, t, step) == \E j \in DOMAIN done : j < k /\ done[j] = [target |-> t, step |-> step]
CalledAfter(k, t, step) ==
  /\ step = "pre" => Earlier(k, t, "controllers")
  /\ step = "post" =>
       /\ Earlier(k, t, "pre")
       /\ \A j \in DOMAIN Kids[t.node] :
            Kids[t.node][j] \notin Hosts \cup Conflicting => Earlier(k, Kid(t, j), "postLink")
  /\ step = "postLink" => Earlier(k, t, "post")
  /\ step = "controllers" =>
       \A m \in Nodes : \A j \in DOMAIN Kids[m] :
         t.node = Kids[m][j] /\ t.node # Roots[t.link.linker] =>
           Earlier(k, [link |-> t.link, node |-> m], "pre")
CalledInOrder ==
  /\ Apart(done)
  /\ \A k \in DOMAIN done : CalledAfter(k, done[k].target, done[k].step)
  /\ \A t, step : Called(t, step) /\ step # "drop" /\ t.node \notin Conflicting =>
       Runs(t) \/ Called(t, "postLink") \/ Cut(t)

\* Bindings that threw are those of a node that calls no controller; the nodes they
\* cut off call no post-link function, and each but that one has a child among them.
CutOK ==
  \A u \in lThrown :
    /\ u.target \in u.left /\ u.target.node \in Bound /\ ~Called(u.target, "controllers")
    /\ \A t \in u.left :
         /\ t \in Targets /\ ~Called(t, "post")
         /\ t = u.target \/ \E j \in DOMAIN Kids[t.node] : Kid(t, j) \in u.left

LinkFrames == NodeFrames \cup LinkerFrames

\* The node that links, and the ways its frame goes on, ends or begins another.
LEMMA NodeOnTop ==
  ASSUME LinkTypes, Based, linkers # <<>>, Lk!Topmost.step # "linker"
  PROVE  /\ Len(linkers) \in Nat /\ Len(linkers) >= 2 /\ DOMAIN linkers = 1 .. Len(linkers)
         /\ Lk!Topmost = linkers[1] /\ NodeAt(1) /\ Lk!Topmost \in NodeFrames
         /\ \A g \in NodeFrames :
              /\ <<g>> \o Tail(linkers) \in Seq(LinkFrames)
              /\ Len(<<g>> \o Tail(linkers)) = Len(linkers)
              /\ (<<g>> \o Tail(linkers))[1] = g
              /\ \A k \in 2 .. Len(linkers) : (<<g>> \o Tail(linkers))[k] = linkers[k]
         /\ \A h, g \in NodeFrames :
              /\ <<h, g>> \o Tail(linkers) \in Seq(LinkFrames)
              /\ Len(<<h, g>> \o Tail(linkers)) = Len(linkers) + 1
              /\ (<<h, g>> \o Tail(linkers))[1] = h /\ (<<h, g>> \o Tail(linkers))[2] = g
              /\ \A k \in 2 .. Len(linkers) : (<<h, g>> \o Tail(linkers))[k + 1] = linkers[k]
         /\ Tail(linkers) \in Seq(LinkFrames) /\ Len(Tail(linkers)) = Len(linkers) - 1
         /\ \A k \in 1 .. Len(linkers) - 1 : Tail(linkers)[k] = linkers[k + 1]
  <1>1. linkers \in Seq(LinkFrames)
    BY DEF LinkTypes, LinkFrames
  <1>2. Len(linkers) \in Nat \ {0} /\ DOMAIN linkers = 1 .. Len(linkers) /\ Lk!Topmost = linkers[1]
    BY <1>1 DEF Lk!Topmost
  <1>3. Len(linkers) >= 2
    <2>1. CASE Len(linkers) = 1
      <3>1. Base \in LinkerFrames /\ Base = Lk!Topmost
        BY <1>2, <2>1 DEF Based, Base
      <3> QED BY <3>1 DEF LinkerFrames
    <2> QED BY <1>2, <2>1
  <1>4. NodeAt(1)
    BY <1>2, <1>3 DEF NodeAt
  <1>5. Lk!Topmost \in NodeFrames
    BY <1>2, <1>4 DEF Based
  <1>6. /\ Tail(linkers) \in Seq(LinkFrames) /\ Len(Tail(linkers)) = Len(linkers) - 1
        /\ \A k \in 1 .. Len(linkers) - 1 : Tail(linkers)[k] = linkers[k + 1]
    BY <1>1, TailFacts
  <1>7. ASSUME NEW g \in NodeFrames
        PROVE  /\ <<g>> \o Tail(linkers) \in Seq(LinkFrames)
               /\ Len(<<g>> \o Tail(linkers)) = Len(linkers)
               /\ (<<g>> \o Tail(linkers))[1] = g
               /\ \A k \in 2 .. Len(linkers) : (<<g>> \o Tail(linkers))[k] = linkers[k]
    <2> DEFINE s == <<g>> \o Tail(linkers)
    <2>1. g \in LinkFrames
      BY <1>7 DEF LinkFrames
    <2>2. /\ s \in Seq(LinkFrames) /\ Len(s) = Len(Tail(linkers)) + 1 /\ s[1] = g
          /\ \A k \in 1 .. Len(Tail(linkers)) : s[k + 1] = Tail(linkers)[k]
      BY <1>6, <2>1, ConsFacts
    <2> HIDE DEF s
    <2>3. Len(s) = Len(linkers)
      BY <1>2, <1>6, <2>2
    <2>4. ASSUME NEW k \in 2 .. Len(linkers) PROVE s[k] = linkers[k]
      <3>1. k - 1 \in 1 .. Len(linkers) - 1 /\ (k - 1) + 1 = k
        BY <1>2, <2>4
      <3>2. s[(k - 1) + 1] = Tail(linkers)[k - 1] /\ Tail(linkers)[k - 1] = linkers[(k - 1) + 1]
        BY <1>6, <2>2, <3>1
      <3> QED BY <3>1, <3>2
    <2>5. /\ s \in Seq(LinkFrames) /\ Len(s) = Len(linkers) /\ s[1] = g
          /\ \A k \in 2 .. Len(linkers) : s[k] = linkers[k]
      BY <2>2, <2>3, <2>4
    <2> QED BY <2>5 DEF s
  <1>8. ASSUME NEW h \in NodeFrames, NEW g \in NodeFrames
        PROVE  /\ <<h, g>> \o Tail(linkers) \in Seq(LinkFrames)
               /\ Len(<<h, g>> \o Tail(linkers)) = Len(linkers) + 1
               /\ (<<h, g>> \o Tail(linkers))[1] = h /\ (<<h, g>> \o Tail(linkers))[2] = g
               /\ \A k \in 2 .. Len(linkers) : (<<h, g>> \o Tail(linkers))[k + 1] = linkers[k]
    <2> DEFINE s == <<h, g>> \o Tail(linkers)
    <2>1. <<h, g>> \in Seq(LinkFrames) /\ Len(<<h, g>>) = 2 /\ <<h, g>>[1] = h /\ <<h, g>>[2] = g
      BY <1>8 DEF LinkFrames
    <2>2. /\ s \in Seq(LinkFrames) /\ Len(s) = Len(<<h, g>>) + Len(Tail(linkers))
          /\ \A k \in 1 .. Len(<<h, g>>) : s[k] = <<h, g>>[k]
          /\ \A k \in 1 .. Len(Tail(linkers)) : s[Len(<<h, g>>) + k] = Tail(linkers)[k]
      BY <1>6, <2>1, ConcatFacts
    <2> HIDE DEF s
    <2>3. /\ s \in Seq(LinkFrames) /\ Len(s) = 2 + Len(Tail(linkers)) /\ s[1] = h /\ s[2] = g
          /\ \A k \in 1 .. Len(Tail(linkers)) : s[2 + k] = Tail(linkers)[k]
      BY <2>1, <2>2
    <2>4. Len(s) = Len(linkers) + 1
      BY <1>2, <1>6, <2>3
    <2>5. ASSUME NEW k \in 2 .. Len(linkers) PROVE s[k + 1] = linkers[k]
      <3>1. k - 1 \in 1 .. Len(linkers) - 1 /\ (k - 1) + 1 = k /\ 2 + (k - 1) = k + 1
        BY <1>2, <2>5
      <3>2. s[2 + (k - 1)] = Tail(linkers)[k - 1] /\ Tail(linkers)[k - 1] = linkers[(k - 1) + 1]
        BY <1>6, <2>3, <3>1
      <3> QED BY <3>1, <3>2
    <2>6. /\ s \in Seq(LinkFrames) /\ Len(s) = Len(linkers) + 1 /\ s[1] = h /\ s[2] = g
          /\ \A k \in 2 .. Len(linkers) : s[k + 1] = linkers[k]
      BY <2>3, <2>4, <2>5
    <2> QED BY <2>6 DEF s
  <1> QED BY <1>2, <1>3, <1>4, <1>5, <1>6, <1>7, <1>8

\* A call that is noted.
LEMMA CallNoted ==
  ASSUME LinkTypes, NEW e \in LinkEvents, done' = Append(done, e)
  PROVE  /\ done' \in Seq(LinkEvents) /\ Len(done) \in Nat /\ Len(done') = Len(done) + 1
         /\ DOMAIN done = 1 .. Len(done) /\ DOMAIN done' = 1 .. Len(done) + 1
         /\ \A k \in DOMAIN done : done'[k] = done[k]
         /\ done'[Len(done) + 1] = e
         /\ \A t, step : Called(t, step)' <=> Called(t, step) \/ e = [target |-> t, step |-> step]
  <1>1. done \in Seq(LinkEvents)
    BY DEF LinkTypes
  <1>2. /\ done' \in Seq(LinkEvents) /\ Len(done') = Len(done) + 1
        /\ \A k \in 1 .. Len(done) : done'[k] = done[k]
        /\ done'[Len(done) + 1] = e
        /\ Those(done') = Those(done) \cup {e}
    BY <1>1, AppendFacts
  <1>3. Len(done) \in Nat /\ DOMAIN done = 1 .. Len(done)
    BY <1>1
  <1>4. DOMAIN done' = 1 .. Len(done) + 1
    BY <1>2, <1>3
  <1>5. \A t, step : Called(t, step)' <=> Called(t, step) \/ e = [target |-> t, step |-> step]
    BY <1>2 DEF Called
  <1> QED BY <1>2, <1>3, <1>4, <1>5

\* What a host that waits depends on.
LEMMA HostsKept ==
  ASSUME HostsWait, UNCHANGED <<lQueue, waiting, arrived>>, Apart(drains)',
         \A q : Undrained(q)' => Undrained(q) \/ q \notin DOMAIN lQueue,
         \A t : Queued(t) /\ Untouched(t) /\ ~Runs(t) => Untouched(t)' /\ ~Runs(t)'
  PROVE  HostsWait'
  <1>1. \A t : Queued(t)' <=> Queued(t)
    BY DEF Queued, QueuedIn
  <1>2. \A t, q : QueuedIn(t, q)' <=> QueuedIn(t, q)
    BY DEF QueuedIn
  <1>3. \A t : Awaits(t)' <=> Awaits(t)
    BY DEF Awaits
  <1>4. /\ \A q \in DOMAIN lQueue : Apart(lQueue[q]) /\ \A t \in Those(lQueue[q]) : t.node \in Hosts
        /\ \A t, q, r : QueuedIn(t, q) /\ QueuedIn(t, r) => q = r
        /\ Apart(waiting) /\ Apart(drains)
        /\ \A j, k \in DOMAIN arrived : arrived[j].entry = arrived[k].entry => j = k
        /\ \A k \in DOMAIN arrived : arrived[k].entry \notin Those(waiting)
        /\ \A t : Awaits(t) => Queued(t) /\ Untouched(t) /\ ~Runs(t)
        /\ \A t, q : QueuedIn(t, q) /\ Undrained(q) => ~Awaits(t) /\ Untouched(t) /\ ~Runs(t)
    BY DEF HostsWait
  <1>5. ASSUME NEW t, Awaits(t)' PROVE Queued(t)' /\ Untouched(t)' /\ ~Runs(t)'
    BY <1>1, <1>3, <1>4, <1>5, Zenon
  <1>6. ASSUME NEW t, NEW q, QueuedIn(t, q)', Undrained(q)' PROVE ~Awaits(t)' /\ Untouched(t)' /\ ~Runs(t)'
    <2>1. Queued(t) /\ q \in DOMAIN lQueue /\ QueuedIn(t, q)
      BY <1>2, <1>6 DEF Queued, QueuedIn
    <2>2. Undrained(q)
      BY <1>6, <2>1, Zenon
    <2> QED BY <1>3, <1>4, <2>1, <2>2, Zenon
  <1>7. \A q \in DOMAIN lQueue' : Apart(lQueue[q])' /\ \A t \in Those(lQueue[q])' : t.node \in Hosts
    BY <1>4 DEF Apart, Those
  <1>8. Apart(waiting)' /\ \A j, k \in DOMAIN arrived' : arrived'[j].entry = arrived'[k].entry => j = k
    BY <1>4 DEF Apart
  <1>9. \A k \in DOMAIN arrived' : arrived'[k].entry \notin Those(waiting)'
    BY <1>4
  <1> QED BY <1>2, <1>4, <1>5, <1>6, <1>7, <1>8, <1>9, Zenon DEF HostsWait

\* Above the lowest call there is a number of nodes.
LEMMA NodeNumber ==
  ASSUME LinkTypes
  PROVE  \A i : NodeAt(i) => i \in Nat \ {0} /\ i < Len(linkers) /\ Len(linkers) \in Nat
  BY DEF LinkTypes, NodeAt

\* The node goes on to its next step.
LEMMA NodeGoesOn ==
  ASSUME LinkTypes, Based, linkers # <<>>, Lk!Topmost.step # "linker",
         NEW g \in NodeFrames, g.target = Lk!Topmost.target, g.queue = Lk!Topmost.queue,
         linkers' = <<g>> \o Tail(linkers)
  PROVE  /\ linkers' \in Seq(LinkFrames) /\ linkers' # <<>> /\ Base' = Base
         /\ linkers'[1] = g /\ NodeAt(1) /\ \A i : NodeAt(i)' <=> NodeAt(i)
         /\ \A i : NodeAt(i) /\ i # 1 => linkers'[i] = linkers[i]
         /\ \A i : NodeAt(i) => linkers'[i].target = linkers[i].target
         /\ \A t, i : RunsAt(t, i)' <=> RunsAt(t, i)
  <1>1. /\ Len(linkers) \in Nat /\ Len(linkers) >= 2 /\ DOMAIN linkers = 1 .. Len(linkers)
        /\ Lk!Topmost = linkers[1] /\ NodeAt(1)
        /\ linkers' \in Seq(LinkFrames) /\ Len(linkers') = Len(linkers) /\ linkers'[1] = g
        /\ \A k \in 2 .. Len(linkers) : linkers'[k] = linkers[k]
    BY NodeOnTop
  <1>2. Base' = Base /\ linkers' # <<>> /\ DOMAIN linkers' = DOMAIN linkers
    BY <1>1 DEF Base
  <1>3. \A i : NodeAt(i)' <=> NodeAt(i)
    BY <1>1, <1>2 DEF NodeAt
  <1>4. \A i : NodeAt(i) /\ i # 1 => linkers'[i] = linkers[i]
    <2>1. \A i : NodeAt(i) /\ i # 1 => i \in 2 .. Len(linkers)
      BY <1>1 DEF NodeAt
    <2> QED BY <1>1, <2>1, Zenon
  <1>5. ASSUME NEW i, NodeAt(i) PROVE linkers'[i].target = linkers[i].target
    <2>1. CASE i = 1
      BY <1>1, <2>1
    <2>2. CASE i # 1
      BY <1>4, <1>5, <2>2
    <2> QED BY <2>1, <2>2
  <1>6. \A t, i : RunsAt(t, i)' <=> RunsAt(t, i)
    BY <1>3, <1>5, Zenon DEF RunsAt
  <1> QED BY <1>1, <1>2, <1>3, <1>4, <1>5, <1>6, Zenon

\* The node is left for the one it is in.
LEMMA NodeLeaves ==
  ASSUME LinkTypes, Based, linkers # <<>>, Lk!Topmost.step # "linker", linkers' = Tail(linkers)
  PROVE  /\ linkers' \in Seq(LinkFrames) /\ linkers' # <<>> /\ Base' = Base
         /\ NodeAt(1) /\ linkers[1] = Lk!Topmost
         /\ \A i : NodeAt(i)' => i \in Nat \ {0} /\ NodeAt(i + 1) /\ linkers'[i] = linkers[i + 1]
         /\ \A i : NodeAt(i) /\ i # 1 => i - 1 \in Nat \ {0} /\ NodeAt(i - 1)' /\ linkers'[i - 1] = linkers[i]
         /\ \A t, i : RunsAt(t, i)' => RunsAt(t, i + 1)
         /\ \A t, i : RunsAt(t, i) /\ i # 1 => RunsAt(t, i - 1)'
  <1>1. /\ Len(linkers) \in Nat /\ Len(linkers) >= 2 /\ DOMAIN linkers = 1 .. Len(linkers)
        /\ Lk!Topmost = linkers[1] /\ NodeAt(1)
        /\ linkers' \in Seq(LinkFrames) /\ Len(linkers') = Len(linkers) - 1
        /\ \A k \in 1 .. Len(linkers) - 1 : linkers'[k] = linkers[k + 1]
    BY NodeOnTop
  <1>2. DOMAIN linkers' = 1 .. Len(linkers) - 1 /\ linkers' # <<>> /\ Base' = Base
    <2>1. Len(linkers) - 1 \in 1 .. Len(linkers) - 1 /\ (Len(linkers) - 1) + 1 = Len(linkers)
      BY <1>1
    <2>2. linkers'[Len(linkers) - 1] = linkers[(Len(linkers) - 1) + 1]
      BY <1>1, <2>1
    <2>3. DOMAIN linkers' = 1 .. Len(linkers) - 1
      BY <1>1
    <2>5. linkers' # <<>>
      <3>1. Len(linkers') # 0
        BY <1>1
      <3> QED BY <1>1, <3>1, EmptySeq
    <2>4. Base' = Base
      BY <1>1, <2>1, <2>2 DEF Base
    <2> QED BY <2>3, <2>4, <2>5
  <1>3. ASSUME NEW i, NodeAt(i)'
        PROVE  i \in Nat \ {0} /\ NodeAt(i + 1) /\ linkers'[i] = linkers[i + 1]
    <2>1. i \in 1 .. Len(linkers) - 1 /\ i < Len(linkers) - 1
      BY <1>1, <1>2, <1>3 DEF NodeAt
    <2>2. i \in Nat \ {0} /\ NodeAt(i + 1)
      BY <1>1, <2>1 DEF NodeAt
    <2> QED BY <1>1, <2>1, <2>2
  <1>4. ASSUME NEW i, NodeAt(i), i # 1
        PROVE  i - 1 \in Nat \ {0} /\ NodeAt(i - 1)' /\ linkers'[i - 1] = linkers[i]
    <2>1. i \in 2 .. Len(linkers) /\ i < Len(linkers)
      BY <1>1, <1>4 DEF NodeAt
    <2>2. i - 1 \in 1 .. Len(linkers) - 1 /\ i - 1 < Len(linkers) - 1 /\ (i - 1) + 1 = i
      BY <1>1, <2>1
    <2>3. NodeAt(i - 1)'
      BY <1>1, <1>2, <2>1, <2>2 DEF NodeAt
    <2>4. linkers'[i - 1] = linkers[(i - 1) + 1]
      BY <1>1, <2>2
    <2> QED BY <2>2, <2>3, <2>4
  <1>5. \A t, i : RunsAt(t, i)' => RunsAt(t, i + 1)
    BY <1>3, Zenon DEF RunsAt
  <1>6. \A t, i : RunsAt(t, i) /\ i # 1 => RunsAt(t, i - 1)'
    BY <1>4 DEF RunsAt
  <1> QED BY <1>1, <1>2, <1>3, <1>4, <1>5, <1>6, Zenon

\* The node comes to a child.
LEMMA NodeDescends ==
  ASSUME LinkTypes, Based, linkers # <<>>, Lk!Topmost.step # "linker",
         NEW h \in NodeFrames, NEW g \in NodeFrames,
         g.target = Lk!Topmost.target, g.queue = Lk!Topmost.queue,
         linkers' = <<h, g>> \o Tail(linkers)
  PROVE  /\ linkers' \in Seq(LinkFrames) /\ linkers' # <<>> /\ Base' = Base
         /\ NodeAt(1) /\ linkers[1] = Lk!Topmost
         /\ linkers'[1] = h /\ linkers'[2] = g /\ NodeAt(1)' /\ NodeAt(2)'
         /\ \A i : NodeAt(i)' => \/ i = 1 \/ i = 2
                                 \/ i - 1 \in Nat /\ i - 1 > 1 /\ NodeAt(i - 1) /\ linkers'[i] = linkers[i - 1]
         /\ \A i : NodeAt(i) /\ i # 1 => NodeAt(i + 1)' /\ linkers'[i + 1] = linkers[i]
         /\ \A t, i : RunsAt(t, i)' => i = 1 \/ RunsAt(t, i - 1)
         /\ \A t, i : RunsAt(t, i) => RunsAt(t, i + 1)'
         /\ RunsAt(h.target, 1)'
  <1>1. /\ Len(linkers) \in Nat /\ Len(linkers) >= 2 /\ DOMAIN linkers = 1 .. Len(linkers)
        /\ Lk!Topmost = linkers[1] /\ NodeAt(1)
        /\ linkers' \in Seq(LinkFrames) /\ Len(linkers') = Len(linkers) + 1
        /\ linkers'[1] = h /\ linkers'[2] = g
        /\ \A k \in 2 .. Len(linkers) : linkers'[k + 1] = linkers[k]
    BY NodeOnTop
  <1>2. DOMAIN linkers' = 1 .. Len(linkers) + 1 /\ linkers' # <<>> /\ Base' = Base
    <2>1. linkers'[Len(linkers) + 1] = linkers[Len(linkers)]
      BY <1>1
    <2> QED BY <1>1, <2>1 DEF Base
  <1>3. NodeAt(1)' /\ NodeAt(2)'
    BY <1>1, <1>2 DEF NodeAt
  <1>4. ASSUME NEW i, NodeAt(i)', i # 1, i # 2
        PROVE  i - 1 \in Nat /\ i - 1 > 1 /\ NodeAt(i - 1) /\ linkers'[i] = linkers[i - 1]
    <2>1. i \in 1 .. Len(linkers) + 1 /\ i < Len(linkers) + 1
      BY <1>1, <1>2, <1>4 DEF NodeAt
    <2>2. i - 1 \in 2 .. Len(linkers) /\ i - 1 < Len(linkers) /\ (i - 1) + 1 = i
      BY <1>1, <1>4, <2>1
    <2>3. NodeAt(i - 1) /\ i - 1 \in Nat /\ i - 1 > 1
      BY <1>1, <2>2 DEF NodeAt
    <2>4. linkers'[(i - 1) + 1] = linkers[i - 1]
      BY <1>1, <2>2
    <2> QED BY <2>2, <2>3, <2>4
  <1>5. ASSUME NEW i, NodeAt(i), i # 1 PROVE NodeAt(i + 1)' /\ linkers'[i + 1] = linkers[i]
    <2>1. i \in 2 .. Len(linkers) /\ i < Len(linkers)
      BY <1>1, <1>5 DEF NodeAt
    <2>2. NodeAt(i + 1)'
      BY <1>1, <1>2, <2>1 DEF NodeAt
    <2> QED BY <1>1, <2>1, <2>2
  <1>6. ASSUME NEW t, NEW i, RunsAt(t, i)', i # 1 PROVE RunsAt(t, i - 1)
    <2>1. CASE i = 2
      BY <1>1, <1>6, <2>1 DEF RunsAt
    <2>2. CASE i # 2
      BY <1>4, <1>6, <2>2 DEF RunsAt
    <2> QED BY <2>1, <2>2
  <1>7. ASSUME NEW t, NEW i, RunsAt(t, i) PROVE RunsAt(t, i + 1)'
    <2>1. CASE i = 1
      BY <1>1, <1>3, <1>7, <2>1 DEF RunsAt
    <2>2. CASE i # 1
      BY <1>5, <1>7, <2>2 DEF RunsAt
    <2> QED BY <2>1, <2>2
  <1>8. RunsAt(h.target, 1)'
    BY <1>1, <1>3 DEF RunsAt
  <1> QED BY <1>1, <1>2, <1>3, <1>4, <1>5, <1>6, <1>7, <1>8, Zenon

\* The call of a linker, with a node to link or without.
LEMMA LinkerCalled ==
  ASSUME NEW b \in LinkerFrames
  PROVE  /\ \A h \in NodeFrames :
              /\ <<h>> \o <<b>> \in Seq(LinkFrames) /\ <<h>> \o <<b>> = <<h, b>>
              /\ Len(<<h, b>>) = 2 /\ <<h, b>>[1] = h /\ <<h, b>>[2] = b
         /\ <<>> \o <<b>> \in Seq(LinkFrames) /\ <<>> \o <<b>> = <<b>> /\ Len(<<b>>) = 1 /\ <<b>>[1] = b
  <1>1. b \in LinkFrames /\ <<b>> \in Seq(LinkFrames) /\ Len(<<b>>) = 1 /\ <<b>>[1] = b
    BY DEF LinkFrames
  <1>2. <<>> \o <<b>> = <<b>>
    BY <1>1
  <1>3. ASSUME NEW h \in NodeFrames
        PROVE  /\ <<h>> \o <<b>> \in Seq(LinkFrames) /\ <<h>> \o <<b>> = <<h, b>>
               /\ Len(<<h, b>>) = 2 /\ <<h, b>>[1] = h /\ <<h, b>>[2] = b
    <2>1. h \in LinkFrames
      BY <1>3 DEF LinkFrames
    <2>2. <<h, b>> \in Seq(LinkFrames) /\ Len(<<h, b>>) = 2 /\ <<h, b>>[1] = h /\ <<h, b>>[2] = b
      BY <1>1, <2>1
    <2>3. /\ <<h>> \o <<b>> \in Seq(LinkFrames) /\ Len(<<h>> \o <<b>>) = 2
          /\ (<<h>> \o <<b>>)[1] = h /\ (<<h>> \o <<b>>)[2] = b
      BY <1>1, <2>1, ConsFacts
    <2>4. <<h>> \o <<b>> = <<h, b>>
      <3>1. \A k \in 1 .. Len(<<h, b>>) : (<<h>> \o <<b>>)[k] = <<h, b>>[k]
        BY <2>2, <2>3
      <3> QED BY <2>2, <2>3, <3>1, SeqEqual
    <2> QED BY <2>2, <2>3, <2>4
  <1> QED BY <1>1, <1>2, <1>3

\* A linker on top is the only call: its nodes have returned.
LEMMA LinkerAlone ==
  ASSUME LinkTypes, Based, linkers # <<>>, Lk!Topmost.step = "linker"
  PROVE  /\ Len(linkers) = 1 /\ Base = Lk!Topmost /\ Base \in LinkerFrames
         /\ Tail(linkers) = <<>> /\ \A i : ~NodeAt(i)
  <1>1. /\ linkers \in Seq(LinkFrames) /\ Len(linkers) \in Nat /\ Len(linkers) >= 1
        /\ DOMAIN linkers = 1 .. Len(linkers) /\ Lk!Topmost = linkers[1]
    BY DEF LinkTypes, LinkFrames, Lk!Topmost
  <1>2. Len(linkers) = 1
    <2>1. ~NodeAt(1)
      <3>1. ASSUME NodeAt(1) PROVE FALSE
        <4>1. linkers[1] \in NodeFrames
          BY <3>1 DEF Based
        <4>2. linkers[1].step # "linker"
          BY <4>1 DEF NodeFrames
        <4> QED BY <1>1, <4>2
      <3> QED BY <3>1
    <2>2. ~(1 < Len(linkers))
      BY <1>1, <2>1 DEF NodeAt
    <2> QED BY <1>1, <2>2
  <1>3. Tail(linkers) = <<>>
    <2>1. Tail(linkers) \in Seq(LinkFrames) /\ Len(Tail(linkers)) = 0
      BY <1>1, <1>2, TailFacts
    <2> QED BY <2>1, EmptySeq
  <1>4. \A i : ~NodeAt(i)
    BY <1>1, <1>2 DEF NodeAt
  <1>5. Base = Lk!Topmost /\ Base \in LinkerFrames
    BY <1>1, <1>2 DEF Base, Based
  <1> QED BY <1>2, <1>3, <1>4, <1>5

LinkSteps == {"enter", "controllers", "pre", "children", "post", "postLink"}

\* What an action keeps of the types, whatever it does to the linkers in progress.
LEMMA BaseKept ==
  ASSUME Based, linkers # <<>>, Base' = Base, \A l \in Lk!Linkers : linked'[l] >= linked[l],
         linked \in [Lk!Linkers -> Nat], linked' \in [Lk!Linkers -> Nat],
         Len(done') >= Len(done), Len(done) \in Nat, Len(done') \in Nat
  PROVE  /\ Base' \in LinkerFrames
         /\ Base'.queue.of = "linker" => linked'[Base'.queue.linker] >= 1
         /\ Base'.queue.of = "host" => Base'.queue.target.time < Len(done')
  <1>1. /\ Base \in LinkerFrames
        /\ Base.queue.of = "linker" => linked[Base.queue.linker] >= 1
        /\ Base.queue.of = "host" => Base.queue.target.time < Len(done)
    BY DEF Based
  <1>2. Base.queue \in QueueNames
    BY <1>1 DEF LinkerFrames
  <1>3. CASE Base.queue.of = "linker"
    <2>1. Base.queue \in [of : {"linker"}, linker : Lk!Linkers]
      BY <1>2, <1>3 DEF QueueNames
    <2>2. Base.queue.linker \in Lk!Linkers
      BY <2>1
    <2>3. linked'[Base.queue.linker] >= linked[Base.queue.linker]
      BY <2>2
    <2>4. linked'[Base.queue.linker] >= 1
      BY <1>1, <1>3, <2>2, <2>3
    <2> QED BY <1>1, <1>3, <2>4
  <1>4. CASE Base.queue.of = "host"
    <2>1. Base.queue \in [of : {"host"}, target : [target : Targets, time : Nat]]
      BY <1>2, <1>4 DEF QueueNames
    <2>2. Base.queue.target.time \in Nat
      BY <2>1
    <2>3. Base.queue.target.time < Len(done')
      BY <1>1, <1>4, <2>2
    <2> QED BY <1>1, <1>4, <2>3
  <1>5. Base.queue.of \in {"linker", "host"}
    BY <1>2 DEF QueueNames
  <1> QED BY <1>3, <1>4, <1>5

\* The node on top: what it says of itself, and of the linker it belongs to.
LEMMA TopTyped ==
  ASSUME LinkTypes, Based, linkers # <<>>, Lk!Topmost.step # "linker", NEW tree, LinkingGiven(tree)
  PROVE  /\ Lk!Topmost \in NodeFrames /\ Lk!Topmost = linkers[1] /\ NodeAt(1)
         /\ Lk!Topmost.target \in Targets /\ Lk!Topmost.queue \in QueueNames /\ Lk!Topmost.queue = Base.queue
         /\ Lk!Topmost.kid \in Nat \ {0} /\ Lk!Topmost.step \in LinkSteps
         /\ Lk!Topmost.target.node \in Nodes /\ Lk!Topmost.target.link \in LinkNames
         /\ Kids[Lk!Topmost.target.node] \in Seq(Nodes)
         /\ RunsAt(Lk!Topmost.target, 1)
         /\ \A step \in LinkSteps :
              LET g == [Lk!Topmost EXCEPT !.step = step]
              IN  g \in NodeFrames /\ g.target = Lk!Topmost.target /\ g.queue = Lk!Topmost.queue
                  /\ g.kid = Lk!Topmost.kid /\ g.step = step
         /\ LET g == [Lk!Topmost EXCEPT !.kid = @ + 1]
            IN  g \in NodeFrames /\ g.target = Lk!Topmost.target /\ g.queue = Lk!Topmost.queue
                /\ g.kid = Lk!Topmost.kid + 1 /\ g.step = Lk!Topmost.step
  <1> DEFINE top == Lk!Topmost
  <1>1. top \in NodeFrames /\ top = linkers[1] /\ NodeAt(1)
    BY NodeOnTop
  <1>2. top.queue = Base.queue
    BY <1>1 DEF Based
  <1> HIDE DEF top
  <1>3. /\ top.target \in Targets /\ top.queue \in QueueNames /\ top.kid \in Nat \ {0} /\ top.step \in LinkSteps
    BY <1>1 DEF NodeFrames, LinkSteps
  <1>4. top.target.node \in Nodes /\ top.target.link \in LinkNames
    BY <1>3 DEF Targets
  <1>5. Kids[top.target.node] \in Seq(Nodes)
    BY <1>4 DEF LinkingGiven
  <1>6. RunsAt(top.target, 1)
    BY <1>1 DEF RunsAt
  <1>7. ASSUME NEW step \in LinkSteps
        PROVE  /\ [top EXCEPT !.step = step] \in NodeFrames /\ [top EXCEPT !.step = step].target = top.target
               /\ [top EXCEPT !.step = step].queue = top.queue /\ [top EXCEPT !.step = step].kid = top.kid
               /\ [top EXCEPT !.step = step].step = step
    BY <1>1, <1>7 DEF NodeFrames, LinkSteps
  <1>8. /\ [top EXCEPT !.kid = @ + 1] \in NodeFrames /\ [top EXCEPT !.kid = @ + 1].target = top.target
        /\ [top EXCEPT !.kid = @ + 1].queue = top.queue /\ [top EXCEPT !.kid = @ + 1].kid = top.kid + 1
        /\ [top EXCEPT !.kid = @ + 1].step = top.step
    BY <1>1, <1>3 DEF NodeFrames
  <1> QED BY <1>1, <1>2, <1>3, <1>4, <1>5, <1>6, <1>7, <1>8 DEF top

\* The linkers in progress are typed while the node on top goes on.
LEMMA BasedGoesOn ==
  ASSUME LinkTypes, Based, linkers # <<>>, Lk!Topmost.step # "linker",
         NEW g \in NodeFrames, g.target = Lk!Topmost.target, g.queue = Lk!Topmost.queue,
         linkers' = <<g>> \o Tail(linkers), linked' = linked,
         Len(done') >= Len(done), Len(done) \in Nat, Len(done') \in Nat
  PROVE  Based' /\ linkers' \in Seq(LinkFrames)
  <1>1. /\ linkers' \in Seq(LinkFrames) /\ linkers' # <<>> /\ Base' = Base
        /\ linkers'[1] = g /\ NodeAt(1) /\ \A i : NodeAt(i)' <=> NodeAt(i)
        /\ \A i : NodeAt(i) /\ i # 1 => linkers'[i] = linkers[i]
    BY NodeGoesOn
  <1>2. /\ Base' \in LinkerFrames
        /\ Base'.queue.of = "linker" => linked'[Base'.queue.linker] >= 1
        /\ Base'.queue.of = "host" => Base'.queue.target.time < Len(done')
    BY <1>1, BaseKept DEF LinkTypes
  <1>3. \A i : NodeAt(i) =>
           /\ linkers[i] \in NodeFrames /\ linkers[i].queue = Base.queue
           /\ Base.queue.of = "linker" => linkers[i].target.link.linker = Base.queue.linker
    BY DEF Based
  <1>4. Lk!Topmost = linkers[1]
    BY NodeOnTop
  <1>5. ASSUME NEW i, NodeAt(i)'
        PROVE  /\ linkers'[i] \in NodeFrames /\ linkers'[i].queue = Base.queue
               /\ Base.queue.of = "linker" => linkers'[i].target.link.linker = Base.queue.linker
    <2>1. NodeAt(i)
      BY <1>1, <1>5
    <2>2. CASE i = 1
      BY <1>1, <1>3, <1>4, <2>2
    <2>3. CASE i # 1
      BY <1>1, <1>3, <2>1, <2>3
    <2> QED BY <2>2, <2>3
  <1>6. \A i : NodeAt(i)' =>
          /\ linkers'[i] \in NodeFrames /\ linkers'[i].queue = Base'.queue
          /\ Base'.queue.of = "linker" => linkers'[i].target.link.linker = Base'.queue.linker
    BY <1>1, <1>5
  <1> QED BY <1>1, <1>2, <1>6, Zenon DEF Based

LEMMA BasedLeaves ==
  ASSUME LinkTypes, Based, linkers # <<>>, Lk!Topmost.step # "linker",
         linkers' = Tail(linkers), linked' = linked,
         Len(done') >= Len(done), Len(done) \in Nat, Len(done') \in Nat
  PROVE  Based' /\ linkers' \in Seq(LinkFrames)
  <1>1. /\ linkers' \in Seq(LinkFrames) /\ linkers' # <<>> /\ Base' = Base
        /\ \A i : NodeAt(i)' => i \in Nat \ {0} /\ NodeAt(i + 1) /\ linkers'[i] = linkers[i + 1]
    BY NodeLeaves
  <1>2. /\ Base' \in LinkerFrames
        /\ Base'.queue.of = "linker" => linked'[Base'.queue.linker] >= 1
        /\ Base'.queue.of = "host" => Base'.queue.target.time < Len(done')
    BY <1>1, BaseKept DEF LinkTypes
  <1>3. \A i : NodeAt(i) =>
           /\ linkers[i] \in NodeFrames /\ linkers[i].queue = Base.queue
           /\ Base.queue.of = "linker" => linkers[i].target.link.linker = Base.queue.linker
    BY DEF Based
  <1>4. ASSUME NEW i, NodeAt(i)'
        PROVE  /\ linkers'[i] \in NodeFrames /\ linkers'[i].queue = Base.queue
               /\ Base.queue.of = "linker" => linkers'[i].target.link.linker = Base.queue.linker
    <2>1. NodeAt(i + 1) /\ linkers'[i] = linkers[i + 1]
      BY <1>1, <1>4
    <2> QED BY <1>3, <2>1
  <1>5. \A i : NodeAt(i)' =>
          /\ linkers'[i] \in NodeFrames /\ linkers'[i].queue = Base'.queue
          /\ Base'.queue.of = "linker" => linkers'[i].target.link.linker = Base'.queue.linker
    BY <1>1, <1>4
  <1> QED BY <1>1, <1>2, <1>5, Zenon DEF Based

LEMMA BasedDescends ==
  ASSUME LinkTypes, Based, linkers # <<>>, Lk!Topmost.step # "linker",
         NEW h \in NodeFrames, h.queue = Lk!Topmost.queue, h.target.link = Lk!Topmost.target.link,
         NEW g \in NodeFrames, g.target = Lk!Topmost.target, g.queue = Lk!Topmost.queue,
         linkers' = <<h, g>> \o Tail(linkers), linked' = linked, done' = done
  PROVE  Based' /\ linkers' \in Seq(LinkFrames)
  <1>1. /\ linkers' \in Seq(LinkFrames) /\ linkers' # <<>> /\ Base' = Base
        /\ NodeAt(1) /\ linkers[1] = Lk!Topmost
        /\ linkers'[1] = h /\ linkers'[2] = g
        /\ \A i : NodeAt(i)' => \/ i = 1 \/ i = 2
                                \/ i - 1 \in Nat /\ i - 1 > 1 /\ NodeAt(i - 1) /\ linkers'[i] = linkers[i - 1]
    BY NodeDescends
  <1>2. /\ Base' \in LinkerFrames
        /\ Base'.queue.of = "linker" => linked'[Base'.queue.linker] >= 1
        /\ Base'.queue.of = "host" => Base'.queue.target.time < Len(done')
    BY <1>1 DEF Based
  <1>3. \A i : NodeAt(i) =>
           /\ linkers[i] \in NodeFrames /\ linkers[i].queue = Base.queue
           /\ Base.queue.of = "linker" => linkers[i].target.link.linker = Base.queue.linker
    BY DEF Based
  <1>4. ASSUME NEW i, NodeAt(i)'
        PROVE  /\ linkers'[i] \in NodeFrames /\ linkers'[i].queue = Base.queue
               /\ Base.queue.of = "linker" => linkers'[i].target.link.linker = Base.queue.linker
    <2>1. CASE i = 1
      BY <1>1, <1>3, <2>1
    <2>2. CASE i = 2
      BY <1>1, <1>3, <2>2
    <2>3. CASE i # 1 /\ i # 2
      <3>1. NodeAt(i - 1) /\ linkers'[i] = linkers[i - 1]
        BY <1>1, <1>4, <2>3
      <3> QED BY <1>3, <3>1
    <2> QED BY <2>1, <2>2, <2>3
  <1>5. \A i : NodeAt(i)' =>
          /\ linkers'[i] \in NodeFrames /\ linkers'[i].queue = Base'.queue
          /\ Base'.queue.of = "linker" => linkers'[i].target.link.linker = Base'.queue.linker
    BY <1>1, <1>4
  <1> QED BY <1>1, <1>2, <1>5, Zenon DEF Based

\* The queues keep their names.
LEMMA QueuesKept ==
  ASSUME QueuesNamed, NEW tree, LinkingGiven(tree), LinkTypes, lQueue' = lQueue, Those(drains') \subseteq Those(drains),
         linked' \in [Lk!Linkers -> Nat], \A l \in Lk!Linkers : linked'[l] >= linked[l],
         Len(done') >= Len(done), Len(done) \in Nat, Len(done') \in Nat,
         linkers' # <<>> => Base'.queue \notin Those(drains')
  PROVE  QueuesNamed'
  <1>1. Those(drains') \subseteq DOMAIN lQueue'
    BY DEF QueuesNamed
  <1>2. ASSUME NEW q \in DOMAIN lQueue
        PROVE  /\ q.of = "host" => q.target.time < Len(done')
               /\ q.of = "linker" => linked'[q.linker] >= 1 /\ LinkTimes[q.linker] <= 1
    <2>1. /\ q.of = "host" => q.target.time < Len(done)
          /\ q.of = "linker" => linked[q.linker] >= 1 /\ LinkTimes[q.linker] <= 1
      BY <1>2 DEF QueuesNamed
    <2>2. q \in QueueNames
      BY <1>2 DEF LinkTypes
    <2>3. ASSUME q.of = "host" PROVE q.target.time < Len(done')
      <3>1. q \in [of : {"host"}, target : [target : Targets, time : Nat]]
        BY <2>2, <2>3 DEF QueueNames
      <3>2. q.target.time \in Nat
        BY <3>1
      <3> QED BY <2>1, <2>3, <3>2
    <2>4. ASSUME q.of = "linker" PROVE linked'[q.linker] >= 1 /\ LinkTimes[q.linker] <= 1
      <3>1. q \in [of : {"linker"}, linker : Lk!Linkers]
        BY <2>2, <2>4 DEF QueueNames
      <3>2. q.linker \in Lk!Linkers
        BY <3>1
      <3>3. linked[q.linker] \in Nat /\ linked'[q.linker] \in Nat
        BY <3>2 DEF LinkTypes
      <3> QED BY <2>1, <2>4, <3>2, <3>3
    <2> QED BY <2>3, <2>4
  <1> QED BY <1>1, <1>2 DEF QueuesNamed

\* What has begun keeps its place in the tree.
LEMMA BegunKept ==
  ASSUME NEW tree, BegunInOrder(tree), linked \in [Lk!Linkers -> Nat], linked' \in [Lk!Linkers -> Nat],
         \A l \in Lk!Linkers : linked'[l] >= linked[l],
         \A t : Begun(t)' => Begun(t), \A t, j : Passed(t, j) => Passed(t, j)'
  PROVE  BegunInOrder(tree)'
  <1>1. ASSUME NEW t, Begun(t)
        PROVE  /\ t \in Targets /\ t.node \in tree[t.link.linker] /\ t.link.number \in 1 .. linked'[t.link.linker]
               /\ \A m \in Nodes : \A j \in DOMAIN Kids[m] :
                    t.node = Kids[m][j] /\ t.node # Roots[t.link.linker] => Passed([link |-> t.link, node |-> m], j)'
    <2>1. /\ t \in Targets /\ t.node \in tree[t.link.linker] /\ t.link.number \in 1 .. linked[t.link.linker]
          /\ \A m \in Nodes : \A j \in DOMAIN Kids[m] :
               t.node = Kids[m][j] /\ t.node # Roots[t.link.linker] => Passed([link |-> t.link, node |-> m], j)
      BY <1>1 DEF BegunInOrder
    <2>2. t.link.linker \in Lk!Linkers
      BY <2>1 DEF Targets, LinkNames
    <2>3. linked'[t.link.linker] >= linked[t.link.linker] /\ linked'[t.link.linker] \in Nat /\ linked[t.link.linker] \in Nat
      BY <2>2
    <2>4. t.link.number \in 1 .. linked'[t.link.linker]
      BY <2>1, <2>3
    <2> QED BY <2>1, <2>4, Zenon
  <1>2. \A t : Begun(t)' =>
          /\ t \in Targets /\ t.node \in tree[t.link.linker] /\ t.link.number \in 1 .. linked'[t.link.linker]
          /\ \A m \in Nodes : \A j \in DOMAIN Kids[m] :
               t.node = Kids[m][j] /\ t.node # Roots[t.link.linker] => Passed([link |-> t.link, node |-> m], j)'
    BY <1>1, Zenon
  <1> QED BY <1>2 DEF BegunInOrder

\* What was called has the form of an event.
LEMMA CalledForm ==
  ASSUME LinkTypes, NEW k \in DOMAIN done
  PROVE  /\ done[k] \in LinkEvents /\ done[k] = [target |-> done[k].target, step |-> done[k].step]
         /\ Called(done[k].target, done[k].step)
  <1>1. done[k] \in LinkEvents
    BY DEF LinkTypes
  <1>2. done[k] = [target |-> done[k].target, step |-> done[k].step]
    BY <1>1 DEF LinkEvents
  <1>3. done[k] \in Those(done)
    BY DEF Those
  <1> QED BY <1>1, <1>2, <1>3 DEF Called

\* What was called before something stays before it.
LEMMA AfterKept ==
  ASSUME NEW k, NEW t, NEW step, CalledAfter(k, t, step), \A u, s : Earlier(k, u, s) => Earlier(k, u, s)'
  PROVE  CalledAfter(k, t, step)'
  <1>1. step = "pre" => Earlier(k, t, "controllers")'
    BY DEF CalledAfter
  <1>2. step = "post" =>
          /\ Earlier(k, t, "pre")'
          /\ \A j \in DOMAIN Kids[t.node] :
               Kids[t.node][j] \notin Hosts \cup Conflicting => Earlier(k, Kid(t, j), "postLink")'
    BY Zenon DEF CalledAfter
  <1>3. step = "postLink" => Earlier(k, t, "post")'
    BY DEF CalledAfter
  <1>4. step = "controllers" =>
          \A m \in Nodes : \A j \in DOMAIN Kids[m] :
            t.node = Kids[m][j] /\ t.node # Roots[t.link.linker] =>
              Earlier(k, [link |-> t.link, node |-> m], "pre")'
    BY Zenon DEF CalledAfter
  <1> QED BY <1>1, <1>2, <1>3, <1>4, Zenon DEF CalledAfter

\* No call is made: those made stay in order while their nodes run.
LEMMA CallsKept ==
  ASSUME CalledInOrder, done' = done, \A t : Cut(t) => Cut(t)',
         \A t, step : Called(t, step) /\ step # "drop" /\ t.node \notin Conflicting /\ Runs(t) => Runs(t)' \/ Cut(t)'
  PROVE  CalledInOrder'
  <1>1. \A t, step : Called(t, step)' <=> Called(t, step)
    BY DEF Called
  <1>2. \A k, t, step : Earlier(k, t, step)' <=> Earlier(k, t, step)
    BY DEF Earlier
  <1>3. ASSUME NEW k, NEW t, NEW step, CalledAfter(k, t, step) PROVE CalledAfter(k, t, step)'
    BY <1>2, <1>3, AfterKept
  <1>4. /\ Apart(done) /\ \A k \in DOMAIN done : CalledAfter(k, done[k].target, done[k].step)
        /\ \A t, step : Called(t, step) /\ step # "drop" /\ t.node \notin Conflicting =>
             Runs(t) \/ Called(t, "postLink") \/ Cut(t)
    BY DEF CalledInOrder
  <1>5. Apart(done)' /\ (\A k \in DOMAIN done : CalledAfter(k, done[k].target, done[k].step))'
    BY <1>3, <1>4 DEF Apart
  <1>6. \A t, step : Called(t, step)' /\ step # "drop" /\ t.node \notin Conflicting =>
          Runs(t)' \/ Called(t, "postLink")' \/ Cut(t)'
    BY <1>1, <1>4, Zenon
  <1> QED BY <1>5, <1>6, Zenon DEF CalledInOrder

\* A call is made, after those it follows.
LEMMA CallsNoted ==
  ASSUME LinkTypes, CalledInOrder, lThrown' = lThrown,
         NEW t \in Targets, NEW step \in {"install", "drop", "controllers", "pre", "post", "postLink"},
         done' = Append(done, [target |-> t, step |-> step]), ~Called(t, step),
         step = "pre" => Called(t, "controllers"),
         step = "post" =>
           /\ Called(t, "pre")
           /\ \A j \in DOMAIN Kids[t.node] :
                Kids[t.node][j] \notin Hosts \cup Conflicting => Called(Kid(t, j), "postLink"),
         step = "postLink" => Called(t, "post"),
         step = "controllers" =>
           \A m \in Nodes : \A j \in DOMAIN Kids[m] :
             t.node = Kids[m][j] /\ t.node # Roots[t.link.linker] => Called([link |-> t.link, node |-> m], "pre"),
         \A u : Runs(u) => Runs(u)' \/ (u = t /\ step = "postLink"),
         step \notin {"drop", "postLink"} /\ t.node \notin Conflicting => Runs(t)'
  PROVE  CalledInOrder'
  <1>1. [target |-> t, step |-> step] \in LinkEvents
    BY DEF LinkEvents
  <1>2. /\ Len(done) \in Nat /\ DOMAIN done = 1 .. Len(done) /\ DOMAIN done' = 1 .. Len(done) + 1
        /\ \A k \in DOMAIN done : done'[k] = done[k]
        /\ done'[Len(done) + 1] = [target |-> t, step |-> step]
        /\ \A u, s : Called(u, s)' <=> Called(u, s) \/ [target |-> t, step |-> step] = [target |-> u, step |-> s]
    BY <1>1, CallNoted
  <1>3. /\ Apart(done) /\ \A k \in DOMAIN done : CalledAfter(k, done[k].target, done[k].step)
        /\ \A u, s : Called(u, s) /\ s # "drop" /\ u.node \notin Conflicting =>
             Runs(u) \/ Called(u, "postLink") \/ Cut(u)
    BY DEF CalledInOrder
  <1>4. ASSUME NEW k, NEW u, NEW s, Earlier(k, u, s) PROVE Earlier(k, u, s)'
    <2>1. PICK j \in DOMAIN done : j < k /\ done[j] = [target |-> u, step |-> s]
      BY <1>4 DEF Earlier
    <2>2. j \in DOMAIN done' /\ done'[j] = [target |-> u, step |-> s]
      BY <1>2, <2>1
    <2> QED BY <2>1, <2>2 DEF Earlier
  <1>5. ASSUME NEW n, n = Len(done) + 1, NEW u, NEW s, Called(u, s) PROVE Earlier(n, u, s)'
    <2>1. PICK j \in DOMAIN done : done[j] = [target |-> u, step |-> s]
      BY <1>5 DEF Called, Those
    <2>2. j \in DOMAIN done' /\ j < n /\ done'[j] = [target |-> u, step |-> s]
      BY <1>2, <1>5, <2>1
    <2> QED BY <2>2 DEF Earlier
  <1>6. \A j, k \in DOMAIN done' : done'[j] = done'[k] => j = k
    <2>1. \A j \in DOMAIN done : done[j] # [target |-> t, step |-> step]
      BY DEF Called, Those
    <2>2. \A j \in DOMAIN done' : j \in DOMAIN done \/ j = Len(done) + 1
      BY <1>2
    <2> QED BY <1>2, <1>3, <2>1, <2>2, Zenon DEF Apart
  <1>7. ASSUME NEW k, NEW u, NEW s, CalledAfter(k, u, s) PROVE CalledAfter(k, u, s)'
    BY <1>4, <1>7, AfterKept
  <1>8. ASSUME NEW n, n = Len(done) + 1 PROVE CalledAfter(n, t, step)'
    <2>1. \A u, s : Called(u, s) => Earlier(n, u, s)'
      BY <1>5, <1>8
    <2> QED BY <2>1, Zenon DEF CalledAfter
  <1>9. ASSUME NEW k \in DOMAIN done' PROVE (CalledAfter(k, done[k].target, done[k].step))'
    <2>1. CASE k \in DOMAIN done
      BY <1>2, <1>3, <1>7, <2>1
    <2>2. CASE k = Len(done) + 1
      <3>1. done'[k].target = t /\ done'[k].step = step
        BY <1>2, <2>2
      <3> QED BY <1>8, <2>2, <3>1
    <2> QED BY <1>2, <2>1, <2>2
  <1>10. ASSUME NEW u, NEW s, Called(u, s)', s # "drop", u.node \notin Conflicting
         PROVE  Runs(u)' \/ Called(u, "postLink")' \/ Cut(u)'
    <2>1. CASE u = t /\ s = step
      <3>1. CASE step = "postLink"
        BY <1>2, <2>1, <3>1
      <3> QED BY <1>10, <2>1, <3>1
    <2>2. CASE Called(u, s)
      <3>1. Runs(u) \/ Called(u, "postLink") \/ Cut(u)
        BY <1>3, <1>10, <2>2, Zenon
      <3>2. CASE u = t /\ step = "postLink"
        BY <1>2, <3>2
      <3>3. Cut(u)' <=> Cut(u)
        BY DEF Cut
      <3> QED BY <1>2, <3>1, <3>2, <3>3
    <2> QED BY <1>2, <1>10, <2>1, <2>2
  <1> QED BY <1>6, <1>9, <1>10, Zenon DEF CalledInOrder, Apart

LEMMA StepsKept ==
  ASSUME NEW f, StepsOK(f), \A s : Called(f.target, s)' <=> Called(f.target, s),
         Queued(f.target)' => Queued(f.target), Cut(f.target)' => Cut(f.target)
  PROVE  StepsOK(f)'
  BY Zenon DEF StepsOK

LEMMA KidDoneKept ==
  ASSUME \A t, s : Called(t, s) => Called(t, s)', NEW t, NEW j, KidDone(t, j)
  PROVE  KidDone(t, j)'
  BY Zenon DEF KidDone

\* What bindings that threw cut off stays cut off, and nothing more of it is called.
LEMMA CutKept ==
  ASSUME CutOK, lThrown' = lThrown,
         \A t, s : Cut(t) /\ s \in {"controllers", "post"} /\ Called(t, s)' => Called(t, s)
  PROVE  CutOK'
  <1>1. ASSUME NEW u \in lThrown, NEW t \in u.left, NEW s \in {"controllers", "post"}, ~Called(t, s)
        PROVE  ~Called(t, s)'
    BY <1>1 DEF Cut
  <1> QED BY <1>1 DEF CutOK

\* The places of the children of a running node are numbers.
LEMMA KidNumber ==
  ASSUME NEW tree, LinkingGiven(tree), NEW f \in NodeFrames
  PROVE  f.kid \in Nat /\ \A j \in DOMAIN Kids[f.target.node] : j \in Nat /\ j >= 1
  <1>1. f.kid \in Nat /\ f.target.node \in Nodes
    BY DEF NodeFrames, Targets
  <1>2. Kids[f.target.node] \in Seq(Nodes)
    BY <1>1 DEF LinkingGiven
  <1> QED BY <1>1, <1>2

LEMMA NodesGoOn ==
  ASSUME LinkTypes, Based, NodesRun, linkers # <<>>, Lk!Topmost.step # "linker",
         NEW g \in NodeFrames, g.target = Lk!Topmost.target, g.queue = Lk!Topmost.queue,
         linkers' = <<g>> \o Tail(linkers), lQueue' = lQueue, lThrown' = lThrown,
         \A t, s : Called(t, s) => Called(t, s)',
         \A t, s : t # Lk!Topmost.target /\ Called(t, s)' => Called(t, s),
         StepsOK(g)', KidsOK(1, g)'
  PROVE  NodesRun'
  <1>1. /\ linkers'[1] = g /\ NodeAt(1) /\ \A i : NodeAt(i)' <=> NodeAt(i)
        /\ \A i : NodeAt(i) /\ i # 1 => linkers'[i] = linkers[i]
        /\ \A i : NodeAt(i) => linkers'[i].target = linkers[i].target
        /\ \A t, i : RunsAt(t, i)' <=> RunsAt(t, i)
    BY NodeGoesOn
  <1>2. Lk!Topmost = linkers[1] /\ RunsAt(Lk!Topmost.target, 1)
    BY NodeOnTop DEF RunsAt
  <1>3. /\ \A t, i, j : RunsAt(t, i) /\ RunsAt(t, j) => i = j
        /\ \A i : NodeAt(i) => StepsOK(linkers[i]) /\ KidsOK(i, linkers[i])
    BY DEF NodesRun
  <1>4. \A t, i, j : RunsAt(t, i)' /\ RunsAt(t, j)' => i = j
    BY <1>1, <1>3, Zenon
  <1>5. (\A t : Queued(t)' <=> Queued(t)) /\ \A t : Cut(t)' <=> Cut(t)
    BY DEF Queued, QueuedIn, Cut
  <1>6. ASSUME NEW i, NodeAt(i), i # 1, NEW f, f = linkers[i] PROVE StepsOK(f)' /\ KidsOK(i, f)'
    <2>1. StepsOK(f) /\ KidsOK(i, f)
      BY <1>3, <1>6
    <2>2. f.target # Lk!Topmost.target
      BY <1>2, <1>3, <1>6 DEF RunsAt
    <2>3. StepsOK(f)'
      BY <1>5, <2>1, <2>2, StepsKept
    <2>4. \A j : KidDone(f.target, j) => KidDone(f.target, j)'
      BY KidDoneKept
    <2>5. i > 1 => linkers'[i - 1].target = linkers[i - 1].target
      <3>1. ASSUME i > 1 PROVE NodeAt(i - 1)
        BY <1>6, <3>1, NodeNumber DEF NodeAt, LinkTypes
      <3> QED BY <1>1, <3>1
    <2>6. KidsOK(i, f)'
      BY <2>1, <2>4, <2>5 DEF KidsOK
    <2> QED BY <2>3, <2>6
  <1>7. ASSUME NEW i, NodeAt(i)' PROVE (StepsOK(linkers[i]) /\ KidsOK(i, linkers[i]))'
    <2>1. CASE i = 1
      BY <1>1, <2>1
    <2>2. CASE i # 1
      BY <1>1, <1>6, <1>7, <2>2
    <2> QED BY <2>1, <2>2
  <1> QED BY <1>4, <1>7, Zenon DEF NodesRun

LEMMA NodesLeave ==
  ASSUME LinkTypes, Based, NodesRun, NEW tree, LinkingGiven(tree), linkers # <<>>, Lk!Topmost.step # "linker",
         linkers' = Tail(linkers), lThrown' = lThrown,
         \A t, s : Called(t, s) => Called(t, s)',
         \A t, s : t # Lk!Topmost.target /\ Called(t, s)' => Called(t, s),
         \A t : t # Lk!Topmost.target /\ Queued(t)' => Queued(t),
         NEW top, top = Lk!Topmost.target, top.node \in Hosts \cup Conflicting \/ Called(top, "postLink")'
  PROVE  NodesRun'
  <1>1. /\ NodeAt(1) /\ linkers[1] = Lk!Topmost
        /\ \A i : NodeAt(i)' => i \in Nat \ {0} /\ NodeAt(i + 1) /\ linkers'[i] = linkers[i + 1]
        /\ \A t, i : RunsAt(t, i)' => RunsAt(t, i + 1)
    BY NodeLeaves
  <1>2. RunsAt(Lk!Topmost.target, 1)
    BY <1>1 DEF RunsAt
  <1>3. /\ \A t, i, j : RunsAt(t, i) /\ RunsAt(t, j) => i = j
        /\ \A i : NodeAt(i) => StepsOK(linkers[i]) /\ KidsOK(i, linkers[i])
    BY DEF NodesRun
  <1>4. ASSUME NEW t, NEW i, NEW j, RunsAt(t, i)', RunsAt(t, j)' PROVE i = j
    <2>1. i \in Nat /\ j \in Nat
      BY <1>1, <1>4 DEF RunsAt
    <2>2. i + 1 = j + 1
      BY <1>1, <1>3, <1>4
    <2> QED BY <2>1, <2>2
  <1>5. ASSUME NEW i, NodeAt(i)', NEW f, f = linkers[i + 1] PROVE StepsOK(f)' /\ KidsOK(i, f)'
    <2>1. i \in Nat \ {0} /\ NodeAt(i + 1) /\ i + 1 > 1 /\ (i + 1) - 1 = i
      BY <1>1, <1>5
    <2>2. StepsOK(f) /\ KidsOK(i + 1, f)
      BY <1>3, <1>5, <2>1
    <2>3. f.target # Lk!Topmost.target
      <3>1. RunsAt(f.target, i + 1) /\ i + 1 # 1
        BY <1>5, <2>1 DEF RunsAt
      <3>2. \A j : RunsAt(Lk!Topmost.target, j) => j = 1
        BY <1>2, <1>3, Zenon
      <3> QED BY <3>1, <3>2
    <2>4. StepsOK(f)'
      <3>1. Cut(f.target)' <=> Cut(f.target)
        BY DEF Cut
      <3> QED BY <2>2, <2>3, <3>1, StepsKept
    <2>5. \A j : KidDone(f.target, j) => KidDone(f.target, j)'
      BY KidDoneKept
    <2>6. /\ f.step = "children" /\ f.kid > 1 /\ f.kid - 1 \in DOMAIN Kids[f.target.node]
          /\ linkers[i].target = Kid(f.target, f.kid - 1)
      BY <2>1, <2>2 DEF KidsOK
    <2>7. \A j \in DOMAIN Kids[f.target.node] : j < f.kid - 1 /\ j < f.kid => KidDone(f.target, j)
      BY <2>1, <2>2, <2>6 DEF KidsOK
    <2>8. f \in NodeFrames
      BY <1>5, <2>1 DEF Based
    <2>9. f.kid \in Nat /\ \A j \in DOMAIN Kids[f.target.node] : j \in Nat /\ j >= 1
      BY <2>8, KidNumber
    <2>10. i > 1 => linkers'[i - 1].target = Kid(f.target, f.kid - 1)
      <3>1. ASSUME i > 1 PROVE linkers'[i - 1] = linkers[i]
        <4>1. NodeAt(i) /\ i # 1
          <5>1. i < Len(linkers) /\ Len(linkers) \in Nat /\ DOMAIN linkers = 1 .. Len(linkers)
            BY <2>1, NodeNumber DEF LinkTypes
          <5> QED BY <2>1, <3>1, <5>1 DEF NodeAt
        <4> QED BY <4>1, NodeLeaves
      <3> QED BY <2>6, <3>1
    <2>11. ASSUME NEW j \in DOMAIN Kids[f.target.node], j < f.kid, i > 1 => j < f.kid - 1
           PROVE  KidDone(f.target, j)'
      <3>1. CASE j < f.kid - 1
        BY <2>5, <2>7, <2>11, <3>1
      <3>2. CASE ~(j < f.kid - 1)
        <4>1. j = f.kid - 1 /\ i = 1
          BY <2>1, <2>9, <2>11, <3>2
        <4>2. top = Kid(f.target, j)
          BY <1>1, <2>6, <4>1
        <4>3. top.node = Kids[f.target.node][j]
          BY <4>2 DEF Kid
        <4> QED BY <4>2, <4>3 DEF KidDone
      <3> QED BY <3>1, <3>2
    <2>12. f.step # "post"
      BY <2>6
    <2>13. KidsOK(i, f)'
      BY <2>6, <2>10, <2>11, <2>12 DEF KidsOK
    <2> QED BY <2>4, <2>13
  <1>6. ASSUME NEW i, NodeAt(i)' PROVE (StepsOK(linkers[i]) /\ KidsOK(i, linkers[i]))'
    BY <1>1, <1>5, <1>6
  <1> QED BY <1>4, <1>6, Zenon DEF NodesRun

LEMMA NodesDescend ==
  ASSUME LinkTypes, Based, NodesRun, NEW tree, LinkingGiven(tree), linkers # <<>>, Lk!Topmost.step = "children",
         NEW h \in NodeFrames, h.target = Kid(Lk!Topmost.target, Lk!Topmost.kid), h.step = "enter",
         NEW g \in NodeFrames, g.target = Lk!Topmost.target, g.queue = Lk!Topmost.queue, g.step = "children",
         g.kid = Lk!Topmost.kid + 1,
         linkers' = <<h, g>> \o Tail(linkers), lQueue' = lQueue, done' = done, lThrown' = lThrown,
         Lk!Topmost.kid \in DOMAIN Kids[Lk!Topmost.target.node], ~Runs(h.target), StepsOK(h)
  PROVE  NodesRun'
  <1>1. /\ NodeAt(1) /\ linkers[1] = Lk!Topmost
        /\ linkers'[1] = h /\ linkers'[2] = g /\ NodeAt(1)' /\ NodeAt(2)'
        /\ \A i : NodeAt(i)' => \/ i = 1 \/ i = 2
                                \/ i - 1 \in Nat /\ i - 1 > 1 /\ NodeAt(i - 1) /\ linkers'[i] = linkers[i - 1]
        /\ \A i : NodeAt(i) /\ i # 1 => NodeAt(i + 1)' /\ linkers'[i + 1] = linkers[i]
        /\ \A t, i : RunsAt(t, i)' => i = 1 \/ RunsAt(t, i - 1)
        /\ RunsAt(h.target, 1)'
    BY NodeDescends
  <1>2. /\ \A t, i, j : RunsAt(t, i) /\ RunsAt(t, j) => i = j
        /\ \A i : NodeAt(i) => StepsOK(linkers[i]) /\ KidsOK(i, linkers[i])
    BY DEF NodesRun
  <1>3. \A t, s : Called(t, s)' <=> Called(t, s)
    BY DEF Called
  <1>4. (\A t : Queued(t)' <=> Queued(t)) /\ \A t : Cut(t)' <=> Cut(t)
    BY DEF Queued, QueuedIn, Cut
  <1>5. \A f : StepsOK(f) => StepsOK(f)'
    BY <1>3, <1>4, StepsKept
  <1>6. \A t, j : KidDone(t, j) => KidDone(t, j)'
    BY <1>3, KidDoneKept
  <1>7. ASSUME NEW t, NEW i, NEW j, RunsAt(t, i)', RunsAt(t, j)' PROVE i = j
    <2>1. i = 1 \/ (i # 1 /\ RunsAt(t, i - 1))
      BY <1>1, <1>7
    <2>2. j = 1 \/ (j # 1 /\ RunsAt(t, j - 1))
      BY <1>1, <1>7
    <2>3. \A k : RunsAt(t, k)' /\ k = 1 => t = h.target
      BY <1>1 DEF RunsAt
    <2>4. \A k : RunsAt(t, k) => t # h.target
      BY DEF Runs
    <2>5. ASSUME i # 1, j # 1, RunsAt(t, i - 1), RunsAt(t, j - 1) PROVE i = j
      <3>1. i - 1 = j - 1
        BY <1>2, <2>5
      <3>2. \A k : NodeAt(k)' => k \in Nat
        <4>1. \A k : NodeAt(k)' => k \in DOMAIN linkers'
          BY DEF NodeAt
        <4>2. linkers' \in Seq(LinkFrames)
          BY NodeDescends
        <4> QED BY <4>1, <4>2
      <3>3. i \in Nat /\ j \in Nat
        BY <1>7, <3>2 DEF RunsAt
      <3> QED BY <3>1, <3>3
    <2> QED BY <1>7, <2>1, <2>2, <2>3, <2>4, <2>5
  <1>8. KidsOK(1, h)'
    BY DEF KidsOK
  <1>9. g.kid \in Nat /\ Lk!Topmost.kid \in Nat \ {0} /\ \A j \in DOMAIN Kids[g.target.node] : j \in Nat /\ j >= 1
    BY KidNumber, NodeOnTop DEF NodeFrames
  <1>10. StepsOK(g) /\ KidsOK(2, g)'
    <2>1. StepsOK(Lk!Topmost) /\ KidsOK(1, Lk!Topmost)
      BY <1>1, <1>2
    <2>2. StepsOK(g)
      BY <2>1 DEF StepsOK
    <2>3. \A j \in DOMAIN Kids[g.target.node] : j < Lk!Topmost.kid => KidDone(g.target, j)
      BY <2>1 DEF KidsOK
    <2>4. g.kid > 1 /\ g.kid - 1 = Lk!Topmost.kid
      BY <1>9
    <2>5. linkers'[2 - 1].target = Kid(g.target, g.kid - 1) /\ g.kid - 1 \in DOMAIN Kids[g.target.node]
      BY <1>1, <2>4
    <2>6. \A j \in DOMAIN Kids[g.target.node] : j < g.kid /\ (2 > 1 => j < g.kid - 1) => KidDone(g.target, j)'
      BY <1>6, <1>9, <2>3, <2>4
    <2>7. KidsOK(2, g)'
      BY <2>4, <2>5, <2>6 DEF KidsOK
    <2> QED BY <2>2, <2>7
  <1>11. ASSUME NEW i, i - 1 \in Nat, i - 1 > 1, NodeAt(i - 1), NodeAt(i)', NEW f, f = linkers[i - 1]
         PROVE StepsOK(f) /\ KidsOK(i, f)'
    <2>1. StepsOK(f) /\ KidsOK(i - 1, f)
      BY <1>2, <1>11
    <2>2. linkers'[i - 1].target = linkers[(i - 1) - 1].target
      <3>1. i \in Nat
        <4>1. i \in DOMAIN linkers' /\ linkers' \in Seq(LinkFrames)
          BY <1>11, NodeDescends DEF NodeAt
        <4> QED BY <4>1
      <3>2. CASE i - 1 = 2
        BY <1>1, <3>1, <3>2
      <3>3. CASE i - 1 # 2
        <4>1. NodeAt((i - 1) - 1) /\ (i - 1) - 1 # 1 /\ ((i - 1) - 1) + 1 = i - 1
          <5>1. Len(linkers) \in Nat /\ DOMAIN linkers = 1 .. Len(linkers)
            BY DEF LinkTypes
          <5> QED BY <1>11, <3>1, <3>3, <5>1 DEF NodeAt
        <4>2. linkers'[((i - 1) - 1) + 1] = linkers[(i - 1) - 1]
          BY <1>1, <4>1
        <4> QED BY <4>1, <4>2
      <3> QED BY <3>2, <3>3
    <2>3. /\ f.step = "children" /\ f.kid > 1 /\ f.kid - 1 \in DOMAIN Kids[f.target.node]
          /\ linkers[(i - 1) - 1].target = Kid(f.target, f.kid - 1)
      BY <1>11, <2>1 DEF KidsOK
    <2>4. \A j \in DOMAIN Kids[f.target.node] : j < f.kid /\ j < f.kid - 1 => KidDone(f.target, j)'
      BY <1>6, <1>11, <2>1, <2>3 DEF KidsOK
    <2>5. f.step # "post" /\ i > 1
      BY <1>11, <2>3, NodeDescends DEF NodeAt
    <2>6. KidsOK(i, f)'
      BY <2>2, <2>3, <2>4, <2>5 DEF KidsOK
    <2> QED BY <2>1, <2>6
  <1>12. ASSUME NEW i, NodeAt(i)' PROVE (StepsOK(linkers[i]) /\ KidsOK(i, linkers[i]))'
    <2>1. CASE i = 1
      BY <1>1, <1>5, <1>8, <2>1
    <2>2. CASE i = 2
      BY <1>1, <1>5, <1>10, <2>2
    <2>3. CASE i # 1 /\ i # 2
      <3>1. i - 1 \in Nat /\ i - 1 > 1 /\ NodeAt(i - 1) /\ linkers'[i] = linkers[i - 1]
        BY <1>1, <1>12, <2>3
      <3>2. StepsOK(linkers[i - 1]) /\ \A f : f = linkers[i - 1] => KidsOK(i, f)'
        BY <1>11, <1>12, <3>1
      <3> QED BY <1>5, <3>1, <3>2
    <2> QED BY <2>1, <2>2, <2>3
  <1> QED BY <1>7, <1>12, Zenon DEF NodesRun

\* The inductive invariant.
LinkInv(tree) ==
  LinkTypes /\ Based /\ HostsWait /\ QueuesNamed /\ NodesRun /\ BegunInOrder(tree) /\ CalledInOrder
  /\ CutOK

\* What was called was called after what it follows.
LEMMA Follows ==
  ASSUME LinkTypes, CalledInOrder, NEW t
  PROVE  /\ Called(t, "postLink") => Called(t, "post")
         /\ Called(t, "post") => Called(t, "pre")
         /\ Called(t, "pre") => Called(t, "controllers")
  <1>1. ASSUME NEW step, Called(t, step) PROVE \E k \in DOMAIN done : CalledAfter(k, t, step)
    <2>1. PICK k \in DOMAIN done : done[k] = [target |-> t, step |-> step]
      BY <1>1 DEF Called, Those
    <2>2. CalledAfter(k, done[k].target, done[k].step)
      BY DEF CalledInOrder
    <2>3. done[k].target = t /\ done[k].step = step
      BY <2>1
    <2> QED BY <2>2, <2>3
  <1>2. \A k, step : Earlier(k, t, step) => Called(t, step)
    BY DEF Earlier, Called, Those
  <1>3. /\ \A k : CalledAfter(k, t, "postLink") => Earlier(k, t, "post")
        /\ \A k : CalledAfter(k, t, "post") => Earlier(k, t, "pre")
        /\ \A k : CalledAfter(k, t, "pre") => Earlier(k, t, "controllers")
    BY DEF CalledAfter
  <1> QED BY <1>1, <1>2, <1>3

\* A node whose children were come to has called its pre-link functions.
LEMMA PassedPre ==
  ASSUME LinkTypes, CalledInOrder, NodesRun, NEW t, NEW j, Passed(t, j)
  PROVE  Called(t, "pre")
  <1>1. CASE Called(t, "postLink")
    BY <1>1, Follows
  <1>2. ASSUME NEW i, RunsAt(t, i), linkers[i].step \in {"children", "post", "postLink"} PROVE Called(t, "pre")
    <2>1. StepsOK(linkers[i]) /\ linkers[i].target = t
      BY <1>2 DEF RunsAt, NodesRun
    <2>2. \A step \in Before(linkers[i].step) : Called(t, step)
      BY <2>1 DEF StepsOK
    <2>3. CASE linkers[i].step = "postLink"
      <3>1. Called(t, "post")
        BY <2>2, <2>3 DEF Before
      <3> QED BY <3>1, Follows
    <2>4. CASE linkers[i].step \in {"children", "post"}
      BY <2>2, <2>4 DEF Before
    <2> QED BY <1>2, <2>3, <2>4
  <1> QED BY <1>1, <1>2, Zenon DEF Passed

\* The node on top goes on to its next step, its function called if it has one.
OnFrom(from, next) ==
  /\ linkers # <<>> /\ from = Lk!Topmost.step
  /\ <<from, next>> \in {<<"enter", "controllers">>, <<"controllers", "pre">>, <<"pre", "children">>,
                         <<"children", "post">>, <<"post", "postLink">>}
  /\ from = "children" => Lk!Topmost.kid > Len(Kids[Lk!Topmost.target.node])
  /\ linkers' = <<[Lk!Topmost EXCEPT !.step = next]>> \o Tail(linkers)
  /\ IF from \in {"enter", "children"} THEN done' = done
     ELSE done' = Append(done, [target |-> Lk!Topmost.target, step |-> from])
  /\ lFailures' \in 0 .. MaxFailures
  /\ UNCHANGED <<linked, lQueue, drains, waiting, arrived, lCancelled, lDead, lThrown>>

\* A step of that kind keeps the invariant.
LEMMA GoesOnStep ==
  ASSUME NEW tree, LinkingGiven(tree), LinkInv(tree), NEW from, NEW next, OnFrom(from, next)
  PROVE  LinkInv(tree)'
  <1> USE DEF OnFrom
  <1> DEFINE top == Lk!Topmost
             g == [top EXCEPT !.step = next]
  <1>1. /\ LinkTypes /\ Based /\ HostsWait /\ QueuesNamed /\ NodesRun /\ BegunInOrder(tree) /\ CalledInOrder
        /\ CutOK
    BY DEF LinkInv
  <1>2. top.step # "linker" /\ from \in LinkSteps /\ next \in LinkSteps
    BY DEF LinkSteps
  <1>3. /\ top \in NodeFrames /\ top = linkers[1] /\ NodeAt(1)
        /\ top.target \in Targets /\ top.kid \in Nat \ {0}
        /\ Kids[top.target.node] \in Seq(Nodes) /\ RunsAt(top.target, 1)
        /\ g \in NodeFrames /\ g.target = top.target /\ g.queue = top.queue /\ g.kid = top.kid /\ g.step = next
    BY <1>1, <1>2, TopTyped
  <1>4. PICK t \in Targets : t = top.target
    BY <1>3
  <1>5. PICK f \in NodeFrames : f = g
    BY <1>3
  <1>6. PICK was \in NodeFrames : was = top
    BY <1>3
  <1> HIDE DEF top, g
  <1>7. /\ f.target = was.target /\ f.queue = was.queue /\ f.kid = was.kid /\ f.step = next
        /\ was.target = t /\ was.step = from /\ was = linkers[1] /\ RunsAt(t, 1)
        /\ linkers' = <<f>> \o Tail(linkers)
        /\ was = Lk!Topmost
    BY <1>3, <1>4, <1>5, <1>6 DEF top, g
  <1>8. /\ linkers' \in Seq(LinkFrames) /\ linkers' # <<>> /\ Base' = Base
        /\ linkers'[1] = f /\ \A i : NodeAt(i)' <=> NodeAt(i)
        /\ \A i : NodeAt(i) /\ i # 1 => linkers'[i] = linkers[i]
        /\ \A u, i : RunsAt(u, i)' <=> RunsAt(u, i)
    BY <1>1, <1>2, <1>7, NodeGoesOn
  <1>9. \A u : Runs(u)' <=> Runs(u)
    BY <1>8, Zenon DEF Runs
  <1>10. StepsOK(was) /\ KidsOK(1, was)
    BY <1>1, <1>3, <1>7 DEF NodesRun
  <1>11. /\ done' \in Seq(LinkEvents) /\ Len(done) \in Nat /\ Len(done') \in Nat /\ Len(done') >= Len(done)
         /\ \A u, s : Called(u, s) => Called(u, s)'
         /\ \A u, s : Called(u, s)' => Called(u, s) \/ (u = t /\ s = from /\ from \notin {"enter", "children"})
         /\ from \notin {"enter", "children"} => Called(t, from)'
    <2>1. CASE from \in {"enter", "children"}
      BY <1>1, <2>1 DEF LinkTypes, Called
    <2>2. CASE from \notin {"enter", "children"}
      <3>1. [target |-> t, step |-> from] \in LinkEvents
        BY <2>2 DEF LinkEvents
      <3>2. done' = Append(done, [target |-> t, step |-> from])
        BY <1>4, <2>2 DEF top
      <3>3. /\ done' \in Seq(LinkEvents) /\ Len(done) \in Nat /\ Len(done') = Len(done) + 1
            /\ \A u, s : Called(u, s)' <=> Called(u, s) \/ [target |-> t, step |-> from] = [target |-> u, step |-> s]
        BY <1>1, <3>1, <3>2, CallNoted
      <3>4. \A u, s : [target |-> t, step |-> from] = [target |-> u, step |-> s] <=> u = t /\ s = from
        OBVIOUS
      <3>5. \A u, s : Called(u, s)' <=> Called(u, s) \/ (u = t /\ s = from)
        BY <3>3, <3>4, Zenon
      <3>6. Len(done') >= Len(done) /\ Len(done') \in Nat
        BY <3>3
      <3> QED BY <2>2, <3>3, <3>5, <3>6
    <2> QED BY <2>1, <2>2
  <1>21. (\A u : Cut(u)' <=> Cut(u)) /\ ~Cut(t)
    BY <1>7, <1>10 DEF StepsOK, Cut
  <1>12. LinkTypes'
    BY <1>1, <1>8, <1>11 DEF LinkTypes, LinkFrames
  <1>13. Based'
    BY <1>1, <1>2, <1>7, <1>11, BasedGoesOn
  <1>14. HostsWait'
    <2>1. \A q : Undrained(q)' => Undrained(q)
      BY <1>8 DEF Undrained
    <2>2. \A u : Untouched(u) /\ ~Runs(u) => Untouched(u)' /\ ~Runs(u)'
      BY <1>7, <1>9, <1>11, <1>21 DEF Untouched, Runs
    <2>3. Apart(drains)'
      BY <1>1 DEF HostsWait, Apart
    <2> QED BY <1>1, <2>1, <2>2, <2>3, HostsKept
  <1>15. QueuesNamed'
    <2>1. \A l \in Lk!Linkers : linked'[l] >= linked[l]
      BY <1>1 DEF LinkTypes
    <2>2. linkers' # <<>> => Base'.queue \notin Those(drains')
      BY <1>1, <1>8 DEF QueuesNamed
    <2> QED BY <1>1, <1>11, <2>1, <2>2, QueuesKept DEF LinkTypes
  <1>16. StepsOK(f)'
    <2>1. \A s \in Ahead(next) : ~Called(t, s)'
      <3>1. \A s \in Ahead(next) : s \in Ahead(from) /\ s # from
        BY DEF Ahead
      <3>2. \A s \in Ahead(from) : ~Called(t, s)
        BY <1>7, <1>10, Zenon DEF StepsOK
      <3> QED BY <1>11, <3>1, <3>2
    <2>2. \A s \in Before(next) : Called(t, s)'
      <3>1. \A s \in Before(next) : (s \in Before(from)) \/ (s = from /\ from \notin {"enter", "children"})
        BY DEF Before
      <3>2. \A s \in Before(from) : Called(t, s)
        BY <1>7, <1>10, Zenon DEF StepsOK
      <3> QED BY <1>11, <3>1, <3>2
    <2>3. f.step \in {"enter", "controllers", "pre"} => f.kid = 1
      BY <1>7, <1>10 DEF StepsOK
    <2>4. f.step # "enter"
      BY <1>7
    <2> QED BY <1>7, <1>21, <2>1, <2>2, <2>3, <2>4, Zenon DEF StepsOK
  <1>17. KidsOK(1, f)'
    <2>1. ASSUME next = "children" PROVE \A j \in DOMAIN Kids[f.target.node] : ~(j < f.kid)
      <3>1. f.kid = 1
        BY <1>7, <1>10, <2>1 DEF StepsOK
      <3> QED BY <1>3, <1>4, <1>7, <3>1
    <2>2. ASSUME next = "post" PROVE \A j \in DOMAIN Kids[f.target.node] : KidDone(f.target, j)'
      <3>1. from = "children" /\ \A j \in DOMAIN Kids[f.target.node] : j < was.kid
        BY <1>3, <1>4, <1>6, <1>7, <2>2 DEF top
      <3>2. \A j \in DOMAIN Kids[f.target.node] : KidDone(f.target, j)
        BY <1>7, <1>10, <3>1 DEF KidsOK
      <3> QED BY <1>11, <3>2, KidDoneKept
    <2> QED BY <1>7, <2>1, <2>2 DEF KidsOK
  <1>18. NodesRun'
    <2>1. \A u, s : u # Lk!Topmost.target /\ Called(u, s)' => Called(u, s)
      BY <1>7, <1>11
    <2> QED BY <1>1, <1>2, <1>7, <1>11, <1>16, <1>17, <2>1, NodesGoOn
  <1>19. BegunInOrder(tree)'
    <2>1. \A l \in Lk!Linkers : linked'[l] >= linked[l]
      BY <1>1 DEF LinkTypes
    <2>2. \A u : Queued(u)' <=> Queued(u)
      BY DEF Queued, QueuedIn
    <2>3. Runs(t)
      BY <1>7 DEF Runs
    <2>6. ASSUME NEW u, \E s : Called(u, s)' PROVE Begun(u)
      BY <1>11, <2>3, <2>6 DEF Begun
    <2>4. \A u : Begun(u)' => Begun(u)
      BY <1>9, <1>21, <2>2, <2>6, Zenon DEF Begun
    <2>5. ASSUME NEW u, NEW j, Passed(u, j) PROVE Passed(u, j)'
      <3>1. CASE Called(u, "postLink")
        BY <1>11, <3>1 DEF Passed
      <3>3. CASE Cut(u) /\ Called(u, "pre")
        BY <1>11, <1>21, <3>3 DEF Passed
      <3>2. ASSUME NEW i, RunsAt(u, i),
                   linkers[i].step \in {"post", "postLink"} \/ (linkers[i].step = "children" /\ linkers[i].kid > j)
            PROVE  Passed(u, j)'
        <4>1. RunsAt(u, i)'
          BY <1>8, <3>2
        <4>2. CASE i # 1
          <5>1. linkers'[i] = linkers[i]
            BY <1>8, <3>2, <4>2 DEF RunsAt
          <5> QED BY <3>2, <4>1, <5>1 DEF Passed
        <4>3. CASE i = 1
          <5>1. linkers'[i].step \in {"post", "postLink"}
            BY <1>7, <1>8, <3>2, <4>3
          <5> QED BY <4>1, <5>1 DEF Passed
        <4> QED BY <4>2, <4>3
      <3> QED BY <2>5, <3>1, <3>2, <3>3 DEF Passed
    <2> QED BY <1>1, <2>1, <2>4, <2>5, BegunKept DEF LinkTypes
  <1>20. CalledInOrder'
    <2>1. CASE from \in {"enter", "children"}
      BY <1>1, <1>9, <1>21, <2>1, CallsKept
    <2>2. CASE from \notin {"enter", "children"}
      <3>1. done' = Append(done, [target |-> t, step |-> from]) /\ from \in {"controllers", "pre", "post"}
        BY <1>4, <2>2 DEF top
      <3>2. ~Called(t, from)
        <4>1. from \in Ahead(from)
          BY <2>2 DEF Ahead
        <4> QED BY <1>7, <1>10, <4>1 DEF StepsOK
      <3>3. from = "pre" => Called(t, "controllers")
        BY <1>7, <1>10 DEF StepsOK, Before
      <3>4. from = "post" =>
              /\ Called(t, "pre")
              /\ \A j \in DOMAIN Kids[t.node] :
                   Kids[t.node][j] \notin Hosts \cup Conflicting => Called(Kid(t, j), "postLink")
        <4>1. ASSUME from = "post" PROVE Called(t, "pre")
          BY <1>7, <1>10, <4>1 DEF StepsOK, Before
        <4>2. ASSUME from = "post" PROVE \A j \in DOMAIN Kids[t.node] : KidDone(t, j)
          BY <1>7, <1>10, <4>2 DEF KidsOK
        <4> QED BY <4>1, <4>2 DEF KidDone
      <3>5. from = "controllers" =>
              \A m \in Nodes : \A j \in DOMAIN Kids[m] :
                t.node = Kids[m][j] /\ t.node # Roots[t.link.linker] => Called([link |-> t.link, node |-> m], "pre")
        <4>1. Begun(t)
          BY <1>7 DEF Begun, Runs
        <4>2. \A m \in Nodes : \A j \in DOMAIN Kids[m] :
                t.node = Kids[m][j] /\ t.node # Roots[t.link.linker] => Passed([link |-> t.link, node |-> m], j)
          BY <1>1, <4>1, Zenon DEF BegunInOrder
        <4>3. \A u, j : Passed(u, j) => Called(u, "pre")
          BY <1>1, PassedPre
        <4> QED BY <4>2, <4>3, Zenon
      <3>6. Runs(t)'
        BY <1>7, <1>8 DEF Runs
      <3>7. from # "postLink"
        BY <3>1
      <3> QED BY <1>1, <1>9, <3>1, <3>2, <3>3, <3>4, <3>5, <3>6, <3>7, CallsNoted
    <2> QED BY <2>1, <2>2
  <1>22. CutOK'
    BY <1>1, <1>11, <1>21, CutKept
  <1> QED BY <1>12, <1>13, <1>14, <1>15, <1>18, <1>19, <1>20, <1>22 DEF LinkInv

\* A queue that a host is put into.
LEMMA HostQueued ==
  ASSUME NEW tree, LinkingGiven(tree), LinkTypes, Based, HostsWait, QueuesNamed, BegunInOrder(tree),
         linkers # <<>>, Lk!Topmost.step # "linker",
         NEW t, t = Lk!Topmost.target, t.node \in Hosts, Untouched(t), ~Queued(t),
         NEW q, q = Lk!Topmost.queue,
         Lk!Defer(t, q),
         UNCHANGED <<linked, drains, waiting, arrived, done, lThrown>>,
         linkers' # <<>>, Base' = Base, \A u : Runs(u)' => Runs(u), ~Runs(t)'
  PROVE  /\ lQueue' \in [DOMAIN lQueue' -> Seq(Targets)] /\ DOMAIN lQueue' \subseteq QueueNames
         /\ \A u : Queued(u)' => Queued(u) \/ u = t
         /\ HostsWait' /\ QueuesNamed'
  <1>1. /\ t \in Targets /\ q \in QueueNames /\ q = Base.queue /\ NodeAt(1) /\ linkers[1].target = t
        /\ t.link.linker \in Lk!Linkers
    BY TopTyped DEF LinkNames
  <1>2. /\ lQueue \in [DOMAIN lQueue -> Seq(Targets)] /\ DOMAIN lQueue \subseteq QueueNames
    BY DEF LinkTypes
  <1>3. Lk!QueueOf(q) \in Seq(Targets)
    BY <1>1, <1>2 DEF Lk!QueueOf
  <1>4. /\ Append(Lk!QueueOf(q), t) \in Seq(Targets)
        /\ Len(Append(Lk!QueueOf(q), t)) = Len(Lk!QueueOf(q)) + 1
        /\ \A k \in 1 .. Len(Lk!QueueOf(q)) : Append(Lk!QueueOf(q), t)[k] = Lk!QueueOf(q)[k]
        /\ Append(Lk!QueueOf(q), t)[Len(Lk!QueueOf(q)) + 1] = t
        /\ Those(Append(Lk!QueueOf(q), t)) = Those(Lk!QueueOf(q)) \cup {t}
    BY <1>1, <1>3, AppendFacts
  <1>5. /\ DOMAIN lQueue' = DOMAIN lQueue \cup {q} /\ lQueue'[q] = Append(Lk!QueueOf(q), t)
        /\ \A x \in DOMAIN lQueue : x # q => lQueue'[x] = lQueue[x]
    BY DEF Lk!Defer
  <1>6. /\ lQueue' \in [DOMAIN lQueue' -> Seq(Targets)] /\ DOMAIN lQueue' \subseteq QueueNames
    BY <1>1, <1>2, <1>4 DEF Lk!Defer
  <1>7. Those(Lk!QueueOf(q)) = IF q \in DOMAIN lQueue THEN Those(lQueue[q]) ELSE {}
    BY DEF Lk!QueueOf, Those
  <1>8. ASSUME NEW u, NEW r PROVE QueuedIn(u, r)' <=> QueuedIn(u, r) \/ (u = t /\ r = q)
    <2>1. CASE r = q
      BY <1>4, <1>5, <1>7, <2>1 DEF QueuedIn
    <2>2. CASE r # q
      BY <1>5, <2>2 DEF QueuedIn
    <2> QED BY <2>1, <2>2
  <1>9. \A u : Queued(u)' <=> Queued(u) \/ u = t
    BY <1>8, Zenon DEF Queued
  <1>10. /\ \A r \in DOMAIN lQueue : Apart(lQueue[r]) /\ \A u \in Those(lQueue[r]) : u.node \in Hosts
         /\ \A u, p, r : QueuedIn(u, p) /\ QueuedIn(u, r) => p = r
         /\ Apart(waiting) /\ Apart(drains)
         /\ \A j, k \in DOMAIN arrived : arrived[j].entry = arrived[k].entry => j = k
         /\ \A k \in DOMAIN arrived : arrived[k].entry \notin Those(waiting)
         /\ \A u : Awaits(u) => Queued(u) /\ Untouched(u) /\ ~Runs(u)
         /\ \A u, r : QueuedIn(u, r) /\ Undrained(r) => ~Awaits(u) /\ Untouched(u) /\ ~Runs(u)
    BY DEF HostsWait
  <1>11. ~QueuedIn(t, q) /\ ~Awaits(t) /\ \A r : ~QueuedIn(t, r)
    BY <1>10 DEF Queued
  <1>12. Apart(Lk!QueueOf(q))
    BY <1>10 DEF Lk!QueueOf, Apart
  <1>13. Apart(Append(Lk!QueueOf(q), t))
    <2> DEFINE n == Len(Lk!QueueOf(q))
               s == Append(Lk!QueueOf(q), t)
    <2>1. n \in Nat /\ DOMAIN Lk!QueueOf(q) = 1 .. n /\ DOMAIN s = 1 .. n + 1
      BY <1>3, <1>4
    <2>2. \A k \in 1 .. n : Lk!QueueOf(q)[k] # t
      BY <1>7, <1>11, <2>1 DEF Those, QueuedIn
    <2> HIDE DEF n
    <2>3. \A k \in 1 .. n + 1 : k \in 1 .. n \/ k = n + 1
      BY <2>1
    <2>4. \A k \in 1 .. n : s[k] = Lk!QueueOf(q)[k] /\ s[k] # t
      BY <1>4, <2>2 DEF n
    <2>5. s[n + 1] = t
      BY <1>4 DEF n
    <2> HIDE DEF s
    <2>6. \A j, k \in 1 .. n + 1 : s[j] = s[k] => j = k
      BY <1>12, <2>1, <2>3, <2>4, <2>5, Zenon DEF Apart
    <2> QED BY <2>1, <2>6 DEF Apart, s
  <1>14. \A u : Awaits(u)' <=> Awaits(u)
    BY DEF Awaits
  <1>15. \A r : Undrained(r)' => Undrained(r)
    BY <1>1, NodeOnTop DEF Undrained
  <1>16. \A u : Untouched(u)' <=> Untouched(u)
    <2>1. \A u : Cut(u)' <=> Cut(u)
      BY DEF Cut
    <2>2. \A u, s : Called(u, s)' <=> Called(u, s)
      BY DEF Called
    <2> QED BY <2>1, <2>2, Zenon DEF Untouched
  <1>17. ASSUME NEW r \in DOMAIN lQueue' PROVE Apart(lQueue'[r]) /\ \A u \in Those(lQueue'[r]) : u.node \in Hosts
    <2>1. CASE r = q
      BY <1>4, <1>5, <1>7, <1>10, <1>13, <2>1
    <2>2. CASE r # q
      <3>1. r \in DOMAIN lQueue /\ lQueue'[r] = lQueue[r]
        BY <1>5, <1>17, <2>2
      <3> QED BY <1>10, <3>1
    <2> QED BY <2>1, <2>2
  <1>18. \A u, p, r : QueuedIn(u, p)' /\ QueuedIn(u, r)' => p = r
    BY <1>8, <1>10, <1>11, Zenon
  <1>19. \A u : Awaits(u)' => Queued(u)' /\ Untouched(u)' /\ ~Runs(u)'
    BY <1>9, <1>10, <1>14, <1>16, Zenon
  <1>20. ASSUME NEW u, NEW r, QueuedIn(u, r)', Undrained(r)' PROVE ~Awaits(u)' /\ Untouched(u)' /\ ~Runs(u)'
    <2>1. CASE u = t
      BY <1>11, <1>14, <1>16, <2>1
    <2>2. CASE QueuedIn(u, r)
      BY <1>10, <1>14, <1>15, <1>16, <1>20, <2>2, Zenon
    <2> QED BY <1>8, <1>20, <2>1, <2>2
  <1>21. Apart(waiting)' /\ Apart(drains)' /\ \A j, k \in DOMAIN arrived' : arrived'[j].entry = arrived'[k].entry => j = k
    BY <1>10 DEF Apart
  <1>22. \A k \in DOMAIN arrived' : arrived'[k].entry \notin Those(waiting')
    BY <1>10
  <1>23. \A r \in DOMAIN lQueue' : Apart(lQueue[r])' /\ \A u \in Those(lQueue'[r]) : u.node \in Hosts
    BY <1>17 DEF Apart
  <1>24. HostsWait'
    BY <1>18, <1>19, <1>20, <1>21, <1>22, <1>23, Zenon DEF HostsWait
  <1>25. QueuesNamed'
    <2>1. /\ Those(drains) \subseteq DOMAIN lQueue /\ Base.queue \notin Those(drains)
          /\ \A r \in DOMAIN lQueue :
               /\ r.of = "host" => r.target.time < Len(done)
               /\ r.of = "linker" => linked[r.linker] >= 1 /\ LinkTimes[r.linker] <= 1
      BY NodeOnTop DEF QueuesNamed
    <2>2. q.of = "host" => q.target.time < Len(done)
      BY <1>1 DEF Based
    <2>3. ASSUME q.of = "linker" PROVE linked[q.linker] >= 1 /\ LinkTimes[q.linker] <= 1
      <3>1. linked[q.linker] >= 1 /\ t.link.linker = q.linker
        BY <1>1, <2>3 DEF Based
      <3>2. Begun(t)
        BY <1>1 DEF Begun, Runs, RunsAt
      <3>3. t.node \in tree[t.link.linker]
        BY <3>2 DEF BegunInOrder
      <3>4. tree[t.link.linker] \cap Hosts # {}
        BY <3>3
      <3>5. LinkTimes[t.link.linker] <= 1
        BY <1>1, <3>4 DEF LinkingGiven
      <3> QED BY <3>1, <3>5
    <2>4. \A r \in DOMAIN lQueue' :
            /\ r.of = "host" => r.target.time < Len(done')
            /\ r.of = "linker" => linked'[r.linker] >= 1 /\ LinkTimes[r.linker] <= 1
      BY <1>5, <2>1, <2>2, <2>3
    <2>5. Those(drains') \subseteq DOMAIN lQueue' /\ Base'.queue \notin Those(drains')
      BY <1>5, <2>1
    <2> QED BY <2>4, <2>5 DEF QueuesNamed
  <1> QED BY <1>6, <1>9, <1>24, <1>25

\* The node on top is left: it conflicts, waits for its template or has called all.
LEMMA LeavesStep ==
  ASSUME NEW tree, LinkingGiven(tree), LinkInv(tree), linkers # <<>>, NEW from, from = Lk!Topmost.step,
         NEW t, t = Lk!Topmost.target, NEW q, q = Lk!Topmost.queue,
         linkers' = Tail(linkers), lFailures' \in 0 .. MaxFailures,
         \/ /\ from = "enter" /\ t.node \in Conflicting /\ UNCHANGED <<lQueue, done>>
         \/ /\ from = "enter" /\ t.node \in Hosts /\ done' = done
            /\ Lk!Defer(t, q)
         \/ /\ from = "postLink" /\ done' = Append(done, [target |-> t, step |-> from]) /\ lQueue' = lQueue,
         UNCHANGED <<linked, drains, waiting, arrived, lCancelled, lDead, lThrown>>
  PROVE  LinkInv(tree)'
  <1>1. /\ LinkTypes /\ Based /\ HostsWait /\ QueuesNamed /\ NodesRun /\ BegunInOrder(tree) /\ CalledInOrder
        /\ CutOK
    BY DEF LinkInv
  <1>2. Lk!Topmost.step # "linker" /\ from \in {"enter", "postLink"}
    OBVIOUS
  <1>3. /\ t \in Targets /\ RunsAt(t, 1) /\ NodeAt(1) /\ linkers[1] = Lk!Topmost
    BY <1>1, <1>2, TopTyped
  <1>4. /\ linkers' \in Seq(LinkFrames) /\ linkers' # <<>> /\ Base' = Base
        /\ \A i : NodeAt(i)' => i \in Nat \ {0} /\ NodeAt(i + 1) /\ linkers'[i] = linkers[i + 1]
        /\ \A i : NodeAt(i) /\ i # 1 => i - 1 \in Nat \ {0} /\ NodeAt(i - 1)' /\ linkers'[i - 1] = linkers[i]
        /\ \A u, i : RunsAt(u, i)' => i \in Nat \ {0} /\ RunsAt(u, i + 1)
        /\ \A u, i : RunsAt(u, i) /\ i # 1 => RunsAt(u, i - 1)'
    BY <1>1, <1>2, NodeLeaves DEF RunsAt
  <1>5. PICK was : was = linkers[1]
    OBVIOUS
  <1>6. /\ StepsOK(was) /\ was.step = from /\ was.target = t
        /\ \A u, i, j : RunsAt(u, i) /\ RunsAt(u, j) => i = j
    BY <1>1, <1>3, <1>5 DEF NodesRun
  <1>7. ASSUME NEW u PROVE Runs(u)' <=> Runs(u) /\ u # t
    <2>1. ASSUME Runs(u)' PROVE Runs(u) /\ u # t
      <3>1. PICK i : RunsAt(u, i)'
        BY <2>1 DEF Runs
      <3>2. RunsAt(u, i + 1) /\ i + 1 # 1
        BY <1>4, <3>1
      <3> QED BY <1>3, <1>6, <3>2 DEF Runs
    <2>2. ASSUME Runs(u), u # t PROVE Runs(u)'
      <3>1. PICK i : RunsAt(u, i)
        BY <2>2 DEF Runs
      <3>2. i # 1
        BY <1>3, <2>2, <3>1 DEF RunsAt
      <3>3. RunsAt(u, i - 1)'
        BY <1>4, <3>1, <3>2
      <3>4. \A k : RunsAt(u, k)' => Runs(u)'
        BY DEF Runs
      <3> QED BY <3>3, <3>4
    <2> QED BY <2>1, <2>2
  <1>8. /\ done' \in Seq(LinkEvents) /\ Len(done) \in Nat /\ Len(done') \in Nat /\ Len(done') >= Len(done)
        /\ \A u, s : Called(u, s) => Called(u, s)'
        /\ \A u, s : Called(u, s)' => Called(u, s) \/ (u = t /\ s = from /\ from = "postLink")
        /\ from = "postLink" => Called(t, "postLink")'
    <2>1. CASE from = "enter"
      BY <1>1, <2>1 DEF LinkTypes, Called
    <2>2. CASE from = "postLink"
      <3>1. [target |-> t, step |-> from] \in LinkEvents
        BY <1>3, <2>2 DEF LinkEvents
      <3>2. done' = Append(done, [target |-> t, step |-> from])
        BY <2>2
      <3>3. /\ done' \in Seq(LinkEvents) /\ Len(done) \in Nat /\ Len(done') = Len(done) + 1
            /\ \A u, s : Called(u, s)' <=> Called(u, s) \/ [target |-> t, step |-> from] = [target |-> u, step |-> s]
        BY <1>1, <3>1, <3>2, CallNoted
      <3>4. \A u, s : [target |-> t, step |-> from] = [target |-> u, step |-> s] <=> u = t /\ s = from
        OBVIOUS
      <3>5. \A u, s : Called(u, s)' <=> Called(u, s) \/ (u = t /\ s = from)
        BY <3>3, <3>4, Zenon
      <3>6. Len(done') >= Len(done) /\ Len(done') \in Nat
        BY <3>3
      <3> QED BY <2>2, <3>3, <3>5, <3>6
    <2> QED BY <1>2, <2>1, <2>2
  <1>16. (\A u : Cut(u)' <=> Cut(u)) /\ ~Cut(t)
    BY <1>6 DEF StepsOK, Cut
  <1>9. from = "enter" => Untouched(t) /\ ~Queued(t)
    <2>1. ASSUME from = "enter" PROVE ~Queued(t) /\ \A s \in Ahead("enter") : ~Called(t, s)
      BY <1>6, <2>1 DEF StepsOK
    <2>2. ASSUME NEW s, Called(t, s) PROVE s \in Ahead("enter")
      <3>1. PICK k \in DOMAIN done : done[k] = [target |-> t, step |-> s]
        BY <2>2 DEF Called, Those
      <3>2. done[k] \in LinkEvents /\ done[k].step = s
        BY <1>1, <3>1 DEF LinkTypes
      <3> QED BY <3>2 DEF LinkEvents, Ahead
    <2> QED BY <1>16, <2>1, <2>2 DEF Untouched
  <1>10. /\ lQueue' \in [DOMAIN lQueue' -> Seq(Targets)] /\ DOMAIN lQueue' \subseteq QueueNames
         /\ \A u : Queued(u)' => Queued(u) \/ u = t
         /\ HostsWait' /\ QueuesNamed'
    <2>1. CASE /\ from = "enter" /\ t.node \in Hosts /\ done' = done
               /\ Lk!Defer(t, q)
      <3>1. (\A u : Runs(u)' => Runs(u)) /\ ~Runs(t)'
        BY <1>7
      <3>2. Untouched(t) /\ ~Queued(t) /\ t.node \in Hosts
        BY <1>9, <2>1
      <3>3. UNCHANGED <<linked, drains, waiting, arrived, done, lThrown>>
        BY <2>1
      <3>4. Lk!Defer(t, q)
        BY <2>1
      <3>5. linkers' # <<>> /\ Base' = Base
        BY <1>4
      <3> QED BY <1>1, <1>2, <3>1, <3>2, <3>3, <3>4, <3>5, HostQueued
    <2>2. CASE lQueue' = lQueue
      <3>1. lQueue' \in [DOMAIN lQueue' -> Seq(Targets)] /\ DOMAIN lQueue' \subseteq QueueNames
        BY <1>1, <2>2 DEF LinkTypes
      <3>2. \A u : Queued(u)' <=> Queued(u)
        BY <2>2 DEF Queued, QueuedIn
      <3>3. \A r : Undrained(r)' => Undrained(r)
        BY <1>4 DEF Undrained
      <3>4. \A u : Untouched(u) /\ ~Runs(u) => Untouched(u)' /\ ~Runs(u)'
        <4>1. Runs(t)
          BY <1>3 DEF Runs
        <4> QED BY <1>7, <1>8, <1>16, <4>1 DEF Untouched
      <3>5. Apart(drains)'
        BY <1>1 DEF HostsWait, Apart
      <3>6. HostsWait'
        BY <1>1, <2>2, <3>3, <3>4, <3>5, HostsKept
      <3>7. \A l \in Lk!Linkers : linked'[l] >= linked[l]
        BY <1>1 DEF LinkTypes
      <3>8. linkers' # <<>> => Base'.queue \notin Those(drains')
        BY <1>1, <1>4 DEF QueuesNamed
      <3>9. QueuesNamed'
        <4>1. linked' \in [Lk!Linkers -> Nat] /\ Those(drains') \subseteq Those(drains)
          BY <1>1 DEF LinkTypes
        <4> QED BY <1>1, <1>8, <2>2, <3>7, <3>8, <4>1, QueuesKept
      <3> QED BY <3>1, <3>2, <3>6, <3>9
    <2> QED BY <2>1, <2>2
  <1>11. LinkTypes'
    BY <1>1, <1>4, <1>8, <1>10 DEF LinkTypes, LinkFrames
  <1>12. Based'
    BY <1>1, <1>2, <1>8, BasedLeaves
  <1>13. NodesRun'
    <2>1. \A u, s : u # Lk!Topmost.target /\ Called(u, s)' => Called(u, s)
      BY <1>8
    <2>2. \A u : u # Lk!Topmost.target /\ Queued(u)' => Queued(u)
      BY <1>10
    <2>3. t.node \in Hosts \cup Conflicting \/ Called(t, "postLink")'
      BY <1>8
    <2> QED BY <1>1, <1>2, <1>8, <2>1, <2>2, <2>3, NodesLeave
  <1>14. BegunInOrder(tree)'
    <2>1. \A l \in Lk!Linkers : linked'[l] >= linked[l]
      BY <1>1 DEF LinkTypes
    <2>2. Runs(t)
      BY <1>3 DEF Runs
    <2>3. \A u : Begun(u)' => Begun(u)
      BY <1>7, <1>8, <1>10, <1>16, <2>2, Zenon DEF Begun
    <2>4. ASSUME NEW u, NEW j, Passed(u, j) PROVE Passed(u, j)'
      <3>1. CASE Called(u, "postLink")
        BY <1>8, <3>1 DEF Passed
      <3>3. CASE Cut(u) /\ Called(u, "pre")
        BY <1>8, <1>16, <3>3 DEF Passed
      <3>2. ASSUME NEW i, RunsAt(u, i),
                   linkers[i].step \in {"post", "postLink"} \/ (linkers[i].step = "children" /\ linkers[i].kid > j)
            PROVE  Passed(u, j)'
        <4>1. CASE i # 1
          <5>1. PICK k : k = i - 1
            OBVIOUS
          <5>2. RunsAt(u, k)' /\ linkers'[k] = linkers[i]
            BY <1>4, <3>2, <4>1, <5>1 DEF RunsAt
          <5> QED BY <3>2, <5>2 DEF Passed
        <4>2. CASE i = 1
          <5>1. u = t /\ from = "postLink"
            BY <1>2, <1>5, <1>6, <3>2, <4>2 DEF RunsAt
          <5> QED BY <1>8, <5>1 DEF Passed
        <4> QED BY <4>1, <4>2
      <3> QED BY <2>4, <3>1, <3>2, <3>3 DEF Passed
    <2> QED BY <1>1, <2>1, <2>3, <2>4, BegunKept DEF LinkTypes
  <1>15. CalledInOrder'
    <2>1. CASE from = "enter"
      <3>1. done' = done
        BY <2>1
      <3>2. \A u, s : Called(u, s) => u # t
        BY <1>9, <2>1 DEF Untouched
      <3>3. \A u, s : Called(u, s) /\ s # "drop" /\ u.node \notin Conflicting /\ Runs(u) => Runs(u)'
        BY <1>7, <3>2
      <3> QED BY <1>1, <1>16, <3>1, <3>3, CallsKept
    <2>2. CASE from = "postLink"
      <3>1. done' = Append(done, [target |-> t, step |-> "postLink"])
        BY <2>2
      <3>2. ~Called(t, "postLink") /\ Called(t, "post")
        BY <1>6, <2>2 DEF StepsOK, Ahead, Before
      <3>3. \A u : Runs(u) => Runs(u)' \/ (u = t /\ "postLink" = "postLink")
        BY <1>7
      <3> QED BY <1>1, <1>3, <3>1, <3>2, <3>3, CallsNoted
    <2> QED BY <1>2, <2>1, <2>2
  <1>17. CutOK'
    BY <1>1, <1>8, <1>16, CutKept
  <1> QED BY <1>10, <1>11, <1>12, <1>13, <1>14, <1>15, <1>17 DEF LinkInv

\* A node that has not begun.
LEMMA NotBegun ==
  ASSUME LinkTypes, NEW t, ~Begun(t)
  PROVE  Untouched(t) /\ ~Runs(t) /\ ~Queued(t)
  BY DEF Begun, Untouched

\* The node on top comes to a child, which has not begun before.
LEMMA DescendsStep ==
  ASSUME NEW tree, LinkingGiven(tree), LinkInv(tree), Lk!NextChild
  PROVE  LinkInv(tree)'
  <1> DEFINE top == Lk!Topmost
  <1>1. /\ LinkTypes /\ Based /\ HostsWait /\ QueuesNamed /\ NodesRun /\ BegunInOrder(tree) /\ CalledInOrder
        /\ CutOK
    BY DEF LinkInv
  <1>2. linkers # <<>> /\ top.step = "children" /\ top.step # "linker"
    BY DEF Lk!NextChild, Lk!AtStep
  <1>3. /\ top \in NodeFrames /\ top = linkers[1] /\ NodeAt(1)
        /\ top.target \in Targets /\ top.queue \in QueueNames /\ top.kid \in Nat \ {0}
        /\ top.target.node \in Nodes /\ top.target.link \in LinkNames
        /\ Kids[top.target.node] \in Seq(Nodes) /\ RunsAt(top.target, 1)
        /\ [top EXCEPT !.kid = @ + 1] \in NodeFrames /\ [top EXCEPT !.kid = @ + 1].target = top.target
        /\ [top EXCEPT !.kid = @ + 1].queue = top.queue /\ [top EXCEPT !.kid = @ + 1].kid = top.kid + 1
        /\ [top EXCEPT !.kid = @ + 1].step = top.step
    BY <1>1, <1>2, TopTyped
  <1>4. /\ top.kid <= Len(Kids[top.target.node])
        /\ linkers' = <<Lk!Frame(Lk!Target(top.target.link, Kids[top.target.node][top.kid]), top.queue),
                        [top EXCEPT !.kid = @ + 1]>> \o Tail(linkers)
        /\ UNCHANGED <<linked, lQueue, drains, waiting, arrived, lCancelled, lDead, lFailures, done, lThrown>>
    BY DEF Lk!NextChild
  <1> HIDE DEF top
  <1>5. PICK c \in Nat \ {0}, p \in Targets : c = top.kid /\ p = top.target
    BY <1>3
  <1>6. c \in DOMAIN Kids[p.node] /\ Kids[p.node][c] \in Nodes /\ p.node \in Nodes /\ Kids[p.node] \in Seq(Nodes)
    BY <1>3, <1>4, <1>5
  <1>7. PICK k \in Targets : k = Kid(p, c)
    BY <1>3, <1>5, <1>6 DEF Kid, Targets
  <1>8. k.node = Kids[p.node][c] /\ k.link = p.link /\ k.link \in LinkNames /\ p.link.linker \in Lk!Linkers
    BY <1>3, <1>5, <1>7 DEF Kid, LinkNames
  <1>9. PICK h \in NodeFrames : /\ h = Lk!Frame(k, top.queue) /\ h.target = k /\ h.queue = top.queue
                                /\ h.step = "enter" /\ h.kid = 1
    <2> DEFINE e == [target |-> k, queue |-> top.queue, step |-> "enter", kid |-> 1]
    <2>1. e \in NodeFrames
      BY <1>3 DEF NodeFrames
    <2>2. e = Lk!Frame(k, top.queue) /\ e.target = k /\ e.queue = top.queue /\ e.step = "enter" /\ e.kid = 1
      BY DEF Lk!Frame
    <2> QED BY <2>1, <2>2
  <1>10. Lk!Target(p.link, Kids[p.node][c]) = k
    BY <1>7 DEF Lk!Target, Kid
  <1>11. PICK g \in NodeFrames : /\ g = [top EXCEPT !.kid = @ + 1] /\ g.target = p /\ g.queue = top.queue
                                 /\ g.kid = c + 1 /\ g.step = "children"
    BY <1>2, <1>3, <1>5
  <1>12. /\ linkers' = <<h, g>> \o Tail(linkers)
         /\ h.queue = Lk!Topmost.queue /\ h.target.link = Lk!Topmost.target.link
         /\ g.target = Lk!Topmost.target /\ g.queue = Lk!Topmost.queue
         /\ Lk!Topmost.step = "children" /\ h.target = Kid(Lk!Topmost.target, Lk!Topmost.kid)
         /\ g.kid = Lk!Topmost.kid + 1
    BY <1>2, <1>4, <1>5, <1>7, <1>8, <1>9, <1>10, <1>11 DEF top
  <1>13. /\ linkers' \in Seq(LinkFrames) /\ linkers' # <<>> /\ Base' = Base
         /\ linkers'[1] = h /\ linkers'[2] = g /\ NodeAt(2)' /\ NodeAt(1)'
         /\ \A i : NodeAt(i) /\ i # 1 => NodeAt(i + 1)' /\ linkers'[i + 1] = linkers[i]
         /\ \A u, i : RunsAt(u, i)' => i = 1 \/ RunsAt(u, i - 1)
         /\ \A u, i : RunsAt(u, i) => RunsAt(u, i + 1)'
    BY <1>1, <1>2, <1>12, NodeDescends
  <1>14. ASSUME NEW u PROVE Runs(u)' <=> Runs(u) \/ u = k
    <2>1. ASSUME Runs(u)' PROVE Runs(u) \/ u = k
      <3>1. PICK i : RunsAt(u, i)'
        BY <2>1 DEF Runs
      <3>2. CASE i = 1
        BY <1>9, <1>13, <3>1, <3>2 DEF RunsAt
      <3>3. CASE RunsAt(u, i - 1)
        BY <3>3 DEF Runs
      <3> QED BY <1>13, <3>1, <3>2, <3>3
    <2>2. ASSUME Runs(u) PROVE Runs(u)'
      <3>1. PICK i : RunsAt(u, i)
        BY <2>2 DEF Runs
      <3>2. PICK j : j = i + 1
        OBVIOUS
      <3> QED BY <1>13, <3>1, <3>2 DEF Runs
    <2>3. RunsAt(k, 1)'
      BY <1>9, <1>13 DEF RunsAt
    <2>4. Runs(k)'
      BY <2>3 DEF Runs
    <2> QED BY <2>1, <2>2, <2>4
  <1>15. ~Begun(k)
    <2>1. ASSUME Begun(k) PROVE FALSE
      <3>1. k.node = Kids[p.node][c] /\ k.node # Roots[k.link.linker]
        <4>1. Begun(p)
          BY <1>3, <1>5 DEF Begun, Runs
        <4>2. p.node \in tree[p.link.linker]
          BY <1>1, <4>1 DEF BegunInOrder
        <4>3. Kids[p.node][c] \in tree[p.link.linker] \ {Roots[p.link.linker]}
          BY <1>6, <1>8, <4>2 DEF LinkingGiven
        <4> QED BY <1>8, <4>3
      <3>2. Passed([link |-> k.link, node |-> p.node], c)
        BY <1>1, <1>6, <2>1, <3>1 DEF BegunInOrder
      <3>3. [link |-> k.link, node |-> p.node] = p
        BY <1>8 DEF Targets
      <3>4. RunsAt(p, 1) /\ StepsOK(linkers[1]) /\ linkers[1].step = "children" /\ linkers[1].kid = c /\ linkers[1].target = p
        BY <1>1, <1>2, <1>3, <1>5 DEF NodesRun
      <3>5. ~Called(p, "postLink") /\ ~Cut(p)
        BY <3>4 DEF StepsOK, Ahead
      <3>6. \A i : RunsAt(p, i) => i = 1
        BY <1>1, <3>4, Zenon DEF NodesRun
      <3>7. ~(linkers[1].kid > c)
        BY <3>4
      <3> QED BY <3>2, <3>3, <3>4, <3>5, <3>6, <3>7 DEF Passed
    <2> QED BY <2>1
  <1>16. Untouched(k) /\ ~Runs(k) /\ ~Queued(k)
    BY <1>1, <1>15, NotBegun
  <1>17. (\A u, s : Called(u, s)' <=> Called(u, s)) /\ (\A u : Queued(u)' <=> Queued(u)) /\ \A u : Cut(u)' <=> Cut(u)
    BY <1>4 DEF Called, Queued, QueuedIn, Cut
  <1>18. LinkTypes'
    BY <1>1, <1>4, <1>13 DEF LinkTypes, LinkFrames
  <1>19. Based'
    BY <1>1, <1>2, <1>4, <1>12, BasedDescends
  <1>20. HostsWait'
    <2>1. \A q : Undrained(q)' => Undrained(q)
      BY <1>2, <1>4, <1>13 DEF Undrained
    <2>2. \A u : Queued(u) /\ Untouched(u) /\ ~Runs(u) => Untouched(u)' /\ ~Runs(u)'
      BY <1>14, <1>16, <1>17 DEF Untouched
    <2>3. Apart(drains)'
      BY <1>1, <1>4 DEF HostsWait, Apart
    <2>4. UNCHANGED <<lQueue, waiting, arrived>>
      BY <1>4
    <2> QED BY <1>1, <2>1, <2>2, <2>3, <2>4, HostsKept
  <1>21. QueuesNamed'
    BY <1>1, <1>2, <1>4, <1>13 DEF QueuesNamed
  <1>22. NodesRun'
    <2>1. StepsOK(h)
      BY <1>9, <1>16 DEF StepsOK, Before, Untouched
    <2>2. Lk!Topmost.kid \in DOMAIN Kids[Lk!Topmost.target.node]
      BY <1>5, <1>6 DEF top
    <2> QED BY <2>2, <1>1, <1>2, <1>4, <1>9, <1>11, <1>12, <1>16, <2>1, NodesDescend
  <1>23. \A u : \A j \in Nat : Passed(u, j) => Passed(u, j)'
    <2>1. ASSUME NEW u, NEW j, Called(u, "postLink") PROVE Passed(u, j)'
      BY <1>17, <2>1 DEF Passed
    <2>3. ASSUME NEW u, NEW j, Cut(u) /\ Called(u, "pre") PROVE Passed(u, j)'
      BY <1>17, <2>3 DEF Passed
    <2>2. ASSUME NEW u, NEW j \in Nat, NEW i, RunsAt(u, i),
                 linkers[i].step \in {"post", "postLink"} \/ (linkers[i].step = "children" /\ linkers[i].kid > j)
          PROVE  Passed(u, j)'
      <3>1. PICK n : n = i + 1
        OBVIOUS
      <3>2. RunsAt(u, n)'
        BY <1>13, <2>2, <3>1
      <3>3. CASE i # 1
        <4>1. linkers'[n] = linkers[i]
          BY <1>13, <2>2, <3>1, <3>3 DEF RunsAt
        <4> QED BY <2>2, <3>2, <4>1 DEF Passed
      <3>4. CASE i = 1
        <4>1. n = 2 /\ linkers'[n] = g /\ linkers[i].step = "children" /\ c > j
          BY <1>2, <1>3, <1>5, <1>13, <2>2, <3>1, <3>4
        <4>2. g.step = "children" /\ g.kid > j
          BY <1>5, <1>11, <2>2, <4>1
        <4> QED BY <3>2, <4>1, <4>2 DEF Passed
      <3> QED BY <3>3, <3>4
    <2> QED BY <2>1, <2>2, <2>3 DEF Passed
  <1>24. BegunInOrder(tree)'
    <2>1. \A u : Begun(u)' => Begun(u) \/ u = k
      BY <1>14, <1>17, Zenon DEF Begun
    <2>2. ASSUME NEW u, Begun(u)'
          PROVE  /\ u \in Targets /\ u.node \in tree[u.link.linker] /\ u.link.number \in 1 .. linked[u.link.linker]
                 /\ \A m \in Nodes : \A j \in DOMAIN Kids[m] :
                      u.node = Kids[m][j] /\ u.node # Roots[u.link.linker] => Passed([link |-> u.link, node |-> m], j)'
      <3>1. CASE Begun(u)
        <4>1. /\ u \in Targets /\ u.node \in tree[u.link.linker] /\ u.link.number \in 1 .. linked[u.link.linker]
              /\ \A m \in Nodes : \A j \in DOMAIN Kids[m] :
                   u.node = Kids[m][j] /\ u.node # Roots[u.link.linker] => Passed([link |-> u.link, node |-> m], j)
          BY <1>1, <3>1 DEF BegunInOrder
        <4>2. \A m \in Nodes : \A j \in DOMAIN Kids[m] : j \in Nat
          BY DEF LinkingGiven
        <4> QED BY <1>23, <4>1, <4>2, Zenon
      <3>2. CASE u = k
        <4>1. Begun(p)
          BY <1>3, <1>5 DEF Begun, Runs
        <4>2. p.node \in tree[p.link.linker] /\ p.link.number \in 1 .. linked[p.link.linker]
          BY <1>1, <4>1 DEF BegunInOrder
        <4>3. Kids[p.node][c] \in tree[p.link.linker]
          BY <1>6, <1>8, <4>2 DEF LinkingGiven
        <4>4. ASSUME NEW m \in Nodes, NEW j \in DOMAIN Kids[m], k.node = Kids[m][j]
              PROVE  Passed([link |-> k.link, node |-> m], j)'
          <5>1. m = p.node /\ j = c
            <6>1. \A m1, n1 \in Nodes : \A j1 \in DOMAIN Kids[m1] : \A k1 \in DOMAIN Kids[n1] :
                     Kids[m1][j1] = Kids[n1][k1] => m1 = n1 /\ j1 = k1
              BY DEF LinkingGiven
            <6>2. Kids[m][j] = Kids[p.node][c]
              BY <1>8, <4>4
            <6>3. m \in Nodes /\ p.node \in Nodes /\ j \in DOMAIN Kids[m] /\ c \in DOMAIN Kids[p.node]
              BY <1>6, <4>4
            <6> QED BY <6>1, <6>2, <6>3
          <5>2. [link |-> k.link, node |-> m] = p
            BY <1>8, <5>1 DEF Targets
          <5>3. RunsAt(p, 2)' /\ linkers'[2].step = "children" /\ linkers'[2].kid > j
            BY <1>5, <1>11, <1>13, <5>1 DEF RunsAt
          <5>4. \A v : v = p => Passed(v, j)'
            BY <5>3 DEF Passed
          <5> QED BY <5>2, <5>4
        <4> QED BY <1>8, <3>2, <4>2, <4>3, <4>4
      <3> QED BY <2>1, <2>2, <3>1, <3>2
    <2>3. linked' = linked
      BY <1>4
    <2> QED BY <2>2, <2>3, Zenon DEF BegunInOrder
  <1>25. CalledInOrder'
    BY <1>1, <1>4, <1>14, <1>17, CallsKept
  <1>26. CutOK'
    BY <1>1, <1>4, <1>17, CutKept
  <1> QED BY <1>18, <1>19, <1>20, <1>21, <1>22, <1>24, <1>25, <1>26 DEF LinkInv

\* Between calls no node runs.
LEMMA NoneRuns ==
  ASSUME \A i : ~NodeAt(i)
  PROVE  /\ (\A t, i : ~RunsAt(t, i)) /\ (\A t : ~Runs(t))
         /\ \A t, j : Passed(t, j) <=> Called(t, "postLink") \/ (Cut(t) /\ Called(t, "pre"))
  BY DEF Runs, RunsAt, Passed

LEMMA Idle ==
  ASSUME linkers = <<>>
  PROVE  \A i : ~NodeAt(i)
  <1>1. ASSUME NEW i, i \in DOMAIN linkers PROVE FALSE
    <2>1. DOMAIN <<>> = 1 .. Len(<<>>) /\ Len(<<>>) = 0
      OBVIOUS
    <2> QED BY <1>1, <2>1
  <1> QED BY <1>1 DEF NodeAt

\* A linker is called that has one node to link, or none.
LEMMA OneNode ==
  ASSUME NEW h \in NodeFrames, NEW b \in LinkerFrames, linkers' = <<h, b>>
  PROVE  /\ linkers' \in Seq(LinkFrames) /\ linkers' # <<>> /\ Base' = b /\ linkers'[1] = h
         /\ \A i : NodeAt(i)' <=> i = 1
         /\ \A t, i : RunsAt(t, i)' <=> i = 1 /\ t = h.target
         /\ \A t : Runs(t)' <=> t = h.target
  <1>1. linkers' \in Seq(LinkFrames) /\ Len(linkers') = 2 /\ linkers'[1] = h /\ linkers'[2] = b
    BY DEF LinkFrames
  <1>2. linkers' # <<>> /\ DOMAIN linkers' = 1 .. 2
    BY <1>1
  <1>3. Base' = b
    BY <1>1 DEF Base
  <1>4. \A i : NodeAt(i)' <=> i = 1
    BY <1>1, <1>2 DEF NodeAt
  <1>5. \A t, i : RunsAt(t, i)' <=> i = 1 /\ t = h.target
    BY <1>1, <1>4 DEF RunsAt
  <1>6. \A t : Runs(t)' <=> t = h.target
    BY <1>5, Zenon DEF Runs
  <1> QED BY <1>1, <1>2, <1>3, <1>4, <1>5, <1>6

LEMMA NoNode ==
  ASSUME NEW b \in LinkerFrames, linkers' = <<b>>
  PROVE  linkers' \in Seq(LinkFrames) /\ linkers' # <<>> /\ Base' = b /\ \A i : ~NodeAt(i)'
  <1>1. linkers' \in Seq(LinkFrames) /\ Len(linkers') = 1 /\ linkers'[1] = b
    BY DEF LinkFrames
  <1>2. linkers' # <<>> /\ DOMAIN linkers' = 1 .. 1
    BY <1>1
  <1>3. Base' = b
    BY <1>1 DEF Base
  <1>4. \A i : ~NodeAt(i)'
    BY <1>1, <1>2 DEF NodeAt
  <1> QED BY <1>1, <1>2, <1>3, <1>4

\* No node runs after the step, and none ran before it.
LEMMA NoNodesRun ==
  ASSUME \A i : ~NodeAt(i)'
  PROVE  NodesRun'
  BY DEF NodesRun, RunsAt

\* A template arrives, whatever is then done with it.
LEMMA HostsTaken ==
  ASSUME LinkTypes, HostsWait, UNCHANGED <<lQueue, waiting, drains>>, arrived # <<>>,
         NEW e, e = Head(arrived).entry, arrived' = Tail(arrived),
         \A q : Undrained(q)' => Undrained(q) \/ q \notin DOMAIN lQueue,
         \A t : t # e /\ Untouched(t) /\ ~Runs(t) => Untouched(t)' /\ ~Runs(t)'
  PROVE  HostsWait' /\ e \in Targets /\ Queued(e) /\ Untouched(e) /\ ~Runs(e)
         /\ arrived' \in Seq([entry : Targets, ok : BOOLEAN])
  <1> DEFINE A == [entry : Targets, ok : BOOLEAN]
  <1>1. arrived \in Seq(A)
    BY DEF LinkTypes
  <1>2. /\ Len(arrived) \in Nat \ {0} /\ arrived[1] \in A /\ Tail(arrived) \in Seq(A)
        /\ Len(Tail(arrived)) = Len(arrived) - 1
        /\ \A k \in 1 .. Len(arrived) - 1 : Tail(arrived)[k] = arrived[k + 1]
    BY <1>1, TailFacts
  <1>3. DOMAIN arrived = 1 .. Len(arrived) /\ DOMAIN arrived' = 1 .. Len(arrived) - 1
    BY <1>1, <1>2
  <1>4. e = arrived[1].entry /\ 1 \in DOMAIN arrived /\ e \in Targets
    BY <1>1, <1>2, <1>3
  <1> HIDE DEF A
  <1>5. \A k \in DOMAIN arrived' : k \in Nat /\ k + 1 \in DOMAIN arrived /\ k + 1 # 1 /\ arrived'[k] = arrived[k + 1]
    BY <1>2, <1>3
  <1>6. /\ \A q \in DOMAIN lQueue : Apart(lQueue[q]) /\ \A t \in Those(lQueue[q]) : t.node \in Hosts
        /\ \A t, q, r : QueuedIn(t, q) /\ QueuedIn(t, r) => q = r
        /\ Apart(waiting) /\ Apart(drains)
        /\ \A j, k \in DOMAIN arrived : arrived[j].entry = arrived[k].entry => j = k
        /\ \A k \in DOMAIN arrived : arrived[k].entry \notin Those(waiting)
        /\ \A t : Awaits(t) => Queued(t) /\ Untouched(t) /\ ~Runs(t)
        /\ \A t, q : QueuedIn(t, q) /\ Undrained(q) => ~Awaits(t) /\ Untouched(t) /\ ~Runs(t)
    BY DEF HostsWait
  <1>7. Awaits(e)
    BY <1>4 DEF Awaits
  <1>8. ASSUME NEW t, Awaits(t)' PROVE Awaits(t) /\ t # e
    <2>1. CASE t \in Those(waiting)
      BY <1>4, <1>6, <2>1 DEF Awaits
    <2>2. ASSUME NEW k \in DOMAIN arrived', arrived'[k].entry = t PROVE Awaits(t) /\ t # e
      <3>1. k + 1 \in DOMAIN arrived /\ k + 1 # 1 /\ arrived[k + 1].entry = t
        BY <1>5, <2>2
      <3> QED BY <1>4, <1>6, <3>1 DEF Awaits
    <2> QED BY <1>8, <2>1, <2>2 DEF Awaits
  <1>9. \A t, q : QueuedIn(t, q)' <=> QueuedIn(t, q)
    BY DEF QueuedIn
  <1>10. \A t : Queued(t)' <=> Queued(t)
    BY <1>9, Zenon DEF Queued
  <1>11. ASSUME NEW t, Awaits(t)' PROVE Queued(t)' /\ Untouched(t)' /\ ~Runs(t)'
    BY <1>6, <1>8, <1>10, <1>11
  <1>12. ASSUME NEW t, NEW q, QueuedIn(t, q)', Undrained(q)' PROVE ~Awaits(t)' /\ Untouched(t)' /\ ~Runs(t)'
    <2>1. QueuedIn(t, q) /\ q \in DOMAIN lQueue
      BY <1>9, <1>12 DEF QueuedIn
    <2>2. Undrained(q)
      BY <1>12, <2>1
    <2>3. ~Awaits(t) /\ Untouched(t) /\ ~Runs(t)
      BY <1>6, <2>1, <2>2, Zenon
    <2> QED BY <1>7, <1>8, <2>3
  <1>13. \A j, k \in DOMAIN arrived' : arrived'[j].entry = arrived'[k].entry => j = k
    <2>1. ASSUME NEW j \in DOMAIN arrived', NEW k \in DOMAIN arrived', arrived'[j].entry = arrived'[k].entry PROVE j = k
      <3>1. arrived[j + 1].entry = arrived[k + 1].entry /\ j + 1 \in DOMAIN arrived /\ k + 1 \in DOMAIN arrived
        BY <1>5, <2>1
      <3>2. j + 1 = k + 1
        BY <1>6, <3>1
      <3> QED BY <1>5, <3>2
    <2> QED BY <2>1
  <1>14. \A k \in DOMAIN arrived' : arrived'[k].entry \notin Those(waiting')
    BY <1>5, <1>6
  <1>15. \A q \in DOMAIN lQueue' : Apart(lQueue[q])' /\ \A t \in Those(lQueue[q])' : t.node \in Hosts
    BY <1>6 DEF Apart, Those
  <1>16. Apart(waiting)' /\ Apart(drains)'
    BY <1>6 DEF Apart
  <1>17. HostsWait'
    BY <1>6, <1>9, <1>11, <1>12, <1>13, <1>14, <1>15, <1>16, Zenon DEF HostsWait
  <1>18. arrived' \in Seq(A)
    BY <1>2
  <1> QED BY <1>4, <1>6, <1>7, <1>17, <1>18 DEF A

\* A linker is called, when no other call is in progress.
LEMMA CallLinkerStep ==
  ASSUME NEW tree, LinkingGiven(tree), LinkInv(tree), NEW l \in Lk!Linkers, Lk!CallLinker(l)
  PROVE  LinkInv(tree)'
  <1>1. /\ LinkTypes /\ Based /\ HostsWait /\ QueuesNamed /\ NodesRun /\ BegunInOrder(tree) /\ CalledInOrder
        /\ CutOK
    BY DEF LinkInv
  <1>2. /\ linkers = <<>> /\ linked[l] < LinkTimes[l]
        /\ linked' = [linked EXCEPT ![l] = @ + 1]
        /\ linkers' = <<Lk!Frame(Lk!Target(Lk!Link(l, linked[l] + 1), Roots[l]), Lk!Shared(l)),
                        [linker |-> l, queue |-> Lk!Shared(l), step |-> "linker"]>>
        /\ UNCHANGED <<lQueue, drains, waiting, arrived, lCancelled, lDead, lFailures, done, lThrown>>
    BY DEF Lk!CallLinker
  <1>3. /\ linked[l] \in Nat /\ linked' \in [Lk!Linkers -> Nat] /\ linked'[l] = linked[l] + 1
        /\ \A m \in Lk!Linkers : linked'[m] >= linked[m]
    BY <1>1, <1>2 DEF LinkTypes
  <1>4. Roots[l] \in Nodes /\ Roots[l] \in tree[l] /\ LinkTimes[l] \in Nat
    BY DEF LinkingGiven, Lk!Linkers
  <1>5. PICK t \in Targets : /\ t = Lk!Target(Lk!Link(l, linked[l] + 1), Roots[l])
                             /\ t.node = Roots[l] /\ t.link.linker = l /\ t.link.number = linked[l] + 1
    <2> DEFINE e == [link |-> [linker |-> l, number |-> linked[l] + 1], node |-> Roots[l]]
    <2>1. e \in Targets
      BY <1>3, <1>4 DEF Targets, LinkNames
    <2>2. e = Lk!Target(Lk!Link(l, linked[l] + 1), Roots[l])
      BY DEF Lk!Target, Lk!Link
    <2> QED BY <2>1, <2>2
  <1>6. PICK q \in QueueNames : q = Lk!Shared(l) /\ q.of = "linker" /\ q.linker = l
    <2> DEFINE e == [of |-> "linker", linker |-> l]
    <2>1. e \in QueueNames
      BY DEF QueueNames
    <2>2. e = Lk!Shared(l) /\ e.of = "linker" /\ e.linker = l
      BY DEF Lk!Shared
    <2> QED BY <2>1, <2>2
  <1>7. PICK h \in NodeFrames : /\ h = Lk!Frame(t, q) /\ h.target = t /\ h.queue = q
                                /\ h.step = "enter" /\ h.kid = 1
    <2> DEFINE e == [target |-> t, queue |-> q, step |-> "enter", kid |-> 1]
    <2>1. e \in NodeFrames
      BY DEF NodeFrames
    <2>2. e = Lk!Frame(t, q) /\ e.target = t /\ e.queue = q /\ e.step = "enter" /\ e.kid = 1
      BY DEF Lk!Frame
    <2> QED BY <2>1, <2>2
  <1>8. PICK b \in LinkerFrames : b = [linker |-> l, queue |-> q, step |-> "linker"] /\ b.queue = q
    <2> DEFINE e == [linker |-> l, queue |-> q, step |-> "linker"]
    <2>1. e \in LinkerFrames /\ e.queue = q
      BY DEF LinkerFrames
    <2> QED BY <2>1
  <1>9. linkers' = <<h, b>>
    BY <1>2, <1>5, <1>6, <1>7, <1>8
  <1>10. /\ linkers' \in Seq(LinkFrames) /\ linkers' # <<>> /\ Base' = b /\ linkers'[1] = h
         /\ \A i : NodeAt(i)' <=> i = 1
         /\ \A u, i : RunsAt(u, i)' <=> i = 1 /\ u = t
         /\ \A u : Runs(u)' <=> u = t
    BY <1>7, <1>9, OneNode
  <1>11. /\ (\A u, i : ~RunsAt(u, i)) /\ (\A u : ~Runs(u))
         /\ \A u, j : Passed(u, j) <=> Called(u, "postLink") \/ (Cut(u) /\ Called(u, "pre"))
    BY <1>2, Idle, NoneRuns
  <1>12. Untouched(t) /\ ~Queued(t)
    <2>1. ASSUME Begun(t) PROVE FALSE
      <3>1. t.link.number \in 1 .. linked[t.link.linker]
        BY <1>1, <2>1 DEF BegunInOrder
      <3> QED BY <1>3, <1>5, <3>1
    <2> QED BY <1>1, <2>1, NotBegun
  <1>13. q \notin DOMAIN lQueue
    <2>1. ASSUME q \in DOMAIN lQueue PROVE FALSE
      <3>1. linked[l] >= 1 /\ LinkTimes[l] <= 1
        BY <1>1, <1>6, <2>1 DEF QueuesNamed
      <3> QED BY <1>2, <1>3, <1>4, <3>1
    <2> QED BY <2>1
  <1>14. (\A u, s : Called(u, s)' <=> Called(u, s)) /\ (\A u : Queued(u)' <=> Queued(u)) /\ \A u : Cut(u)' <=> Cut(u)
    BY <1>2 DEF Called, Queued, QueuedIn, Cut
  <1>15. LinkTypes'
    BY <1>1, <1>2, <1>3, <1>10 DEF LinkTypes, LinkFrames
  <1>16. Based'
    <2>1. Base'.queue.of = "linker" /\ Base'.queue.linker = l /\ linked'[l] >= 1
      BY <1>3, <1>6, <1>8, <1>10
    <2>2. ASSUME NEW i, NodeAt(i)' PROVE linkers'[i] \in NodeFrames /\ linkers'[i].queue = Base'.queue
                                         /\ linkers'[i].target.link.linker = Base'.queue.linker
      BY <1>5, <1>7, <1>8, <1>10, <2>1, <2>2
    <2>3. Base' \in LinkerFrames
      BY <1>10
    <2> QED BY <2>1, <2>2, <2>3 DEF Based
  <1>17. HostsWait'
    <2>1. \A r : Undrained(r)' => Undrained(r) \/ r \notin DOMAIN lQueue
      BY <1>2, <1>8, <1>10, <1>13 DEF Undrained
    <2>2. \A u : Queued(u) /\ Untouched(u) /\ ~Runs(u) => Untouched(u)' /\ ~Runs(u)'
      BY <1>10, <1>12, <1>14 DEF Untouched
    <2>3. Apart(drains)' /\ UNCHANGED <<lQueue, waiting, arrived>>
      BY <1>1, <1>2 DEF HostsWait, Apart
    <2> QED BY <1>1, <2>1, <2>2, <2>3, HostsKept
  <1>18. QueuesNamed'
    <2>1. Base'.queue \notin Those(drains')
      BY <1>1, <1>2, <1>8, <1>10, <1>13 DEF QueuesNamed
    <2>2. lQueue' = lQueue /\ Those(drains') \subseteq Those(drains) /\ Len(done') >= Len(done)
          /\ Len(done) \in Nat /\ Len(done') \in Nat
      BY <1>1, <1>2 DEF LinkTypes
    <2> QED BY <1>1, <1>3, <2>1, <2>2, QueuesKept
  <1>19. NodesRun'
    <2>1. StepsOK(h)
      BY <1>7, <1>12 DEF StepsOK, Before, Untouched
    <2>2. StepsOK(h)' /\ KidsOK(1, h)'
      BY <1>7, <1>14, <2>1, StepsKept DEF KidsOK
    <2>3. \A u, i, j : RunsAt(u, i)' /\ RunsAt(u, j)' => i = j
      BY <1>10
    <2>4. ASSUME NEW i, NodeAt(i)' PROVE (StepsOK(linkers[i]) /\ KidsOK(i, linkers[i]))'
      BY <1>10, <2>2, <2>4
    <2> QED BY <2>3, <2>4, Zenon DEF NodesRun
  <1>20. BegunInOrder(tree)'
    <2>1. \A u : Begun(u)' => Begun(u) \/ u = t
      BY <1>10, <1>14, Zenon DEF Begun
    <2>2. ASSUME NEW u, NEW j, Passed(u, j) PROVE Passed(u, j)'
      BY <1>11, <1>14, <2>2 DEF Passed
    <2>3. ASSUME NEW u, Begun(u)'
          PROVE  /\ u \in Targets /\ u.node \in tree[u.link.linker] /\ u.link.number \in 1 .. linked'[u.link.linker]
                 /\ \A m \in Nodes : \A j \in DOMAIN Kids[m] :
                      u.node = Kids[m][j] /\ u.node # Roots[u.link.linker] => Passed([link |-> u.link, node |-> m], j)'
      <3>1. CASE Begun(u)
        <4>1. /\ u \in Targets /\ u.node \in tree[u.link.linker] /\ u.link.number \in 1 .. linked[u.link.linker]
              /\ \A m \in Nodes : \A j \in DOMAIN Kids[m] :
                   u.node = Kids[m][j] /\ u.node # Roots[u.link.linker] => Passed([link |-> u.link, node |-> m], j)
          BY <1>1, <3>1 DEF BegunInOrder
        <4>2. u.link.linker \in Lk!Linkers
          BY <4>1 DEF Targets, LinkNames
        <4>3. /\ linked[u.link.linker] \in Nat /\ linked'[u.link.linker] \in Nat
              /\ linked'[u.link.linker] >= linked[u.link.linker]
          BY <1>1, <1>3, <4>2 DEF LinkTypes
        <4>4. u.link.number \in 1 .. linked'[u.link.linker]
          BY <4>1, <4>3
        <4> QED BY <2>2, <4>1, <4>4, Zenon
      <3>2. CASE u = t
        BY <1>3, <1>4, <1>5, <3>2
      <3> QED BY <2>1, <2>3, <3>1, <3>2
    <2> QED BY <2>3, Zenon DEF BegunInOrder
  <1>21. CalledInOrder'
    BY <1>1, <1>2, <1>11, <1>14, CallsKept
  <1>22. CutOK'
    BY <1>1, <1>2, <1>14, CutKept
  <1> QED BY <1>15, <1>16, <1>17, <1>18, <1>19, <1>20, <1>21, <1>22 DEF LinkInv

\* A linker returns: what was put into its queue is to be drained.
LEMMA LinkerReturnsStep ==
  ASSUME NEW tree, LinkingGiven(tree), LinkInv(tree), Lk!LinkerReturns
  PROVE  LinkInv(tree)'
  <1>1. /\ LinkTypes /\ Based /\ HostsWait /\ QueuesNamed /\ NodesRun /\ BegunInOrder(tree) /\ CalledInOrder
        /\ CutOK
    BY DEF LinkInv
  <1>2. /\ linkers # <<>> /\ Lk!Topmost.step = "linker"
        /\ drains' = IF Lk!QueueOf(Lk!Topmost.queue) = <<>> THEN drains ELSE Append(drains, Lk!Topmost.queue)
        /\ linkers' = Tail(linkers)
        /\ UNCHANGED <<linked, lQueue, waiting, arrived, lCancelled, lDead, lFailures, done, lThrown>>
    BY DEF Lk!LinkerReturns, Lk!AtStep
  <1>3. Base = Lk!Topmost /\ Base \in LinkerFrames /\ linkers' = <<>> /\ \A i : ~NodeAt(i)
    BY <1>1, <1>2, LinkerAlone
  <1>4. \A i : ~NodeAt(i)'
    <2>1. \A i : i \notin DOMAIN linkers'
      BY <1>3
    <2> QED BY <2>1 DEF NodeAt
  <1>5. (\A u : ~Runs(u)) /\ \A u, j : Passed(u, j) <=> Called(u, "postLink") \/ (Cut(u) /\ Called(u, "pre"))
    BY <1>3, NoneRuns
  <1>6. \A u : ~Runs(u)'
    BY <1>4 DEF Runs, RunsAt
  <1>7. PICK q \in QueueNames : q = Base.queue
    BY <1>3 DEF LinkerFrames
  <1>8. (\A u, s : Called(u, s)' <=> Called(u, s)) /\ (\A u : Queued(u)' <=> Queued(u)) /\ \A u : Cut(u)' <=> Cut(u)
    BY <1>2 DEF Called, Queued, QueuedIn, Cut
  <1>9. drains \in Seq(QueueNames) /\ Apart(drains) /\ q \notin Those(drains) /\ Those(drains) \subseteq DOMAIN lQueue
    BY <1>1, <1>2, <1>7 DEF LinkTypes, HostsWait, QueuesNamed
  <1>10. /\ drains' \in Seq(QueueNames) /\ Apart(drains') /\ Those(drains') \subseteq Those(drains) \cup {q}
         /\ Those(drains') \subseteq DOMAIN lQueue
    <2>1. CASE Lk!QueueOf(q) = <<>>
      BY <1>2, <1>3, <1>7, <1>9, <2>1
    <2>2. CASE Lk!QueueOf(q) # <<>>
      <3>1. drains' = Append(drains, q) /\ q \in DOMAIN lQueue
        BY <1>2, <1>3, <1>7, <2>2 DEF Lk!QueueOf
      <3>2. /\ drains' \in Seq(QueueNames) /\ Len(drains') = Len(drains) + 1
            /\ \A k \in 1 .. Len(drains) : drains'[k] = drains[k]
            /\ drains'[Len(drains) + 1] = q
            /\ Those(drains') = Those(drains) \cup {q}
        BY <1>9, <3>1, AppendFacts
      <3>3. Apart(drains')
        <4> DEFINE n == Len(drains)
        <4>1. n \in Nat /\ DOMAIN drains = 1 .. n /\ DOMAIN drains' = 1 .. n + 1
          BY <1>9, <3>2
        <4>2. \A k \in 1 .. n : drains[k] # q
          BY <1>9, <4>1 DEF Those
        <4> HIDE DEF n
        <4>3. \A k \in 1 .. n + 1 : k \in 1 .. n \/ k = n + 1
          BY <4>1
        <4>4. (\A k \in 1 .. n : drains'[k] = drains[k]) /\ drains'[n + 1] = q
          BY <3>2 DEF n
        <4>5. \A j, k \in 1 .. n + 1 : drains'[j] = drains'[k] => j = k
          BY <1>9, <4>1, <4>2, <4>3, <4>4, Zenon DEF Apart
        <4> QED BY <4>1, <4>5 DEF Apart
      <3> QED BY <1>9, <3>1, <3>2, <3>3
    <2> QED BY <2>1, <2>2
  <1>11. LinkTypes'
    <2>1. linkers' \in Seq(NodeFrames \cup LinkerFrames)
      BY <1>3
    <2> QED BY <1>1, <1>2, <1>10, <2>1 DEF LinkTypes
  <1>12. Based'
    BY <1>3 DEF Based
  <1>13. HostsWait'
    <2>1. \A r : Undrained(r)' => Undrained(r)
      BY <1>2, <1>3, <1>7, <1>10 DEF Undrained
    <2>2. \A u : Queued(u) /\ Untouched(u) /\ ~Runs(u) => Untouched(u)' /\ ~Runs(u)'
      BY <1>6, <1>8 DEF Untouched
    <2>3. Apart(drains)' /\ UNCHANGED <<lQueue, waiting, arrived>>
      BY <1>2, <1>10 DEF Apart
    <2> QED BY <1>1, <2>1, <2>2, <2>3, HostsKept
  <1>14. QueuesNamed'
    BY <1>1, <1>2, <1>3, <1>10 DEF QueuesNamed
  <1>15. NodesRun'
    BY <1>4, NoNodesRun
  <1>16. BegunInOrder(tree)'
    <2>1. \A u : Begun(u)' => Begun(u)
      BY <1>6, <1>8, Zenon DEF Begun
    <2>2. ASSUME NEW u, NEW j, Passed(u, j) PROVE Passed(u, j)'
      BY <1>5, <1>8, <2>2 DEF Passed
    <2>3. linked \in [Lk!Linkers -> Nat] /\ linked' = linked /\ \A l \in Lk!Linkers : linked'[l] >= linked[l]
      BY <1>1, <1>2 DEF LinkTypes
    <2> QED BY <1>1, <2>1, <2>2, <2>3, BegunKept
  <1>17. CalledInOrder'
    BY <1>1, <1>2, <1>5, <1>8, CallsKept
  <1>18. CutOK'
    BY <1>1, <1>2, <1>8, CutKept
  <1> QED BY <1>11, <1>12, <1>13, <1>14, <1>15, <1>16, <1>17, <1>18 DEF LinkInv

\* A queue is drained: its entries ask for their templates.
LEMMA DrainStep ==
  ASSUME NEW tree, LinkingGiven(tree), LinkInv(tree), Lk!Drain
  PROVE  LinkInv(tree)'
  <1>1. /\ LinkTypes /\ Based /\ HostsWait /\ QueuesNamed /\ NodesRun /\ BegunInOrder(tree) /\ CalledInOrder
        /\ CutOK
    BY DEF LinkInv
  <1>2. /\ linkers = <<>> /\ drains # <<>>
        /\ waiting' = waiting \o Lk!QueueOf(Head(drains)) /\ drains' = Tail(drains)
        /\ UNCHANGED <<linked, lQueue, arrived, lCancelled, lDead, linkers, lFailures, done, lThrown>>
    BY DEF Lk!Drain
  <1>3. drains \in Seq(QueueNames) /\ waiting \in Seq(Targets)
    BY <1>1 DEF LinkTypes
  <1>4. /\ Len(drains) \in Nat \ {0} /\ drains' \in Seq(QueueNames) /\ Len(drains') = Len(drains) - 1
        /\ \A k \in 1 .. Len(drains) - 1 : drains'[k] = drains[k + 1]
        /\ Those(drains) = {drains[1]} \cup Those(drains')
    BY <1>2, <1>3, TailFacts
  <1>5. PICK q \in QueueNames : q = drains[1] /\ q = Head(drains)
    BY <1>3, <1>4
  <1>6. q \in Those(drains) /\ q \in DOMAIN lQueue /\ Undrained(q)
    BY <1>1, <1>4, <1>5 DEF QueuesNamed, Undrained
  <1>7. /\ \A r \in DOMAIN lQueue : Apart(lQueue[r]) /\ \A t \in Those(lQueue[r]) : t.node \in Hosts
        /\ \A t, p, r : QueuedIn(t, p) /\ QueuedIn(t, r) => p = r
        /\ Apart(waiting) /\ Apart(drains)
        /\ \A j, k \in DOMAIN arrived : arrived[j].entry = arrived[k].entry => j = k
        /\ \A k \in DOMAIN arrived : arrived[k].entry \notin Those(waiting)
        /\ \A t : Awaits(t) => Queued(t) /\ Untouched(t) /\ ~Runs(t)
        /\ \A t, r : QueuedIn(t, r) /\ Undrained(r) => ~Awaits(t) /\ Untouched(t) /\ ~Runs(t)
    BY <1>1 DEF HostsWait
  <1>8. /\ lQueue[q] \in Seq(Targets) /\ waiting' = waiting \o lQueue[q] /\ Apart(lQueue[q])
        /\ \A t : t \in Those(lQueue[q]) <=> QueuedIn(t, q)
    BY <1>1, <1>2, <1>5, <1>6, <1>7 DEF LinkTypes, Lk!QueueOf, QueuedIn
  <1>9. /\ waiting' \in Seq(Targets) /\ Len(waiting') = Len(waiting) + Len(lQueue[q])
        /\ \A k \in 1 .. Len(waiting) : waiting'[k] = waiting[k]
        /\ \A k \in 1 .. Len(lQueue[q]) : waiting'[Len(waiting) + k] = lQueue[q][k]
        /\ Those(waiting') = Those(waiting) \cup Those(lQueue[q])
    BY <1>3, <1>8, ConcatFacts
  <1>10. Apart(drains') /\ q \notin Those(drains')
    <2>1. DOMAIN drains = 1 .. Len(drains) /\ DOMAIN drains' = 1 .. Len(drains) - 1
      BY <1>3, <1>4
    <2>2. \A k \in DOMAIN drains' : k \in Nat /\ k + 1 \in DOMAIN drains /\ k + 1 # 1 /\ drains'[k] = drains[k + 1]
      BY <1>4, <2>1
    <2>3. ASSUME NEW j \in DOMAIN drains', NEW k \in DOMAIN drains', drains'[j] = drains'[k] PROVE j = k
      <3>1. j + 1 = k + 1
        BY <1>7, <2>2, <2>3 DEF Apart
      <3> QED BY <2>2, <3>1
    <2>4. ASSUME NEW k \in DOMAIN drains' PROVE drains'[k] # q
      <3>1. 1 \in DOMAIN drains
        BY <1>4, <2>1
      <3> QED BY <1>5, <1>7, <2>2, <3>1 DEF Apart
    <2> QED BY <2>3, <2>4 DEF Apart, Those
  <1>11. Apart(waiting')
    <2> DEFINE n == Len(waiting)
    <2>1. n \in Nat /\ DOMAIN waiting = 1 .. n /\ Len(lQueue[q]) \in Nat /\ DOMAIN lQueue[q] = 1 .. Len(lQueue[q])
          /\ DOMAIN waiting' = 1 .. n + Len(lQueue[q])
      BY <1>3, <1>8, <1>9
    <2>2. \A t : t \in Those(lQueue[q]) => t \notin Those(waiting)
      BY <1>6, <1>7, <1>8 DEF Awaits
    <2> HIDE DEF n
    <2>3. ASSUME NEW k \in DOMAIN waiting'
          PROVE  \/ k \in 1 .. n /\ waiting'[k] = waiting[k] /\ waiting'[k] \in Those(waiting)
                 \/ \E m \in 1 .. Len(lQueue[q]) : /\ k = n + m /\ waiting'[k] = lQueue[q][m]
                                                  /\ waiting'[k] \in Those(lQueue[q])
      <3>1. CASE k \in 1 .. n
        BY <1>9, <2>1, <3>1 DEF Those, n
      <3>2. CASE k \notin 1 .. n
        <4>1. k - n \in 1 .. Len(lQueue[q]) /\ k = n + (k - n)
          BY <2>1, <2>3, <3>2
        <4>2. waiting'[n + (k - n)] = lQueue[q][k - n]
          BY <1>9, <4>1 DEF n
        <4>3. waiting'[k] = lQueue[q][k - n]
          BY <4>1, <4>2
        <4> QED BY <2>1, <4>1, <4>3 DEF Those
      <3> QED BY <3>1, <3>2
    <2>4. ASSUME NEW j \in DOMAIN waiting', NEW k \in DOMAIN waiting', waiting'[j] = waiting'[k] PROVE j = k
      <3>1. CASE j \in 1 .. n /\ waiting'[j] = waiting[j] /\ waiting'[j] \in Those(waiting)
        <4>1. k \in 1 .. n /\ waiting'[k] = waiting[k]
          BY <2>2, <2>3, <2>4, <3>1
        <4> QED BY <1>7, <2>1, <2>4, <3>1, <4>1 DEF Apart
      <3>2. ASSUME NEW m \in 1 .. Len(lQueue[q]), j = n + m, waiting'[j] = lQueue[q][m], waiting'[j] \in Those(lQueue[q])
            PROVE  j = k
        <4>1. PICK i \in 1 .. Len(lQueue[q]) : k = n + i /\ waiting'[k] = lQueue[q][i]
          BY <2>2, <2>3, <2>4, <3>2
        <4>2. m = i
          BY <1>8, <2>1, <2>4, <3>2, <4>1 DEF Apart
        <4> QED BY <3>2, <4>1, <4>2
      <3> QED BY <2>3, <2>4, <3>1, <3>2
    <2> QED BY <2>4 DEF Apart
  <1>12. (\A t : Awaits(t)' <=> Awaits(t) \/ QueuedIn(t, q))
    BY <1>2, <1>8, <1>9 DEF Awaits
  <1>13. (\A t, r : QueuedIn(t, r)' <=> QueuedIn(t, r)) /\ (\A t, i : RunsAt(t, i)' <=> RunsAt(t, i))
         /\ (\A t, s : Called(t, s)' <=> Called(t, s)) /\ \A t : Cut(t)' <=> Cut(t)
    BY <1>2 DEF QueuedIn, RunsAt, NodeAt, Called, Cut
  <1>14. (\A t : Queued(t)' <=> Queued(t)) /\ (\A t : Runs(t)' <=> Runs(t)) /\ (\A t : Untouched(t)' <=> Untouched(t))
    BY <1>13, Zenon DEF Queued, Runs, Untouched
  <1>15. \A r : Undrained(r)' => Undrained(r) /\ r # q
    BY <1>2, <1>4, <1>10 DEF Undrained
  <1>16. HostsWait'
    <2>1. ASSUME NEW t, Awaits(t)' PROVE Queued(t)' /\ Untouched(t)' /\ ~Runs(t)'
      <3>1. CASE Awaits(t)
        BY <1>7, <1>14, <3>1, Zenon
      <3>2. CASE QueuedIn(t, q)
        <4>1. Queued(t)
          BY <3>2 DEF Queued
        <4>2. Untouched(t) /\ ~Runs(t)
          BY <1>6, <1>7, <3>2, Zenon
        <4> QED BY <1>14, <4>1, <4>2, Zenon
      <3> QED BY <1>12, <2>1, <3>1, <3>2
    <2>2. ASSUME NEW t, NEW r, QueuedIn(t, r)', Undrained(r)' PROVE ~Awaits(t)' /\ Untouched(t)' /\ ~Runs(t)'
      <3>1. QueuedIn(t, r) /\ Undrained(r) /\ r # q
        BY <1>13, <1>15, <2>2
      <3>2. ~QueuedIn(t, q)
        BY <1>7, <3>1, Zenon
      <3>3. ~Awaits(t) /\ Untouched(t) /\ ~Runs(t)
        BY <1>7, <3>1, Zenon
      <3> QED BY <1>12, <1>14, <3>2, <3>3, Zenon
    <2>3. ASSUME NEW k \in DOMAIN arrived' PROVE arrived'[k].entry \notin Those(waiting')
      <3>1. k \in DOMAIN arrived /\ arrived'[k] = arrived[k]
        BY <1>2, <2>3
      <3>2. Awaits(arrived[k].entry)
        BY <3>1 DEF Awaits
      <3>3. ~QueuedIn(arrived[k].entry, q)
        BY <1>6, <1>7, <3>2, Zenon
      <3> QED BY <1>7, <1>8, <1>9, <3>1, <3>3
    <2>4. \A r \in DOMAIN lQueue' : Apart(lQueue[r])' /\ \A t \in Those(lQueue[r])' : t.node \in Hosts
      BY <1>2, <1>7 DEF Apart, Those
    <2>5. Apart(waiting)' /\ Apart(drains)' /\ \A j, k \in DOMAIN arrived' : arrived'[j].entry = arrived'[k].entry => j = k
      BY <1>2, <1>7, <1>10, <1>11 DEF Apart
    <2>6. \A t, p, r : QueuedIn(t, p)' /\ QueuedIn(t, r)' => p = r
      BY <1>7, <1>13, Zenon
    <2> QED BY <2>1, <2>2, <2>3, <2>4, <2>5, <2>6, Zenon DEF HostsWait
  <1>17. LinkTypes'
    BY <1>1, <1>2, <1>4, <1>9 DEF LinkTypes
  <1>18. Based' /\ NodesRun'
    <2>1. \A i : ~NodeAt(i)'
      BY <1>2, Idle DEF NodeAt
    <2> QED BY <1>2, <2>1, NoNodesRun DEF Based
  <1>19. QueuesNamed'
    BY <1>1, <1>2, <1>4 DEF QueuesNamed
  <1>20. BegunInOrder(tree)'
    <2>1. \A u : Begun(u)' => Begun(u)
      BY <1>13, <1>14, Zenon DEF Begun
    <2>2. ASSUME NEW u, NEW j, Passed(u, j) PROVE Passed(u, j)'
      BY <1>2, <1>13, <2>2 DEF Passed
    <2>3. linked \in [Lk!Linkers -> Nat] /\ linked' = linked /\ \A l \in Lk!Linkers : linked'[l] >= linked[l]
      BY <1>1, <1>2 DEF LinkTypes
    <2> QED BY <1>1, <2>1, <2>2, <2>3, BegunKept
  <1>21. CalledInOrder'
    BY <1>1, <1>2, <1>13, <1>14, CallsKept
  <1>22. CutOK'
    BY <1>1, <1>2, <1>13, CutKept
  <1> QED BY <1>16, <1>17, <1>18, <1>19, <1>20, <1>21, <1>22 DEF LinkInv

\* What waits for templates may change alone.
LEMMA LinkersSame ==
  ASSUME NEW tree, LinkInv(tree), UNCHANGED <<linked, lQueue, drains, linkers, done, lThrown>>
  PROVE  /\ Based' /\ QueuesNamed' /\ NodesRun' /\ BegunInOrder(tree)' /\ CalledInOrder' /\ CutOK'
         /\ (\A t, r : QueuedIn(t, r)' <=> QueuedIn(t, r)) /\ \A r : Undrained(r)' <=> Undrained(r)
         /\ (\A t : Queued(t)' <=> Queued(t)) /\ (\A t : Runs(t)' <=> Runs(t))
         /\ \A t : Untouched(t)' <=> Untouched(t)
  <1>1. Based' /\ QueuesNamed'
    BY DEF LinkInv, Based, QueuesNamed, Base, NodeAt
  <1>2. (\A t, r : QueuedIn(t, r)' <=> QueuedIn(t, r)) /\ (\A t, i : RunsAt(t, i)' <=> RunsAt(t, i))
        /\ (\A t, s : Called(t, s)' <=> Called(t, s)) /\ (\A r : Undrained(r)' <=> Undrained(r))
        /\ \A t : Cut(t)' <=> Cut(t)
    BY DEF QueuedIn, RunsAt, NodeAt, Called, Undrained, Base, Cut
  <1>3. (\A t : Queued(t)' <=> Queued(t)) /\ (\A t : Runs(t)' <=> Runs(t)) /\ (\A t : Untouched(t)' <=> Untouched(t))
    BY <1>2, Zenon DEF Queued, Runs, Untouched
  <1>4. NodesRun'
    <2>1. \A f : StepsOK(f) => StepsOK(f)'
      BY <1>2, <1>3, StepsKept
    <2>2. \A t, j : KidDone(t, j) => KidDone(t, j)'
      BY <1>2, KidDoneKept
    <2>3. \A i, f : KidsOK(i, f) => KidsOK(i, f)'
      BY <2>2 DEF KidsOK
    <2>4. /\ \A t, i, j : RunsAt(t, i) /\ RunsAt(t, j) => i = j
          /\ \A i : NodeAt(i) => StepsOK(linkers[i]) /\ KidsOK(i, linkers[i])
      BY DEF LinkInv, NodesRun
    <2>5. ASSUME NEW i, NodeAt(i)' PROVE (StepsOK(linkers[i]) /\ KidsOK(i, linkers[i]))'
      <3>1. NodeAt(i) /\ linkers' = linkers
        BY <2>5 DEF NodeAt
      <3> QED BY <2>1, <2>3, <2>4, <3>1
    <2>6. \A t, i, j : RunsAt(t, i)' /\ RunsAt(t, j)' => i = j
      BY <1>2, <2>4, Zenon
    <2> QED BY <2>5, <2>6, Zenon DEF NodesRun
  <1>5. BegunInOrder(tree)'
    <2>1. \A u : Begun(u)' => Begun(u)
      BY <1>2, <1>3, Zenon DEF Begun
    <2>2. ASSUME NEW u, NEW j, Passed(u, j) PROVE Passed(u, j)'
      BY <1>2, <2>2 DEF Passed
    <2>3. linked \in [Lk!Linkers -> Nat] /\ linked' = linked /\ \A l \in Lk!Linkers : linked'[l] >= linked[l]
      BY DEF LinkInv, LinkTypes
    <2> QED BY <2>1, <2>2, <2>3, BegunKept DEF LinkInv
  <1>6. CalledInOrder'
    BY <1>2, <1>3, CallsKept DEF LinkInv
  <1>7. CutOK'
    BY <1>2, CutKept DEF LinkInv
  <1> QED BY <1>1, <1>2, <1>3, <1>4, <1>5, <1>6, <1>7

\* A request is answered: its entry waits no more for the template but with it.
LEMMA AnswerStep ==
  ASSUME NEW tree, LinkingGiven(tree), LinkInv(tree), NEW k \in DOMAIN waiting, NEW ok \in BOOLEAN, Lk!Answer(k, ok)
  PROVE  LinkInv(tree)'
  <1> DEFINE A == [entry : Targets, ok : BOOLEAN]
  <1>1. /\ LinkTypes /\ Based /\ HostsWait /\ QueuesNamed /\ NodesRun /\ BegunInOrder(tree) /\ CalledInOrder
        /\ CutOK
    BY DEF LinkInv
  <1>2. /\ arrived' = Append(arrived, [entry |-> waiting[k], ok |-> ok])
        /\ waiting' = Lk!RemoveAt(waiting, k)
        /\ UNCHANGED <<linked, lQueue, drains, lCancelled, lDead, linkers, lFailures, done, lThrown>>
    BY DEF Lk!Answer
  <1>3. arrived \in Seq(A) /\ waiting \in Seq(Targets) /\ DOMAIN waiting = 1 .. Len(waiting) /\ Len(waiting) \in Nat
        /\ DOMAIN arrived = 1 .. Len(arrived) /\ Len(arrived) \in Nat
    BY <1>1 DEF LinkTypes
  <1>4. k \in 1 .. Len(waiting) /\ waiting[k] \in Targets
    BY <1>3
  <1>5. PICK e \in Targets : e = waiting[k]
    BY <1>4
  <1>6. PICK a \in A : a = [entry |-> e, ok |-> ok] /\ a.entry = e
    <2>1. [entry |-> e, ok |-> ok] \in A
      OBVIOUS
    <2> QED BY <2>1
  <1>7. waiting' = SubSeq(waiting, 1, k - 1) \o SubSeq(waiting, k + 1, Len(waiting))
    BY <1>2 DEF Lk!RemoveAt
  <1>8. /\ waiting' \in Seq(Targets) /\ Len(waiting') = Len(waiting) - 1
        /\ \A j \in 1 .. Len(waiting) - 1 : waiting'[j] = IF j < k THEN waiting[j] ELSE waiting[j + 1]
    BY <1>3, <1>4, <1>7, DropFacts
  <1>9. arrived' = Append(arrived, a)
    BY <1>2, <1>5, <1>6
  <1> HIDE DEF A
  <1>10. /\ arrived' \in Seq(A) /\ Len(arrived') = Len(arrived) + 1
         /\ \A j \in 1 .. Len(arrived) : arrived'[j] = arrived[j]
         /\ arrived'[Len(arrived) + 1] = a
    BY <1>3, <1>9, AppendFacts
  <1>11. DOMAIN waiting' = 1 .. Len(waiting) - 1 /\ DOMAIN arrived' = 1 .. Len(arrived) + 1
    BY <1>3, <1>8, <1>10
  <1>12. /\ \A r \in DOMAIN lQueue : Apart(lQueue[r]) /\ \A t \in Those(lQueue[r]) : t.node \in Hosts
         /\ \A t, p, r : QueuedIn(t, p) /\ QueuedIn(t, r) => p = r
         /\ Apart(waiting) /\ Apart(drains)
         /\ \A i, j \in DOMAIN arrived : arrived[i].entry = arrived[j].entry => i = j
         /\ \A j \in DOMAIN arrived : arrived[j].entry \notin Those(waiting)
         /\ \A t : Awaits(t) => Queued(t) /\ Untouched(t) /\ ~Runs(t)
         /\ \A t, r : QueuedIn(t, r) /\ Undrained(r) => ~Awaits(t) /\ Untouched(t) /\ ~Runs(t)
    BY <1>1 DEF HostsWait
  <1> DEFINE Was(j) == IF j < k THEN j ELSE j + 1
  <1>13. ASSUME NEW j \in DOMAIN waiting'
         PROVE  Was(j) \in DOMAIN waiting /\ Was(j) # k /\ waiting'[j] = waiting[Was(j)]
    <2>1. j \in 1 .. Len(waiting) - 1
      BY <1>11, <1>13
    <2>2. waiting'[j] = IF j < k THEN waiting[j] ELSE waiting[j + 1]
      BY <1>8, <2>1
    <2>3. CASE j < k
      BY <1>3, <1>4, <2>1, <2>2, <2>3
    <2>4. CASE ~(j < k)
      BY <1>3, <1>4, <2>1, <2>2, <2>4
    <2> QED BY <2>3, <2>4
  <1>14. ASSUME NEW i \in DOMAIN waiting', NEW j \in DOMAIN waiting', Was(i) = Was(j) PROVE i = j
    <2>1. i \in Nat /\ j \in Nat /\ k \in Nat
      BY <1>3, <1>4, <1>11
    <2> QED BY <1>14, <2>1
  <1>15. Apart(waiting')
    <2>1. ASSUME NEW i \in DOMAIN waiting', NEW j \in DOMAIN waiting', waiting'[i] = waiting'[j] PROVE i = j
      <3>1. waiting[Was(i)] = waiting[Was(j)] /\ Was(i) \in DOMAIN waiting /\ Was(j) \in DOMAIN waiting
        BY <1>13, <2>1
      <3>2. Was(i) = Was(j)
        BY <1>12, <3>1 DEF Apart
      <3> QED BY <1>14, <3>2
    <2> QED BY <2>1 DEF Apart
  <1>16. \A t : t \in Those(waiting') => t \in Those(waiting) /\ t # e
    <2>1. ASSUME NEW j \in DOMAIN waiting' PROVE waiting'[j] \in Those(waiting) /\ waiting'[j] # e
      <3>1. Was(j) \in DOMAIN waiting /\ Was(j) # k /\ waiting'[j] = waiting[Was(j)] /\ k \in DOMAIN waiting
        BY <1>13
      <3> QED BY <1>5, <1>12, <3>1 DEF Apart, Those
    <2> QED BY <2>1 DEF Those
  <1> HIDE DEF Was
  <1>17. Awaits(e) /\ \A j \in DOMAIN arrived : arrived[j].entry # e
    BY <1>5, <1>12 DEF Awaits, Those
  <1>18. \A j \in DOMAIN arrived' : (j \in DOMAIN arrived /\ arrived'[j] = arrived[j])
                                    \/ (j = Len(arrived) + 1 /\ arrived'[j].entry = e)
    BY <1>3, <1>6, <1>10, <1>11
  <1>19. \A t : Awaits(t)' => Awaits(t)
    <2>1. ASSUME NEW t, t \in Those(waiting') PROVE Awaits(t)
      BY <1>16, <2>1 DEF Awaits
    <2>2. ASSUME NEW t, NEW j \in DOMAIN arrived', arrived'[j].entry = t PROVE Awaits(t)
      BY <1>17, <1>18, <2>2 DEF Awaits
    <2> QED BY <2>1, <2>2 DEF Awaits
  <1>20. \A i, j \in DOMAIN arrived' : arrived'[i].entry = arrived'[j].entry => i = j
    BY <1>12, <1>17, <1>18
  <1>21. \A j \in DOMAIN arrived' : arrived'[j].entry \notin Those(waiting')
    BY <1>12, <1>16, <1>18
  <1>22. /\ Based' /\ QueuesNamed' /\ NodesRun' /\ BegunInOrder(tree)' /\ CalledInOrder' /\ CutOK'
         /\ (\A t, r : QueuedIn(t, r)' <=> QueuedIn(t, r)) /\ \A r : Undrained(r)' <=> Undrained(r)
         /\ (\A t : Queued(t)' <=> Queued(t)) /\ (\A t : Runs(t)' <=> Runs(t))
         /\ \A t : Untouched(t)' <=> Untouched(t)
    BY <1>2, LinkersSame
  <1>23. HostsWait'
    <2>1. \A t : Awaits(t)' => Queued(t)' /\ Untouched(t)' /\ ~Runs(t)'
      BY <1>12, <1>19, <1>22, Zenon
    <2>2. \A t, r : QueuedIn(t, r)' /\ Undrained(r)' => ~Awaits(t)' /\ Untouched(t)' /\ ~Runs(t)'
      BY <1>12, <1>19, <1>22, Zenon
    <2>3. \A r \in DOMAIN lQueue' : Apart(lQueue[r])' /\ \A t \in Those(lQueue[r])' : t.node \in Hosts
      BY <1>2, <1>12 DEF Apart, Those
    <2>4. Apart(waiting)' /\ Apart(drains)'
      BY <1>2, <1>12, <1>15 DEF Apart
    <2>5. \A t, p, r : QueuedIn(t, p)' /\ QueuedIn(t, r)' => p = r
      BY <1>12, <1>22, Zenon
    <2> QED BY <1>20, <1>21, <2>1, <2>2, <2>3, <2>4, <2>5, Zenon DEF HostsWait
  <1>24. LinkTypes'
    BY <1>1, <1>2, <1>8, <1>10 DEF LinkTypes, A
  <1> QED BY <1>22, <1>23, <1>24 DEF LinkInv

\* What tears down, and a step of something else.
LEMMA LinkingSame ==
  ASSUME NEW tree, LinkInv(tree), UNCHANGED <<linked, lQueue, drains, waiting, arrived, linkers, lFailures, done, lThrown>>
  PROVE  LinkInv(tree)'
  <1>1. LinkTypes'
    BY DEF LinkInv, LinkTypes
  <1>2. /\ Based' /\ QueuesNamed' /\ NodesRun' /\ BegunInOrder(tree)' /\ CalledInOrder' /\ CutOK'
        /\ \A r : Undrained(r)' <=> Undrained(r)
        /\ (\A t : Runs(t)' <=> Runs(t)) /\ \A t : Untouched(t)' <=> Untouched(t)
    BY LinkersSame
  <1>3. HostsWait /\ Apart(drains)'
    BY DEF LinkInv, HostsWait, Apart
  <1>4. HostsWait'
    BY <1>2, <1>3, HostsKept
  <1> QED BY <1>1, <1>2, <1>4 DEF LinkInv

\* A template arrives, and its host links or is given up.
LEMMA TakenStep ==
  ASSUME NEW tree, LinkingGiven(tree), LinkInv(tree), linkers = <<>>, arrived # <<>>,
         NEW e, e = Head(arrived).entry, arrived' = Tail(arrived),
         NEW step \in {"install", "drop"}, done' = Append(done, [target |-> e, step |-> step]),
         UNCHANGED <<linked, lQueue, drains, waiting, lFailures, lThrown>>,
         linkers' \in Seq(LinkFrames), \A q : Undrained(q)' => Undrained(q) \/ q \notin DOMAIN lQueue,
         linkers' # <<>> => Base'.queue \notin Those(drains),
         \A u : Runs(u)' => u = e, step = "install" /\ e.node \notin Conflicting => Runs(e)'
  PROVE  /\ LinkTypes' /\ HostsWait' /\ QueuesNamed' /\ BegunInOrder(tree)' /\ CalledInOrder' /\ CutOK'
         /\ e \in Targets /\ Len(done) \in Nat /\ Len(done') = Len(done) + 1
         /\ ~Cut(e)' /\ \A s : Called(e, s)' <=> s = step
  <1>1. /\ LinkTypes /\ Based /\ HostsWait /\ QueuesNamed /\ NodesRun /\ BegunInOrder(tree) /\ CalledInOrder
        /\ CutOK
    BY DEF LinkInv
  <1>2. (\A u : ~Runs(u)) /\ \A u, j : Passed(u, j) <=> Called(u, "postLink") \/ (Cut(u) /\ Called(u, "pre"))
    BY Idle, NoneRuns
  <1>3. e \in Targets
    <2>1. arrived \in Seq([entry : Targets, ok : BOOLEAN])
      BY <1>1 DEF LinkTypes
    <2>2. arrived[1] \in [entry : Targets, ok : BOOLEAN]
      BY <2>1, TailFacts
    <2>3. Head(arrived) = arrived[1]
      BY <2>1
    <2> QED BY <2>2, <2>3
  <1> DEFINE call == [target |-> e, step |-> step]
  <1>4. call \in LinkEvents
    BY <1>3 DEF LinkEvents
  <1>5. /\ done' \in Seq(LinkEvents) /\ Len(done) \in Nat /\ Len(done') = Len(done) + 1
        /\ \A u, s : Called(u, s)' <=> Called(u, s) \/ call = [target |-> u, step |-> s]
    BY <1>1, <1>4, CallNoted
  <1>6. \A u, s : call = [target |-> u, step |-> s] <=> u = e /\ s = step
    OBVIOUS
  <1> HIDE DEF call
  <1>7. \A u, s : Called(u, s)' <=> Called(u, s) \/ (u = e /\ s = step)
    BY <1>5, <1>6, Zenon
  <1>16. \A u : Cut(u)' <=> Cut(u)
    BY DEF Cut
  <1>8. \A t : t # e /\ Untouched(t) /\ ~Runs(t) => Untouched(t)' /\ ~Runs(t)'
    BY <1>7, <1>16 DEF Untouched
  <1>9. /\ HostsWait' /\ Queued(e) /\ Untouched(e) /\ arrived' \in Seq([entry : Targets, ok : BOOLEAN])
    BY <1>1, <1>8, HostsTaken
  <1>10. LinkTypes'
    BY <1>1, <1>5, <1>9 DEF LinkTypes, LinkFrames
  <1>11. linked \in [Lk!Linkers -> Nat] /\ linked' = linked /\ \A l \in Lk!Linkers : linked'[l] >= linked[l]
    BY <1>1 DEF LinkTypes
  <1>12. QueuesNamed'
    <2>1. Len(done') >= Len(done) /\ Len(done') \in Nat /\ Those(drains') \subseteq Those(drains)
      BY <1>5
    <2>2. linkers' # <<>> => Base'.queue \notin Those(drains')
      OBVIOUS
    <2> QED BY <1>1, <1>5, <1>11, <2>1, <2>2, QueuesKept
  <1>13. BegunInOrder(tree)'
    <2>1. \A u : Queued(u)' <=> Queued(u)
      BY DEF Queued, QueuedIn
    <2>2. \A u : Begun(u)' => Begun(u)
      BY <1>7, <1>9, <1>16, <2>1, Zenon DEF Begun
    <2>3. ASSUME NEW u, NEW j, Passed(u, j) PROVE Passed(u, j)'
      BY <1>2, <1>7, <1>16, <2>3 DEF Passed
    <2> QED BY <1>1, <1>11, <2>2, <2>3, BegunKept
  <1>14. CalledInOrder'
    <2>1. ~Called(e, step)
      BY <1>9 DEF Untouched
    <2>2. \A u : Runs(u) => Runs(u)' \/ (u = e /\ step = "postLink")
      BY <1>2
    <2>3. step \notin {"drop", "postLink"} /\ e.node \notin Conflicting => Runs(e)'
      OBVIOUS
    <2>4. step # "pre" /\ step # "post" /\ step # "postLink" /\ step # "controllers"
          /\ step \in {"install", "drop", "controllers", "pre", "post", "postLink"}
      OBVIOUS
    <2> QED BY <1>1, <1>3, <2>1, <2>2, <2>3, <2>4, CallsNoted
  <1>15. ~Cut(e)' /\ \A s : Called(e, s)' <=> s = step
    BY <1>7, <1>9, <1>16 DEF Untouched
  <1>17. CutOK'
    BY <1>1, <1>7, <1>15, <1>16, CutKept
  <1> QED BY <1>3, <1>5, <1>9, <1>10, <1>12, <1>13, <1>14, <1>15, <1>17

\* A host that is not wanted any more, or whose template did not come, is dropped.
LEMMA DropStep ==
  ASSUME NEW tree, LinkingGiven(tree), LinkInv(tree), Lk!Drop
  PROVE  LinkInv(tree)'
  <1>1. PICK e : e = Head(arrived).entry
    OBVIOUS
  <1>2. /\ linkers = <<>> /\ arrived # <<>> /\ arrived' = Tail(arrived)
        /\ done' = Append(done, [target |-> e, step |-> "drop"])
        /\ UNCHANGED <<linked, lQueue, drains, waiting, lFailures, lThrown>> /\ linkers' = <<>>
    BY <1>1 DEF Lk!Drop, Lk!Did
  <1>3. \A i : ~NodeAt(i)'
    BY <1>2, Idle DEF NodeAt
  <1>4. \A u : Runs(u)' => u = e
    BY <1>3 DEF Runs, RunsAt
  <1>5. \A q : Undrained(q)' => Undrained(q) \/ q \notin DOMAIN lQueue
    BY <1>2 DEF Undrained
  <1>6. linkers' \in Seq(LinkFrames)
    BY <1>2
  <1>7. PICK step \in {"install", "drop"} : step = "drop"
    OBVIOUS
  <1>8. /\ LinkTypes' /\ HostsWait' /\ QueuesNamed' /\ BegunInOrder(tree)' /\ CalledInOrder' /\ CutOK'
    BY <1>1, <1>2, <1>4, <1>5, <1>6, <1>7, TakenStep
  <1>9. Based' /\ NodesRun'
    BY <1>2, <1>3, NoNodesRun DEF Based
  <1> QED BY <1>8, <1>9 DEF LinkInv

\* A template that came is installed in its host, which links from its root.
LEMMA InstallStep ==
  ASSUME NEW tree, LinkingGiven(tree), LinkInv(tree), Lk!Install
  PROVE  LinkInv(tree)'
  <1>1. /\ LinkTypes /\ Based /\ HostsWait /\ QueuesNamed /\ NodesRun /\ BegunInOrder(tree) /\ CalledInOrder
        /\ CutOK
    BY DEF LinkInv
  <1>2. PICK e : e = Head(arrived).entry
    OBVIOUS
  <1>3. /\ linkers = <<>> /\ arrived # <<>> /\ arrived' = Tail(arrived)
        /\ done' = Append(done, [target |-> e, step |-> "install"])
        /\ UNCHANGED <<linked, lQueue, drains, waiting, lFailures, lThrown>>
        /\ linkers' = Lk!Pending(e, Lk!Inner([target |-> e, time |-> Len(done)]))
                        \o <<[linker |-> e, queue |-> Lk!Inner([target |-> e, time |-> Len(done)]), step |-> "linker"]>>
    BY <1>2 DEF Lk!Install, Lk!Did
  <1>4. e \in Targets /\ Len(done) \in Nat
    <2>1. arrived \in Seq([entry : Targets, ok : BOOLEAN]) /\ Len(done) \in Nat
      BY <1>1 DEF LinkTypes
    <2>2. arrived[1] \in [entry : Targets, ok : BOOLEAN]
      BY <1>3, <2>1, TailFacts
    <2>3. Head(arrived) = arrived[1]
      BY <2>1
    <2> QED BY <1>2, <2>1, <2>2, <2>3
  <1>5. PICK q \in QueueNames : /\ q = Lk!Inner([target |-> e, time |-> Len(done)])
                                /\ q.of = "host" /\ q.target.time = Len(done)
    <2> DEFINE x == [of |-> "host", target |-> [target |-> e, time |-> Len(done)]]
    <2>1. x \in QueueNames
      BY <1>4 DEF QueueNames
    <2>2. x = Lk!Inner([target |-> e, time |-> Len(done)]) /\ x.of = "host" /\ x.target.time = Len(done)
      BY DEF Lk!Inner
    <2> QED BY <2>1, <2>2
  <1>6. PICK b \in LinkerFrames : b = [linker |-> e, queue |-> q, step |-> "linker"] /\ b.queue = q
    <2> DEFINE x == [linker |-> e, queue |-> q, step |-> "linker"]
    <2>1. x \in LinkerFrames /\ x.queue = q
      BY <1>4 DEF LinkerFrames
    <2> QED BY <2>1
  <1>7. PICK h \in NodeFrames : /\ h = [Lk!Frame(e, q) EXCEPT !.step = "controllers"]
                                /\ h.target = e /\ h.queue = q /\ h.step = "controllers" /\ h.kid = 1
    <2> DEFINE x == [target |-> e, queue |-> q, step |-> "controllers", kid |-> 1]
    <2>1. x \in NodeFrames
      BY <1>4 DEF NodeFrames
    <2>2. x = [Lk!Frame(e, q) EXCEPT !.step = "controllers"]
      BY DEF Lk!Frame
    <2> QED BY <2>1, <2>2
  <1>8. linkers' = Lk!Pending(e, q) \o <<b>>
    BY <1>3, <1>5, <1>6
  <1>9. /\ linkers' \in Seq(LinkFrames) /\ linkers' # <<>> /\ Base' = b
        /\ \A i : NodeAt(i)' => i = 1 /\ linkers'[i] = h
        /\ \A u, i : RunsAt(u, i)' => i = 1
        /\ \A u : Runs(u)' => u = e
        /\ e.node \notin Conflicting => Runs(e)'
    <2>1. CASE e.node \in Conflicting
      <3>1. linkers' = <<b>>
        BY <1>8, <2>1, LinkerCalled DEF Lk!Pending
      <3>2. linkers' \in Seq(LinkFrames) /\ linkers' # <<>> /\ Base' = b /\ \A i : ~NodeAt(i)'
        BY <3>1, NoNode
      <3> QED BY <2>1, <3>2 DEF Runs, RunsAt
    <2>2. CASE e.node \notin Conflicting
      <3>1. linkers' = <<h, b>>
        BY <1>7, <1>8, <2>2, LinkerCalled DEF Lk!Pending
      <3>2. /\ linkers' \in Seq(LinkFrames) /\ linkers' # <<>> /\ Base' = b /\ linkers'[1] = h
            /\ \A i : NodeAt(i)' <=> i = 1
            /\ \A u, i : RunsAt(u, i)' <=> i = 1 /\ u = e
            /\ \A u : Runs(u)' <=> u = e
        BY <1>7, <3>1, OneNode
      <3> QED BY <3>2
    <2> QED BY <2>1, <2>2
  <1>10. q \notin DOMAIN lQueue
    <2>1. ASSUME q \in DOMAIN lQueue PROVE FALSE
      <3>1. q.target.time < Len(done)
        BY <1>1, <1>5, <2>1 DEF QueuesNamed
      <3> QED BY <1>4, <1>5, <3>1
    <2> QED BY <2>1
  <1>11. \A r : Undrained(r)' => Undrained(r) \/ r \notin DOMAIN lQueue
    BY <1>3, <1>6, <1>9, <1>10 DEF Undrained
  <1>12. linkers' # <<>> => Base'.queue \notin Those(drains)
    BY <1>1, <1>6, <1>9, <1>10 DEF QueuesNamed
  <1>13. PICK step \in {"install", "drop"} : step = "install"
    OBVIOUS
  <1>14. /\ LinkTypes' /\ HostsWait' /\ QueuesNamed' /\ BegunInOrder(tree)' /\ CalledInOrder' /\ CutOK'
         /\ Len(done') = Len(done) + 1 /\ ~Cut(e)' /\ \A s : Called(e, s)' <=> s = "install"
    BY <1>2, <1>3, <1>9, <1>11, <1>12, <1>13, TakenStep
  <1>15. Based'
    <2>1. Base'.queue.of = "host" /\ Base'.queue.target.time < Len(done')
      BY <1>4, <1>5, <1>6, <1>9, <1>14
    <2>2. \A i : NodeAt(i)' => linkers'[i] \in NodeFrames /\ linkers'[i].queue = Base'.queue
      BY <1>6, <1>7, <1>9
    <2>3. Base' \in LinkerFrames
      BY <1>9
    <2> QED BY <2>1, <2>2, <2>3 DEF Based
  <1>16. NodesRun'
    <2>1. StepsOK(h)' /\ KidsOK(1, h)'
      BY <1>7, <1>14 DEF StepsOK, KidsOK, Ahead, Before
    <2>2. \A u, i, j : RunsAt(u, i)' /\ RunsAt(u, j)' => i = j
      BY <1>9
    <2>3. ASSUME NEW i, NodeAt(i)' PROVE (StepsOK(linkers[i]) /\ KidsOK(i, linkers[i]))'
      BY <1>9, <2>1, <2>3
    <2> QED BY <2>2, <2>3, Zenon DEF NodesRun
  <1> QED BY <1>14, <1>15, <1>16 DEF LinkInv

\* The invariant holds before anything is linked.
LEMMA LinkingStarts ==
  ASSUME NEW tree, LinkingGiven(tree), Lk!Init
  PROVE  LinkInv(tree)
  <1>1. /\ linked = [l \in Lk!Linkers |-> 0] /\ lQueue = <<>> /\ drains = <<>> /\ waiting = <<>> /\ arrived = <<>>
        /\ linkers = <<>> /\ lFailures = 0 /\ done = <<>> /\ lThrown = {}
    BY DEF Lk!Init
  <1>2. DOMAIN lQueue = {} /\ DOMAIN done = {} /\ DOMAIN waiting = {} /\ DOMAIN arrived = {} /\ DOMAIN drains = {}
    BY <1>1
  <1>3. LinkTypes
    <2>1. linked \in [Lk!Linkers -> Nat] /\ lFailures \in 0 .. MaxFailures
      BY <1>1 DEF LinkingGiven
    <2>2. /\ linkers \in Seq(NodeFrames \cup LinkerFrames) /\ done \in Seq(LinkEvents)
          /\ waiting \in Seq(Targets) /\ arrived \in Seq([entry : Targets, ok : BOOLEAN])
          /\ drains \in Seq(QueueNames)
      BY <1>1
    <2>3. lQueue \in [DOMAIN lQueue -> Seq(Targets)] /\ DOMAIN lQueue \subseteq QueueNames
      BY <1>1, <1>2
    <2> QED BY <2>1, <2>2, <2>3 DEF LinkTypes
  <1>4. \A i : ~NodeAt(i)
    BY <1>1, Idle
  <1>5. (\A t, i : ~RunsAt(t, i)) /\ (\A t : ~Runs(t))
    BY <1>4, NoneRuns
  <1>6. (\A t, q : ~QueuedIn(t, q)) /\ (\A t, s : ~Called(t, s)) /\ (\A t : ~Awaits(t)) /\ \A t : ~Cut(t)
    BY <1>1, <1>2 DEF QueuedIn, Called, Awaits, Those, Cut
  <1>7. \A t : ~Begun(t)
    BY <1>5, <1>6 DEF Begun, Queued
  <1>8. HostsWait
    BY <1>2, <1>6 DEF HostsWait, Apart
  <1>9. Based /\ QueuesNamed
    BY <1>1, <1>2 DEF Based, QueuesNamed, Those
  <1>10. NodesRun
    BY <1>4, <1>5 DEF NodesRun
  <1>11. BegunInOrder(tree)
    BY <1>7 DEF BegunInOrder
  <1>12. CalledInOrder
    BY <1>2, <1>6 DEF CalledInOrder, Apart
  <1>13. CutOK
    BY <1>1 DEF CutOK
  <1> QED BY <1>3, <1>8, <1>9, <1>10, <1>11, <1>12, <1>13 DEF LinkInv

\* The targets within which bindings throw are those that run.
LEMMA WithinRuns ==
  ASSUME LinkTypes, Based, linkers # <<>>
  PROVE  \A t : t \in Lk!Within <=> Runs(t)
  <1>1. Len(linkers) \in Nat \ {0} /\ DOMAIN linkers = 1 .. Len(linkers)
    BY DEF LinkTypes
  <1>2. ASSUME NEW i \in DOMAIN linkers PROVE linkers[i].step # "linker" <=> NodeAt(i)
    <2>1. CASE NodeAt(i)
      <3>1. linkers[i] \in NodeFrames
        BY <2>1 DEF Based
      <3> QED BY <2>1, <3>1 DEF NodeFrames
    <2>2. CASE ~NodeAt(i)
      <3>1. i = Len(linkers)
        BY <1>1, <2>2 DEF NodeAt
      <3>2. linkers[i] \in LinkerFrames
        BY <3>1 DEF Based, Base
      <3> QED BY <2>2, <3>2 DEF LinkerFrames
    <2> QED BY <2>1, <2>2
  <1>3. ASSUME NEW t PROVE t \in Lk!Within <=> \E i \in DOMAIN linkers : linkers[i].step # "linker" /\ linkers[i].target = t
    BY DEF Lk!Within, Lk!Range
  <1>4. ASSUME NEW t PROVE Runs(t) <=> \E i \in DOMAIN linkers : NodeAt(i) /\ linkers[i].target = t
    BY DEF Runs, RunsAt, NodeAt
  <1> QED BY <1>2, <1>3, <1>4

\* Bindings throw: every call in progress ends, and its nodes are cut off.
LEMMA BindingThrowsStep ==
  ASSUME NEW tree, LinkingGiven(tree), LinkInv(tree), Lk!BindingThrows
  PROVE  LinkInv(tree)'
  <1>1. /\ LinkTypes /\ Based /\ HostsWait /\ QueuesNamed /\ NodesRun /\ BegunInOrder(tree) /\ CalledInOrder
        /\ CutOK
    BY DEF LinkInv
  <1>2. /\ linkers # <<>> /\ Lk!Topmost.step = "controllers" /\ Lk!Topmost.target.node \in Bound
        /\ lFailures < MaxFailures /\ lFailures' = lFailures + 1
        /\ lThrown' = lThrown \cup {[target |-> Lk!Topmost.target, left |-> Lk!Within, queue |-> Lk!Topmost.queue]}
        /\ linkers' = <<>>
        /\ UNCHANGED <<linked, lQueue, drains, waiting, arrived, done>>
    BY DEF Lk!BindingThrows, Lk!AtStep
  <1>3. PICK t : t = Lk!Topmost.target
    OBVIOUS
  <1>4. PICK u : u.target = t /\ u.left = Lk!Within /\ lThrown' = lThrown \cup {u}
    BY <1>2, <1>3
  <1>5. \A x : x \in u.left <=> Runs(x)
    BY <1>1, <1>2, <1>4, WithinRuns
  <1>6. (\A x : Cut(x)' <=> Cut(x) \/ Runs(x)) /\ \A x, s : Called(x, s)' <=> Called(x, s)
    BY <1>2, <1>4, <1>5 DEF Cut, Called
  <1>7. (\A i : ~NodeAt(i)') /\ (\A x : ~Runs(x)') /\ \A x : Queued(x)' <=> Queued(x)
    <2>1. \A i : ~NodeAt(i)'
      BY <1>2, Idle DEF NodeAt
    <2> QED BY <1>2, <2>1 DEF Runs, RunsAt, Queued, QueuedIn
  <1>8. RunsAt(t, 1) /\ NodeAt(1) /\ linkers[1] = Lk!Topmost
    BY <1>1, <1>2, <1>3, TopTyped
  <1>9. LinkTypes'
    <2>1. lFailures' \in 0 .. MaxFailures
      BY <1>1, <1>2 DEF LinkTypes, LinkingGiven
    <2>2. linkers' \in Seq(NodeFrames \cup LinkerFrames)
      BY <1>2
    <2> QED BY <1>1, <1>2, <2>1, <2>2 DEF LinkTypes
  <1>10. Based' /\ NodesRun'
    BY <1>2, <1>7, NoNodesRun DEF Based
  <1>11. HostsWait'
    <2>1. \A q : Undrained(q)' => Undrained(q)
      BY <1>2 DEF Undrained
    <2>2. \A x : Queued(x) /\ Untouched(x) /\ ~Runs(x) => Untouched(x)' /\ ~Runs(x)'
      BY <1>6, <1>7 DEF Untouched
    <2>3. Apart(drains)' /\ UNCHANGED <<lQueue, waiting, arrived>>
      BY <1>1, <1>2 DEF HostsWait, Apart
    <2> QED BY <1>1, <2>1, <2>2, <2>3, HostsKept
  <1>12. linked \in [Lk!Linkers -> Nat] /\ linked' = linked /\ \A l \in Lk!Linkers : linked'[l] >= linked[l]
    BY <1>1, <1>2 DEF LinkTypes
  <1>13. QueuesNamed'
    <2>1. Len(done) \in Nat /\ Len(done') \in Nat /\ Len(done') >= Len(done)
      BY <1>1, <1>2 DEF LinkTypes
    <2>2. lQueue' = lQueue /\ Those(drains') \subseteq Those(drains) /\ linkers' = <<>>
      BY <1>2
    <2> QED BY <1>1, <1>12, <2>1, <2>2, QueuesKept
  <1>14. BegunInOrder(tree)'
    <2>1. \A x : Begun(x)' => Begun(x)
      BY <1>6, <1>7, Zenon DEF Begun
    <2>2. ASSUME NEW x, NEW j, Passed(x, j) PROVE Passed(x, j)'
      <3>1. Called(x, "pre")
        BY <1>1, <2>2, PassedPre
      <3>2. Called(x, "postLink") \/ Cut(x) \/ Runs(x)
        BY <2>2 DEF Passed, Runs
      <3> QED BY <1>6, <3>1, <3>2 DEF Passed
    <2> QED BY <1>1, <1>12, <2>1, <2>2, BegunKept
  <1>15. CalledInOrder'
    BY <1>1, <1>2, <1>6, CallsKept
  <1>16. CutOK'
    <2>1. /\ \A i : NodeAt(i) => StepsOK(linkers[i]) /\ KidsOK(i, linkers[i])
          /\ \A i : NodeAt(i) => linkers[i] \in NodeFrames
      BY <1>1, <1>2 DEF NodesRun, Based
    <2>2. ASSUME NEW i, NodeAt(i), NEW x, x = linkers[i].target
          PROVE  /\ x \in Targets /\ ~Called(x, "post")
                 /\ x = t \/ \E j \in DOMAIN Kids[x.node] : Runs(Kid(x, j))
      <3>1. x \in Targets /\ i \in Nat \ {0}
        BY <1>1, <2>1, <2>2, NodeNumber DEF NodeFrames
      <3>2. CASE i = 1
        <4>1. ~Called(x, "post")
          BY <1>2, <1>8, <2>1, <2>2, <3>2 DEF StepsOK, Ahead
        <4> QED BY <1>8, <2>2, <3>1, <3>2, <4>1 DEF RunsAt
      <3>3. CASE i > 1
        <4>1. PICK f \in NodeFrames : f = linkers[i]
          BY <2>1, <2>2
        <4>2. /\ f.step = "children" /\ f.kid - 1 \in DOMAIN Kids[x.node]
              /\ linkers[i - 1].target = Kid(x, f.kid - 1)
          BY <2>1, <2>2, <3>3, <4>1 DEF KidsOK
        <4>3. ~Called(x, "post")
          BY <2>1, <2>2, <4>1, <4>2 DEF StepsOK, Ahead
        <4>4. NodeAt(i - 1)
          BY <1>1, <2>2, <3>1, <3>3, NodeNumber DEF NodeAt, LinkTypes
        <4>5. Runs(Kid(x, f.kid - 1))
          BY <4>2, <4>4 DEF Runs, RunsAt
        <4> QED BY <3>1, <4>2, <4>3, <4>5
      <3> QED BY <3>1, <3>2, <3>3
    <2>3. ASSUME NEW x \in u.left
          PROVE  /\ x \in Targets /\ ~Called(x, "post")
                 /\ x = t \/ \E j \in DOMAIN Kids[x.node] : Kid(x, j) \in u.left
      <3>1. PICK i : NodeAt(i) /\ x = linkers[i].target
        BY <1>5, <2>3 DEF Runs, RunsAt
      <3> QED BY <1>5, <2>2, <3>1
    <2>4. ~Called(t, "controllers")
      BY <1>2, <1>3, <1>8, <2>1 DEF StepsOK, Ahead
    <2>5. t \in u.left /\ t.node \in Bound
      BY <1>2, <1>3, <1>5, <1>8 DEF Runs
    <2>6. ASSUME NEW v \in lThrown'
          PROVE  /\ v.target \in v.left /\ v.target.node \in Bound /\ ~Called(v.target, "controllers")
                 /\ \A x \in v.left :
                      /\ x \in Targets /\ ~Called(x, "post")
                      /\ x = v.target \/ \E j \in DOMAIN Kids[x.node] : Kid(x, j) \in v.left
      <3>1. CASE v \in lThrown
        BY <1>1, <3>1, Zenon DEF CutOK
      <3>2. CASE v = u
        BY <1>4, <2>3, <2>4, <2>5, <3>2
      <3> QED BY <1>4, <2>6, <3>1, <3>2
    <2> QED BY <1>6, <2>6, Zenon DEF CutOK
  <1> QED BY <1>9, <1>10, <1>11, <1>13, <1>14, <1>15, <1>16 DEF LinkInv

\* A node calls the functions of its step, and throws or not.
LEMMA CallStep ==
  ASSUME NEW tree, LinkingGiven(tree), LinkInv(tree),
         NEW step \in {"controllers", "pre", "post", "postLink"}, NEW throws \in BOOLEAN, Lk!Call(step, throws)
  PROVE  LinkInv(tree)'
  <1>1. /\ linkers # <<>> /\ Lk!Topmost.step = step
        /\ done' = Append(done, [target |-> Lk!Topmost.target, step |-> step])
        /\ UNCHANGED <<linked, lQueue, drains, waiting, arrived, lCancelled, lDead, lThrown>>
    BY DEF Lk!Call, Lk!AtStep, Lk!Did
  <1>2. lFailures' \in 0 .. MaxFailures
    <2>1. lFailures \in 0 .. MaxFailures /\ MaxFailures \in Nat
      BY DEF LinkInv, LinkTypes, LinkingGiven
    <2>2. (throws => lFailures < MaxFailures) /\ lFailures' = IF throws THEN lFailures + 1 ELSE lFailures
      BY DEF Lk!Call
    <2> QED BY <2>1, <2>2
  <1>3. CASE step = "postLink"
    <2>1. linkers' = Tail(linkers)
      BY <1>3 DEF Lk!Call
    <2> QED BY <1>1, <1>2, <1>3, <2>1, LeavesStep
  <1>4. CASE step # "postLink"
    <2>1. PICK next : /\ next = Lk!Following(step)
                      /\ <<step, next>> \in {<<"controllers", "pre">>, <<"pre", "children">>, <<"post", "postLink">>}
      BY <1>4 DEF Lk!Following
    <2>2. linkers' = <<[Lk!Topmost EXCEPT !.step = next]>> \o Tail(linkers)
      BY <1>4, <2>1 DEF Lk!Call, Lk!Goes
    <2>3. step = Lk!Topmost.step
      BY <1>1
    <2>4. <<step, next>> \in {<<"enter", "controllers">>, <<"controllers", "pre">>, <<"pre", "children">>,
                              <<"children", "post">>, <<"post", "postLink">>}
      BY <2>1
    <2>5. step = "children" => Lk!Topmost.kid > Len(Kids[Lk!Topmost.target.node])
      BY <2>4
    <2>6. IF step \in {"enter", "children"} THEN done' = done
          ELSE done' = Append(done, [target |-> Lk!Topmost.target, step |-> step])
      BY <1>1
    <2>7. OnFrom(step, next)
      BY <1>1, <1>2, <2>2, <2>3, <2>4, <2>5, <2>6, Zenon DEF OnFrom
    <2> QED BY <2>7, GoesOnStep
  <1> QED BY <1>3, <1>4

\* Each step of linking keeps the invariant.
LEMMA LinkingStep ==
  ASSUME NEW tree, LinkingGiven(tree), LinkInv(tree), [Lk!Next]_(Lk!linkVars)
  PROVE  LinkInv(tree)'
  <1>1. lFailures \in 0 .. MaxFailures
    BY DEF LinkInv, LinkTypes
  <1>2. CASE Lk!EnterHost
    <2>1. /\ linkers # <<>> /\ Lk!Topmost.step = "enter" /\ Lk!Topmost.target.node \in Hosts
          /\ Lk!Defer(Lk!Topmost.target, Lk!Topmost.queue)
          /\ linkers' = Tail(linkers) /\ done' = done /\ lFailures' \in 0 .. MaxFailures
          /\ UNCHANGED <<linked, drains, waiting, arrived, lCancelled, lDead, lThrown>>
      BY <1>1, <1>2 DEF Lk!EnterHost, Lk!AtStep, Lk!Defer
    <2> QED BY <2>1, LeavesStep
  <1>3. CASE Lk!Conflict
    <2>1. /\ linkers # <<>> /\ Lk!Topmost.step = "enter" /\ Lk!Topmost.target.node \in Conflicting
          /\ linkers' = Tail(linkers) /\ UNCHANGED <<lQueue, done>> /\ lFailures' \in 0 .. MaxFailures
          /\ UNCHANGED <<linked, drains, waiting, arrived, lCancelled, lDead, lThrown>>
      BY <1>1, <1>3 DEF Lk!Conflict, Lk!AtStep
    <2> QED BY <2>1, LeavesStep
  <1>4. CASE Lk!Enter
    <2>1. /\ linkers # <<>> /\ Lk!Topmost.step = "enter"
          /\ linkers' = <<[Lk!Topmost EXCEPT !.step = "controllers"]>> \o Tail(linkers)
          /\ done' = done /\ lFailures' \in 0 .. MaxFailures
          /\ UNCHANGED <<linked, lQueue, drains, waiting, arrived, lCancelled, lDead, lThrown>>
      BY <1>1, <1>4 DEF Lk!Enter, Lk!AtStep, Lk!Goes
    <2>2. OnFrom("enter", "controllers")
      BY <2>1 DEF OnFrom
    <2> QED BY <2>2, GoesOnStep
  <1>5. CASE Lk!ChildrenDone
    <2>1. /\ linkers # <<>> /\ Lk!Topmost.step = "children" /\ Lk!Topmost.kid > Len(Kids[Lk!Topmost.target.node])
          /\ linkers' = <<[Lk!Topmost EXCEPT !.step = "post"]>> \o Tail(linkers)
          /\ done' = done /\ lFailures' \in 0 .. MaxFailures
          /\ UNCHANGED <<linked, lQueue, drains, waiting, arrived, lCancelled, lDead, lThrown>>
      BY <1>1, <1>5 DEF Lk!ChildrenDone, Lk!AtStep, Lk!Goes
    <2>2. PICK from, next : from = "children" /\ next = "post"
      OBVIOUS
    <2>3. from = Lk!Topmost.step
      BY <2>1, <2>2
    <2>4. <<from, next>> \in {<<"enter", "controllers">>, <<"controllers", "pre">>, <<"pre", "children">>,
                              <<"children", "post">>, <<"post", "postLink">>}
      BY <2>2
    <2>5. from = "children" => Lk!Topmost.kid > Len(Kids[Lk!Topmost.target.node])
      BY <2>1
    <2>6. linkers' = <<[Lk!Topmost EXCEPT !.step = next]>> \o Tail(linkers)
      BY <2>1, <2>2
    <2>7. IF from \in {"enter", "children"} THEN done' = done
          ELSE done' = Append(done, [target |-> Lk!Topmost.target, step |-> from])
      BY <2>1, <2>2
    <2>8. OnFrom(from, next)
      BY <2>1, <2>3, <2>4, <2>5, <2>6, <2>7, Zenon DEF OnFrom
    <2> QED BY <2>8, GoesOnStep
  <1>6. ASSUME NEW target, Lk!TearDown(target) PROVE LinkInv(tree)'
    BY <1>6, LinkingSame DEF Lk!TearDown
  <1>7. ASSUME NEW link, Lk!DestroyScope(link) PROVE LinkInv(tree)'
    BY <1>7, LinkingSame DEF Lk!DestroyScope
  <1>8. CASE UNCHANGED Lk!linkVars
    BY <1>8, LinkingSame DEF Lk!linkVars
  <1> QED BY <1>2, <1>3, <1>4, <1>5, <1>6, <1>7, <1>8, CallStep, BindingThrowsStep, DescendsStep, CallLinkerStep,
             LinkerReturnsStep, DrainStep, AnswerStep, DropStep, InstallStep DEF Lk!Next

\* The invariant says what the properties say of the calls made so far.
LEMMA CalledAtPlace ==
  ASSUME LinkTypes, CalledInOrder, NEW t, NEW s, Called(t, s)
  PROVE  /\ Lk!At(t, s) \in DOMAIN done /\ done[Lk!At(t, s)] = [target |-> t, step |-> s]
         /\ CalledAfter(Lk!At(t, s), t, s)
  <1>1. PICK k \in DOMAIN done : done[k] = [target |-> t, step |-> s]
    BY DEF Called, Those
  <1>2. Lk!At(t, s) \in DOMAIN done /\ done[Lk!At(t, s)] = [target |-> t, step |-> s]
    BY <1>1 DEF Lk!At
  <1>3. CalledAfter(Lk!At(t, s), done[Lk!At(t, s)].target, done[Lk!At(t, s)].step)
    BY <1>2 DEF CalledInOrder
  <1>4. done[Lk!At(t, s)].target = t /\ done[Lk!At(t, s)].step = s
    BY <1>2
  <1> QED BY <1>2, <1>3, <1>4

\* What was called before a place was called, at a place before it.
LEMMA EarlierPlace ==
  ASSUME LinkTypes, CalledInOrder, NEW k, NEW t, NEW s, Earlier(k, t, s)
  PROVE  Called(t, s) /\ Lk!At(t, s) < k
  <1>1. PICK j \in DOMAIN done : j < k /\ done[j] = [target |-> t, step |-> s]
    BY DEF Earlier
  <1>2. Called(t, s)
    BY <1>1 DEF Called, Those
  <1>3. Lk!At(t, s) \in DOMAIN done /\ done[Lk!At(t, s)] = [target |-> t, step |-> s]
    BY <1>2, CalledAtPlace
  <1>4. Lk!At(t, s) = j
    BY <1>1, <1>3 DEF CalledInOrder, Apart
  <1> QED BY <1>1, <1>2, <1>4

\* The invariant has the properties.
LEMMA OrderSuffices ==
  ASSUME NEW tree, LinkingGiven(tree), LinkInv(tree)
  PROVE  Lk!TypeOK /\ Lk!LinksInOrder /\ Lk!StopsWhereItThrew /\ Lk!LinkedOnce
  <1>1. LinkTypes /\ HostsWait /\ BegunInOrder(tree) /\ CalledInOrder /\ Based /\ CutOK
    BY DEF LinkInv
  <1>2. \A k \in DOMAIN done : /\ done[k] \in LinkEvents /\ done[k] = [target |-> done[k].target, step |-> done[k].step]
                               /\ Called(done[k].target, done[k].step)
    BY <1>1, CalledForm
  <1>3. Lk!TypeOK
    <2>1. linked \in [Lk!Linkers -> Nat] /\ lFailures \in 0 .. MaxFailures
      BY <1>1 DEF LinkTypes
    <2>2. \A q \in DOMAIN lQueue : \A t \in Lk!Range(lQueue[q]) : t.node \in Hosts
      BY <1>1 DEF HostsWait, Lk!Range, Those
    <2>3. ASSUME NEW d \in Lk!Range(done) PROVE d.target.node \in Nodes /\ d.step \in Lk!Range(Lk!Steps)
      <3>1. d \in LinkEvents
        BY <1>2 DEF Lk!Range
      <3>2. d.target.node \in Nodes /\ d.step \in {"install", "drop", "controllers", "pre", "post", "postLink"}
        BY <3>1 DEF LinkEvents, Targets
      <3>3. {"install", "drop", "controllers", "pre", "post", "postLink"} \subseteq Lk!Range(Lk!Steps)
        <4>1. /\ Lk!Steps[1] = "install" /\ Lk!Steps[2] = "drop" /\ Lk!Steps[3] = "controllers"
              /\ Lk!Steps[4] = "pre" /\ Lk!Steps[5] = "post" /\ Lk!Steps[6] = "postLink"
              /\ DOMAIN Lk!Steps = 1 .. 6
          BY DEF Lk!Steps
        <4>2. 1 \in 1 .. 6 /\ 2 \in 1 .. 6 /\ 3 \in 1 .. 6 /\ 4 \in 1 .. 6 /\ 5 \in 1 .. 6 /\ 6 \in 1 .. 6
          OBVIOUS
        <4> QED BY <4>1, <4>2, Zenon DEF Lk!Range
      <3> QED BY <3>2, <3>3
    <2>4. \A u \in lThrown : u.target.node \in Bound /\ u.target \in u.left
      BY <1>1 DEF CutOK
    <2> QED BY <2>1, <2>2, <2>3, <2>4 DEF Lk!TypeOK
  <1>4. Lk!LinkedOnce
    BY <1>1 DEF CalledInOrder, Apart, Lk!LinkedOnce
  <1>5. ASSUME NEW d \in Lk!Range(done), NEW t, t = d.target
        PROVE  /\ d.step = "postLink" => /\ Lk!At(t, "controllers") < Lk!At(t, "pre")
                                         /\ Lk!At(t, "pre") < Lk!At(t, "post")
                                         /\ Lk!At(t, "post") < Lk!At(t, "postLink")
               /\ d.step = "post" =>
                    \A n \in Lk!Range(Kids[t.node]) : n \notin Hosts \cup Conflicting =>
                      /\ Lk!HasDone(Lk!Target(t.link, n), "postLink")
                      /\ Lk!At(t, "pre") < Lk!At(Lk!Target(t.link, n), "controllers")
                      /\ Lk!At(Lk!Target(t.link, n), "postLink") < Lk!At(t, "post")
               /\ Lk!Settled(t) /\ d.step # "drop" /\ t.node \notin Conflicting => Lk!HasDone(t, "postLink") \/ Lk!Left(t)
    <2>1. d \in LinkEvents /\ Called(t, d.step) /\ t \in Targets
      <3>1. d \in LinkEvents /\ Called(d.target, d.step)
        BY <1>2 DEF Lk!Range
      <3> QED BY <1>5, <3>1 DEF LinkEvents
    <2>2. \A u, s : Called(u, s) => CalledAfter(Lk!At(u, s), u, s)
      BY <1>1, CalledAtPlace
    <2>3. \A k, u, s : Earlier(k, u, s) => Called(u, s) /\ Lk!At(u, s) < k
      BY <1>1, EarlierPlace
    <2>4. \A u : /\ Called(u, "postLink") => Called(u, "post") /\ Lk!At(u, "post") < Lk!At(u, "postLink")
                 /\ Called(u, "post") => Called(u, "pre") /\ Lk!At(u, "pre") < Lk!At(u, "post")
                 /\ Called(u, "pre") => Called(u, "controllers") /\ Lk!At(u, "controllers") < Lk!At(u, "pre")
      BY <2>2, <2>3 DEF CalledAfter
    <2>5. \A u, s : Lk!HasDone(u, s) <=> Called(u, s)
      BY DEF Lk!HasDone, Called, Lk!Range, Those
    <2>6. d.step = "postLink" => /\ Lk!At(t, "controllers") < Lk!At(t, "pre")
                                 /\ Lk!At(t, "pre") < Lk!At(t, "post")
                                 /\ Lk!At(t, "post") < Lk!At(t, "postLink")
      BY <2>1, <2>4
    <2>7. ASSUME d.step = "post", NEW n \in Lk!Range(Kids[t.node]), n \notin Hosts \cup Conflicting
          PROVE  /\ Lk!HasDone(Lk!Target(t.link, n), "postLink")
                 /\ Lk!At(t, "pre") < Lk!At(Lk!Target(t.link, n), "controllers")
                 /\ Lk!At(Lk!Target(t.link, n), "postLink") < Lk!At(t, "post")
      <3>1. PICK j \in DOMAIN Kids[t.node] : n = Kids[t.node][j]
        BY <2>7 DEF Lk!Range
      <3>2. Lk!Target(t.link, n) = Kid(t, j)
        BY <3>1 DEF Lk!Target, Kid
      <3>3. Earlier(Lk!At(t, "post"), Kid(t, j), "postLink")
        BY <2>1, <2>2, <2>7, <3>1 DEF CalledAfter
      <3>4. Called(Kid(t, j), "postLink") /\ Lk!At(Kid(t, j), "postLink") < Lk!At(t, "post")
        BY <2>3, <3>3
      <3>5. Called(Kid(t, j), "controllers")
        BY <2>4, <3>4
      <3>6. t.node \in Nodes /\ t.link.linker \in Lk!Linkers /\ t = [link |-> t.link, node |-> t.node]
        BY <2>1 DEF Targets, LinkNames
      <3>7. Kids[t.node][j] # Roots[t.link.linker]
        <4>1. Begun(t)
          BY <2>1 DEF Begun
        <4>2. t.node \in tree[t.link.linker]
          BY <1>1, <4>1 DEF BegunInOrder
        <4> QED BY <3>6, <4>2 DEF LinkingGiven
      <3>8. Kid(t, j).node = Kids[t.node][j] /\ Kid(t, j).link = t.link
        BY DEF Kid
      <3>9. Earlier(Lk!At(Kid(t, j), "controllers"), t, "pre")
        <4>1. CalledAfter(Lk!At(Kid(t, j), "controllers"), Kid(t, j), "controllers")
          BY <2>2, <3>5
        <4>2. Earlier(Lk!At(Kid(t, j), "controllers"), [link |-> Kid(t, j).link, node |-> t.node], "pre")
          BY <3>6, <3>7, <3>8, <4>1 DEF CalledAfter
        <4> QED BY <3>6, <3>8, <4>2
      <3>10. Lk!At(t, "pre") < Lk!At(Kid(t, j), "controllers")
        BY <2>3, <3>9
      <3> QED BY <2>5, <3>2, <3>4, <3>10
    <2>8. ASSUME Lk!Settled(t), d.step # "drop", t.node \notin Conflicting PROVE Lk!HasDone(t, "postLink") \/ Lk!Left(t)
      <3>1. Runs(t) \/ Called(t, "postLink") \/ Lk!Left(t)
        BY <1>1, <2>1, <2>8 DEF CalledInOrder, Cut, Lk!Left
      <3>2. ASSUME Runs(t) PROVE FALSE
        <4>1. PICK i : NodeAt(i) /\ linkers[i].target = t
          BY <3>2 DEF Runs, RunsAt
        <4>2. linkers[i] \in NodeFrames /\ i \in DOMAIN linkers
          BY <1>1, <4>1 DEF Based, NodeAt
        <4>3. "target" \in DOMAIN linkers[i]
          BY <4>2 DEF NodeFrames
        <4> QED BY <2>8, <4>1, <4>2, <4>3 DEF Lk!Settled, Lk!Range
      <3> QED BY <2>5, <3>1, <3>2
    <2> QED BY <2>6, <2>7, <2>8
  <1>6. Lk!LinksInOrder
    BY <1>5 DEF Lk!LinksInOrder
  <1>7. Lk!StopsWhereItThrew
    <2>1. \A t, s : Lk!HasDone(t, s) <=> Called(t, s)
      BY DEF Lk!HasDone, Called, Lk!Range, Those
    <2>2. ASSUME NEW t, NEW j \in DOMAIN Kids[t.node]
          PROVE  Kids[t.node][j] \in Lk!Range(Kids[t.node]) /\ Kid(t, j) = Lk!Target(t.link, Kids[t.node][j])
      BY DEF Lk!Range, Lk!Target, Kid
    <2>3. ASSUME NEW u \in lThrown, NEW t \in u.left, t # u.target
          PROVE  \E n \in Lk!Range(Kids[t.node]) : Lk!Target(t.link, n) \in u.left
      <3>1. PICK j \in DOMAIN Kids[t.node] : Kid(t, j) \in u.left
        BY <1>1, <2>3 DEF CutOK
      <3> QED BY <2>2, <3>1
    <2>4. ASSUME NEW u \in lThrown
          PROVE  ~Lk!HasDone(u.target, "controllers") /\ \A t \in u.left : ~Lk!HasDone(t, "post")
      BY <1>1, <2>1 DEF CutOK
    <2> QED BY <2>3, <2>4, Zenon DEF Lk!StopsWhereItThrew
  <1> QED BY <1>3, <1>4, <1>6, <1>7

\* Only an answer for an element that is still wanted installs a template.
LEMMA LateStep ==
  ASSUME LinkTypes, [Lk!Next]_(Lk!linkVars), NEW t, Len(done') > Len(done),
         Lk!Last(done') = [target |-> t, step |-> "install"]
  PROVE  t \notin lCancelled /\ t.link \notin lDead
  <1>1. done \in Seq(LinkEvents) /\ Len(done) \in Nat
    BY DEF LinkTypes
  <1>2. ASSUME done' = done PROVE FALSE
    BY <1>1, <1>2
  <1>3. ASSUME NEW u, NEW s, Lk!Did(u, s) PROVE u = t /\ s = "install"
    <2> DEFINE e == [target |-> u, step |-> s]
    <2>1. done' = Append(done, e)
      BY <1>3 DEF Lk!Did
    <2>2. done \in Seq(LinkEvents \cup {e}) /\ e \in LinkEvents \cup {e}
      BY <1>1
    <2>3. Len(done') = Len(done) + 1 /\ done'[Len(done) + 1] = e
      BY <2>1, <2>2, AppendFacts
    <2>4. e = [target |-> t, step |-> "install"]
      BY <2>3 DEF Lk!Last
    <2> QED BY <2>4
  <1>4. ASSUME NEW step \in {"controllers", "pre", "post", "postLink"}, NEW throws, Lk!Call(step, throws) PROVE FALSE
    <2>1. step = "install"
      BY <1>3, <1>4 DEF Lk!Call
    <2> QED BY <1>4, <2>1
  <1>5. CASE Lk!Drop
    <2>1. "drop" = "install"
      BY <1>3, <1>5 DEF Lk!Drop
    <2> QED BY <2>1
  <1>6. CASE Lk!Install
    <2>1. Head(arrived).entry = t
      BY <1>3, <1>6 DEF Lk!Install
    <2>2. ~Lk!Unwanted(Head(arrived).entry)
      BY <1>6 DEF Lk!Install
    <2> QED BY <2>1, <2>2 DEF Lk!Unwanted
  <1>7. Lk!EnterHost \/ Lk!Conflict \/ Lk!Enter \/ Lk!BindingThrows \/ Lk!NextChild \/ Lk!ChildrenDone
        \/ Lk!LinkerReturns \/ Lk!Drain
          => done' = done
    BY DEF Lk!EnterHost, Lk!Conflict, Lk!Enter, Lk!BindingThrows, Lk!NextChild, Lk!ChildrenDone, Lk!LinkerReturns, Lk!Drain
  <1>8. /\ \A l : Lk!CallLinker(l) => done' = done
        /\ \A k, ok : Lk!Answer(k, ok) => done' = done
        /\ \A target : Lk!TearDown(target) => done' = done
        /\ \A link : Lk!DestroyScope(link) => done' = done
    BY DEF Lk!CallLinker, Lk!Answer, Lk!TearDown, Lk!DestroyScope
  <1>9. UNCHANGED Lk!linkVars => done' = done
    BY DEF Lk!linkVars
  <1> QED BY <1>2, <1>4, <1>5, <1>6, <1>7, <1>8, <1>9 DEF Lk!Next

\* The nodes of a tree link in order: each calls its functions once, controllers
\* before pre-link functions before post-link functions before $postLink, its
\* children between its own, whichever of them throws and whenever a template
\* comes.  Bindings to a scope that throw stop the node they are for and those it is
\* in, which call no post-link function, and no other.  And no template is installed
\* in an element that was torn down.
THEOREM NodesLinkInOrder ==
  ASSUME NEW CONSTANT tree, LinkingGiven(tree)
  PROVE  Lk!Init /\ [][Lk!Next]_(Lk!linkVars) =>
           [](Lk!TypeOK /\ Lk!LinksInOrder /\ Lk!StopsWhereItThrew /\ Lk!LinkedOnce) /\ Lk!NothingInstalledLate
  <1> DEFINE Inv == LinkInv(tree)
             Goal == Lk!TypeOK /\ Lk!LinksInOrder /\ Lk!StopsWhereItThrew /\ Lk!LinkedOnce
             Late == \A t \in Lk!Entries : Len(done') > Len(done) /\ Lk!Last(done') = [target |-> t, step |-> "install"]
                       => t \notin lCancelled /\ t.link \notin lDead
  <1>1. Lk!Init => Inv
    BY LinkingStarts
  <1>2. Inv /\ [Lk!Next]_(Lk!linkVars) => Inv'
    BY LinkingStep
  <1>3. Inv => Goal
    BY OrderSuffices
  <1>4. Inv /\ [Lk!Next]_(Lk!linkVars) => [Late]_(Lk!linkVars)
    BY LateStep DEF LinkInv
  <1>5. Lk!Init /\ [][Lk!Next]_(Lk!linkVars) => [](Inv) /\ []Goal
    BY <1>1, <1>2, <1>3, PTL
  <1>6. Lk!Init /\ [][Lk!Next]_(Lk!linkVars) => [][Late]_(Lk!linkVars)
    BY <1>1, <1>2, <1>4, PTL
  <1> QED BY <1>5, <1>6 DEF Lk!NothingInstalledLate
=============================================================================
