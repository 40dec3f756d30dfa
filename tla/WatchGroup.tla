----------------------------- MODULE WatchGroup -----------------------------
(***************************************************************************)
(* $watchGroup: one listener for several watches.  Each watch of the group  *)
(* notes its new and old value and queues one call of the listener with     *)
(* $evalAsync, unless one is queued.  The digest around it is that of       *)
(* ScopeDigest, with one scope and nothing else queued: the queue is        *)
(* drained, the watchers are visited from the last to the first, and a pass *)
(* ends early at the watcher that was dirty last.                           *)
(***************************************************************************)
EXTENDS Naturals, Sequences, FiniteSets

CONSTANTS
  Watches,       \* watchers of the scope, in the order 1 .. N they were registered
  Groups,        \* the groups the run begins with: subsets of Watches
  Values,
  Unseen,        \* what a watch has seen before its first visit
  ListenerMay,   \* what the group's listener may do: "assign", "throw"
  Passes         \* bound: passes of a digest, for the TTL

VARIABLES
  group,         \* the watches of the group
  cell,          \* the value each watch function reads
  last,          \* the value each watcher has last seen
  newValues, oldValues,
  scheduled,     \* changeReactionScheduled
  firstRun,
  live,          \* the group is not deregistered; shouldCall of an empty one
  queued,        \* calls of the group's listener in the $evalAsync queue
  lastDirty,     \* the watcher that was dirty last, or 0
  pass,          \* passes left in the digest in progress, 0 outside a digest
  at,            \* the watcher the pass visits next; 0 at the end of a pass
  dirty,         \* a watcher was dirty in this pass
  heard          \* history: what the listener was last called with

groupVars == <<group, cell, last, newValues, oldValues, scheduled, firstRun, live, queued,
               lastDirty, pass, at, dirty, heard>>

N == Cardinality(Watches)
Grouped(values) == [i \in group |-> values[i]]
Before == [i \in Watches |-> Unseen]

\* $watchGroup was just called; an empty group has queued its one call.
Init ==
  /\ group \in Groups
  /\ cell \in [Watches -> Values] /\ last = Before
  /\ newValues = Before /\ oldValues = Before
  /\ scheduled = FALSE /\ firstRun = TRUE /\ live = TRUE
  /\ queued = IF group = {} THEN 1 ELSE 0
  /\ lastDirty = 0 /\ pass = 0 /\ at = 0 /\ dirty = FALSE
  /\ heard = <<>>

-----------------------------------------------------------------------------
(* Application code, between digests                                        *)

Assign(i, v) ==
  /\ pass = 0 /\ cell' = [cell EXCEPT ![i] = v]
  /\ UNCHANGED <<group, last, newValues, oldValues, scheduled, firstRun, live, queued,
                 lastDirty, pass, at, dirty, heard>>

\* The function $watchGroup returned.  A call that is queued stays queued.
Deregister ==
  /\ pass = 0 /\ live
  /\ live' = FALSE
  /\ lastDirty' = IF group = {} THEN lastDirty ELSE 0
  /\ UNCHANGED <<group, cell, last, newValues, oldValues, scheduled, firstRun, queued,
                 pass, at, dirty, heard>>

-----------------------------------------------------------------------------
(* The digest                                                              *)

BeginDigest ==
  /\ pass = 0
  /\ pass' = Passes /\ at' = N /\ dirty' = FALSE /\ lastDirty' = 0
  /\ UNCHANGED <<group, cell, last, newValues, oldValues, scheduled, firstRun, live, queued, heard>>

Draining == pass > 0 /\ at = N /\ ~dirty /\ queued > 0

\* Application code of the listener: an assignment to a cell, or none.
Assigned(may) ==
  cell' \in {cell} \cup (IF "assign" \in may THEN {[cell EXCEPT ![i] = v] : i \in Watches, v \in Values}
                                             ELSE {})

\* A mistake the properties rule out: changeReactionScheduled is left set.
CallListenerKeepsFlag(throws) ==
  /\ Draining /\ group # {}
  /\ throws => "throw" \in ListenerMay
  /\ queued' = queued - 1
  /\ firstRun' = FALSE
  /\ heard' = Grouped(newValues)
  /\ Assigned(ListenerMay)
  /\ UNCHANGED <<group, last, newValues, oldValues, scheduled, live, lastDirty, pass, at, dirty>>

\* watchGroupListener, run from the queue before a pass: if the listener throws,
\* the rest of it is not reached.
CallListener(throws) ==
  /\ Draining /\ group # {}
  /\ throws => "throw" \in ListenerMay
  /\ queued' = queued - 1
  /\ firstRun' = FALSE
  /\ heard' = Grouped(newValues)
  /\ scheduled' = throws
  /\ Assigned(ListenerMay)
  /\ UNCHANGED <<group, last, newValues, oldValues, live, lastDirty, pass, at, dirty>>

\* The call queued for an empty group, unless it was deregistered since.
CallEmpty ==
  /\ Draining /\ group = {}
  /\ queued' = queued - 1
  /\ UNCHANGED <<group, cell, last, newValues, oldValues, scheduled, firstRun, live, lastDirty,
                 pass, at, dirty, heard>>

Visits(i) == pass > 0 /\ ~Draining /\ at = i /\ i > 0
Watched(i) == i \notin group \/ live

EmptySlot(i) ==
  /\ Visits(i) /\ ~Watched(i)
  /\ at' = at - 1
  /\ UNCHANGED <<group, cell, last, newValues, oldValues, scheduled, firstRun, live, queued,
                 lastDirty, pass, dirty, heard>>

Seen(i) ==
  /\ Visits(i) /\ Watched(i) /\ cell[i] # last[i]
  /\ last' = [last EXCEPT ![i] = cell[i]]
  /\ lastDirty' = i /\ dirty' = TRUE /\ at' = at - 1

\* The listener $watchGroup gives to each of its watches.
GroupDirty(i) ==
  /\ Seen(i) /\ i \in group
  /\ newValues' = [newValues EXCEPT ![i] = cell[i]]
  /\ oldValues' = [oldValues EXCEPT ![i] = IF last[i] = Unseen THEN cell[i] ELSE last[i]]
  /\ scheduled' = TRUE
  /\ queued' = IF scheduled THEN queued ELSE queued + 1
  /\ UNCHANGED <<group, cell, firstRun, live, pass, heard>>

\* A watch of other code, whose listener may assign.
OtherDirty(i) ==
  /\ Seen(i) /\ i \notin group
  /\ Assigned({"assign"})
  /\ UNCHANGED <<group, newValues, oldValues, scheduled, firstRun, live, queued, pass, heard>>

Clean(i) ==
  /\ Visits(i) /\ Watched(i) /\ cell[i] = last[i]
  /\ at' = IF lastDirty = i THEN 0 ELSE at - 1
  /\ UNCHANGED <<group, cell, last, newValues, oldValues, scheduled, firstRun, live, queued,
                 lastDirty, pass, dirty, heard>>

\* A pass ends: another one, the end of the digest, or the abort at the TTL.
PassEnds ==
  /\ pass > 0 /\ ~Draining /\ at = 0
  /\ pass' = IF dirty \/ queued > 0 THEN pass - 1 ELSE 0
  /\ at' = IF pass' > 0 THEN N ELSE 0
  /\ dirty' = FALSE
  /\ UNCHANGED <<group, cell, last, newValues, oldValues, scheduled, firstRun, live, queued,
                 lastDirty, heard>>

Next ==
  \/ \E i \in Watches, v \in Values : Assign(i, v)
  \/ Deregister
  \/ BeginDigest
  \/ \E throws \in BOOLEAN : CallListener(throws)
  \/ CallEmpty
  \/ \E i \in Watches : EmptySlot(i) \/ GroupDirty(i) \/ OtherDirty(i) \/ Clean(i)
  \/ PassEnds

-----------------------------------------------------------------------------
(* Properties                                                              *)

TypeOK ==
  /\ group \subseteq Watches /\ cell \in [Watches -> Values]
  /\ last \in [Watches -> Values \cup {Unseen}]
  /\ newValues \in [Watches -> Values \cup {Unseen}] /\ oldValues \in [Watches -> Values \cup {Unseen}]
  /\ queued \in 0 .. 1 /\ lastDirty \in 0 .. N /\ pass \in 0 .. Passes /\ at \in 0 .. N
  /\ scheduled \in BOOLEAN /\ firstRun \in BOOLEAN /\ live \in BOOLEAN /\ dirty \in BOOLEAN

\* A digest that does not abort leaves the group's listener called with the
\* values its watches have, whichever of them changed in whichever pass.  The
\* listener is called through the queue, so this needs that no change is
\* swallowed by changeReactionScheduled and no pass ends too early.
GroupHears ==
  [][PassEnds /\ pass' = 0 /\ ~dirty /\ queued = 0 /\ live /\ group # {}
       => heard = Grouped(cell)]_groupVars

\* Changes seen in one pass are coalesced: a call is queued exactly while the
\* flag is set, and an old value is what its watch saw before.
Coalesced ==
  group # {} =>
    /\ scheduled <=> queued = 1
    /\ \A i \in group : last[i] # Unseen => newValues[i] = last[i] /\ oldValues[i] # Unseen
=============================================================================
