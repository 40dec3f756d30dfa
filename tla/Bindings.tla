------------------------------ MODULE Bindings ------------------------------
(***************************************************************************)
(* The controllers of one element and their bindings: the order in which a  *)
(* controller is built, bound and told, the watches that keep the bindings  *)
(* up to date, and the queue that collects the changes of a digest for      *)
(* $onChanges.  The digest is that of ScopeDigest, for the isolate scope    *)
(* alone.                                                                   *)
(***************************************************************************)
EXTENDS Naturals, Sequences, FiniteSets, SequencesExt

CONSTANTS
  Controllers,   \* 1 .. N, in the order of their directives
  Owner,         \* a sequence: the controller of each binding
  Mode,          \* a sequence: "=", "<" or "@"
  Source,        \* a sequence: the cell of the surrounding scope each reads
  Cells, Values,
  Text,          \* the text of an "@" attribute, before it is interpolated
  Unseen,        \* what a watch has seen before its first visit
  SharedDigest,  \* a hook may digest although another controller has a queue entry
  Passes         \* bound: passes of a digest, for the TTL

VARIABLES
  cell,          \* the surrounding scope
  local,         \* the bound properties
  lastValue,     \* lastValue of the "=" bindings
  watched,       \* what each watch has last seen
  wired,         \* bindings that were wired: all of a controller, or the first few
  registered,    \* controllers whose $destroy listener is on the scope
  pending,       \* the changes queue: controllers in order, each with its record
  posted,        \* flushes in the post-digest queue
  destroyed,     \* the scope is destroyed
  lastSeen,      \* $$lastDirtyWatch, or 0
  stack,         \* calls in progress, the running one first
  told,          \* history: the value of a binding its controller was told last, or
                 \* was wired with when its first changes could not be told
  slipped,       \* history: bindings whose first visit took a value nobody was told
  wrote          \* history: values written to either side of a cell since a digest

bindingVars == <<cell, local, lastValue, watched, wired, registered, pending, posted, destroyed,
                 lastSeen, stack, told, slipped, wrote>>

Bound == DOMAIN Owner
OneWay(b) == Mode[b] \in {"<", "@"}
Of(c) == {b \in Bound : Owner[b] = c}

\* The watches, in the order wireIsolateBindings registers them.
Watch(b, side) == [binding |-> b, side |-> side]
WatchList ==
  FlattenSeq([b \in Bound |-> IF Mode[b] = "=" THEN <<Watch(b, "above"), Watch(b, "below")>>
                              ELSE <<Watch(b, "above")>>])
Watching == IF destroyed THEN <<>> ELSE SelectSeq(WatchList, LAMBDA w : w.binding \in wired)

\* A frame: the seam of a controller, a digest, a flush or a hook.
Seam(c, step, initial) == [kind |-> "seam", ctrl |-> c, step |-> step, initial |-> initial]
Digest(pass, at, dirty) == [kind |-> "digest", pass |-> pass, at |-> at, dirty |-> dirty]
Flush(list) == [kind |-> "flush", list |-> list]
Hook(c) == [kind |-> "hook", ctrl |-> c]

Topmost == Head(stack)
In(kind) == stack # <<>> /\ Topmost.kind = kind
Becomes(frame) == stack' = <<frame>> \o Tail(stack)
Returned == stack' = Tail(stack)

Init ==
  /\ cell \in [Cells -> Values]
  /\ local = [b \in Bound |-> Text] /\ lastValue = [b \in Bound |-> Text]
  /\ watched = [w \in Range(WatchList) |-> Unseen]
  /\ wired = {} /\ registered = {} /\ pending = <<>> /\ posted = 0 /\ destroyed = FALSE /\ lastSeen = 0
  /\ stack = <<Seam(1, "construct", <<>>)>>
  /\ told = [b \in Bound |-> Text] /\ slipped = {} /\ wrote = [c \in Cells |-> {}]

-----------------------------------------------------------------------------
(* runControllerSeam                                                        *)

Settled(c) == IF c \in Controllers /\ c + 1 \in Controllers
              THEN Becomes(Seam(c + 1, "construct", <<>>)) ELSE Returned

Constructs == In("seam") /\ Topmost.step = "construct"

\* A constructor, or the lookup of its controller, throws: the next directive.
ConstructFails ==
  /\ Constructs
  /\ Settled(Topmost.ctrl)
  /\ UNCHANGED <<cell, local, lastValue, watched, wired, registered, pending, posted, destroyed,
                 lastSeen, told, slipped, wrote>>

\* What a binding starts with: the raw text of an attribute that is interpolated,
\* or the present value of its expression.
Start(b) == IF Mode[b] = "@" THEN Text ELSE cell[Source[b]]

\* The bindings of a set are given their first values and their watches.
Wires(bindings) ==
  /\ local' = [b \in Bound |-> IF b \in bindings THEN Start(b) ELSE local[b]]
  /\ lastValue' = [b \in Bound |-> IF b \in bindings THEN Start(b) ELSE lastValue[b]]
  /\ wired' = wired \cup bindings
  /\ UNCHANGED <<cell, watched, pending, posted, destroyed, lastSeen, slipped, wrote>>

\* Construct, wire and register for $destroy: the first changes are recorded with
\* what each binding starts with.
Wire ==
  /\ Constructs
  /\ LET mine == Of(Topmost.ctrl)
     IN  /\ Wires(mine)
         /\ Becomes(Seam(Topmost.ctrl, "init", [b \in {b \in mine : OneWay(b)} |-> Start(b)]))
  /\ registered' = registered \cup {Topmost.ctrl}
  /\ UNCHANGED told

\* The expression of the k-th binding throws.  The watches of those before it
\* stay; there is no $destroy listener, no $onInit and nothing is told of them.
WireFails(k) ==
  /\ Constructs /\ k \in Of(Topmost.ctrl)
  /\ LET before == {b \in Of(Topmost.ctrl) : b < k}
     IN  /\ Wires(before)
         /\ told' = [b \in Bound |-> IF b \in before THEN Start(b) ELSE told[b]]
  /\ Settled(Topmost.ctrl)
  /\ UNCHANGED registered

\* $onInit is over, by a throw or not; $onChanges is told the first changes.
InitialChanges ==
  /\ In("seam") /\ Topmost.step = "init"
  /\ told' = [b \in Bound |-> IF b \in DOMAIN Topmost.initial THEN Topmost.initial[b] ELSE told[b]]
  /\ Settled(Topmost.ctrl)
  /\ UNCHANGED <<cell, local, lastValue, watched, wired, registered, pending, posted, destroyed,
                 lastSeen, slipped, wrote>>

-----------------------------------------------------------------------------
(* Application code: turns, $onInit and $onChanges                          *)

User == stack = <<>> \/ In("hook") \/ (In("seam") /\ Topmost.step = "init")

AssignCell(c, v) ==
  /\ User /\ ~destroyed /\ cell[c] # v
  /\ cell' = [cell EXCEPT ![c] = v]
  /\ wrote' = [wrote EXCEPT ![c] = @ \cup {v}]
  /\ UNCHANGED <<local, lastValue, watched, wired, registered, pending, posted, destroyed,
                 lastSeen, stack, told, slipped>>

AssignLocal(b, v) ==
  /\ User /\ ~destroyed /\ Mode[b] = "=" /\ b \in wired /\ local[b] # v
  /\ local' = [local EXCEPT ![b] = v]
  /\ wrote' = [wrote EXCEPT ![Source[b]] = @ \cup {v}]
  /\ UNCHANGED <<cell, lastValue, watched, wired, registered, pending, posted, destroyed,
                 lastSeen, stack, told, slipped>>

\* $destroy: the listener of each controller that has one drops what it was to be
\* told; what a controller without one was to be told stays in the queue.
Destroy ==
  /\ stack = <<>> \/ In("hook")
  /\ ~destroyed
  /\ destroyed' = TRUE
  /\ pending' = SelectSeq(pending, LAMBDA e : e.ctrl \notin registered)
  /\ UNCHANGED <<cell, local, lastValue, watched, wired, registered, posted, lastSeen, stack,
                 told, slipped, wrote>>

CallDigest ==
  /\ stack = <<>> \/ (In("hook") /\ (SharedDigest \/ Cardinality({Owner[b] : b \in wired}) = 1) /\ Len(stack) <= 3)
  /\ stack' = <<Digest(Passes, Len(Watching), FALSE)>> \o stack
  /\ lastSeen' = 0
  /\ UNCHANGED <<cell, local, lastValue, watched, wired, registered, pending, posted, destroyed,
                 told, slipped, wrote>>

-----------------------------------------------------------------------------
(* The digest                                                              *)

Visits(k) == In("digest") /\ Topmost.at = k /\ k > 0
Reads(w) == IF w.side = "above" THEN cell[Source[w.binding]] ELSE local[w.binding]
Moves(k, dirty) == Becomes(Digest(Topmost.pass, IF ~dirty /\ lastSeen = k THEN 0 ELSE k - 1,
                                  Topmost.dirty \/ dirty))

Gone(k) ==
  /\ Visits(k) /\ k > Len(Watching)
  /\ Moves(k, FALSE)
  /\ UNCHANGED <<cell, local, lastValue, watched, wired, registered, pending, posted, destroyed,
                 lastSeen, told, slipped, wrote>>

Clean(k) ==
  /\ Visits(k) /\ k <= Len(Watching)
  /\ watched[Watching[k]] = Reads(Watching[k])
  /\ Moves(k, FALSE)
  /\ UNCHANGED <<cell, local, lastValue, watched, wired, registered, pending, posted, destroyed,
                 lastSeen, told, slipped, wrote>>

Dirty(k) ==
  /\ Visits(k) /\ k <= Len(Watching)
  /\ watched[Watching[k]] # Reads(Watching[k])
  /\ watched' = [watched EXCEPT ![Watching[k]] = Reads(Watching[k])]
  /\ lastSeen' = k
  /\ Moves(k, TRUE)

\* ChangesQueue.record: the first previous value stays, the current one advances.
Change(current, previous) == [current |-> current, previous |-> previous]
Entry(c, record) == [ctrl |-> c, record |-> record]
\* A mistake the properties rule out: a second change of one digest replaces the
\* first, and with it the value the controller was told last.
RecordedAnew(c, b, change) ==
  LET at == {k \in DOMAIN pending : pending[k].ctrl = c}
      merge(record) == [x \in DOMAIN record \cup {b} |-> IF x = b THEN change ELSE record[x]]
  IN  IF at = {} THEN Append(pending, Entry(c, merge(<<>>)))
      ELSE [k \in DOMAIN pending |-> IF k \in at THEN Entry(c, merge(pending[k].record)) ELSE pending[k]]

Recorded(c, b, change) ==
  LET at == {k \in DOMAIN pending : pending[k].ctrl = c}
      merge(record) ==
        [x \in DOMAIN record \cup {b} |->
           IF x # b THEN record[x]
           ELSE IF b \in DOMAIN record THEN [record[b] EXCEPT !.current = change.current] ELSE change]
  IN  IF at = {} THEN Append(pending, Entry(c, merge(<<>>)))
      ELSE [k \in DOMAIN pending |-> IF k \in at THEN Entry(c, merge(pending[k].record)) ELSE pending[k]]

\* The listener of "<" and "@": the first visit is not a change.
OneWayListener(k) ==
  /\ Dirty(k)
  /\ LET b == Watching[k].binding
         before == watched[Watching[k]]
     IN  /\ OneWay(b)
         /\ local' = [local EXCEPT ![b] = cell[Source[b]]]
         /\ pending' = IF before = Unseen THEN pending
                       ELSE Recorded(Owner[b], b, Change(cell[Source[b]], before))
         /\ posted' = IF before # Unseen /\ pending = <<>> THEN posted + 1 ELSE posted
         /\ slipped' = IF before = Unseen /\ told[b] # cell[Source[b]] THEN slipped \cup {b} ELSE slipped
  /\ UNCHANGED <<cell, lastValue, wired, registered, destroyed, told, wrote>>

\* The two listeners of "=".
FromAbove(k) ==
  /\ Dirty(k)
  /\ LET b == Watching[k].binding
     IN  /\ Mode[b] = "=" /\ Watching[k].side = "above"
         /\ local' = [local EXCEPT ![b] = cell[Source[b]]]
         /\ lastValue' = [lastValue EXCEPT ![b] = cell[Source[b]]]
  /\ UNCHANGED <<cell, wired, registered, pending, posted, destroyed, told, slipped, wrote>>

FromBelow(k) ==
  /\ Dirty(k)
  /\ LET b == Watching[k].binding
     IN  /\ Mode[b] = "=" /\ Watching[k].side = "below"
         /\ cell' = IF local[b] # lastValue[b] THEN [cell EXCEPT ![Source[b]] = local[b]] ELSE cell
         /\ lastValue' = [lastValue EXCEPT ![b] = local[b]]
  /\ UNCHANGED <<local, wired, registered, pending, posted, destroyed, told, slipped, wrote>>

PassDone == In("digest") /\ Topmost.at = 0
Converged == PassDone /\ Topmost.pass > 0 /\ ~Topmost.dirty

AgainOrAbort ==
  /\ PassDone /\ Topmost.pass > 0 /\ Topmost.dirty
  /\ IF Topmost.pass = 1 THEN Returned
     ELSE Becomes(Digest(Topmost.pass - 1, Len(Watching), FALSE))
  /\ UNCHANGED <<cell, local, lastValue, watched, wired, registered, pending, posted, destroyed,
                 lastSeen, told, slipped, wrote>>

\* The post-digest queue follows: pass 0.
Converges ==
  /\ Converged
  /\ Becomes(Digest(0, 0, FALSE))
  /\ wrote' = [c \in Cells |-> {}]
  /\ UNCHANGED <<cell, local, lastValue, watched, wired, registered, pending, posted, destroyed,
                 lastSeen, told, slipped>>

RunPosted ==
  /\ PassDone /\ Topmost.pass = 0 /\ posted > 0
  /\ posted' = posted - 1
  /\ stack' = <<Flush([k \in DOMAIN pending |-> pending[k].ctrl])>> \o stack
  /\ UNCHANGED <<cell, local, lastValue, watched, wired, registered, pending, destroyed,
                 lastSeen, told, slipped, wrote>>

DigestReturns ==
  /\ PassDone /\ Topmost.pass = 0 /\ posted = 0
  /\ Returned
  /\ UNCHANGED <<cell, local, lastValue, watched, wired, registered, pending, posted, destroyed,
                 lastSeen, told, slipped, wrote>>

-----------------------------------------------------------------------------
(* flushChangesQueue                                                        *)

Batch(c) == {pending[k].record : k \in {k \in DOMAIN pending : pending[k].ctrl = c}}

\* The next controller of the list; it may have nothing pending any more.
Take ==
  /\ In("flush") /\ Topmost.list # <<>>
  /\ LET c == Head(Topmost.list)
         rest == Flush(Tail(Topmost.list))
     IN  IF Batch(c) = {}
         THEN Becomes(rest) /\ UNCHANGED <<pending, told, slipped>>
         ELSE /\ stack' = <<Hook(c), rest>> \o Tail(stack)
              /\ pending' = SelectSeq(pending, LAMBDA e : e.ctrl # c)
              /\ \E record \in Batch(c) :
                   /\ told' = [b \in Bound |-> IF b \in DOMAIN record THEN record[b].current ELSE told[b]]
                   /\ slipped' = slipped \ DOMAIN record
  /\ UNCHANGED <<cell, local, lastValue, watched, wired, registered, posted, destroyed, lastSeen,
                 wrote>>

\* $onChanges is over, or the list is.
HookOrFlushEnds ==
  /\ In("hook") \/ (In("flush") /\ Topmost.list = <<>>)
  /\ Returned
  /\ UNCHANGED <<cell, local, lastValue, watched, wired, registered, pending, posted, destroyed,
                 lastSeen, told, slipped, wrote>>

Next ==
  \/ ConstructFails
  \/ Wire
  \/ \E k \in Bound : WireFails(k)
  \/ InitialChanges
  \/ \E c \in Cells, v \in Values : AssignCell(c, v)
  \/ \E b \in Bound, v \in Values : AssignLocal(b, v)
  \/ Destroy
  \/ CallDigest
  \/ \E k \in 1 .. Len(WatchList) :
       Gone(k) \/ Clean(k) \/ OneWayListener(k) \/ FromAbove(k) \/ FromBelow(k)
  \/ AgainOrAbort
  \/ Converges
  \/ RunPosted
  \/ DigestReturns
  \/ Take
  \/ HookOrFlushEnds

-----------------------------------------------------------------------------
(* Properties                                                              *)

TypeOK ==
  /\ cell \in [Cells -> Values]
  /\ local \in [Bound -> Values \cup {Text}] /\ lastValue \in [Bound -> Values \cup {Text}]
  /\ told \in [Bound -> Values \cup {Text}]
  /\ watched \in [Range(WatchList) -> Values \cup {Unseen}]
  /\ wired \subseteq Bound /\ registered \subseteq Controllers /\ slipped \subseteq Bound
  /\ posted \in Nat /\ lastSeen \in 0 .. Len(WatchList)
  /\ destroyed \in BOOLEAN
  /\ \A e \in Range(pending) : DOMAIN e.record \subseteq Of(e.ctrl) \cap wired

\* At rest a controller was told the value each of its wired "<" inputs has, so it
\* can keep what it derived from them.  What changed between the wiring and the
\* first visit of a watch slips through.
ChangesTold ==
  stack = <<>> /\ posted = 0 /\ ~destroyed =>
    \A b \in wired \ slipped : Mode[b] = "<" => told[b] = local[b]

\* A change that is queued is going to be told: a flush is due, or one in
\* progress has the controller on its list.
ChangesQueued ==
  \A e \in Range(pending) :
    posted > 0 \/ \E f \in Range(stack) : f.kind = "flush" /\ e.ctrl \in Range(f.list)

\* What $onChanges is told follows on what it was told before, however many
\* passes a value took, and once the scope is destroyed no hook is called of a
\* controller that was wired to the end.
ChangesChain ==
  [][\A c \in Controllers :
       Take /\ stack' # stack /\ Head(stack') = Hook(c) =>
         /\ destroyed => c \notin registered
         /\ \A record \in Batch(c) : \A b \in DOMAIN record :
              /\ record[b].current = local[b]
              /\ Mode[b] = "<" /\ b \notin slipped => record[b].previous = told[b]]_bindingVars

\* A digest that converges leaves both sides of a "=" binding equal, and if one
\* value was written since the last digest, on either side, equal to it.
TwoWaySynced ==
  [][Converges /\ ~destroyed =>
       \A b \in wired : Mode[b] = "=" =>
         /\ local[b] = cell[Source[b]]
         /\ Cardinality(wrote[Source[b]]) = 1 => local[b] \in wrote[Source[b]]]_bindingVars
=============================================================================
