------------------------------ MODULE Pluralize ------------------------------
(***************************************************************************)
(* ng-pluralize: a watch on the count chooses the message, by the exact       *)
(* number or by the locale's category, and a second watch keeps the chosen    *)
(* message current, one at a time.  A message is [holds, counts]: the name it *)
(* shows and whether it shows {}, the count less the offset.                 *)
(***************************************************************************)
EXTENDS Integers, Sequences, FiniteSets, SequencesExt

CONSTANTS
  Counts,        \* what count may come to: [parsed, number], either may be NaN
  NaN,
  PluralCat,     \* $locale.pluralCat, a function from numbers
  Elements,      \* [count, map, attributes, offset] of an element; a map is a
                 \* function from keys to messages, or Absent
  Absent, Empty, \* no such attribute; no text
  Shown,         \* a number as it is shown, String(count)
  Words,         \* what the named value may be
  MaxChanges     \* bound

VARIABLES
  element,       \* how this one was written
  count, word,   \* the model
  phase,         \* "linking", "inert", "dirty", "digest" or "clean"
  last,          \* the count watch's last value
  lastKey,       \* the message that is active, or Absent
  watching,      \* the active message watches, each [key, last]
  text,          \* what the element shows: <<>> or <<key, shown>>
  reported,      \* keys a missing rule was reported for since the last change of key
  changes

pluralizeVars == <<element, count, word, phase, last, lastKey, watching, text, reported, changes>>

Init ==
  /\ element \in Elements /\ count \in Counts /\ word \in Words
  /\ phase = "linking" /\ last = Absent /\ lastKey = Absent
  /\ watching = <<>> /\ text = <<>> /\ reported = <<>> /\ changes = 0

-----------------------------------------------------------------------------
(* Linking                                                                 *)

HasMessages == element.map # Absent \/ element.attributes # Absent
BadOffset == element.offset = NaN
\* A when-attribute wins over the entry of the map.
MessageFns ==
  LET map == IF element.map = Absent THEN <<>> ELSE element.map
      own == IF element.attributes = Absent THEN <<>> ELSE element.attributes
  IN  [key \in DOMAIN map \cup DOMAIN own |-> IF key \in DOMAIN own THEN own[key] ELSE map[key]]

Link ==
  /\ phase = "linking"
  /\ LET live == element.count /\ HasMessages
     IN  /\ phase' = IF live /\ ~BadOffset THEN "dirty" ELSE "inert"
         /\ reported' = IF live /\ BadOffset THEN <<"badOffset">> ELSE reported
  /\ UNCHANGED <<element, count, word, last, lastKey, watching, text, changes>>

-----------------------------------------------------------------------------
(* The digest                                                              *)

Key(c) ==
  IF Shown[c.parsed] \in DOMAIN MessageFns THEN Shown[c.parsed] ELSE PluralCat[c.parsed - element.offset]

\* The {} of a message is {{(count)-(offset)}}, by Number and not by parseFloat.
Message(key) ==
  LET m == MessageFns[key]
  IN  [word |-> IF m.holds THEN word ELSE Empty,
       number |-> IF ~m.counts THEN Empty ELSE IF count.number = NaN THEN "NaN" ELSE Shown[count.number - element.offset]]

CountWatch ==
  /\ phase = "digest" /\ last # count /\ last' = count
  /\ \/ /\ count.parsed = NaN
        /\ IF lastKey = Absent THEN UNCHANGED <<watching, text, lastKey>>
           ELSE watching' = <<>> /\ text' = <<>> /\ lastKey' = Absent
        /\ UNCHANGED reported
     \/ /\ count.parsed # NaN
        /\ LET key == Key(count)
           IN  IF key = lastKey THEN UNCHANGED <<watching, text, lastKey, reported>>
               ELSE /\ lastKey' = key
                    /\ IF key \in DOMAIN MessageFns
                       THEN watching' = <<[key |-> key, last |-> Absent]>> /\ UNCHANGED <<text, reported>>
                       ELSE watching' = <<>> /\ text' = <<>> /\ reported' = Append(reported, key)
  /\ UNCHANGED <<element, count, word, phase, changes>>

MessageWatch(k) ==
  /\ phase = "digest" /\ watching[k].last # Message(watching[k].key)
  /\ watching' = [watching EXCEPT ![k].last = Message(watching[k].key)]
  /\ text' = <<watching[k].key, Message(watching[k].key)>>
  /\ UNCHANGED <<element, count, word, phase, last, lastKey, reported, changes>>

Begin == phase = "dirty" /\ phase' = "digest" /\ UNCHANGED <<element, count, word, last, lastKey, watching, text, reported, changes>>
Settle ==
  /\ phase = "digest" /\ last = count
  /\ \A k \in DOMAIN watching : watching[k].last = Message(watching[k].key)
  /\ phase' = "clean"
  /\ UNCHANGED <<element, count, word, last, lastKey, watching, text, reported, changes>>

Change(c, w) ==
  /\ phase \in {"dirty", "clean"} /\ changes < MaxChanges /\ <<c, w>> # <<count, word>>
  /\ count' = c /\ word' = w /\ changes' = changes + 1 /\ phase' = "dirty"
  /\ UNCHANGED <<element, last, lastKey, watching, text, reported>>

Next ==
  \/ Link \/ Begin \/ CountWatch \/ Settle
  \/ \E k \in DOMAIN watching : MessageWatch(k)
  \/ \E c \in Counts, w \in Words : Change(c, w)

-----------------------------------------------------------------------------
(* Properties                                                              *)

\* After a digest the element shows the message for the count as it is now, in
\* words as they are now, and nothing for what is no number or has no message;
\* no message but that one is still watched.
Wanted ==
  LET key == IF count.parsed = NaN THEN Absent ELSE Key(count)
  IN  IF key = Absent \/ key \notin DOMAIN MessageFns THEN <<>>
      ELSE <<key, [word |-> IF MessageFns[key].holds THEN word ELSE Empty,
                   number |-> IF MessageFns[key].counts THEN Shown[count.parsed - element.offset] ELSE Empty]>>
TextFollows ==
  /\ phase = "clean" =>
       /\ text = Wanted
       /\ Len(watching) = IF Wanted = <<>> THEN 0 ELSE 1
  /\ phase = "inert" => text = <<>> /\ watching = <<>>

\* A missing rule is reported once each time the count comes to need it, and
\* not again while other changes leave it needed.
ReportedPerKey ==
  [][reported' # reported =>
       /\ Len(reported') = Len(reported) + 1
       /\ phase = "digest" => Last(reported') = Key(count) /\ lastKey # Key(count)]_pluralizeVars
=============================================================================
