---------------------------- MODULE MCApplication ----------------------------
(***************************************************************************)
(* What an application uses of the framework without waiting for anything:  *)
(* events of scopes (ScopeEvents), services (MCServices) and the elements   *)
(* of a page (MCElements).  part says whose behaviour it is; the others     *)
(* stay at one of their initial states.                                     *)
(***************************************************************************)
EXTENDS MCScopeEvents

CONSTANTS
  Checked,               \* the parts to check
  LateDeclares, Sites,   \* of MCServices
  Unbuilt, Loop, Self, Undefined, NoRecord, Rejected,   \* Failed, Nothing and Refused there
  NoValue, Unset, Absent, EmptyText, NotANumber         \* of MCElements, None to NaN there

VARIABLES
  part,
  declared, startInjector, starting, threw, marked, compiled, brokenStarts, index, late, accepted,
  ngPhase, ngRequires, ngCalls, next, ngInjector, plan, wanted, outcomes,
  meant, source, syntax, cells, result, steps,
  shown, asked, filters,
  fields, lastCopy, settled, changesTold, writes,
  defaults, cookies, config, sent, earlier, answer, sends,
  trusting, service, advanced, wrappers, verdicts, trustSettings, trustCalls,
  accepting, allowed, read, machine, ended, settings,
  element, toLink, model, attrs, watches, digesting, observed, changed,
  classed, classValue, even, classes, styles, seen, applied, lastValue, classDigest, classCalls,
  quiet, gaveUp, classChanged,
  counted, count, word, countPhase, lastCount, lastKey, watching, text, countReported, changes,
  todo, linked, attached, stash, results, given, tracked, registered, log, reported, failures,
  destroyed,
  host, places, kids, scopeOf, cleanups, alive, unlinked, clones, added, errors, walk, ran, over,
  parsed, refused, ids, rows, alias, latest, failed, rowsMade, fires,
  elements, object, objects, slots, reports

Services == INSTANCE MCServices WITH
              Parts <- Checked, Failed <- Unbuilt, Nothing <- NoRecord, Refused <- Rejected
Elements == INSTANCE MCElements WITH
              Parts <- Checked, None <- NoValue, Undef <- Unset, Empty <- EmptyText, NaN <- NotANumber

\* A step of one leaves the others as they are; each of them names its parts.
ApplicationInit == part \in Checked /\ Init /\ Services!Init /\ Elements!Init
ApplicationNext ==
  \/ part = "events" /\ Next /\ Services!Still /\ Elements!Still
  \/ Services!Next /\ UNCHANGED vars /\ Elements!Still
  \/ Elements!Next /\ UNCHANGED vars /\ Services!Still

ApplicationSpec == ApplicationInit /\ [][ApplicationNext]_<<vars, Services!vars, Elements!vars>>

-----------------------------------------------------------------------------

\* What an application declares is there whole, or is refused and reported, and
\* what a block configures holds for what is made after it ($compileProvider,
\* $controllerProvider, $filterProvider, bootstrap).
DeclaredWhole == Services!StartupSound

\* Each name is one instance, the last declared, with every decorator in the
\* order declared, and the errors of each site reach the handler (ng-module.ts).
ServicesAgree == Services!ServicesAgree

\* A tree comes out of the parser as it was meant, a filter does what it is
\* documented to do, what an assignment wrote is what is read, and a value watch
\* hears of every change it can see ($parse, filters, copy and isEqual).
MeantIsDone ==
  /\ [](/\ part = "expressions" => Services!TreesMeant
        /\ part = "values" => Services!ChangesHeard)
  /\ Services!Performed

\* Headers and parameters reach the server as asked for, equal requests have one
\* url, and an answer's headers are found in any case (http.ts and its helpers).
RequestsAsAsked == []Services!AnswersReadable /\ Services!RequestsAsAsked

\* A value comes through $sce only for the context it was trusted for or one its
\* lists allow, and what $sanitize lets through is balanced and allowed.
TrustKept == Services!TrustKept

\* Attributes, classes, styles and counted messages are those of the scope's
\* values after every digest.
PageFollows == Elements!PageFollows

\* A required controller is found, and the hooks run in their order.
ControllersReady == Elements!ControllersReady

\* Contents, rows and references are one for each place, key and element, and go
\* with their element.
LivesWithElement == [](Elements!TakenDown /\ Elements!RowsApart) /\ Elements!Kept
=============================================================================
