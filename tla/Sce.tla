--------------------------------- MODULE Sce ---------------------------------
(***************************************************************************)
(* Strict contextual escaping: the lists of $sceDelegateProvider, the switch  *)
(* of $sceProvider, the wrappers trustAs makes and what getTrusted says of a  *)
(* value in a context.  A text is a sequence of characters; a list entry is   *)
(* [kind, pattern], and a RegExp of the application [kind, fits, global, id].  *)
(***************************************************************************)
EXTENDS Integers, Sequences, FiniteSets, SequencesExt

CONSTANTS
  Texts,         \* the texts the application has
  Lists,         \* what the lists may be set to, sequences of entries
  Self,          \* the texts that are urls of the document's own origin
  HasSanitizer, Sanitized,   \* whether ngSanitize is there, and what it makes of each text
  Refused,       \* the result of a call that throws
  MaxSettings, MaxCalls      \* bounds: calls of the providers, and of the services

VARIABLES
  provider,      \* [allow, block, enabled], what the providers hold
  service,       \* the same, as $get took it, or Refused before that
  advanced,      \* the global RegExps whose lastIndex is behind their match
  wrappers,      \* trusted values: [ctx, text]
  verdicts,      \* what getTrusted said: [ctx, value, result]
  settings, calls

sceVars == <<provider, service, advanced, wrappers, verdicts, settings, calls>>

Contexts == {"html", "url", "resourceUrl", "js", "css"}
AnyContext == "$$ANY$$"
Plain(text) == [ctx |-> "string", text |-> text]
Running == service # Refused

Init ==
  /\ provider = [allow |-> <<[kind |-> "self"]>>, block |-> <<>>, enabled |-> TRUE]
  /\ service = Refused /\ advanced = {} /\ wrappers = {} /\ verdicts = {}
  /\ settings = 0 /\ calls = 0

-----------------------------------------------------------------------------
(* The lists                                                               *)

\* The text is matched from the first character of the pattern to its last.
RECURSIVE Fits(_, _)
Fits(tokens, text) ==
  IF tokens = <<>> THEN text = <<>>
  ELSE IF Head(tokens) \in {"*", "**"}
       THEN \/ Fits(Tail(tokens), text)
            \/ /\ text # <<>> /\ (Head(tokens) = "**" \/ Head(text) \notin {":", "/", "?", "#"})
               /\ Fits(tokens, Tail(text))
       ELSE text # <<>> /\ Head(text) = Head(tokens) /\ Fits(Tail(tokens), Tail(text))

\* From left to right, two stars before one.
RECURSIVE CompileStringPattern(_)
CompileStringPattern(pattern) ==
  IF pattern = <<>> THEN <<>>
  ELSE IF Len(pattern) > 1 /\ pattern[1] = "*" /\ pattern[2] = "*"
       THEN <<"**">> \o CompileStringPattern(SubSeq(pattern, 3, Len(pattern)))
       ELSE <<Head(pattern)>> \o CompileStringPattern(Tail(pattern))

Compiles(list) == \A k \in DOMAIN list : list[k].kind # "invalid"

\* RegExp.test: an anchored global one begins behind its last match, fails there
\* and begins anew.
Test(entry, text, behind) ==
  CASE entry.kind = "self" -> text \in Self
    [] entry.kind = "string" -> Fits(CompileStringPattern(entry.pattern), text)
    [] OTHER -> text \in entry.fits /\ entry.id \notin behind
Behind(entry, text, behind) ==
  IF entry.kind # "regexp" \/ ~entry.global THEN behind
  ELSE IF Test(entry, text, behind) THEN behind \cup {entry.id} ELSE behind \ {entry.id}

\* <<whether one matches, the RegExps that are behind then>>
Matches(text, list, behind) ==
  FoldLeft(LAMBDA met, entry :
             IF met[1] THEN met ELSE <<Test(entry, text, met[2]), Behind(entry, text, met[2])>>,
           <<FALSE, behind>>, list)

-----------------------------------------------------------------------------
(* The providers                                                           *)

SetList(name, list) ==
  /\ settings < MaxSettings /\ settings' = settings + 1
  /\ provider' = IF Compiles(list) THEN [provider EXCEPT ![name] = list] ELSE provider
  /\ UNCHANGED <<service, advanced, wrappers, verdicts, calls>>

SetEnabled ==
  /\ settings < MaxSettings /\ settings' = settings + 1
  /\ provider' = [provider EXCEPT !.enabled = ~@]
  /\ UNCHANGED <<service, advanced, wrappers, verdicts, calls>>

Get ==
  /\ ~Running /\ service' = provider
  /\ UNCHANGED <<provider, advanced, wrappers, verdicts, settings, calls>>

-----------------------------------------------------------------------------
(* The services                                                            *)

\* A wrapper is wrapped anew by what is in it.
TrustAs(ctx, value) ==
  /\ Running /\ calls < MaxCalls /\ (service.enabled \/ ctx = AnyContext) /\ calls' = calls + 1
  /\ wrappers' = wrappers \cup {[ctx |-> ctx, text |-> value.text]}
  /\ UNCHANGED <<provider, service, advanced, verdicts, settings>>

\* A TrustedResourceUrl is a TrustedUrl.
TrustedFor(ctx, value) == value.ctx \in {AnyContext, ctx} \/ (ctx = "url" /\ value.ctx = "resourceUrl")

\* $sceDelegate.getTrusted.
Delegated(ctx, value, banned, allowed) ==
  CASE ctx = "url" /\ value.ctx = "string" -> value.text
    [] ctx = "resourceUrl" /\ ~TrustedFor(ctx, value) -> IF ~banned /\ allowed THEN value.text ELSE Refused
    [] OTHER -> IF TrustedFor(ctx, value) THEN value.text ELSE Refused

GetTrusted(ctx, value) ==
  LET banned == Matches(value.text, service.block, advanced)
      allowed == Matches(value.text, service.allow, banned[2])
      Say(result) == verdicts' = verdicts \cup {[ctx |-> ctx, value |-> value, result |-> result]}
  IN  /\ Running /\ calls < MaxCalls /\ calls' = calls + 1
      /\ CASE ~service.enabled -> Say(value.text)
           [] service.enabled /\ ctx = "html" /\ HasSanitizer /\ value.ctx = "string" -> Say(Sanitized[value.text])
           [] OTHER -> Say(Delegated(ctx, value, banned[1], allowed[1]))
      /\ advanced' = IF ~service.enabled \/ ctx # "resourceUrl" \/ TrustedFor(ctx, value) THEN advanced
                     ELSE IF banned[1] THEN banned[2] ELSE allowed[2]
      /\ UNCHANGED <<provider, service, wrappers, settings>>

Values == {Plain(t) : t \in Texts} \cup wrappers
Next ==
  \/ \E list \in Lists, name \in {"allow", "block"} : SetList(name, list)
  \/ SetEnabled
  \/ Get
  \/ \E value \in Values, ctx \in Contexts \cup {AnyContext} :
       TrustAs(ctx, value) \/ (ctx \in Contexts /\ GetTrusted(ctx, value))

-----------------------------------------------------------------------------
(* Properties                                                              *)

\* What is said of a value in a context is said of it ever after: the lists and
\* the switch are those of the moment the services were made, and no call
\* leaves a trace on the next.
VerdictsStay ==
  \A a, b \in verdicts : (a.ctx = b.ctx /\ a.value = b.value) => a.result = b.result

\* The reference for a pattern: some choice of what its stars stand for.
Stands(pattern, text) ==
  \E cuts \in [1 .. Len(pattern) -> 0 .. Len(text)] :
    LET From(k) == IF k = 1 THEN 0 ELSE cuts[k - 1]
        Piece(k) == SubSeq(text, From(k) + 1, cuts[k])
    IN  /\ pattern = <<>> => text = <<>>
        /\ pattern # <<>> => cuts[Len(pattern)] = Len(text)
        /\ \A k \in DOMAIN pattern :
             /\ From(k) <= cuts[k]
             /\ pattern[k] # "*" => Piece(k) = <<pattern[k]>>
             /\ pattern[k] = "*" =>
                  \/ Range(Piece(k)) \cap {":", "/", "?", "#"} = {}
                  \/ (k > 1 /\ pattern[k - 1] = "*") \/ (k < Len(pattern) /\ pattern[k + 1] = "*")
Listed(text, list) ==
  \E k \in DOMAIN list :
    CASE list[k].kind = "self" -> text \in Self
      [] list[k].kind = "string" -> Stands(list[k].pattern, text)
      [] OTHER -> text \in list[k].fits
\* In strict mode a value comes out of a context in one of four ways: it was
\* wrapped for it, the sanitizer has been over it, it is a url, or it is a
\* resource url on the one list and not on the other.
ComesOutRight ==
  Running /\ service.enabled =>
    \A v \in verdicts :
      v.result # Refused <=>
        \/ TrustedFor(v.ctx, v.value)
        \/ v.value.ctx = "string" /\ (v.ctx = "url" \/ (v.ctx = "html" /\ HasSanitizer))
        \/ v.ctx = "resourceUrl" /\ Listed(v.value.text, service.allow) /\ ~Listed(v.value.text, service.block)
\* The two together: what is trusted stays so, and nothing else ever is.
TrustKept == VerdictsStay /\ ComesOutRight
=============================================================================
