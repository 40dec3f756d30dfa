------------------------------- MODULE Sanitize -------------------------------
(***************************************************************************)
(* $sanitize: htmlParser reads a text token by token, with a stack of open    *)
(* elements; the handler writes what is allowed and counts, inside of what is *)
(* not, how deep it is.  $sanitizeProvider extends the lists.                *)
(*                                                                         *)
(* A token is [kind, ...]: start with tag, attrs (a sequence of <<name,      *)
(* value>>) and unary, end with tag, text, comment, or stray, a < that begins *)
(* nothing.  The output is a sequence of such tokens.                        *)
(***************************************************************************)
EXTENDS Integers, Sequences, FiniteSets, SequencesExt

CONSTANTS
  Tokens,        \* what a text may be made of
  Lower,         \* the lower-case form of each name in Tokens and Extras
  Uris,          \* the values that pass the uri pattern
  Extras,        \* arguments of addValidElements: sequences of buckets of names
  BadName,       \* an entry that is no name
  MaxTokens, MaxSettings     \* bounds

VARIABLES
  provider,      \* [elements, attrs, svg]: what $sanitizeProvider was told
  lists,         \* [elements, attrs]: what $get made of it, or <<>> before that
  read,          \* the tokens so far
  machine,       \* [stack, dropDepth, out]
  ended,         \* the text is at its end
  settings

sanitizeVars == <<provider, lists, read, machine, ended, settings>>

VoidElements == {"area", "br", "col", "hr", "img", "wbr"}
OptionalEndTagBlockElements == {"colgroup", "dd", "dt", "li", "p", "tbody", "td", "tfoot", "th", "thead", "tr"}
OptionalEndTagInlineElements == {"rp", "rt"}
BlockElements == {
  "address", "article", "aside", "blockquote", "caption", "center", "del", "dir", "div", "dl",
  "figure", "figcaption", "footer", "h1", "h2", "h3", "h4", "h5", "h6", "header", "hgroup", "hr",
  "ins", "map", "menu", "nav", "ol", "pre", "section", "table", "ul"}
InlineElements == {
  "a", "abbr", "acronym", "b", "bdi", "bdo", "big", "br", "cite", "code", "del", "dfn", "em",
  "font", "i", "img", "ins", "kbd", "label", "map", "mark", "q", "ruby", "rp", "rt", "s", "samp",
  "small", "span", "strike", "strong", "sub", "sup", "time", "tt", "u", "var"}
HtmlAttrs == {
  "abbr", "align", "alt", "axis", "bgcolor", "border", "cellpadding", "cellspacing", "cite",
  "class", "clear", "color", "cols", "colspan", "compact", "coords", "dir", "face", "headers",
  "height", "href", "hreflang", "hspace", "ismap", "lang", "language", "longdesc", "name",
  "nohref", "nowrap", "rel", "rev", "rows", "rowspan", "rules", "scope", "scrolling", "shape",
  "size", "span", "start", "summary", "tabindex", "target", "title", "type", "usemap", "valign",
  "value", "vspace", "width"}
UriAttrs == {"background", "cite", "href", "longdesc", "src", "xlink:href"}
SvgElements == {
  "a", "altGlyph", "altGlyphDef", "altGlyphItem", "animateColor", "animateMotion",
  "animateTransform", "circle", "clipPath", "color-profile", "cursor", "defs", "desc", "ellipse",
  "feBlend", "feColorMatrix", "feComponentTransfer", "feComposite", "feConvolveMatrix",
  "feDiffuseLighting", "feDisplacementMap", "feDistantLight", "feFlood", "feFuncA", "feFuncB",
  "feFuncG", "feFuncR", "feGaussianBlur", "feImage", "feMerge", "feMergeNode", "feMorphology",
  "feOffset", "fePointLight", "feSpecularLighting", "feSpotLight", "feTile", "feTurbulence",
  "font", "font-face", "font-face-format", "font-face-name", "font-face-src", "font-face-uri",
  "foreignObject", "g", "glyph", "glyphRef", "hkern", "image", "line", "linearGradient", "marker",
  "mask", "metadata", "missing-glyph", "mpath", "pattern", "polygon", "polyline", "radialGradient",
  "rect", "stop", "svg", "switch", "symbol", "text", "textPath", "title", "tref", "tspan", "use",
  "view", "vkern"}
SvgAttrs == {
  "accent-height", "accumulate", "additive", "alphabetic", "arabic-form", "ascent",
  "attributeName", "attributeType", "baseProfile", "bbox", "begin", "by", "calcMode", "cap-height",
  "class", "color", "color-rendering", "content", "cx", "cy", "d", "dx", "dy", "descent",
  "display", "dur", "end", "fill", "fill-rule", "font-family", "font-size", "font-stretch",
  "font-style", "font-variant", "font-weight", "from", "fx", "fy", "g1", "g2", "glyph-name",
  "gradientUnits", "hanging", "height", "horiz-adv-x", "horiz-origin-x", "ideographic", "k",
  "keyPoints", "keySplines", "keyTimes", "lang", "marker-end", "marker-mid", "marker-start",
  "markerHeight", "markerUnits", "markerWidth", "mathematical", "max", "min", "offset", "opacity",
  "orient", "origin", "overline-position", "overline-thickness", "panose-1", "path", "pathLength",
  "points", "preserveAspectRatio", "r", "refX", "refY", "repeatCount", "repeatDur",
  "requiredExtensions", "requiredFeatures", "restart", "rotate", "rx", "ry", "slope", "stemh",
  "stemv", "stop-color", "stop-opacity", "strikethrough-position", "strikethrough-thickness",
  "stroke", "stroke-dasharray", "stroke-dashoffset", "stroke-linecap", "stroke-linejoin",
  "stroke-miterlimit", "stroke-opacity", "stroke-width", "systemLanguage", "target", "text-anchor",
  "to", "transform", "type", "u1", "u2", "underline-position", "underline-thickness", "unicode",
  "unicode-range", "units-per-em", "values", "version", "viewBox", "visibility", "width", "widths",
  "x", "x-height", "x1", "x2", "xlink:actuate", "xlink:arcrole", "xlink:role", "xlink:show",
  "xlink:title", "xlink:type", "xml:base", "xml:lang", "xml:space", "xmlns", "xmlns:xlink", "y",
  "y1", "y2", "zoomAndPan"}
ValidElements ==
  VoidElements \cup BlockElements \cup InlineElements \cup OptionalEndTagBlockElements \cup OptionalEndTagInlineElements
OptionalEnd == OptionalEndTagBlockElements \cup OptionalEndTagInlineElements

Start == [stack |-> <<>>, dropDepth |-> 0, out |-> <<>>]

Init ==
  /\ provider = [elements |-> {}, attrs |-> {}, svg |-> FALSE]
  /\ lists = <<>> /\ read = <<>> /\ machine = Start /\ ended = FALSE /\ settings = 0

-----------------------------------------------------------------------------
(* The handler                                                             *)

KeptAttrs(attrs) ==
  SelectSeq(attrs, LAMBDA a : a[1] \in lists.attrs /\ (a[1] \in UriAttrs => a[2] \in Uris))

\* A mistake the properties rule out: inside of what is dropped nothing is counted.
HandleStartUncounted(m, tag, attrs, unary) ==
  IF m.dropDepth > 0 THEN m
  ELSE IF tag \notin lists.elements THEN IF unary THEN m ELSE [m EXCEPT !.dropDepth = 1]
  ELSE [m EXCEPT !.out = Append(@, [kind |-> "start", tag |-> tag, attrs |-> KeptAttrs(attrs), unary |-> FALSE])]

HandleStart(m, tag, attrs, unary) ==
  IF tag \notin lists.elements \/ m.dropDepth > 0
  THEN IF unary THEN m ELSE [m EXCEPT !.dropDepth = @ + 1]
  ELSE [m EXCEPT !.out = Append(@, [kind |-> "start", tag |-> tag, attrs |-> KeptAttrs(attrs), unary |-> FALSE])]

HandleEnd(m, tag) ==
  IF m.dropDepth > 0 THEN [m EXCEPT !.dropDepth = @ - 1]
  ELSE IF tag \in lists.elements /\ tag \notin VoidElements
       THEN [m EXCEPT !.out = Append(@, [kind |-> "end", tag |-> tag])] ELSE m

HandleChars(m) == IF m.dropDepth > 0 THEN m ELSE [m EXCEPT !.out = Append(@, [kind |-> "text"])]

-----------------------------------------------------------------------------
(* The parser                                                              *)

\* The elements from the top of the stack down to the one at that place end.
EndFrom(m, place) ==
  LET ending == Reverse(SubSeq(m.stack, place, Len(m.stack)))
  IN  [FoldLeft(HandleEnd, m, ending) EXCEPT !.stack = SubSeq(@, 1, place - 1)]

\* An end without a beginning is dropped.
ParseEndTag(m, tag) ==
  LET places == {k \in DOMAIN m.stack : m.stack[k] = tag}
  IN  IF places = {} THEN m ELSE EndFrom(m, CHOOSE k \in places : \A j \in places : j <= k)

\* Of an attribute written twice the last counts, at the first one's place.
LastOfEach(attrs) ==
  LET named(n) == SelectSeq(attrs, LAMBDA a : Lower[a[1]] = n)
      firsts == SelectSeq([k \in DOMAIN attrs |-> k],
                  LAMBDA k : \A j \in 1 .. k - 1 : Lower[attrs[j][1]] # Lower[attrs[k][1]])
  IN  [k \in DOMAIN firsts |-> <<Lower[attrs[firsts[k]][1]], Last(named(Lower[attrs[firsts[k]][1]]))[2]>>]

ParseStartTag(m, token) ==
  LET tag == Lower[token.tag]
      closed == IF m.stack # <<>> /\ Last(m.stack) \in OptionalEnd THEN ParseEndTag(m, Last(m.stack)) ELSE m
      opened == IF token.unary THEN closed ELSE [closed EXCEPT !.stack = Append(@, tag)]
  IN  HandleStart(opened, tag, LastOfEach(token.attrs), token.unary)

HtmlParser(m, token) ==
  CASE token.kind = "start" -> ParseStartTag(m, token)
    [] token.kind = "end" -> ParseEndTag(m, Lower[token.tag])
    [] token.kind \in {"text", "stray"} -> HandleChars(m)
    [] OTHER -> m
Drained(m) == IF m.stack = <<>> THEN m ELSE EndFrom(m, 1)

-----------------------------------------------------------------------------
(* The provider                                                            *)

\* Bucket after bucket: the names before the bucket with a bad one are in.
AddValidElements(buckets) ==
  LET bad == {k \in DOMAIN buckets : BadName \in buckets[k]}
      added == {k \in DOMAIN buckets : \A j \in bad : k < j}
  IN  /\ settings < MaxSettings /\ settings' = settings + 1
      /\ provider' = [provider EXCEPT !.elements = @ \cup UNION {buckets[k] : k \in added}]
      /\ UNCHANGED <<lists, read, machine, ended>>

AddValidAttrs(names) ==
  /\ settings < MaxSettings /\ settings' = settings + 1
  /\ provider' = IF BadName \in names THEN provider ELSE [provider EXCEPT !.attrs = @ \cup names]
  /\ UNCHANGED <<lists, read, machine, ended>>

EnableSvg ==
  /\ settings < MaxSettings /\ settings' = settings + 1
  /\ provider' = [provider EXCEPT !.svg = ~@]
  /\ UNCHANGED <<lists, read, machine, ended>>

CreateSanitize ==
  /\ lists = <<>>
  /\ lists' = [elements |-> ValidElements \cup provider.elements \cup (IF provider.svg THEN SvgElements ELSE {}),
               attrs |-> HtmlAttrs \cup UriAttrs \cup provider.attrs \cup (IF provider.svg THEN SvgAttrs ELSE {})]
  /\ UNCHANGED <<provider, read, machine, ended, settings>>

Read(token) ==
  /\ lists # <<>> /\ ~ended /\ Len(read) < MaxTokens
  /\ read' = Append(read, token) /\ machine' = HtmlParser(machine, token)
  /\ UNCHANGED <<provider, lists, ended, settings>>

End ==
  /\ lists # <<>> /\ ~ended /\ ended' = TRUE /\ machine' = Drained(machine)
  /\ UNCHANGED <<provider, lists, read, settings>>

Next ==
  \/ \E buckets \in Extras : AddValidElements(buckets) \/ AddValidAttrs(UNION Range(buckets))
  \/ EnableSvg
  \/ CreateSanitize
  \/ \E token \in Tokens : Read(token)
  \/ End

-----------------------------------------------------------------------------
(* Properties                                                              *)

Barred == {k \in DOMAIN machine.stack : machine.stack[k] \notin lists.elements}
Dropping == {k \in DOMAIN machine.stack : \E j \in Barred : j <= k}
\* The counter of the handler is in step with the parser's stack: it is the
\* number of open elements from the outermost that is not allowed on, so that
\* neither too much is dropped nor anything inside is let through.
DepthExact == lists # <<>> => machine.dropDepth = Cardinality(Dropping)

\* What was written and not ended: the allowed elements that are open.
Open(out) ==
  FoldLeft(LAMBDA open, t :
             CASE t.kind = "start" /\ t.tag \notin VoidElements -> Append(open, t.tag)
               [] t.kind = "end" -> IF open # <<>> /\ Last(open) = t.tag THEN Front(open) ELSE Append(open, "unmatched")
               [] OTHER -> open,
           <<>>, out)
\* The output is well formed: every element that was written is ended, inside of
\* the element it began in.
Balanced ==
  lists # <<>> =>
    Open(machine.out) = SelectSeq(SubSeq(machine.stack, 1, Len(machine.stack) - Cardinality(Dropping)),
                                  LAMBDA tag : tag \notin VoidElements)

Sanitized(tokens) == Drained(FoldLeft(HtmlParser, Start, tokens)).out
\* Sanitizing what was sanitized changes nothing.
OnceIsEnough == ended => Sanitized(machine.out) = machine.out
SanitizeSound == DepthExact /\ Balanced /\ OnceIsEnough

\* Text that is well formed and made of allowed elements comes out as it was.
Clean(tokens) ==
  /\ \A k \in DOMAIN tokens : tokens[k].kind \in {"start", "end", "text"}
  /\ \A k \in DOMAIN tokens : tokens[k].kind = "start" =>
       tokens[k].tag \in lists.elements /\ ~tokens[k].unary /\ KeptAttrs(tokens[k].attrs) = tokens[k].attrs
  /\ Open(tokens) = <<>>
CleanStays == (ended /\ Clean(read)) => machine.out = read
=============================================================================
