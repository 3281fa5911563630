-------------------------------- MODULE Rdf --------------------------------
(***************************************************************************)
(* How triples are written as JSON-LD and read back (src/rdf/turtle.js).   *)
(* A document is a sequence of rows, one for each value of a property of a *)
(* node, in the order of the text. A URL is the sequence of the parts at   *)
(* which a conversion may cut it; its first part is that of an origin. A   *)
(* node inside a node is left out.                                         *)
(***************************************************************************)
EXTENDS Naturals, Sequences, SequencesExt

CONSTANTS
  Base,       \* the URL of the document
  Origins,    \* the first parts of URLs
  Fragments,  \* the parts that begin with # or ?
  Common,     \* COMMON_PREFIXES: prefix |-> namespace
  RdfType,    \* rdf:type
  Printed,    \* numeral |-> its value as JavaScript prints it
  Whole       \* the printed values that are whole numbers

\* TLAPS has no rule that says so.
ASSUME StringAssumption ==
  {"/", ".", ":", "label", "true", "false", "integer", "decimal", "boolean", "string"} \subseteq STRING

Uris == Seq(STRING) \ {<<>>}

\* The base is an absolute URL; no origin is a fragment, a prefix or punctuation. A number
\* that is printed is a numeral.
ASSUME RdfAssumption ==
  /\ {Base, RdfType} \subseteq Uris /\ {Head(Base), Head(RdfType)} \subseteq Origins
  /\ "/" \in ToSet(Base)
  /\ Origins \cap (Fragments \cup DOMAIN Common \cup {"/", ".", ":", "@type"}) = {}
  /\ Fragments \cap {"/", "."} = {}
  /\ DOMAIN Common \subseteq STRING
  /\ \A x \in DOMAIN Common : Common[x] \in Uris /\ Head(Common[x]) \in Origins
  /\ Printed \in [DOMAIN Printed -> DOMAIN Printed] /\ DOMAIN Printed \subseteq STRING

Numeric == {"integer", "decimal", "double"}

Iris == [iri : Uris]
Predicates == [iri : Uris \ {<<"@type">>}]
Blanks == [blank : Seq(STRING) \cup ({"p"} \X STRING \X Nat)]   \* parsed, and of a patch
Literals ==
  {t \in [literal : STRING, kind : STRING] : t.kind \in Numeric => t.literal \in DOMAIN Printed}
Terms == Iris \cup Blanks \cup Literals
Triples == [s : Terms, p : Predicates, o : Terms]

\* What JSON has for these.
Refs == [id : Uris] \cup Blanks
Values ==
  Refs \cup [number : DOMAIN Printed] \cup [boolean : {"true", "false"}] \cup [string : STRING]
       \cup {v \in [value : STRING, kind : STRING] : v.kind \in Numeric => v.value \in DOMAIN Printed}
Rows == [s : Refs, key : Uris \ {<<"@type">>}, o : Values]
          \cup [s : Refs, key : {<<"@type">>}, o : [type : Uris]]

IsNamespaces(prefixes) ==
  /\ prefixes = [x \in DOMAIN prefixes |-> prefixes[x]]
  /\ DOMAIN prefixes \subseteq STRING \ Origins
  /\ \A x \in DOMAIN prefixes : prefixes[x] \in Uris /\ Head(prefixes[x]) \in Origins
-----------------------------------------------------------------------------
Iri(u) == [iri |-> u]
Blank(l) == [blank |-> l]
Literal(v, kind) == [literal |-> v, kind |-> kind]
Triple(s, p, o) == [s |-> s, p |-> p, o |-> o]

IsAbsolute(u) == Head(u) \in Origins
From(u, n) == SubSeq(u, n, Len(u))

\* The base up to its last slash.
Directory == SubSeq(Base, 1, CHOOSE n \in DOMAIN Base :
                               Base[n] = "/" /\ \A m \in DOMAIN Base : Base[m] = "/" => m <= n)

\* makeRelative: a URL that begins with that of the document, the document or not, is cut.
MakeRelative(u) ==
  IF ~ IsPrefix(Base, u) THEN u
  ELSE IF u = Base THEN <<".">> ELSE From(u, Len(Base) + 1)

\* new URL(u, base), for the relative references that makeRelative leaves.
ResolveUri(u) ==
  CASE IsAbsolute(u) -> u
    [] Head(u) \in Fragments -> Base \o u
    [] Head(u) = "/" -> <<Head(Base)>> \o u
    [] u = <<".">> -> Directory
    [] OTHER -> Directory \o u
-----------------------------------------------------------------------------
(* Prefixes: of the document first, then the common ones. *)

Fitting(u, prefixes) == {x \in DOMAIN prefixes : IsPrefix(prefixes[x], u)}

\* compactUri.
Compact(u, prefixes) ==
  LET own == Fitting(u, prefixes)
      table == IF own # {} THEN prefixes ELSE Common
  IN IF Fitting(u, table) = {} THEN u
     ELSE LET x == CHOOSE x \in Fitting(u, table) : TRUE
          IN <<x, ":">> \o From(u, Len(table[x]) + 1)

\* buildContext leaves the empty prefix out.
Context(prefixes) == [x \in DOMAIN prefixes \ {""} |-> prefixes[x]]

\* What `split(':', 2)` takes for the local name: up to the next colon.
LocalName(key) ==
  LET rest == From(key, 3)
      colons == {n \in DOMAIN rest : rest[n] = ":"}
  IN IF colons = {} THEN rest
     ELSE SubSeq(rest, 1, (CHOOSE n \in colons : \A m \in colons : n <= m) - 1)

\* expandUri, for which a URL is whatever has an origin in it.
HasOrigin(key) == ToSet(key) \cap Origins # {}
Expand(key, context) ==
  CASE HasOrigin(key) -> key
    [] ~ HasOrigin(key) /\ key[1] \in DOMAIN context -> context[key[1]] \o LocalName(key)
    [] ~ HasOrigin(key) /\ key[1] \notin DOMAIN context /\ key[1] \in DOMAIN Common ->
         Common[key[1]] \o LocalName(key)
    [] OTHER -> key
-----------------------------------------------------------------------------
\* termToJsonLd: numbers and booleans become those of JSON.
ToJson(t) ==
  CASE "iri" \in DOMAIN t -> [id |-> MakeRelative(t.iri)]
    [] "blank" \in DOMAIN t -> t
    [] "literal" \in DOMAIN t /\ t.kind \in Numeric ->
         [number |-> Printed[t.literal]]
    [] "literal" \in DOMAIN t /\ t.kind = "boolean" ->
         [boolean |-> IF t.literal = "true" THEN "true" ELSE "false"]
    [] "literal" \in DOMAIN t /\ t.kind = "string" -> [string |-> t.literal]
    [] OTHER -> [value |-> t.literal, kind |-> t.kind]

\* valueToTerm: a sequence of one term, or of none.
FromJson(j) ==
  CASE "id" \in DOMAIN j -> <<Iri(ResolveUri(j.id))>>
    [] "blank" \in DOMAIN j -> <<j>>
    [] "number" \in DOMAIN j ->
         <<Literal(j.number, IF j.number \in Whole THEN "integer" ELSE "decimal")>>
    [] "boolean" \in DOMAIN j -> <<Literal(j.boolean, "boolean")>>
    [] "string" \in DOMAIN j -> <<Literal(j.string, "string")>>
    [] OTHER -> IF j.value = "" THEN <<>> ELSE <<Literal(j.value, j.kind)>>

\* What JavaScript takes for false.
Falsy(j) == j \in {[number |-> "0"], [boolean |-> "false"], [string |-> ""]}

\* What stands where an IRI is expected; of a blank node, some label.
Value(t) ==
  CASE "iri" \in DOMAIN t -> t.iri
    [] "literal" \in DOMAIN t -> <<t.literal>>
    [] OTHER -> <<"label">>

\* A row of a triple. A subject is an @id, and an rdf:type the name of one.
ToRow(t, prefixes) ==
  [s |-> IF "blank" \in DOMAIN t.s THEN t.s ELSE [id |-> MakeRelative(Value(t.s))],
   key |-> IF t.p = Iri(RdfType) THEN <<"@type">> ELSE Compact(t.p.iri, prefixes),
   o |-> IF t.p = Iri(RdfType) THEN [type |-> Compact(Value(t.o), prefixes)] ELSE ToJson(t.o)]

FromRow(r, context) ==
  LET subject == FromJson(r.s)[1]
  IN IF r.key = <<"@type">> THEN <<Triple(subject, Iri(RdfType), Iri(Expand(r.o.type, context)))>>
     ELSE LET Stated(o) == Triple(subject, Iri(Expand(r.key, context)), o)
              objects == FromJson(r.o)
          IN [i \in DOMAIN objects |-> Stated(objects[i])]

\* quadsToJsonLd asks `if (jsonNode[key])` whether there is a value already: the next
\* value takes the place of a first one that is false, 0 or empty.
Stays(rows, i) ==
  LET same == {j \in DOMAIN rows : rows[j].s = rows[i].s /\ rows[j].key = rows[i].key}
  IN (\E j \in same : j <= i /\ ~ Falsy(rows[j].o)) \/ \A j \in same : j <= i

\* quadsToJsonLd and jsonLdToQuads.
ToRows(quads, prefixes) ==
  LET rows == [i \in DOMAIN quads |-> ToRow(quads[i], prefixes)]
  IN FlattenSeq([i \in DOMAIN rows |-> IF Stays(rows, i) THEN <<rows[i]>> ELSE <<>>])

ToQuads(rows, context) == FlattenSeq([i \in DOMAIN rows |-> FromRow(rows[i], context)])
=============================================================================
