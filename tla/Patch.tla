-------------------------------- MODULE Patch --------------------------------
(***************************************************************************)
(* A document is put and patched (applyPatchRequest in                     *)
(* src/handlers/resource.js, src/patch/quads.js): it is read as triples,   *)
(* the patch is applied to these, and they are written in the form that    *)
(* was read. Requests for one document run one at a time (ResourceWrites), *)
(* so each is a step. The text of N3, SPARQL and Turtle is parsed by a     *)
(* library; a patch is what it yields.                                     *)
(***************************************************************************)
EXTENDS Rdf, FiniteSets, Functions

CONSTANTS
  JsonDocuments,  \* JSON-LD documents that clients put
  Turtles,    \* Turtle documents: [quads, prefixes]
  Patches,    \* [language, where, deletes, inserts]
  MaxTick,    \* a bound: milliseconds that matter
  MaxTriples  \* a bound: triples of a document that is patched

VARIABLES
  doc,   \* the document: rows of the node at the top (which may have an @id) and of
         \* the @graph if it is JSON-LD, otherwise triples; and its prefixes
  stamp,   \* Date.now()
  last   \* history: the last request, the answer, and the triples it is about

patchVars == <<doc, stamp, last>>

JsonDocument(top, named, hasGraph, graph, prefixes) ==
  [form |-> "json", top |-> top, named |-> named, hasGraph |-> hasGraph, graph |-> graph,
   prefixes |-> prefixes]
TurtleDocument(quads, prefixes) == [form |-> "turtle", quads |-> quads, prefixes |-> prefixes]
NoDocument == JsonDocument(<<>>, FALSE, FALSE, <<>>, <<>>)
NoRequest == [answer |-> "none"]

PatchInit == doc = NoDocument /\ stamp = 0 /\ last = NoRequest

\* What a GET says.
Says(d) ==
  ToSet(IF d.form = "turtle" THEN d.quads
        ELSE ToQuads((IF d.named THEN d.top ELSE <<>>) \o d.graph, Context(d.prefixes)))

\* What a patch is applied to: the nodes of the @graph, then the one at the top, with
\* which jsonLdToQuads walks its @graph again.
Loaded(d) ==
  IF d.form = "turtle" THEN d.quads
  ELSE ToQuads(d.graph \o (IF d.named THEN d.top \o d.graph ELSE <<>>), Context(d.prefixes))

\* A document that had no @graph gets one when it has several subjects.
Rewritten(d, quads) ==
  LET rows == ToRows(quads, d.prefixes)
      subjects == {rows[i].s : i \in DOMAIN rows}
  IN IF d.form = "turtle" THEN TurtleDocument(quads, d.prefixes)
     ELSE IF d.hasGraph \/ Cardinality(subjects) > 1
     THEN JsonDocument(<<>>, FALSE, TRUE, rows, Context(d.prefixes))
     ELSE JsonDocument(rows, rows # <<>>, FALSE, <<>>, Context(d.prefixes))
-----------------------------------------------------------------------------
(* PUT: of JSON-LD as it is; of Turtle as it is, or as JSON-LD with --conneg. *)

PutJson(d) == doc' = d /\ last' = NoRequest /\ UNCHANGED stamp

PutTurtle(g) ==
  /\ \/ doc' = TurtleDocument(g.quads, g.prefixes)
     \/ doc' = Rewritten(JsonDocument(<<>>, FALSE, FALSE, <<>>, g.prefixes), g.quads)
  /\ last' = [answer |-> "put", graph |-> ToSet(g.quads), prefixes |-> g.prefixes]
  /\ UNCHANGED stamp
-----------------------------------------------------------------------------
(* PATCH. *)

IsVar(t) == "var" \in DOMAIN t
TermsOf(q) == {q.s, q.p, q.o}
VarsOf(qs) == {t.var : t \in {t \in UNION {TermsOf(q) : q \in ToSet(qs)} : IsVar(t)}}

PatternTerms == Iris \cup Literals \cup [blank : STRING] \cup [var : STRING]
Patterns == [s : PatternTerms, p : Predicates \cup [var : STRING], o : PatternTerms]

\* A prefix of JSON-LD is not empty. The labels of blank nodes are those of one text, so that in
\* a where clause they would match nothing. A variable is a predicate in a patch only if it is
\* one in its where clause.
ASSUME PatchAssumption ==
  /\ \A d \in JsonDocuments :
       /\ d = JsonDocument(d.top, d.named, d.hasGraph, d.graph, d.prefixes)
       /\ {d.named, d.hasGraph} \subseteq BOOLEAN /\ {d.top, d.graph} \subseteq Seq(Rows)
       /\ IsNamespaces(d.prefixes) /\ "" \notin DOMAIN d.prefixes
  /\ \A g \in Turtles : g.quads \in Seq(Triples) /\ IsNamespaces(g.prefixes)
  /\ \A p \in Patches :
       /\ p = [language |-> p.language, where |-> p.where, deletes |-> p.deletes, inserts |-> p.inserts]
       /\ {p.where, p.deletes, p.inserts} \subseteq Seq(Patterns)
       /\ \A w \in ToSet(p.where) : \A t \in TermsOf(w) : "blank" \notin DOMAIN t
       /\ \A q \in ToSet(p.deletes \o p.inserts) :
            IsVar(q.p) /\ q.p.var \in VarsOf(p.where) => \E w \in ToSet(p.where) : w.p = q.p

\* parseTriples of a SPARQL Update: a block with variables falls back on a parser that
\* knows none. It takes an object without quotes for an IRI, and drops the triples whose
\* subject or predicate is a variable. WHERE is ignored.
Bare(t) ==
  CASE IsVar(t) -> Iri(<<t.var>>)
    [] "literal" \in DOMAIN t /\ t.kind \in Numeric \cup {"boolean"} ->
         Iri(<<t.literal>>)
    [] OTHER -> t
WithoutVariables(qs) ==
  LET Known(q) == IF IsVar(q.s) \/ IsVar(q.p) THEN <<>> ELSE <<Triple(q.s, q.p, Bare(q.o))>>
  IN IF VarsOf(qs) = {} THEN qs ELSE FlattenSeq([i \in DOMAIN qs |-> Known(qs[i])])

Parsed(p) ==
  IF p.language = "n3" THEN p
  ELSE [language |-> p.language, where |-> <<>>,
        deletes |-> WithoutVariables(p.deletes), inserts |-> WithoutVariables(p.inserts)]

\* isInsertOnly: acl:Append is enough.
IsInsertOnly(p) == p.deletes = <<>> /\ p.where = <<>>

\* matchTerm: the bindings of b that go with the term, one or none.
MatchTerm(pattern, term, b) ==
  CASE ~ IsVar(pattern) -> IF pattern = term THEN {b} ELSE {}
    [] IsVar(pattern) /\ pattern.var \in DOMAIN b -> IF b[pattern.var] = term THEN {b} ELSE {}
    [] OTHER -> {[x \in DOMAIN b \cup {pattern.var} |-> IF x = pattern.var THEN term ELSE b[x]]}

Matches(w, q, b) ==
  UNION {UNION {MatchTerm(w.o, q.o, b2) : b2 \in MatchTerm(w.p, q.p, b1)} :
           b1 \in MatchTerm(w.s, q.s, b)}

Solutions(where, quads) ==
  FoldLeft(LAMBDA bs, w : UNION {Matches(w, q, b) : q \in ToSet(quads), b \in bs}, {<<>>}, where)

\* Two solutions are told apart by the values in them, not by language or type.
Text(t) == IF "literal" \in DOMAIN t THEN [literal |-> t.literal] ELSE t
Distinct(bs) == {[x \in DOMAIN b |-> Text(b[x])] : b \in bs}

\* substitute. The patch's n-th blank node gets a name with the time in it.
Term(t, b, time) ==
  CASE IsVar(t) -> b[t.var]
    [] "blank" \in DOMAIN t -> Blank(<<"p", t.blank, time>>)
    [] OTHER -> t
Substituted(qs, b, time) ==
  [i \in DOMAIN qs |-> Triple(Term(qs[i].s, b, time), Term(qs[i].p, b, time), Term(qs[i].o, b, time))]

Times(q, qs) == Cardinality({i \in DOMAIN qs : qs[i] = q})
AllThere(quads, deletes) == \A d \in ToSet(deletes) : Times(d, deletes) <= Times(d, quads)

\* A triple that is there twice loses one copy.
Without(quads, deletes) == FoldLeft(LAMBDA qs, d : RemoveFirst(qs, d), quads, deletes)
With(quads, inserts) ==
  FoldLeft(LAMBDA qs, i : IF Contains(qs, i) THEN qs ELSE Append(qs, i), quads, inserts)

\* Variant: inserts come first.
AppliedInsertFirst(quads, deletes, inserts) == Without(With(quads, inserts), deletes)

Applied(quads, deletes, inserts) == With(Without(quads, deletes), inserts)

Replies(p, answer) == last' = [answer |-> answer, patch |-> p, before |-> Says(doc), at |-> stamp,
                                twice |-> Len(Loaded(doc)) # Cardinality(ToSet(Loaded(doc)))]

\* The patch fits: its where clause matches once, every variable is bound, and what is
\* to be deleted is there.
Fits(p, b, quads) ==
  VarsOf(p.deletes \o p.inserts) \subseteq DOMAIN b /\ AllThere(quads, Substituted(p.deletes, b, stamp))

ApplyPatch(request) ==
  LET p == Parsed(request)
      quads == Loaded(doc)
      found == Solutions(p.where, quads)
  IN /\ Len(quads) <= MaxTriples
     /\ \/ /\ Cardinality(Distinct(found)) = 1
           /\ \E b \in found :
                /\ Fits(p, b, quads)
                /\ doc' = Rewritten(doc, Applied(quads, Substituted(p.deletes, b, stamp),
                                              Substituted(p.inserts, b, stamp)))
           /\ Replies(p, "2xx")
        \/ /\ Cardinality(Distinct(found)) = 1 => \E b \in found : ~ Fits(p, b, quads)
           /\ Replies(p, "409") /\ UNCHANGED doc
     /\ stamp' \in {stamp, stamp + 1} /\ stamp' <= MaxTick

PatchNext ==
  \/ \E d \in JsonDocuments : PutJson(d)
  \/ \E g \in Turtles : PutTurtle(g)
  \/ \E p \in Patches : ApplyPatch(p)

PatchSpec == PatchInit /\ [][PatchNext]_patchVars
-----------------------------------------------------------------------------
(* What survives being written as JSON-LD: an IRI that does not begin with *)
(* the URL of the document or is a fragment of it, unless the document is  *)
(* a container and what follows its URL neither a slash, a dot nor a URL,  *)
(* and that is not relative, as SPARQL variables become; a predicate or    *)
(* type whose prefix is not empty and not that of two namespaces, and      *)
(* whose local name has no colon and no URL; a value in the form that      *)
(* JavaScript prints; and no value that JavaScript takes for false under   *)
(* one key with another one.                                               *)

PlainIri(u) ==
  /\ IsAbsolute(u)
  /\ IsPrefix(Base, u) /\ u # Base =>
       \/ u[Len(Base) + 1] \in Fragments
       \/ Directory = Base /\ u[Len(Base) + 1] \notin Origins \cup {"/", "."}
  /\ u = Base => Directory = Base
PlainName(u, prefixes) ==
  LET key == Compact(u, prefixes)
  IN /\ IsAbsolute(u)
     /\ key # u =>
          /\ key[1] # "" /\ ToSet(From(key, 3)) \cap (Origins \cup {":"}) = {}
          /\ key[1] \in DOMAIN prefixes => Fitting(u, prefixes) # {}
PlainValue(t) ==
  CASE "iri" \in DOMAIN t -> PlainIri(t.iri)
    [] "blank" \in DOMAIN t -> TRUE
    [] "literal" \in DOMAIN t /\ t.kind \in Numeric ->
         Printed[t.literal] = t.literal /\ t.kind = (IF t.literal \in Whole THEN "integer" ELSE "decimal")
    [] "literal" \in DOMAIN t /\ t.kind = "boolean" -> t.literal \in {"true", "false"}
    [] "literal" \in DOMAIN t /\ t.kind = "string" -> TRUE
    [] OTHER -> t.literal # ""

SameKey(t, u, prefixes) ==
  LET x == ToRow(t, prefixes)
      y == ToRow(u, prefixes)
  IN x.s = y.s /\ x.key = y.key

Plain(t, graph, prefixes) ==
  /\ "literal" \notin DOMAIN t.s /\ PlainValue(t.s)
  /\ PlainName(t.p.iri, prefixes)
  /\ IF t.p = Iri(RdfType) THEN "iri" \in DOMAIN t.o /\ PlainName(t.o.iri, prefixes)
     ELSE PlainValue(t.o)
          /\ (Falsy(ToJson(t.o)) => \A u \in graph : SameKey(u, t, prefixes) => u = t)

\* The bindings under which all of `where` is in the graph.
Bindings(where, graph) ==
  LET terms == UNION {TermsOf(t) : t \in graph}
  IN {b \in [VarsOf(where) -> terms] : ToSet(Substituted(where, b, 0)) \subseteq graph}

\* The document says what the graph does, but for what does not survive.
SaysOf(d, graph, prefixes) ==
  LET kept == IF d.form = "turtle" THEN graph ELSE {t \in graph : Plain(t, graph, prefixes)}
  IN kept \subseteq Says(d) /\ (kept = graph => Says(d) = graph)

\* A write does what it says, to the triples that a reader sees. Turtle that is put is
\* what is read, in whichever form it is stored. A patch is accepted if and only if its
\* where clause matches once and what it deletes is there and not named twice; then the
\* graph is what it was, without what is deleted and with what is inserted, for every
\* triple that survives being written; otherwise nothing has changed. (Not so if the
\* document says a triple twice: the patch deletes one of the two. And a where clause that
\* matches twice, with values that differ in their language or type only, counts as
\* matching once.)
WritesDoWhatTheySay ==
  CASE last.answer = "none" -> TRUE
    [] last.answer = "put" -> SaysOf(doc, last.graph, last.prefixes)
    [] OTHER ->
         LET p == last.patch
             G == last.before
             found == Bindings(p.where, G)
             fitting == {b \in found :
                           /\ VarsOf(p.deletes \o p.inserts) \subseteq DOMAIN b
                           /\ IsInjective(Substituted(p.deletes, b, last.at))
                           /\ ToSet(Substituted(p.deletes, b, last.at)) \subseteq G}
         IN IF last.twice \/ Cardinality(Distinct(found)) # Cardinality(found) THEN TRUE
            ELSE IF last.answer = "409" THEN Says(doc) = G /\ (Cardinality(found) = 1 => fitting = {})
            ELSE /\ Cardinality(found) = 1 /\ fitting = found
                 /\ \A b \in found :
                      SaysOf(doc, (G \ ToSet(Substituted(p.deletes, b, last.at)))
                                    \cup ToSet(Substituted(p.inserts, b, last.at)), doc.prefixes)

\* What src/patch/quads.js:90 says of a patch for which acl:Append is enough: that it
\* only adds triples.
AppendOnlyAdds ==
  last.answer = "2xx" /\ IsInsertOnly(last.patch) => last.before \subseteq Says(doc)
=============================================================================
