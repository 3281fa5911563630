------------------------------ MODULE MCRequests ------------------------------
(* Instances for TLC of what is done with one request: the replay caches, the cache of
   profiles, the ways from a key to a WebID, the check of a key against a profile, PATCH
   and the writes between patches, and remoteStorage. `part` says which of them a
   behaviour is about; the others stay as they began. *)
EXTENDS Replay, ProfileCache, Resolver, KeyBinding, Patch, RemoteStorage, TLC

CONSTANTS Them, Other, k1, k2

VARIABLE part

\* Callers and Seekers are given the same two values, and so are Urls and Holders: no
\* behaviour has to do with both.
Alike == Permutations(Callers) \cup Permutations(Urls)

(* Replay: an event for a whole repository, one for a PUT of a file with its payload, one
   for the same file with a query and no payload; DPoP proofs of which two have one jti. *)
Repo == <<"repo">>
RepoFile == <<"repo", "file">>
Asked == <<"repo", "file", "?q">>
MCEvents == {[u |-> Repo, method |-> "*", payload |-> Absent, at |-> 2],
             [u |-> RepoFile, method |-> "PUT", payload |-> "b1", at |-> 3],
             [u |-> Asked, method |-> "PUT", payload |-> Absent, at |-> 3]}
MCSignedRequests == {[url |-> Asked, page |-> RepoFile, method |-> "PUT", body |-> "b1", git |-> FALSE],
                     [url |-> Asked, page |-> RepoFile, method |-> "PUT", body |-> Absent, git |-> FALSE],
                     [url |-> RepoFile, page |-> RepoFile, method |-> "PUT", body |-> "b2", git |-> FALSE],
                     [url |-> RepoFile, page |-> RepoFile, method |-> "POST", body |-> "b1", git |-> TRUE]}
MCProofs == [jti : {"j1"}, iat : {2, 4}]

(* Keys: every profile with at most two verification methods. *)
MCMethods == [id : {k1, k2}, multibase : {Key, Other, Undeclared}, jwk : {Key, Undeclared},
              controller : {Undeclared, {WebId}, {Them}}]
MCProfiles == [subject : {WebId, Them}, controller : {Undeclared, {}, {WebId}, {Them}},
               authentication : SUBSET {k1, k2}, methods : BoundedSeq(MCMethods, 2),
               sameAs : BOOLEAN]

NoProfile == [subject |-> WebId, controller |-> Undeclared, authentication |-> {}, methods |-> <<>>,
              sameAs |-> FALSE]

(* Patches: a profile card that says something about itself, about #me and about another
   resource, written as JSON-LD in four shapes and as Turtle in three. *)
MCBase == <<"http://h", "/", "card">>
MCOrigins == {"http://h", "http://ex/", "http://foaf/", "http://rdf/"}
MCFragments == {"#me", "?x"}
MCCommon == [foaf |-> <<"http://foaf/">>]
MCRdfType == <<"http://rdf/", "type">>
MCPrinted == ("1" :> "1") @@ ("1.0" :> "1") @@ ("0" :> "0")
MCWhole == {"1", "0"}

Ex(n) == <<"http://ex/", n>>
Me == Iri(MCBase \o <<"#me">>)
Card == Iri(MCBase)
Card2 == Iri(MCBase \o <<"2">>)
Another == Iri(<<"http://h", "/", "other">>)
Knows == Iri(<<"http://foaf/", "knows">>)
Count == Iri(Ex("count"))
Odd == Iri(<<"http://ex/", "a", ":", "b">>)
Type == Iri(MCRdfType)
Numeral(n) == Literal(n, "integer")
Str(v) == Literal(v, "string")
Var(x) == [var |-> x]
ex == [ex |-> <<"http://ex/">>]
Row(s, key, o) == [s |-> s, key |-> key, o |-> o]
MeRel == [id |-> <<"#me">>]
MCJsonDocuments ==
  {JsonDocument(<<Row(MeRel, <<"ex", ":", "count">>, [number |-> "0"])>>, TRUE, FALSE, <<>>, ex),
   JsonDocument(<<>>, FALSE, TRUE,
     <<Row(MeRel, <<"ex", ":", "count">>, [number |-> "1"]),
       Row([id |-> <<"/", "other">>], <<"foaf", ":", "knows">>, MeRel)>>, ex),
   JsonDocument(<<Row(MeRel, <<"ex", ":", "count">>, [number |-> "1"])>>, TRUE, TRUE,
     <<Row([id |-> <<"/", "other">>], <<"foaf", ":", "knows">>, MeRel)>>, ex),
   JsonDocument(<<Row(MeRel, <<"foaf", ":", "knows">>, MeRel)>>, FALSE, FALSE, <<>>, ex)}

MCTurtles ==
  {[quads |-> <<Triple(Me, Count, Numeral("1.0")), Triple(Me, Knows, Card2)>>, prefixes |-> ex],
   [quads |-> <<Triple(Me, Odd, Card), Triple(Another, Type, Knows)>>, prefixes |-> ("" :> <<"http://ex/">>)],
   [quads |-> <<Triple(Me, Knows, Blank(<<"b">>)), Triple(Blank(<<"b">>), Count, Str(""))>>, prefixes |-> <<>>]}

P(language, where, deletes, inserts) ==
  [language |-> language, where |-> where, deletes |-> deletes, inserts |-> inserts]
MCPatches ==
  {P("n3", <<>>, <<>>, <<Triple(Me, Count, Numeral("1"))>>),
   P("sparql", <<>>, <<Triple(Me, Count, Numeral("1"))>>, <<Triple(Me, Count, Numeral("0"))>>),
   P("sparql", <<Triple(Me, Knows, Var("?x"))>>, <<Triple(Me, Knows, Var("?x"))>>, <<>>),
   P("sparql", <<Triple(Me, Knows, Var("?x"))>>, <<>>, <<Triple(Me, Count, Numeral("1")), Triple(Another, Knows, Var("?x"))>>),
   P("n3", <<Triple(Var("?y"), Knows, Var("?x"))>>, <<Triple(Var("?y"), Knows, Var("?x"))>>,
     <<Triple(Var("?x"), Knows, Another)>>),
   P("n3", <<>>, <<>>, <<Triple(Me, Knows, [blank |-> "a"]), Triple([blank |-> "a"], Count, Numeral("1"))>>),
   P("n3", <<Triple(Me, Count, Var("?x"))>>, <<>>, <<Triple(Me, Odd, Var("?z"))>>),
   P("n3", <<Triple(Me, Count, Var("?x"))>>, <<Triple(Me, Count, Var("?x"))>>, <<Triple(Me, Count, Var("?x"))>>)}
-----------------------------------------------------------------------------
allVars == <<part, replayVars, cacheVars, resolverVars, bindingVars, patchVars, remoteVars>>

PartsInit ==
  /\ part \in {"replay", "profiles", "keys", "binding", "patch", "remote"}
  /\ ReplayInit /\ CacheInit /\ ResolverInit /\ PatchInit /\ RemoteInit
  /\ IF part = "keys" THEN Holds("up") ELSE \A f \in FactNames : ~ Holds(f)
  /\ IF part = "binding" THEN BindingInit ELSE profile = NoProfile /\ verdict = {}

PartsNext ==
  /\ UNCHANGED part
  /\ \/ /\ part = "replay" /\ ReplayNext
        /\ UNCHANGED <<cacheVars, resolverVars, bindingVars, patchVars, remoteVars>>
     \/ /\ part = "profiles" /\ CacheNext
        /\ UNCHANGED <<replayVars, resolverVars, bindingVars, patchVars, remoteVars>>
     \/ /\ part = "keys" /\ ResolverNext
        /\ UNCHANGED <<replayVars, cacheVars, bindingVars, patchVars, remoteVars>>
     \/ /\ part = "binding" /\ Verify
        /\ UNCHANGED <<replayVars, cacheVars, resolverVars, patchVars, remoteVars>>
     \/ /\ part = "patch" /\ PatchNext
        /\ UNCHANGED <<replayVars, cacheVars, resolverVars, bindingVars, remoteVars>>
     \/ /\ part = "remote" /\ RemoteNext
        /\ UNCHANGED <<replayVars, cacheVars, resolverVars, bindingVars, patchVars>>

PartsSpec == PartsInit /\ [][PartsNext]_allVars

PatchOnly == PartsInit /\ part = "patch" /\ [][PartsNext]_allVars
=============================================================================
