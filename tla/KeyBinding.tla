----------------------------- MODULE KeyBinding -----------------------------
(***************************************************************************)
(* Whether a WebID profile binds a Nostr key.  The code decides it four    *)
(* times: for the owner of the requested pod (auth/nostr.js, and the IdP's *)
(* login with a key through the same steps), for a remote profile that a   *)
(* DID document points to (auth/did-nostr.js), for the index of local      *)
(* accounts (idp/well-known-did-nostr.js), and for a JWT signed with a key *)
(* named by its kid (auth/lws-cid.js).  They are to give one answer about  *)
(* the methods; the second takes a sameAs link to the key instead.         *)
(*                                                                         *)
(* A profile is [subject, controller, authentication, methods, sameAs]: the*)
(* last says whether a sameAs member names the DID of the key.  A method   *)
(* is [id, multibase, jwk, controller].  IRIs are absolute: making them so *)
(* against the document's URL is left out.  Undeclared is an absent member.*)
(***************************************************************************)
EXTENDS Naturals, Sequences, SequencesExt

CONSTANTS
  Profiles,    \* the profiles considered
  WebId,       \* the WebID that is asked about
  Key,         \* the key that signed the request
  Undeclared

ASSUME BindingAssumption ==
  /\ Key # Undeclared
  /\ \A p \in Profiles : Len(p.methods) \in Nat /\ DOMAIN p.methods = 1 .. Len(p.methods)

VARIABLES
  profile,
  verdict      \* what each verifier said: {} or the record below

bindingVars == <<profile, verdict>>

Methods(p) == ToSet(p.methods)

Meets(a, b) == a \cap b # {}

\* normalizeControllers: no value gives no controllers.
Normal(c) == IF c = Undeclared THEN {} ELSE c
-----------------------------------------------------------------------------
(* auth/nostr.js *)

\* A match by either member.
CarriesEither(m) == m.multibase = Key \/ m.jwk = Key

\* findNostrVmInProfile stops at the first method of the key.
FirstOfKey(p) == SelectInSeq(p.methods, CarriesEither)

\* `profile.controller ?? profile['@id']`: a list that is empty stays so.
ExpectedControllers(p) == IF p.controller = Undeclared THEN {p.subject} ELSE p.controller

\* Variant: a method listed under verificationMethod alone will do
InAuthenticationAny(p, id) == \E m \in Methods(p) : m.id = id

InAuthentication(p, id) == id \in p.authentication

Accepted(p, m) ==
  /\ InAuthentication(p, m.id)
  /\ Meets(Normal(m.controller), ExpectedControllers(p))

ResourceAccepts(p) ==
  /\ p.subject = WebId
  /\ FirstOfKey(p) # 0
  /\ Accepted(p, p.methods[FirstOfKey(p)])
-----------------------------------------------------------------------------
(* auth/did-nostr.js and idp/well-known-did-nostr.js, over auth/nostr-keys.js *)

\* extractNostrPubkeysFromProfile: a multibase, of whatever kind, hides the JWK.
Extracted(m) == IF m.multibase # Undeclared THEN m.multibase = Key ELSE m.jwk = Key

\* An empty list of controllers falls back to the subject.
ControllersOrSubject(p) == IF Normal(p.controller) = {} THEN {p.subject} ELSE p.controller

Controlled(p, m) == Meets(Normal(m.controller), ControllersOrSubject(p))

\* checkCidVmBacklink: any method of the key, whatever subject the profile declares.
CidVmBacklink(p) ==
  \E m \in Methods(p) : Extracted(m) /\ m.id \in p.authentication /\ Controlled(p, m)

\* verifyWebIdBacklink: the older link by sameAs will do, whatever the methods say.
BacklinkAccepts(p) == CidVmBacklink(p) \/ p.sameAs

\* One account of rebuildPubkeyIndex.
Indexed(p) ==
  /\ p.subject = WebId
  /\ \E m \in Methods(p) : Extracted(m) /\ m.id \in p.authentication /\ Controlled(p, m)
-----------------------------------------------------------------------------
(* auth/lws-cid.js: the method is found by the kid, and must carry a JWK. *)

FirstWithId(p, kid) == SelectInSeq(p.methods, LAMBDA m : m.id = kid)

LwsAccepts(p, kid) ==
  /\ p.subject = WebId
  /\ FirstWithId(p, kid) # 0
  /\ Accepted(p, p.methods[FirstWithId(p, kid)])
  /\ p.methods[FirstWithId(p, kid)].jwk = Key
-----------------------------------------------------------------------------
BindingInit == profile \in Profiles /\ verdict = {}

Verify ==
  /\ verdict = {}
  /\ verdict' = {[resource |-> ResourceAccepts(profile),
                  backlink |-> BacklinkAccepts(profile),
                  indexed  |-> Indexed(profile),
                  lws      |-> {m.id : m \in {n \in Methods(profile) : LwsAccepts(profile, n.id)}}]}
  /\ profile' = profile

BindingSpec == BindingInit /\ [][Verify]_bindingVars
-----------------------------------------------------------------------------
(* What the profile says: a method with the key, listed for authentication,*)
(* controlled by who controls the profile.                                 *)
Binds(p) ==
  \E m \in Methods(p) :
    /\ Key \in {m.multibase, m.jwk}
    /\ m.id \in p.authentication
    /\ m.controller # Undeclared
    /\ \E c \in m.controller :
         IF p.controller \in {Undeclared, {}} THEN c = p.subject ELSE c \in p.controller

(* The pod's owner, the index and a JWT's kid accept no key the profile    *)
(* does not bind, and for no other WebID.  The backlink of a DID document, *)
(* which takes whatever subject the profile declares, accepts besides only *)
(* a key the profile links to by sameAs: no method, list or controller is  *)
(* asked for then.                                                         *)
AcceptedAreBound ==
  \A v \in verdict :
    /\ v.resource \/ v.indexed \/ v.lws # {} => Binds(profile) /\ profile.subject = WebId
    /\ v.backlink => Binds(profile) \/ profile.sameAs

\* No second method of the key, no method in two encodings, no empty list of controllers.
PlainProfile(p) ==
  /\ \A i, j \in DOMAIN p.methods : i # j => ~(CarriesEither(p.methods[i]) /\ CarriesEither(p.methods[j]))
  /\ \A i, j \in DOMAIN p.methods : p.methods[i].id = p.methods[j].id => i = j
  /\ \A m \in Methods(p) : Undeclared \in {m.multibase, m.jwk}
  /\ p.controller # {}
  /\ p.subject = WebId

(* On such a profile, the shape the server and its tools write, all the    *)
(* copies of the check agree about the methods, so a key that is published *)
(* is a key that signs in.  A sameAs link tells them apart: it satisfies   *)
(* the backlink alone.                                                     *)
VerifiersAgree ==
  \A v \in verdict : PlainProfile(profile) =>
    /\ v.resource = v.indexed
    /\ v.backlink <=> v.resource \/ profile.sameAs
    /\ v.lws # {} => v.resource
    /\ v.resource /\ profile.methods[FirstOfKey(profile)].jwk = Key => v.lws # {}

(* A key that the index (and with it the DID document at /.well-known)     *)
(* publishes is accepted by the verifier. (It is not where an earlier method *)
(* of the key is not listed or not controlled.)                            *)
IndexedVerifies == \A v \in verdict : v.indexed => v.resource

\* A key is taken for somebody's only where his profile says so, by all verifiers alike but for
\* the sameAs link.
BindingSafe == AcceptedAreBound /\ VerifiersAgree
=============================================================================
