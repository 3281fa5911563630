---------------------------- MODULE Registration ----------------------------
(***************************************************************************)
(* How a pod comes into being: the registration form (src/idp/             *)
(* interactions.js), POST /.pods and createPodStructure (src/handlers/     *)
(* container.js), and the invites they may need (src/idp/invites.js).      *)
(* Nothing is locked: the tests for a free name and a free invite and what *)
(* is written after them are steps of their own. The account itself is one *)
(* step here; Accounts takes it apart.                                     *)
(* storage.write says whether it has written, and createPodStructure asks  *)
(* it of the private key alone.                                            *)
(***************************************************************************)
EXTENDS Naturals, FiniteSets

CONSTANTS
  Signups,      \* requests to the server
  PodNames,
  Lower,        \* the user name of each pod name: in small letters
  NoSignup,
  MaxUses,      \* uses of a new invite
  MaxRestarts

ASSUME RegistrationAssumption ==
  /\ NoSignup \notin Signups
  /\ DOMAIN Lower = PodNames
  /\ MaxUses \in Nat \ {0} /\ MaxRestarts \in Nat
  /\ IsFiniteSet(Signups)

VARIABLES
  stage,      \* how far each request is
  signup,     \* what it asks for
  invite,     \* the invites file, with one invite: [live, uses]
  read,       \* the invites file as each request has read it
  admitted,   \* history: how many requests the invite has let through
  mixed,      \* history: an invite was written from an outdated copy
  parts,      \* the parts of each pod that are on disk
  lost,       \* history: the parts of each pod that could not be written, unnoticed
  secret,     \* whose key is stored in each pod
  advert,     \* whose key each profile advertises
  holder,     \* accounts: the request that made the account of each user name
  abandoned,  \* history: user names of which createAccount threw when they had their account
  contested,  \* history: pods made by two requests at a time
  restarts

signupVars == <<stage, signup, invite, read, admitted, mixed, parts, lost, secret, advert, holder,
                abandoned, contested, restarts>>

UserNames == {Lower[n] : n \in PodNames}
Parts == {"folders", "acls"}
Form == [name : PodNames, byForm : BOOLEAN, invited : BOOLEAN, wellFormed : BOOLEAN, keyed : BOOLEAN]
Invite == [live : BOOLEAN, uses : 0..MaxUses]

RegistrationTypeOK ==
  /\ stage \in [Signups -> {"new", "invite", "consume", "validate", "exists", "folders", "acls",
                           "key", "profile", "account", "rollback", "done", "refused", "died"}]
  /\ signup \in [Signups -> Form]
  /\ invite \in Invite /\ read \in [Signups -> Invite]
  /\ admitted \in 0..Cardinality(Signups)
  /\ parts \in [PodNames -> SUBSET Parts] /\ lost \in [PodNames -> SUBSET Parts]
  /\ secret \in [PodNames -> Signups \cup {NoSignup}]
  /\ advert \in [PodNames -> Signups \cup {NoSignup}]
  /\ holder \in [UserNames -> Signups \cup {NoSignup}]
  /\ abandoned \in SUBSET UserNames /\ contested \in SUBSET PodNames
  /\ mixed \in BOOLEAN /\ restarts \in 0..MaxRestarts

RegistrationInit ==
  /\ stage = [s \in Signups |-> "new"]
  /\ signup \in [Signups -> {f \in Form : (f.invited => f.byForm) /\ (~ f.wellFormed => f.byForm)}]
  /\ invite = [live |-> TRUE, uses |-> 0]
  /\ read = [s \in Signups |-> invite]
  /\ admitted = 0 /\ mixed = FALSE
  /\ parts = [n \in PodNames |-> {}] /\ lost = [n \in PodNames |-> {}]
  /\ secret = [n \in PodNames |-> NoSignup]
  /\ advert = [n \in PodNames |-> NoSignup]
  /\ holder = [u \in UserNames |-> NoSignup]
  /\ abandoned = {} /\ contested = {}
  /\ restarts = 0
-----------------------------------------------------------------------------
inviteVars == <<invite, read, admitted, mixed>>
podVars == <<parts, lost, secret, advert>>
holderVars == <<holder, abandoned>>

Go(s, from, to) ==
  /\ stage[s] = from
  /\ stage' = [stage EXCEPT ![s] = to]
  /\ UNCHANGED <<signup, restarts>>

Name(s) == signup[s].name

\* storage.exists.
Exists(n) == parts[n] # {} \/ secret[n] # NoSignup \/ advert[n] # NoSignup

\* handleRegisterPost asks for the invite first if the server is invite-only;
\* handleCreatePod has looked at its input, of which nothing is stored yet.
Arrive(s) ==
  /\ Go(s, "new", CASE signup[s].invited -> "invite"
                    [] signup[s].byForm /\ ~ signup[s].invited -> "validate"
                    [] OTHER -> "exists")
  /\ UNCHANGED <<inviteVars, podVars, holderVars, contested>>

\* validateInvite reads the file.
LoadInvites(s) ==
  /\ Go(s, "invite", "consume")
  /\ read' = [read EXCEPT ![s] = invite]
  /\ UNCHANGED <<invite, admitted, mixed, podVars, holderVars, contested>>

Usable(i) == i.live /\ i.uses < MaxUses

\* It takes one use off the copy and writes that.
ConsumeInvite(s) ==
  /\ \/ /\ Usable(read[s])
        /\ Go(s, "consume", "validate")
        /\ invite' = [read[s] EXCEPT !.uses = @ + 1]
        /\ mixed' = (mixed \/ invite # read[s])
        /\ admitted' = admitted + 1
     \/ /\ ~ Usable(read[s])
        /\ Go(s, "consume", "refused")
        /\ UNCHANGED <<invite, admitted, mixed>>
  /\ UNCHANGED <<read, podVars, holderVars, contested>>

\* The administrator's tool deletes the invite; its use is not counted any more.
RevokeInvite ==
  /\ invite.live
  /\ invite' = [invite EXCEPT !.live = FALSE]
  /\ UNCHANGED <<stage, signup, read, admitted, mixed, podVars, holderVars, contested, restarts>>

\* The form itself; an invite that was used stays used.
Validate(s) ==
  /\ Go(s, "validate", IF signup[s].wellFormed THEN "exists" ELSE "refused")
  /\ UNCHANGED <<inviteVars, podVars, holderVars, contested>>

Building(s) == stage[s] \in {"folders", "acls", "key", "profile", "account", "rollback"}

\* storage.exists of the pod.
CheckExists(s) ==
  /\ Go(s, "exists", IF Exists(Name(s)) THEN "refused" ELSE "folders")
  /\ contested' = IF \E t \in Signups \ {s} : Building(t) /\ Name(t) = Name(s)
                  THEN contested \cup {Name(s)} ELSE contested
  /\ UNCHANGED <<inviteVars, podVars, holderVars>>

\* A part is written, or it is not and nobody looks.
Add(s, part) ==
  \/ parts' = [parts EXCEPT ![Name(s)] = @ \cup {part}] /\ UNCHANGED lost
  \/ lost' = [lost EXCEPT ![Name(s)] = @ \cup {part}] /\ UNCHANGED parts

AfterFolders(s) == "acls"

\* createPodStructure: the containers, preferences and type indexes.
MakeFolders(s) ==
  /\ Go(s, "folders", AfterFolders(s))
  /\ Add(s, "folders")
  /\ UNCHANGED <<inviteVars, secret, advert, holderVars, contested>>

\* Variant of the order: the profile before the key.
AfterAclsProfile(s) == "profile"

AfterAcls(s) == IF signup[s].keyed THEN "key" ELSE "profile"

\* The ACLs, of /private/ among them.
MakeAcls(s) ==
  /\ Go(s, "acls", AfterAcls(s))
  /\ Add(s, "acls")
  /\ UNCHANGED <<inviteVars, secret, advert, holderVars, contested>>

\* The private key; if it cannot be written, createPodStructure throws: handleCreatePod
\* removes the pod, the form shows the error and leaves it.
MakeKey(s) ==
  /\ \/ /\ Go(s, "key", "profile")
        /\ secret' = [secret EXCEPT ![Name(s)] = s]
     \/ /\ Go(s, "key", IF signup[s].byForm THEN "refused" ELSE "rollback")
        /\ UNCHANGED secret
  /\ UNCHANGED <<inviteVars, parts, lost, advert, holderVars, contested>>

\* The profile comes last. It advertises the key that was made, if it can be written.
MakeProfile(s) ==
  /\ Go(s, "profile", "account")
  /\ \/ /\ advert' = [advert EXCEPT ![Name(s)] = IF signup[s].keyed THEN s ELSE NoSignup]
        /\ parts' = [parts EXCEPT ![Name(s)] = @ \cup {"folders"}]
     \/ UNCHANGED <<advert, parts>>
  /\ UNCHANGED <<inviteVars, lost, secret, holderVars, contested>>

\* createAccount has its user name lead to the account.
EnterAccount(s) ==
  /\ holder[Lower[Name(s)]] = NoSignup
  /\ holder' = [holder EXCEPT ![Lower[Name(s)]] = s]

\* When it throws handleCreatePod removes the pod, and the form does not.
Refuse(s) == Go(s, "account", IF signup[s].byForm THEN "refused" ELSE "rollback")

\* createAccount. It throws when the name is taken, or a file cannot be read or written
\* before the user name leads to the account; or after, and then the account stays.
MakeAccount(s) ==
  /\ \/ EnterAccount(s) /\ Go(s, "account", "done") /\ UNCHANGED abandoned
     \/ Refuse(s) /\ UNCHANGED holderVars
     \/ /\ EnterAccount(s) /\ Refuse(s)
        /\ abandoned' = IF signup[s].byForm THEN abandoned ELSE abandoned \cup {Lower[Name(s)]}
  /\ UNCHANGED <<inviteVars, podVars, contested>>

Wiped(n) ==
  /\ parts' = [parts EXCEPT ![n] = {}]
  /\ secret' = [secret EXCEPT ![n] = NoSignup]
  /\ advert' = [advert EXCEPT ![n] = NoSignup]

\* storage.remove of the pod, whoever has made it; nobody looks whether it worked. (One
\* that stops half way, with some of the files gone, is left out.)
Rollback(s) ==
  /\ Go(s, "rollback", "refused")
  /\ Wiped(Name(s)) \/ UNCHANGED <<parts, secret, advert>>
  /\ UNCHANGED <<inviteVars, lost, holderVars, contested>>

\* The server dies and is started again.
Restart ==
  /\ restarts < MaxRestarts
  /\ restarts' = restarts + 1
  /\ \E s \in Signups : stage[s] \notin {"new", "done", "refused", "died"}
  /\ stage' = [s \in Signups |-> IF stage[s] \in {"new", "done", "refused"} THEN stage[s] ELSE "died"]
  /\ UNCHANGED <<signup, inviteVars, podVars, holderVars, contested>>

RegistrationNext ==
  \/ \E s \in Signups :
       \/ Arrive(s) \/ LoadInvites(s) \/ ConsumeInvite(s) \/ Validate(s) \/ CheckExists(s)
       \/ MakeFolders(s) \/ MakeAcls(s) \/ MakeKey(s) \/ MakeProfile(s) \/ MakeAccount(s)
       \/ Rollback(s)
  \/ RevokeInvite
  \/ Restart

RegistrationSpec == RegistrationInit /\ [][RegistrationNext]_signupVars
-----------------------------------------------------------------------------
\* What createPodStructure takes to be on disk.
Made(n) == parts[n] \cup lost[n]

\* "write privkey after the ACL tree is in place": a stored key is never without the
\* ACLs, at no step, after no crash and after no rollback, unless two requests were
\* making the same pod, or an ACL could not be written, which nobody notices.
KeyUnderAcls ==
  \A n \in PodNames \ contested : secret[n] # NoSignup => "acls" \in Made(n)

\* "write privkey before the profile": a profile advertises no key that is not stored.
AdvertisedKeyStored ==
  \A n \in PodNames \ contested : advert[n] # NoSignup => secret[n] = advert[n]

\* An account has its whole pod, but for what could not be written: the account comes
\* last, and the rollback of a request that finds the user name taken removes only what
\* it has made itself. (It does not when POST /.pods throws after it has made the account.)
AccountHasPod ==
  \A u \in UserNames \ abandoned :
    holder[u] # NoSignup /\ Name(holder[u]) \notin contested
    => Made(Name(holder[u])) = Parts

\* As long as nobody writes it from an outdated copy, the invite has let as many
\* through as it counts, and no more than it may.
InviteCounted == ~ mixed => admitted = invite.uses /\ admitted <= MaxUses

\* "Create a single-use invite": an invite lets no more requests through than it may. (Two
\* that read it before either saves its use both pass.)
InviteWithinUses == admitted <= MaxUses

\* A registration that is cut off at any step leaves nothing open, half advertised or
\* paid for twice, with the exceptions that each part names.
RegistrationSafe ==
  RegistrationTypeOK /\ KeyUnderAcls /\ AdvertisedKeyStored /\ AccountHasPod /\ InviteCounted
=============================================================================
