--------------------------- MODULE IdentityProofs ---------------------------
(***************************************************************************)
(* What holds for any number of requests, clients and deliveries of the    *)
(* parts that keep people's names: registration of pods, passkeys, the     *)
(* ActivityPub server, the pages that sign somebody in, and the account    *)
(* files with their indexes (Registration, Passkey, Federation, Login and  *)
(* Accounts). Each part has an inductive invariant of its own.             *)
(***************************************************************************)
EXTENDS Accounts, Federation, Passkey, Registration, Login, FiniteSetTheorems, TLAPS
-----------------------------------------------------------------------------
(* Registration. *)

USE RegistrationAssumption

\* Requests that have no invite to use any more.
Beyond == {s \in Signups : stage[s] \notin {"new", "invite", "consume"}}

\* An invite was counted for none but those.
AdmittedBeyond == admitted \in Nat /\ admitted <= Cardinality(Beyond)

LEMMA BeyondFinite ==
  IsFiniteSet(Beyond) /\ Cardinality(Beyond) \in Nat /\ Cardinality(Beyond) <= Cardinality(Signups)
  /\ Cardinality(Signups) \in Nat
BY FS_Subset, FS_CardinalityType DEF Beyond

\* Nobody goes back to before its invite.
LEMMA BeyondGrows ==
  ASSUME AdmittedBeyond, Beyond \subseteq Beyond', admitted' = admitted,
         IsFiniteSet(Beyond')
  PROVE  AdmittedBeyond'
<1>1. Cardinality(Beyond) <= Cardinality(Beyond') /\ Cardinality(Beyond) \in Nat /\ Cardinality(Beyond') \in Nat
  BY FS_Subset, FS_CardinalityType
<1>. QED
  BY <1>1 DEF AdmittedBeyond

Stages == {"new", "invite", "consume", "validate", "exists", "folders", "acls",
           "key", "profile", "account", "rollback", "done", "refused", "died"}

\* How far the pod of a request has come, if the request alone is making it.
Progress(s) ==
  /\ stage[s] = "folders" => secret[Name(s)] = NoSignup /\ advert[Name(s)] = NoSignup
  /\ stage[s] = "acls" => /\ "folders" \in Made(Name(s))
                          /\ secret[Name(s)] = NoSignup /\ advert[Name(s)] = NoSignup
  /\ stage[s] = "key" => /\ Made(Name(s)) = Parts
                         /\ secret[Name(s)] = NoSignup /\ advert[Name(s)] = NoSignup
  /\ stage[s] = "profile" => /\ Made(Name(s)) = Parts /\ advert[Name(s)] = NoSignup
                             /\ signup[s].keyed => secret[Name(s)] = s
  /\ stage[s] = "account" => Made(Name(s)) = Parts

Alone(s) == \A t \in Signups \ {s} : Building(t) => Name(t) # Name(s)

\* A pod that is made, and that nobody finds missing unless nothing of it could be written.
Kept(n) ==
  /\ Made(n) = Parts
  /\ lost[n] # Parts => \A s \in Signups : Building(s) => Name(s) # n

\* Who makes a pod that nobody contests makes it alone, and an account's pod is made.
PodsInv ==
  /\ \A s \in Signups : Name(s) \notin contested /\ Building(s) => Progress(s) /\ Alone(s)
  /\ \A u \in UserNames \ abandoned :
       holder[u] # NoSignup /\ Name(holder[u]) \notin contested => Kept(Name(holder[u]))
  /\ KeyUnderAcls /\ AdvertisedKeyStored

RegistrationInv == RegistrationTypeOK /\ AdmittedBeyond /\ InviteCounted /\ PodsInv

LEMMA RegistrationStart == RegistrationInit => RegistrationInv
<1>. SUFFICES ASSUME RegistrationInit PROVE RegistrationInv
  OBVIOUS
<1>1. invite \in Invite
  BY DEF RegistrationInit, Invite
<1>2. RegistrationTypeOK
  <2>1. signup \in [Signups -> Form]
    BY DEF RegistrationInit
  <2>2. admitted \in 0 .. Cardinality(Signups) /\ restarts \in 0 .. MaxRestarts
    BY BeyondFinite DEF RegistrationInit
  <2>3. read \in [Signups -> Invite]
    BY <1>1 DEF RegistrationInit
  <2>. QED
    BY <1>1, <2>1, <2>2, <2>3 DEF RegistrationInit, RegistrationTypeOK
<1>3. AdmittedBeyond /\ InviteCounted
  BY BeyondFinite DEF RegistrationInit, AdmittedBeyond, InviteCounted
<1>4. PodsInv
  BY DEF RegistrationInit, PodsInv, KeyUnderAcls, AdvertisedKeyStored, Building
<1>. QED
  BY <1>2, <1>3, <1>4 DEF RegistrationInv

\* The invite: one more is counted for a request that goes beyond, as long as nobody
\* overwrites a count that it has not read.
LEMMA InviteStep ==
  ASSUME RegistrationTypeOK, AdmittedBeyond, InviteCounted, RegistrationNext
  PROVE  AdmittedBeyond' /\ InviteCounted'
<1>0. /\ stage \in [Signups -> Stages] /\ invite \in Invite /\ read \in [Signups -> Invite]
  BY DEF RegistrationTypeOK, Stages
<1>01. mixed \in BOOLEAN
  BY DEF RegistrationTypeOK
<1>00. IsFiniteSet(Beyond') /\ Cardinality(Beyond') \in Nat
  <2>1. Beyond' \subseteq Signups
    BY DEF Beyond
  <2>. QED
    BY <2>1, FS_Subset, FS_CardinalityType
<1>1. ASSUME NEW s \in Signups, ConsumeInvite(s), Usable(read[s])
      PROVE  AdmittedBeyond' /\ InviteCounted'
  <2>1. /\ admitted' = admitted + 1 /\ invite' = [read[s] EXCEPT !.uses = @ + 1]
        /\ mixed' = (mixed \/ invite # read[s])
        /\ stage[s] = "consume" /\ stage' = [stage EXCEPT ![s] = "validate"]
    BY <1>1 DEF ConsumeInvite, Go
  <2>2. Beyond' = Beyond \cup {s} /\ s \notin Beyond
    BY <1>0, <2>1 DEF Beyond
  <2>3. Cardinality(Beyond') = Cardinality(Beyond) + 1
    BY <2>2, BeyondFinite, FS_AddElement
  <2>4. InviteCounted'
    <3>. SUFFICES ASSUME ~ mixed' PROVE admitted' = invite'.uses /\ admitted' <= MaxUses
      BY DEF InviteCounted
    <3>1. ~ mixed /\ invite = read[s]
      BY <1>01, <2>1
    <3>2. admitted = invite.uses /\ read[s].uses < MaxUses /\ read[s] \in Invite
      BY <1>0, <1>1, <3>1 DEF InviteCounted, Usable
    <3>3. invite'.uses = read[s].uses + 1
      BY <2>1, <3>2 DEF Invite
    <3>. QED
      BY <2>1, <3>1, <3>2, <3>3 DEF Invite
  <2>. QED
    BY <2>1, <2>3, <2>4, BeyondFinite DEF AdmittedBeyond
<1>2. ASSUME NEW s \in Signups,
             \/ Arrive(s) \/ LoadInvites(s) \/ (ConsumeInvite(s) /\ ~ Usable(read[s])) \/ Validate(s)
             \/ CheckExists(s) \/ MakeFolders(s) \/ MakeAcls(s) \/ MakeKey(s) \/ MakeProfile(s)
             \/ MakeAccount(s) \/ Rollback(s)
      PROVE  AdmittedBeyond' /\ InviteCounted'
  <2>1. UNCHANGED <<admitted, invite, mixed>>
    BY <1>2 DEF Arrive, LoadInvites, ConsumeInvite, Validate, CheckExists, MakeFolders, MakeAcls,
                MakeKey, MakeProfile, MakeAccount, Rollback, inviteVars
  <2>2. Beyond \subseteq Beyond'
    <3>. USE <1>0 DEF Go, Beyond
    <3>1. CASE Arrive(s)
      BY <3>1 DEF Arrive
    <3>2. CASE LoadInvites(s)
      BY <3>2 DEF LoadInvites
    <3>3. CASE ConsumeInvite(s) /\ ~ Usable(read[s])
      BY <3>3 DEF ConsumeInvite
    <3>4. CASE Validate(s) \/ CheckExists(s)
      BY <3>4 DEF Validate, CheckExists
    <3>5. CASE MakeFolders(s) \/ MakeAcls(s)
      BY <3>5 DEF MakeFolders, MakeAcls, AfterFolders, AfterAcls
    <3>6. CASE MakeKey(s)
      BY <3>6 DEF MakeKey
    <3>7. CASE MakeProfile(s) \/ MakeAccount(s) \/ Rollback(s)
      BY <3>7 DEF MakeProfile, MakeAccount, Refuse, Rollback
    <3>. QED
      BY <1>2, <3>1, <3>2, <3>3, <3>4, <3>5, <3>6, <3>7
  <2>. QED
    BY <1>00, <2>1, <2>2, BeyondGrows DEF InviteCounted
<1>3. CASE RevokeInvite
  <2>1. invite' = [invite EXCEPT !.live = FALSE] /\ UNCHANGED <<stage, admitted, mixed>>
    BY <1>3 DEF RevokeInvite
  <2>2. invite'.uses = invite.uses
    BY <1>0, <2>1 DEF Invite
  <2>. QED
    BY <2>1, <2>2 DEF AdmittedBeyond, Beyond, InviteCounted
<1>4. CASE Restart
  <2>1. Beyond \subseteq Beyond'
    BY <1>0, <1>4 DEF Restart, Beyond
  <2>2. UNCHANGED <<admitted, invite, mixed>>
    BY <1>4 DEF Restart, inviteVars
  <2>. QED
    BY <1>00, <2>1, <2>2, BeyondGrows DEF InviteCounted
<1>. QED
  BY <1>1, <1>2, <1>3, <1>4 DEF RegistrationNext

LEMMA RegistrationTypes ==
  ASSUME RegistrationTypeOK, AdmittedBeyond', RegistrationNext PROVE RegistrationTypeOK'
<1>1. admitted' \in 0 .. Cardinality(Signups)
  <2>1. Beyond' \subseteq Signups
    BY DEF Beyond
  <2>2. Cardinality(Beyond') <= Cardinality(Signups) /\ Cardinality(Beyond') \in Nat
    BY <2>1, FS_Subset, FS_CardinalityType
  <2>. QED
    BY <2>2, BeyondFinite DEF AdmittedBeyond
<1>2. \A s \in Signups : Name(s) \in PodNames /\ Lower[Name(s)] \in UserNames
  BY DEF RegistrationTypeOK, Name, Form, UserNames
<1>. USE DEF RegistrationTypeOK, Go
<1>3. ASSUME NEW s \in Signups, Arrive(s) \/ Validate(s) PROVE RegistrationTypeOK'
  BY <1>1, <1>3 DEF Arrive, Validate, inviteVars, podVars, holderVars
<1>4. ASSUME NEW s \in Signups, LoadInvites(s) PROVE RegistrationTypeOK'
  BY <1>1, <1>4 DEF LoadInvites, podVars, holderVars
<1>5. ASSUME NEW s \in Signups, ConsumeInvite(s) PROVE RegistrationTypeOK'
  <2>1. invite' \in Invite
    BY <1>5 DEF ConsumeInvite, Usable, Invite
  <2>2. mixed' \in BOOLEAN
    BY <1>5 DEF ConsumeInvite
  <2>. QED
    BY <1>1, <1>5, <2>1, <2>2 DEF ConsumeInvite, podVars, holderVars
<1>6. ASSUME NEW s \in Signups, CheckExists(s) PROVE RegistrationTypeOK'
  <2>1. contested' \in SUBSET PodNames
    BY <1>2, <1>6 DEF CheckExists
  <2>. QED
    BY <1>1, <1>6, <2>1 DEF CheckExists, inviteVars, podVars, holderVars
<1>7. ASSUME NEW s \in Signups, MakeFolders(s) \/ MakeAcls(s) PROVE RegistrationTypeOK'
  <2>1. parts' \in [PodNames -> SUBSET Parts] /\ lost' \in [PodNames -> SUBSET Parts]
    BY <1>2, <1>7 DEF MakeFolders, MakeAcls, Add, Parts
  <2>. QED
    BY <1>1, <1>7, <2>1 DEF MakeFolders, MakeAcls, AfterFolders, AfterAcls, inviteVars, holderVars
<1>8. ASSUME NEW s \in Signups, MakeKey(s) PROVE RegistrationTypeOK'
  BY <1>1, <1>2, <1>8 DEF MakeKey, inviteVars, holderVars
<1>9. ASSUME NEW s \in Signups, MakeProfile(s) PROVE RegistrationTypeOK'
  <2>1. parts' \in [PodNames -> SUBSET Parts]
    BY <1>2, <1>9 DEF MakeProfile, Parts
  <2>2. advert' \in [PodNames -> Signups \cup {NoSignup}]
    BY <1>2, <1>9 DEF MakeProfile
  <2>. QED
    BY <1>1, <1>9, <2>1, <2>2 DEF MakeProfile, inviteVars, holderVars
<1>10. ASSUME NEW s \in Signups, MakeAccount(s) PROVE RegistrationTypeOK'
  <2>1. holder' \in [UserNames -> Signups \cup {NoSignup}] /\ abandoned' \in SUBSET UserNames
    BY <1>2, <1>10 DEF MakeAccount, EnterAccount, holderVars
  <2>2. stage' \in [Signups -> Stages]
    BY <1>10 DEF MakeAccount, Refuse, Stages
  <2>. QED
    BY <1>1, <1>10, <2>1, <2>2 DEF MakeAccount, Refuse, Stages, inviteVars, podVars, holderVars
<1>11. ASSUME NEW s \in Signups, Rollback(s) PROVE RegistrationTypeOK'
  <2>1. /\ parts' \in [PodNames -> SUBSET Parts]
        /\ secret' \in [PodNames -> Signups \cup {NoSignup}]
        /\ advert' \in [PodNames -> Signups \cup {NoSignup}]
    BY <1>2, <1>11 DEF Rollback, Wiped
  <2>. QED
    BY <1>1, <1>11, <2>1 DEF Rollback, inviteVars, holderVars
<1>12. CASE RevokeInvite
  <2>1. invite' \in Invite
    BY <1>12 DEF RevokeInvite, Invite
  <2>. QED
    BY <1>1, <1>12, <2>1 DEF RevokeInvite, podVars, holderVars
<1>13. CASE Restart
  BY <1>1, <1>13 DEF Restart, inviteVars, podVars, holderVars
<1>. QED
  BY <1>3, <1>4, <1>5, <1>6, <1>7, <1>8, <1>9, <1>10, <1>11, <1>12, <1>13 DEF RegistrationNext

\* The pods: who finds the name free builds alone or marks the pod as contested, and a
\* rollback wipes no pod but its own.
LEMMA PodsStep ==
  ASSUME RegistrationTypeOK, PodsInv, RegistrationNext, RegistrationTypeOK' PROVE PodsInv'
<1>0. /\ stage \in [Signups -> Stages] /\ parts \in [PodNames -> SUBSET Parts]
      /\ lost \in [PodNames -> SUBSET Parts] /\ lost' \in [PodNames -> SUBSET Parts]
      /\ parts' \in [PodNames -> SUBSET Parts]
      /\ secret \in [PodNames -> Signups \cup {NoSignup}]
      /\ advert \in [PodNames -> Signups \cup {NoSignup}]
      /\ holder \in [UserNames -> Signups \cup {NoSignup}]
      /\ contested \subseteq PodNames
  BY DEF RegistrationTypeOK, Stages
<1>1. \A s \in Signups : Name(s) \in PodNames /\ Lower[Name(s)] \in UserNames
  BY DEF RegistrationTypeOK, Name, Form, UserNames
<1>2. signup' = signup
  BY DEF RegistrationNext, RevokeInvite, Restart, Arrive, LoadInvites, ConsumeInvite, Validate,
         CheckExists, MakeFolders, MakeAcls, MakeKey, MakeProfile, MakeAccount, Refuse, Rollback, Go
<1>3. \A s \in Signups : Name(s)' = Name(s)
  BY <1>2 DEF Name
\* A pod that loses no part keeps what it has, if no request has begun to make it.
<1>30. ASSUME NEW n \in PodNames, Kept(n), parts'[n] = parts[n], lost'[n] = lost[n],
              \A t \in Signups : Building(t)' => Building(t)
       PROVE  Kept(n)'
  BY <1>3, <1>30 DEF Kept, Made
\* A step that changes no pod and after which no more requests are building.
<1>4. ASSUME UNCHANGED <<podVars, holderVars>>, contested \subseteq contested',
             \A s \in Signups : Building(s)' => stage'[s] = stage[s]
      PROVE  PodsInv'
  <2>0. UNCHANGED <<parts, lost, secret, advert, holder, abandoned>>
    BY <1>4 DEF podVars, holderVars
  <2>1. \A t \in Signups : Building(t)' => Building(t)
    BY <1>4 DEF Building
  <2>2. ASSUME NEW t \in Signups, Name(t)' \notin contested', Building(t)'
        PROVE  Progress(t)' /\ Alone(t)'
    <3>1. Progress(t) /\ Alone(t) /\ stage'[t] = stage[t]
      BY <1>3, <1>4, <2>1, <2>2 DEF PodsInv
    <3>. QED
      BY <1>2, <1>3, <2>0, <2>1, <3>1 DEF Progress, Alone, Made
  <2>3. ASSUME NEW u \in UserNames \ abandoned', holder'[u] # NoSignup,
               Name(holder[u])' \notin contested'
        PROVE  Kept(Name(holder[u]))'
    <3>1. holder[u] \in Signups /\ Name(holder[u])' = Name(holder[u])
      BY <1>0, <1>2, <2>0, <2>3 DEF Name
    <3>2. PICK n : n = Name(holder[u])
      OBVIOUS
    <3>3. Kept(n) /\ n \in PodNames
      BY <1>1, <1>4, <2>0, <2>3, <3>1, <3>2 DEF PodsInv
    <3>4. Kept(n)'
      BY <1>30, <2>0, <2>1, <3>3
    <3>. QED
      BY <3>1, <3>2, <3>4 DEF Kept, Made
  <2>4. KeyUnderAcls' /\ AdvertisedKeyStored'
    BY <1>4, <2>0 DEF PodsInv, KeyUnderAcls, AdvertisedKeyStored, Made
  <2>. QED
    BY <2>2, <2>3, <2>4 DEF PodsInv
<1>5. ASSUME NEW s \in Signups, Arrive(s) \/ LoadInvites(s) \/ ConsumeInvite(s) \/ Validate(s)
      PROVE  PodsInv'
  <2>1. UNCHANGED <<podVars, holderVars, contested>>
    BY <1>5 DEF Arrive, LoadInvites, ConsumeInvite, Validate
  <2>2. \A t \in Signups : Building(t)' => stage'[t] = stage[t]
    <3>1. CASE Arrive(s)
      BY <1>0, <3>1 DEF Arrive, Go, Building
    <3>2. CASE LoadInvites(s)
      BY <1>0, <3>2 DEF LoadInvites, Go, Building
    <3>3. CASE ConsumeInvite(s)
      BY <1>0, <3>3 DEF ConsumeInvite, Go, Building
    <3>4. CASE Validate(s)
      BY <1>0, <3>4 DEF Validate, Go, Building
    <3>. QED
      BY <1>5, <3>1, <3>2, <3>3, <3>4
  <2>. QED
    BY <1>4, <2>1, <2>2
<1>6. ASSUME NEW s \in Signups, CheckExists(s) PROVE PodsInv'
  <2>1. CASE Exists(Name(s))
    <3>1. stage' = [stage EXCEPT ![s] = "refused"] /\ UNCHANGED <<podVars, holderVars>>
          /\ contested \subseteq contested'
      BY <1>6, <2>1 DEF CheckExists, Go
    <3>2. \A t \in Signups : Building(t)' => stage'[t] = stage[t]
      BY <1>0, <3>1 DEF Building
    <3>. QED
      BY <1>4, <3>1, <3>2
  <2>2. CASE ~ Exists(Name(s))
    <3>1. /\ stage' = [stage EXCEPT ![s] = "folders"]
          /\ UNCHANGED <<parts, lost, secret, advert, holder, abandoned>>
          /\ contested \subseteq contested'
          /\ (\E t \in Signups \ {s} : Building(t) /\ Name(t) = Name(s)) => Name(s) \in contested'
      BY <1>6, <2>2 DEF CheckExists, Go, podVars, holderVars
    <3>2. parts[Name(s)] = {} /\ secret[Name(s)] = NoSignup /\ advert[Name(s)] = NoSignup
      BY <2>2 DEF Exists
    <3>3. \A t \in Signups : t # s => stage'[t] = stage[t] /\ (Building(t)' <=> Building(t))
      BY <1>0, <3>1 DEF Building
    <3>4. stage'[s] = "folders"
      BY <1>0, <3>1
    <3>5. ASSUME NEW t \in Signups, Name(t)' \notin contested', Building(t)'
          PROVE  Progress(t)' /\ Alone(t)'
      <4>1. CASE t = s
        BY <1>3, <3>1, <3>2, <3>3, <3>4, <3>5, <4>1 DEF Progress, Alone
      <4>2. CASE t # s
        <5>1. Progress(t) /\ Alone(t) /\ Building(t) /\ Name(t) # Name(s)
          BY <1>3, <3>1, <3>3, <3>5, <4>2 DEF PodsInv
        <5>. QED
          BY <1>2, <1>3, <3>1, <3>3, <5>1, <4>2 DEF Progress, Alone, Made
      <4>. QED
        BY <4>1, <4>2
    <3>6. ASSUME NEW u \in UserNames \ abandoned', holder'[u] # NoSignup,
                 Name(holder[u])' \notin contested'
          PROVE  Kept(Name(holder[u]))'
      <4>1. holder[u] \in Signups /\ Name(holder[u])' = Name(holder[u])
        BY <1>0, <1>2, <3>1, <3>6 DEF Name
      <4>2. PICK n : n = Name(holder[u])
        OBVIOUS
      <4>3. Kept(n) /\ n \in PodNames
        BY <1>1, <3>1, <3>6, <4>1, <4>2 DEF PodsInv
      <4>4. n = Name(s) => lost[n] = Parts
        BY <3>2, <4>3 DEF Kept, Made
      <4>5. Kept(n)'
        BY <1>3, <3>1, <3>3, <4>3, <4>4 DEF Kept, Made
      <4>. QED
        BY <4>1, <4>2, <4>5 DEF Kept, Made
    <3>7. KeyUnderAcls' /\ AdvertisedKeyStored'
      BY <3>1 DEF PodsInv, KeyUnderAcls, AdvertisedKeyStored, Made
    <3>. QED
      BY <3>5, <3>6, <3>7 DEF PodsInv
  <2>. QED
    BY <2>1, <2>2
\* A step of a request on its own pod alone: the others' pods stay, and a pod of which
\* nothing could be written has nothing to lose.
<1>7. ASSUME NEW s \in Signups, Building(s), UNCHANGED <<holder, abandoned, contested>>,
             \A t \in Signups : t # s => stage'[t] = stage[t],
             \A n \in PodNames : n # Name(s) => /\ parts'[n] = parts[n] /\ lost'[n] = lost[n]
                                                /\ secret'[n] = secret[n] /\ advert'[n] = advert[n],
             lost[Name(s)] \subseteq lost'[Name(s)],
             Name(s) \notin contested /\ Building(s)' => Progress(s)',
             Name(s) \notin contested =>
               /\ secret'[Name(s)] # NoSignup => "acls" \in Made(Name(s))'
               /\ advert'[Name(s)] # NoSignup => secret'[Name(s)] = advert'[Name(s)]
      PROVE  PodsInv'
  <2>1. \A t \in Signups : t # s => (Building(t)' <=> Building(t))
    BY <1>7 DEF Building
  <2>2. ASSUME NEW t \in Signups, Name(t)' \notin contested', Building(t)'
        PROVE  Progress(t)' /\ Alone(t)'
    <3>1. Name(t) \notin contested /\ Building(t)
      BY <1>3, <1>7, <2>1, <2>2
    <3>2. Alone(t) /\ Progress(t)
      BY <3>1 DEF PodsInv
    <3>3. Alone(t)'
      BY <1>3, <1>7, <2>1, <3>2 DEF Alone
    <3>4. CASE t = s
      BY <1>7, <2>2, <3>1, <3>3, <3>4
    <3>5. CASE t # s
      <4>1. Name(t) # Name(s) /\ Name(t) \in PodNames
        BY <1>1, <1>7, <3>2, <3>5 DEF Alone
      <4>2. Made(Name(t))' = Made(Name(t))
        BY <1>3, <1>7, <4>1 DEF Made
      <4>. QED
        BY <1>3, <1>7, <1>2, <3>2, <3>3, <3>5, <4>1, <4>2 DEF Progress
    <3>. QED
      BY <3>4, <3>5
  <2>3. ASSUME NEW u \in UserNames \ abandoned', holder'[u] # NoSignup,
               Name(holder[u])' \notin contested'
        PROVE  Kept(Name(holder[u]))'
    <3>1. holder[u] \in Signups /\ Name(holder[u])' = Name(holder[u])
      BY <1>0, <1>2, <1>7, <2>3 DEF Name
    <3>2. PICK n : n = Name(holder[u])
      OBVIOUS
    <3>3. Kept(n) /\ n \in PodNames
      BY <1>1, <1>7, <2>3, <3>1, <3>2 DEF PodsInv
    <3>4. CASE n = Name(s)
      <4>1. lost[n] = Parts
        BY <1>7, <3>3, <3>4 DEF Kept
      <4>2. lost'[n] = Parts /\ parts'[n] \subseteq Parts
        BY <1>0, <1>7, <3>3, <3>4, <4>1
      <4>. QED
        BY <3>1, <3>2, <4>2 DEF Kept, Made
    <3>5. CASE n # Name(s)
      <4>1. parts'[n] = parts[n] /\ lost'[n] = lost[n]
        BY <1>7, <3>3, <3>5
      <4>2. Kept(n)'
        BY <1>3, <2>1, <3>3, <3>5, <4>1 DEF Kept, Made
      <4>. QED
        BY <3>1, <3>2, <4>2 DEF Kept, Made
    <3>. QED
      BY <3>4, <3>5
  <2>4. ASSUME NEW n \in PodNames \ contested', secret'[n] # NoSignup PROVE "acls" \in Made(n)'
    <3>1. CASE n = Name(s)
      BY <1>3, <1>7, <2>4, <3>1 DEF Made
    <3>2. CASE n # Name(s)
      BY <1>7, <2>4, <3>2 DEF PodsInv, KeyUnderAcls, Made
    <3>. QED
      BY <3>1, <3>2
  <2>5. AdvertisedKeyStored'
    BY <1>7 DEF PodsInv, AdvertisedKeyStored
  <2>. QED
    BY <2>2, <2>3, <2>4, <2>5 DEF PodsInv, KeyUnderAcls
<1>8. ASSUME NEW s \in Signups, MakeFolders(s) PROVE PodsInv'
  <2>1. /\ stage[s] = "folders" /\ stage' = [stage EXCEPT ![s] = "acls"]
        /\ \/ parts' = [parts EXCEPT ![Name(s)] = @ \cup {"folders"}] /\ lost' = lost
           \/ lost' = [lost EXCEPT ![Name(s)] = @ \cup {"folders"}] /\ parts' = parts
        /\ UNCHANGED <<secret, advert, holder, abandoned, contested>>
    BY <1>8 DEF MakeFolders, Go, AfterFolders, Add, holderVars
  <2>2. Building(s)
    BY <2>1 DEF Building
  <2>3. Name(s) \notin contested => Progress(s)
    BY <2>2 DEF PodsInv
  <2>4. "folders" \in Made(Name(s))'
    BY <1>0, <1>1, <1>3, <2>1 DEF Made
  <2>5. stage'[s] = "acls"
    BY <1>0, <2>1
  <2>6. Name(s) \notin contested => Progress(s)' /\ secret'[Name(s)] = NoSignup /\ advert'[Name(s)] = NoSignup
    BY <1>3, <2>1, <2>3, <2>4, <2>5 DEF Progress
  <2>. QED
    BY <1>0, <1>1, <1>3, <1>7, <2>1, <2>2, <2>6
<1>9. ASSUME NEW s \in Signups, MakeAcls(s) PROVE PodsInv'
  <2>1. /\ stage[s] = "acls" /\ stage'[s] \in {"key", "profile"}
        /\ stage' = [stage EXCEPT ![s] = AfterAcls(s)]
        /\ \/ parts' = [parts EXCEPT ![Name(s)] = @ \cup {"acls"}] /\ lost' = lost
           \/ lost' = [lost EXCEPT ![Name(s)] = @ \cup {"acls"}] /\ parts' = parts
        /\ stage'[s] = "profile" => ~ signup[s].keyed
        /\ UNCHANGED <<secret, advert, holder, abandoned, contested>>
    BY <1>0, <1>9 DEF MakeAcls, Go, AfterAcls, Add, holderVars
  <2>2. Building(s)
    BY <2>1 DEF Building
  <2>3. Name(s) \notin contested => Progress(s)
    BY <2>2 DEF PodsInv
  <2>4. Made(Name(s))' = Made(Name(s)) \cup {"acls"} /\ Parts = {"folders", "acls"}
    BY <1>0, <1>1, <1>3, <2>1 DEF Made, Parts
  <2>5. Made(Name(s)) \subseteq Parts
    BY <1>0, <1>1 DEF Made
  <2>6. Name(s) \notin contested => Made(Name(s))' = Parts
    BY <2>1, <2>3, <2>4, <2>5 DEF Progress
  <2>7. Name(s) \notin contested => Progress(s)' /\ secret'[Name(s)] = NoSignup /\ advert'[Name(s)] = NoSignup
    BY <1>2, <1>3, <2>1, <2>3, <2>6 DEF Progress
  <2>. QED
    BY <1>0, <1>1, <1>3, <1>7, <2>1, <2>2, <2>7
<1>10. ASSUME NEW s \in Signups, MakeKey(s) PROVE PodsInv'
  <2>1. /\ stage[s] = "key" /\ UNCHANGED <<parts, lost, advert, holder, abandoned, contested>>
        /\ \/ stage' = [stage EXCEPT ![s] = "profile"] /\ secret' = [secret EXCEPT ![Name(s)] = s]
           \/ stage' = [stage EXCEPT ![s] = "refused"] /\ secret' = secret
           \/ stage' = [stage EXCEPT ![s] = "rollback"] /\ secret' = secret
    BY <1>10 DEF MakeKey, Go, holderVars
  <2>2. Building(s)
    BY <2>1 DEF Building
  <2>3. Name(s) \notin contested => Progress(s)
    BY <2>2 DEF PodsInv
  <2>4. Made(Name(s))' = Made(Name(s)) /\ "acls" \in Parts
    BY <1>3, <2>1 DEF Made, Parts
  <2>. QED
    BY <1>0, <1>1, <1>2, <1>3, <1>7, <2>1, <2>2, <2>3, <2>4 DEF Progress
<1>11. ASSUME NEW s \in Signups, MakeProfile(s) PROVE PodsInv'
  <2>1. /\ stage[s] = "profile" /\ stage' = [stage EXCEPT ![s] = "account"]
        /\ \/ /\ advert' = [advert EXCEPT ![Name(s)] = IF signup[s].keyed THEN s ELSE NoSignup]
              /\ parts' = [parts EXCEPT ![Name(s)] = @ \cup {"folders"}]
           \/ UNCHANGED <<advert, parts>>
        /\ UNCHANGED <<lost, secret, holder, abandoned, contested>>
    BY <1>11 DEF MakeProfile, Go, holderVars
  <2>2. Building(s) /\ stage'[s] = "account"
    BY <1>0, <2>1 DEF Building
  <2>3. Name(s) \notin contested => Progress(s)
    BY <2>2 DEF PodsInv
  <2>4. Name(s) \notin contested => Made(Name(s)) = Parts
    BY <2>1, <2>3 DEF Progress
  <2>5. Name(s) \notin contested => Made(Name(s))' = Parts /\ "acls" \in Parts
    BY <1>0, <1>1, <1>3, <2>1, <2>4 DEF Made, Parts
  <2>6. Name(s) \notin contested /\ advert'[Name(s)] # NoSignup => secret'[Name(s)] = advert'[Name(s)]
    BY <1>0, <1>1, <2>1, <2>3 DEF Progress
  <2>7. Name(s) \notin contested => Progress(s)'
    BY <1>3, <2>2, <2>5 DEF Progress
  <2>. QED
    BY <1>0, <1>1, <1>7, <2>1, <2>2, <2>5, <2>6, <2>7
\* The account is entered: the request is done with its pod, or is abandoned.
<1>12. ASSUME NEW s \in Signups, MakeAccount(s), EnterAccount(s) PROVE PodsInv'
  <2>1. /\ stage[s] = "account" /\ holder' = [holder EXCEPT ![Lower[Name(s)]] = s]
        /\ UNCHANGED <<parts, lost, secret, advert, contested>>
        /\ abandoned \subseteq abandoned'
        /\ \/ stage' = [stage EXCEPT ![s] = "done"] \/ stage' = [stage EXCEPT ![s] = "refused"]
           \/ stage' = [stage EXCEPT ![s] = "rollback"] /\ Lower[Name(s)] \in abandoned'
    <3>1. holder' = [holder EXCEPT ![Lower[Name(s)]] = s] /\ holder' # holder
      BY <1>0, <1>1, <1>12, RegistrationAssumption DEF EnterAccount
    <3>. QED
      BY <1>12, <3>1 DEF MakeAccount, Refuse, Go, podVars, holderVars
  <2>2. Building(s)
    BY <2>1 DEF Building
  <2>3. Name(s) \notin contested => Progress(s) /\ Alone(s)
    BY <2>2 DEF PodsInv
  <2>4. /\ \A t \in Signups : t # s => stage'[t] = stage[t] /\ (Building(t)' <=> Building(t))
        /\ Building(s)' => stage'[s] = "rollback" /\ Lower[Name(s)] \in abandoned'
    BY <1>0, <2>1 DEF Building
  <2>41. \A t \in Signups : Building(t)' => Building(t)
    BY <2>2, <2>4
  <2>5. ASSUME NEW t \in Signups, Name(t)' \notin contested', Building(t)'
        PROVE  Progress(t)' /\ Alone(t)'
    <3>1. Building(t) /\ Progress(t) /\ Alone(t)
      BY <1>3, <2>1, <2>41, <2>5 DEF PodsInv
    <3>2. Alone(t)'
      BY <1>3, <2>41, <3>1 DEF Alone
    <3>3. Progress(t)'
      <4>1. CASE t = s
        BY <2>4, <2>5, <4>1 DEF Progress
      <4>2. CASE t # s
        BY <1>2, <1>3, <2>1, <2>4, <3>1, <4>2 DEF Progress, Made
      <4>. QED
        BY <4>1, <4>2
    <3>. QED
      BY <3>2, <3>3
  <2>6. ASSUME NEW u \in UserNames \ abandoned', holder'[u] # NoSignup,
               Name(holder[u])' \notin contested'
        PROVE  Kept(Name(holder[u]))'
    <3>0. holder'[u] \in Signups /\ Name(holder[u])' = Name(holder'[u])
      BY <1>0, <1>1, <1>2, <2>1, <2>6 DEF Name
    <3>1. PICK n : n = Name(holder'[u])
      OBVIOUS
    <3>2. n \in PodNames /\ n \notin contested
      BY <1>1, <2>1, <2>6, <3>0, <3>1
    <3>3. CASE u = Lower[Name(s)]
      <4>1. n = Name(s) /\ ~ Building(s)'
        BY <1>0, <1>1, <2>1, <2>4, <2>6, <3>1, <3>3
      <4>2. Made(n) = Parts
        BY <2>1, <2>3, <3>2, <4>1 DEF Progress
      <4>3. \A t \in Signups : Building(t)' => Name(t) # n
        BY <2>3, <2>4, <3>2, <4>1 DEF Alone
      <4>. QED
        BY <1>3, <2>1, <3>0, <3>1, <4>2, <4>3 DEF Kept, Made
    <3>4. CASE u # Lower[Name(s)]
      <4>1. holder'[u] = holder[u]
        BY <1>0, <2>1, <3>4
      <4>2. Kept(n)
        BY <2>1, <2>6, <3>1, <3>2, <4>1 DEF PodsInv
      <4>3. Kept(n)'
        BY <1>30, <2>1, <2>41, <3>2, <4>2
      <4>. QED
        BY <3>0, <3>1, <4>3 DEF Kept, Made
    <3>. QED
      BY <3>3, <3>4
  <2>7. KeyUnderAcls' /\ AdvertisedKeyStored'
    BY <2>1 DEF PodsInv, KeyUnderAcls, AdvertisedKeyStored, Made
  <2>. QED
    BY <2>5, <2>6, <2>7 DEF PodsInv
<1>13. ASSUME NEW s \in Signups, MakeAccount(s), ~ EnterAccount(s) PROVE PodsInv'
  <2>1. /\ stage[s] = "account" /\ UNCHANGED <<parts, lost, secret, advert, holder, abandoned, contested>>
        /\ \/ stage' = [stage EXCEPT ![s] = "refused"]
           \/ stage' = [stage EXCEPT ![s] = "rollback"]
    BY <1>13 DEF MakeAccount, Refuse, Go, podVars, holderVars
  <2>2. Building(s)
    BY <2>1 DEF Building
  <2>3. stage'[s] \in {"refused", "rollback"}
    BY <1>0, <2>1
  <2>4. Progress(s)'
    BY <2>3 DEF Progress
  <2>5. Name(s) \notin contested =>
          /\ secret'[Name(s)] # NoSignup => "acls" \in Made(Name(s))'
          /\ advert'[Name(s)] # NoSignup => secret'[Name(s)] = advert'[Name(s)]
    BY <1>1, <1>3, <2>1 DEF PodsInv, KeyUnderAcls, AdvertisedKeyStored, Made
  <2>. QED
    BY <1>0, <1>7, <2>1, <2>2, <2>4, <2>5
<1>14. ASSUME NEW s \in Signups, Rollback(s) PROVE PodsInv'
  <2>1. /\ stage[s] = "rollback" /\ stage' = [stage EXCEPT ![s] = "refused"]
        /\ UNCHANGED <<lost, holder, abandoned, contested>>
        /\ \/ /\ parts' = [parts EXCEPT ![Name(s)] = {}] /\ secret' = [secret EXCEPT ![Name(s)] = NoSignup]
              /\ advert' = [advert EXCEPT ![Name(s)] = NoSignup]
           \/ UNCHANGED <<parts, secret, advert>>
    BY <1>14 DEF Rollback, Wiped, Go, holderVars
  <2>2. Building(s)
    BY <2>1 DEF Building
  <2>3. ~ Building(s)'
    BY <1>0, <2>1 DEF Building
  <2>4. Name(s) \notin contested =>
          /\ secret'[Name(s)] # NoSignup => "acls" \in Made(Name(s))'
          /\ advert'[Name(s)] # NoSignup => secret'[Name(s)] = advert'[Name(s)]
    <3>1. CASE UNCHANGED <<parts, secret, advert>>
      BY <1>1, <1>3, <2>1, <3>1 DEF PodsInv, KeyUnderAcls, AdvertisedKeyStored, Made
    <3>2. CASE ~ UNCHANGED <<parts, secret, advert>>
      BY <1>0, <1>1, <2>1, <3>2
    <3>. QED
      BY <3>1, <3>2
  <2>. QED
    BY <1>0, <1>1, <1>7, <2>1, <2>2, <2>3, <2>4
<1>15. CASE RevokeInvite
  BY <1>4, <1>15 DEF RevokeInvite, Building
<1>16. CASE Restart
  <2>1. UNCHANGED <<podVars, holderVars, contested>>
    BY <1>16 DEF Restart
  <2>2. \A t \in Signups : Building(t)' => stage'[t] = stage[t]
    BY <1>0, <1>16 DEF Restart, Building
  <2>. QED
    BY <1>4, <2>1, <2>2
<1>. QED
  BY <1>5, <1>6, <1>8, <1>9, <1>10, <1>11, <1>12, <1>13, <1>14, <1>15, <1>16 DEF RegistrationNext

LEMMA RegistrationStep == RegistrationInv /\ [RegistrationNext]_signupVars => RegistrationInv'
<1>. SUFFICES ASSUME RegistrationInv, [RegistrationNext]_signupVars PROVE RegistrationInv'
  OBVIOUS
<1>1. CASE RegistrationNext
  BY <1>1, InviteStep, RegistrationTypes, PodsStep DEF RegistrationInv
<1>2. CASE UNCHANGED signupVars
  BY <1>2 DEF signupVars, RegistrationInv, RegistrationTypeOK, AdmittedBeyond, Beyond, InviteCounted,
              PodsInv, Kept, Made, KeyUnderAcls, AdvertisedKeyStored, Progress, Alone, Building, Name
<1>. QED
  BY <1>1, <1>2

\* However the requests for pods overlap, whatever step the server dies at, whatever files
\* cannot be written: no pod has a key outside its ACLs or a profile that advertises a key it
\* does not store, an account has its whole pod, and an invite counts whom it lets through,
\* each with the exceptions that it names.
THEOREM RegistrationSafeTheorem == RegistrationSpec => []RegistrationSafe
<1>1. RegistrationInv => RegistrationSafe
  BY DEF RegistrationInv, RegistrationSafe, PodsInv, Kept, AccountHasPod
<1>. QED
  BY <1>1, RegistrationStart, RegistrationStep, PTL DEF RegistrationSpec
-----------------------------------------------------------------------------
(* Passkeys. *)

USE PasskeyAssumption

Waits(p) == On(p) # "idle"

\* A challenge has its serial as its key, but for the challenges of a login by user name,
\* which share one; only they do.
Keyed(c) ==
  /\ c.serial \in 1 .. made /\ c.key \in {AccountKey, c.serial}
  /\ c.type = "registration" => c.key = c.serial

\* No two clients wait for the same challenge.
Apart ==
  /\ \A c \in challenges : Keyed(c)
  /\ \A p \in Clients : Waits(p) => Keyed(client[p])
  /\ \A p, q \in Clients : p # q /\ Waits(p) /\ Waits(q) => client[p].serial # client[q].serial

\* The challenges that no page is open for: an authenticator has signed no more than those.
Closed == (1 .. made) \ {client[p].serial : p \in {p \in Clients : On(p) = "page"}}
Signed == \A a \in Credentials : signs[a] <= Cardinality(Closed)

PasskeyInv == PasskeySafe /\ Apart /\ Signed /\ IsFiniteSet(challenges)

Steps == {"idle", "page", "account", "update", "end"}
Types == {"registration", "authentication"}
ClientRecord ==
  [at : Steps, type : Types, cred : Credentials, key : ChallengeKeys, serial : Serials,
   count : Counters, got : Challenge \cup {NoChallenge}]

LEMMA AtRestIsClient == AtRest \in ClientRecord /\ AtRest.at = "idle"
<1>1. (CHOOSE c \in Credentials : TRUE) \in Credentials
  OBVIOUS
<1>2. 1 \in ChallengeKeys /\ 1 \in Serials /\ 0 \in Counters
  BY DEF ChallengeKeys, Serials, Counters
<1>3. \A a \in Credentials :
        [at |-> "idle", type |-> "registration", cred |-> a, key |-> 1, serial |-> 1,
         count |-> 0, got |-> NoChallenge] \in ClientRecord
  BY <1>2 DEF ClientRecord, Steps, Types
<1>. QED
  BY <1>1, <1>3 DEF AtRest

LEMMA ClosedFinite ==
  ASSUME made \in Nat
  PROVE  /\ IsFiniteSet(Closed) /\ Cardinality(Closed) \in Nat /\ Cardinality(Closed) <= made
<1>1. IsFiniteSet(1 .. made) /\ Cardinality(1 .. made) = made
  <2>1. 1 \in Int /\ made \in Int
    OBVIOUS
  <2>2. IsFiniteSet(1 .. made) /\ Cardinality(1 .. made) = IF 1 > made THEN 0 ELSE made - 1 + 1
    BY <2>1, FS_Interval
  <2>. QED
    BY <2>2
<1>2. Closed \subseteq 1 .. made
  BY DEF Closed
<1>. QED
  BY <1>1, <1>2, FS_Subset, FS_CardinalityType

LEMMA PasskeyStart == PasskeyInit => PasskeyInv
<1>. SUFFICES ASSUME PasskeyInit PROVE PasskeyInv
  OBVIOUS
<1>0. client = [p \in Clients |-> AtRest] /\ \A p \in Clients : ~ Waits(p)
  BY AtRestIsClient DEF PasskeyInit, Waits, On
<1>1. PasskeyTypeOK
  <2>1. PICK known \in SUBSET Credentials : passkeys = [c \in known |-> 0]
    BY DEF PasskeyInit
  <2>2. passkeys \in PasskeysOf
    <3>1. passkeys \in [known -> Counters]
      BY <2>1 DEF Counters
    <3>. QED
      BY <3>1 DEF PasskeysOf
  <2>3. client \in [Clients -> ClientRecord]
    BY <1>0, AtRestIsClient
  <2>4. challenges = {} /\ Cardinality(challenges) = 0
    BY FS_EmptySet DEF PasskeyInit
  <2>5. made \in 0 .. MaxOptions /\ expired \subseteq 1 .. made /\ signs \in [Credentials -> Counters]
    BY DEF PasskeyInit, Counters
  <2>6. refusedRoom \in BOOLEAN
    BY DEF PasskeyInit
  <2>. QED
    BY <2>2, <2>3, <2>4, <2>5, <2>6 DEF PasskeyTypeOK, ClientRecord, Steps, Types
<1>2. RegistrationUndisturbed /\ NobodyKeptOut
  BY <1>0 DEF PasskeyInit, RegistrationUndisturbed, NobodyKeptOut, Waits
<1>3. Apart
  BY <1>0 DEF PasskeyInit, Apart
<1>4. Signed
  <2>1. made = 0 /\ \A a \in Credentials : signs[a] = 0
    BY DEF PasskeyInit
  <2>. QED
    BY <2>1, ClosedFinite DEF Signed
<1>5. IsFiniteSet(challenges)
  BY FS_EmptySet DEF PasskeyInit
<1>. QED
  BY <1>1, <1>2, <1>3, <1>4, <1>5 DEF PasskeyInv, PasskeySafe

\* A client steps from a page or further on, the Map staying: what is left of the invariant
\* is that an authenticator signs once for a page.
LEMMA ClientMoves ==
  ASSUME PasskeyInv, NEW p \in Clients, NEW r \in ClientRecord, Waits(p),
         client' = [client EXCEPT ![p] = r],
         r.at # "page",
         r.at # "idle" => /\ r.serial = client[p].serial /\ r.key = client[p].key
                          /\ r.type = client[p].type,
         UNCHANGED <<made, expired, refusedRoom>>,
         \A c \in challenges' : c \in challenges,
         \A c \in challenges : c \notin challenges' => c.key = client[p].key
  PROVE  /\ client' \in [Clients -> ClientRecord]
         /\ RegistrationUndisturbed' /\ NobodyKeptOut' /\ Apart'
         /\ Closed \subseteq Closed'
         /\ On(p) = "page" => client[p].serial \in Closed' \ Closed
<1>0. client \in [Clients -> ClientRecord] /\ made \in Nat
  BY DEF PasskeyInv, PasskeySafe, PasskeyTypeOK, ClientRecord, Steps, Types
<1>1. client' \in [Clients -> ClientRecord]
  BY <1>0
<1>2. client'[p] = r /\ \A q \in Clients : q # p => client'[q] = client[q]
  BY <1>0
<1>3. NobodyKeptOut'
  BY DEF PasskeyInv, PasskeySafe, NobodyKeptOut
<1>4. \A q \in Clients : Waits(q)' =>
        /\ Waits(q) /\ client'[q].serial = client[q].serial /\ client'[q].key = client[q].key
        /\ client'[q].type = client[q].type
  BY <1>2 DEF Waits, On
<1>5. Apart'
  <2>1. \A c \in challenges' : Keyed(c)'
    BY DEF PasskeyInv, Apart, Keyed
  <2>2. \A q \in Clients : Waits(q)' => Keyed(client[q])'
    BY <1>4 DEF PasskeyInv, Apart, Keyed
  <2>3. \A q1, q2 \in Clients : q1 # q2 /\ Waits(q1)' /\ Waits(q2)' => client'[q1].serial # client'[q2].serial
    BY <1>4 DEF PasskeyInv, Apart
  <2>. QED
    BY <2>1, <2>2, <2>3 DEF Apart
<1>6. RegistrationUndisturbed'
  <2>. SUFFICES ASSUME NEW q \in Clients, client'[q].at = "page", client'[q].type = "registration",
                       client'[q].serial \notin expired
                PROVE  \E c \in challenges' : c.key = client'[q].key /\ c.serial = client'[q].serial
    BY DEF RegistrationUndisturbed, On, Type
  <2>1. q # p /\ client'[q] = client[q] /\ Waits(q)
    BY <1>2 DEF Waits, On
  <2>2. PICK c \in challenges : c.key = client[q].key /\ c.serial = client[q].serial
    BY <2>1 DEF PasskeyInv, PasskeySafe, RegistrationUndisturbed, On, Type
  <2>3. Keyed(client[q]) /\ Keyed(client[p]) /\ client[q].serial # client[p].serial
    BY <2>1 DEF PasskeyInv, Apart
  <2>4. client[q].key # client[p].key
    BY <1>0, <2>1, <2>3 DEF Keyed, AccountKey
  <2>. QED
    BY <2>1, <2>2, <2>4
<1>7. Closed \subseteq Closed'
  BY <1>2 DEF Closed, On
<1>8. On(p) = "page" => client[p].serial \in Closed' \ Closed
  <2>. SUFFICES ASSUME On(p) = "page" PROVE client[p].serial \in Closed' \ Closed
    OBVIOUS
  <2>1. client[p].serial \in 1 .. made /\ client[p].serial \notin Closed
    BY DEF PasskeyInv, Apart, Keyed, Closed
  <2>2. ASSUME NEW q \in Clients, client'[q].at = "page" PROVE client'[q].serial # client[p].serial
    BY <1>2, <2>2 DEF PasskeyInv, Apart, Waits, On
  <2>. QED
    BY <2>1, <2>2 DEF Closed, On
<1>. QED
  BY <1>1, <1>3, <1>5, <1>6, <1>7, <1>8

LEMMA PasskeyTypes ==
  ASSUME PasskeyTypeOK
  PROVE  /\ client \in [Clients -> ClientRecord] /\ made \in 0 .. MaxOptions /\ made \in Nat
         /\ signs \in [Credentials -> Counters] /\ passkeys \in PasskeysOf
         /\ challenges \subseteq Challenge /\ expired \subseteq 1 .. made
BY DEF PasskeyTypeOK, ClientRecord, Steps, Types

LEMMA PasskeyFiles ==
  ASSUME PasskeyTypeOK
  PROVE  /\ DOMAIN passkeys \subseteq Credentials
         /\ passkeys = [c \in DOMAIN passkeys |-> passkeys[c]]
         /\ \A c \in DOMAIN passkeys : passkeys[c] \in Counters
         /\ \A K \in SUBSET Credentials : \A f \in [K -> Counters] : f \in PasskeysOf
<1>1. PICK K \in SUBSET Credentials : passkeys \in [K -> Counters]
  BY DEF PasskeyTypeOK, PasskeysOf
<1>2. DOMAIN passkeys = K
  BY <1>1
<1>3. \A L \in SUBSET Credentials : \A f \in [L -> Counters] : f \in PasskeysOf
  BY DEF PasskeysOf
<1>. QED
  BY <1>1, <1>2, <1>3

\* As long as no page opens on an old challenge, an authenticator that does not sign has
\* still signed no more than the pages that are closed.
LEMMA SignedStays ==
  ASSUME Signed, made \in Nat, made' \in Nat, Closed \subseteq Closed', signs \in [Credentials -> Nat],
         signs' = signs
  PROVE  Signed'
<1>1. IsFiniteSet(1 .. made')
  BY FS_Interval
<1>2. Closed' \subseteq 1 .. made'
  BY DEF Closed
<1>3. IsFiniteSet(Closed')
  BY <1>1, <1>2, FS_Subset
<1>4. Cardinality(Closed) <= Cardinality(Closed') /\ Cardinality(Closed) \in Nat /\ Cardinality(Closed') \in Nat
  BY <1>3, FS_Subset, FS_CardinalityType
<1>. QED
  BY <1>4 DEF Signed

\* A challenge is asked for and there is room for it: it takes the place of its like, and
\* what had to make room for it was over.
LEMMA OptionsStep ==
  ASSUME PasskeyInv, NEW p \in Clients, NEW type \in Types, NEW a \in Credentials,
         NEW named \in BOOLEAN, Options(p, type, a, named)
  PROVE  PasskeyInv'
<1>0. client \in [Clients -> ClientRecord] /\ made \in 0 .. MaxOptions /\ made \in Nat
      /\ challenges \subseteq Challenge /\ PasskeyTypeOK
  BY PasskeyTypes DEF PasskeyInv, PasskeySafe
<1>1. /\ On(p) = "idle" /\ made < MaxOptions /\ made' = made + 1
      /\ UNCHANGED <<expired, passkeys, signs>>
  BY DEF Options
<1>01. PICK n : n = made + 1
  OBVIOUS
<1>2. PICK key : key = IF type = "registration" THEN RegistrationKey(n)
                       ELSE IF named /\ DOMAIN passkeys # {} THEN AccountKey ELSE n
  OBVIOUS
<1>3. /\ key \in {AccountKey, n} /\ (type = "registration" => key = n)
      /\ n \in Serials /\ key \in ChallengeKeys /\ n \in Nat \ {0} /\ n = made + 1 /\ made' = n
  BY <1>0, <1>01, <1>1, <1>2 DEF RegistrationKey, AccountKey, Serials, ChallengeKeys
<1>4. \/ /\ \E map \in Room(challenges) :
              /\ challenges' = {c \in map : c.key # key}
                                 \cup {[key |-> key, type |-> type, serial |-> n]}
              /\ client' = [client EXCEPT ![p] = [AtRest EXCEPT !.at = "page", !.type = type, !.cred = a,
                                                              !.key = key, !.serial = n]]
         /\ UNCHANGED refusedRoom
      \/ /\ Room(challenges) = {}
         /\ refusedRoom' = (refusedRoom \/ Live(challenges) # challenges)
         /\ client' = [client EXCEPT ![p] = AtRest] /\ UNCHANGED challenges
  BY <1>01, <1>2 DEF Options, Leaves
<1>5. IsFiniteSet(challenges) /\ Cardinality(challenges) \in Nat /\ Cardinality(challenges) <= MaxChallenges
  BY <1>0, FS_CardinalityType DEF PasskeyTypeOK, PasskeyInv
<1>6. MaxChallenges \in Nat \ {0}
  OBVIOUS
\* There is room.
<1>7. ASSUME NEW map \in Room(challenges),
             challenges' = {c \in map : c.key # key}
                             \cup {[key |-> key, type |-> type, serial |-> n]},
             client' = [client EXCEPT ![p] = [AtRest EXCEPT !.at = "page", !.type = type, !.cred = a,
                                                          !.key = key, !.serial = n]],
             UNCHANGED refusedRoom
      PROVE  PasskeyInv'
  <2>01. PICK r : r = [AtRest EXCEPT !.at = "page", !.type = type, !.cred = a, !.key = key, !.serial = n]
    OBVIOUS
  <2>. DEFINE new == [key |-> key, type |-> type, serial |-> n]
  <2>1. map \subseteq challenges /\ IsFiniteSet(map) /\ Cardinality(map) \in Nat
        /\ Cardinality(map) < MaxChallenges /\ \A c \in challenges : c \notin map => c.serial \in expired
    <3>1. CASE Cardinality(challenges) < MaxChallenges
      <4>1. map = challenges
        BY <1>5, <1>6, <1>7, <3>1 DEF Room
      <4>. QED
        BY <1>5, <3>1, <4>1
    <3>2. CASE Cardinality(challenges) >= MaxChallenges
      <4>0. Room(challenges) = {challenges \ {c} : c \in challenges \ Live(challenges)}
        BY <1>5, <1>6, <3>2 DEF Room
      <4>1. PICK c \in challenges \ Live(challenges) : map = challenges \ {c}
        BY <1>7, <4>0
      <4>2. Cardinality(map) = Cardinality(challenges) - 1 /\ IsFiniteSet(map)
        BY <1>5, <4>1, FS_RemoveElement
      <4>3. c.serial \in expired
        BY <4>1 DEF Live
      <4>4. Cardinality(map) \in Nat /\ Cardinality(map) < MaxChallenges
        BY <1>5, <1>6, <4>2, FS_CardinalityType
      <4>. QED
        BY <4>1, <4>2, <4>3, <4>4
    <3>. QED
      BY <1>5, <1>6, <3>1, <3>2
  <2>2. client' = [client EXCEPT ![p] = r] /\ r \in ClientRecord
    <3>1. "page" \in Steps
      BY DEF Steps
    <3>. QED
      BY <1>3, <1>7, <2>01, <3>1, AtRestIsClient DEF ClientRecord
  <2>02. r.at = "page" /\ r.type = type /\ r.key = key /\ r.serial = n
    BY <1>3, <2>01, AtRestIsClient DEF ClientRecord
  <2>3. /\ client'[p] = r /\ \A q \in Clients : q # p => client'[q] = client[q]
        /\ r.at = "page" /\ r.type = type /\ r.key = key /\ r.serial = n
    BY <1>0, <2>2, <2>02
  <2>4. new \in Challenge
    BY <1>3 DEF Challenge, Types
  <2>5. /\ challenges' \subseteq Challenge /\ IsFiniteSet(challenges')
        /\ Cardinality(challenges') <= MaxChallenges
    <3>. DEFINE kept == {c \in map : c.key # key}
    <3>1. kept \subseteq map /\ challenges' = kept \cup {new}
      BY <1>7
    <3>. HIDE DEF kept, new
    <3>2. IsFiniteSet(kept) /\ Cardinality(kept) \in Nat /\ Cardinality(kept) <= Cardinality(map)
      BY <2>1, <3>1, FS_Subset, FS_CardinalityType
    <3>3. IsFiniteSet(challenges') /\ Cardinality(challenges') <= Cardinality(kept) + 1
      <4>1. /\ IsFiniteSet(kept \cup {new})
            /\ Cardinality(kept \cup {new}) = IF new \in kept THEN Cardinality(kept) ELSE Cardinality(kept) + 1
        BY <3>2, FS_AddElement
      <4>. QED
        BY <3>1, <3>2, <4>1
    <3>4. Cardinality(challenges') \in Nat
      BY <3>3, FS_CardinalityType
    <3>. QED
      BY <1>0, <1>6, <2>1, <2>4, <3>1, <3>2, <3>3, <3>4
  <2>6. \A c \in challenges' : c = new \/ (c \in challenges /\ c.key # key)
    BY <1>7, <2>1
  <2>7. \A c, d \in challenges' : c.key = d.key => c = d
    BY <1>0, <2>6 DEF PasskeyTypeOK
  <2>8. PasskeyTypeOK'
    <3>1. client' \in [Clients -> ClientRecord]
      BY <1>0, <2>2
    <3>2. made' \in 0 .. MaxOptions /\ expired' \subseteq 1 .. made' /\ signs' \in [Credentials -> Counters]
          /\ passkeys' \in PasskeysOf
      BY <1>0, <1>1 DEF PasskeyTypeOK
    <3>3. refusedRoom' \in BOOLEAN
      BY <1>0, <1>7 DEF PasskeyTypeOK
    <3>. QED
      BY <2>5, <2>7, <3>1, <3>2, <3>3 DEF PasskeyTypeOK, ClientRecord, Steps, Types
  <2>9. Apart'
    <3>1. \A c \in challenges' : Keyed(c)'
      <4>1. Keyed(new)'
        BY <1>0, <1>1, <1>3 DEF Keyed
      <4>2. \A c \in challenges : Keyed(c)'
        BY <1>0, <1>1 DEF PasskeyInv, Apart, Keyed
      <4>. QED
        BY <2>6, <4>1, <4>2
    <3>2. \A q \in Clients : Waits(q)' => Keyed(client[q])'
      BY <1>0, <1>1, <1>3, <2>3 DEF PasskeyInv, Apart, Keyed, Waits, On
    <3>3. \A q \in Clients : q # p /\ Waits(q)' => client'[q].serial # n /\ Waits(q)
      BY <1>0, <1>3, <2>3 DEF PasskeyInv, Apart, Keyed, Waits, On
    <3>4. \A q1, q2 \in Clients : q1 # q2 /\ Waits(q1)' /\ Waits(q2)' => client'[q1].serial # client'[q2].serial
      BY <2>3, <3>3 DEF PasskeyInv, Apart
    <3>. QED
      BY <3>1, <3>2, <3>4 DEF Apart
  <2>10. Signed'
    <3>1. Closed \subseteq Closed'
      BY <1>0, <1>1, <1>3, <2>3 DEF Closed, On
    <3>. QED
      BY <1>0, <1>1, <1>3, <3>1, SignedStays, PasskeyTypes DEF PasskeyInv, Counters
  <2>11. RegistrationUndisturbed'
    <3>. SUFFICES ASSUME NEW q \in Clients, client'[q].at = "page", client'[q].type = "registration",
                         client'[q].serial \notin expired
                  PROVE  \E c \in challenges' : c.key = client'[q].key /\ c.serial = client'[q].serial
      BY <1>1 DEF RegistrationUndisturbed, On, Type
    <3>1. CASE q = p
      <4>1. new \in challenges'
        BY <1>7
      <4>. QED
        BY <2>3, <3>1, <4>1
    <3>2. CASE q # p
      <4>1. client'[q] = client[q] /\ Keyed(client[q])
        BY <2>3, <3>2 DEF PasskeyInv, Apart, Waits, On
      <4>2. PICK c \in challenges : c.key = client[q].key /\ c.serial = client[q].serial
        BY <4>1 DEF PasskeyInv, PasskeySafe, RegistrationUndisturbed, On, Type
      <4>3. c.key # key
        BY <1>0, <1>3, <4>1, <4>2 DEF Keyed, AccountKey
      <4>. QED
        BY <1>7, <2>1, <4>1, <4>2, <4>3
    <3>. QED
      BY <3>1, <3>2
  <2>. QED
    BY <1>7, <2>5, <2>8, <2>9, <2>10, <2>11 DEF PasskeyInv, PasskeySafe, NobodyKeptOut
\* There is none: every challenge is still good.
<1>8. ASSUME Room(challenges) = {}, refusedRoom' = (refusedRoom \/ Live(challenges) # challenges),
             client' = [client EXCEPT ![p] = AtRest], UNCHANGED challenges
      PROVE  PasskeyInv'
  <2>1. Live(challenges) = challenges
    <3>1. Cardinality(challenges) >= MaxChallenges
      BY <1>5, <1>6, <1>8 DEF Room
    <3>2. {challenges \ {c} : c \in challenges \ Live(challenges)} = {}
      BY <1>5, <1>6, <1>8, <3>1 DEF Room
    <3>. QED
      BY <3>2 DEF Live
  <2>2. NobodyKeptOut'
    BY <1>8, <2>1 DEF PasskeyInv, PasskeySafe, NobodyKeptOut
  <2>3. client'[p] = AtRest /\ (\A q \in Clients : q # p => client'[q] = client[q]) /\ ~ Waits(p)'
    BY <1>0, <1>8, AtRestIsClient DEF Waits, On
  <2>4. PasskeyTypeOK'
    <3>1. client' \in [Clients -> ClientRecord]
      BY <1>0, <1>8, AtRestIsClient
    <3>2. made' \in 0 .. MaxOptions /\ expired' \subseteq 1 .. made' /\ signs' \in [Credentials -> Counters]
          /\ passkeys' \in PasskeysOf
      BY <1>0, <1>1 DEF PasskeyTypeOK
    <3>3. refusedRoom' \in BOOLEAN
      BY <1>8
    <3>4. challenges' \subseteq Challenge /\ Cardinality(challenges') <= MaxChallenges
          /\ \A c, d \in challenges' : c.key = d.key => c = d
      BY <1>0, <1>8 DEF PasskeyTypeOK
    <3>. QED
      BY <3>1, <3>2, <3>3, <3>4 DEF PasskeyTypeOK, ClientRecord, Steps, Types
  <2>5. Apart'
    <3>1. \A c \in challenges' : Keyed(c)'
      BY <1>0, <1>1, <1>8 DEF PasskeyInv, Apart, Keyed
    <3>2. \A q \in Clients : Waits(q)' => q # p /\ Waits(q) /\ Keyed(client[q])'
      BY <1>0, <1>1, <2>3 DEF PasskeyInv, Apart, Keyed, Waits, On
    <3>. QED
      BY <2>3, <3>1, <3>2 DEF PasskeyInv, Apart
  <2>6. Signed'
    <3>1. Closed \subseteq Closed'
      BY <1>0, <1>1, <1>3, <2>3, AtRestIsClient DEF Closed, On
    <3>. QED
      BY <1>0, <1>1, <1>3, <3>1, SignedStays, PasskeyTypes DEF PasskeyInv, Counters
  <2>7. RegistrationUndisturbed'
    BY <1>1, <1>8, <2>3 DEF PasskeyInv, PasskeySafe, RegistrationUndisturbed, On, Type, Waits
  <2>. QED
    BY <1>8, <2>2, <2>4, <2>5, <2>6, <2>7 DEF PasskeyInv, PasskeySafe
<1>. QED
  BY <1>4, <1>7, <1>8

\* The rest of the types, when the Map and the files are known to be fine.
LEMMA PasskeyTypesStay ==
  ASSUME PasskeyTypeOK, client' \in [Clients -> ClientRecord], UNCHANGED <<made, refusedRoom>>,
         challenges' \subseteq challenges, IsFiniteSet(challenges), expired' \subseteq 1 .. made,
         passkeys' \in PasskeysOf, signs' \in [Credentials -> Counters]
  PROVE  PasskeyTypeOK' /\ IsFiniteSet(challenges')
<1>1. IsFiniteSet(challenges') /\ Cardinality(challenges') <= Cardinality(challenges)
      /\ Cardinality(challenges) \in Nat /\ Cardinality(challenges') \in Nat
  BY FS_Subset, FS_CardinalityType
<1>2. Cardinality(challenges') <= MaxChallenges
  BY <1>1 DEF PasskeyTypeOK
<1>3. /\ challenges' \subseteq Challenge /\ made' \in 0 .. MaxOptions
      /\ \A c, d \in challenges' : c.key = d.key => c = d
  BY DEF PasskeyTypeOK
<1>4. refusedRoom' \in BOOLEAN
  BY DEF PasskeyTypeOK
<1>. QED
  BY <1>1, <1>2, <1>3, <1>4 DEF PasskeyTypeOK, ClientRecord, Steps, Types

\* While a page is open an authenticator has signed less often than challenges were made.
LEMMA RoomToSign ==
  ASSUME PasskeyInv, NEW p \in Clients, On(p) = "page" PROVE \A a \in Credentials : signs[a] + 1 <= made
<1>0. made \in Nat /\ signs \in [Credentials -> Counters]
  BY PasskeyTypes DEF PasskeyInv, PasskeySafe
<1>1. client[p].serial \in (1 .. made) \ Closed
  BY DEF PasskeyInv, Apart, Keyed, Closed, Waits
<1>2. Closed \subseteq (1 .. made) \ {client[p].serial}
  BY <1>1 DEF Closed
<1>3. IsFiniteSet(1 .. made) /\ Cardinality(1 .. made) = made
  <2>1. 1 \in Int /\ made \in Int
    BY <1>0
  <2>2. IsFiniteSet(1 .. made) /\ Cardinality(1 .. made) = IF 1 > made THEN 0 ELSE made - 1 + 1
    BY <2>1, FS_Interval
  <2>. QED
    BY <1>0, <2>2
<1>4. PICK rest : rest = (1 .. made) \ {client[p].serial}
  OBVIOUS
<1>5. IsFiniteSet(rest) /\ Cardinality(rest) = made - 1
  <2>1. PICK n : n = client[p].serial
    OBVIOUS
  <2>2. IsFiniteSet((1 .. made) \ {n}) /\ Cardinality((1 .. made) \ {n}) = Cardinality(1 .. made) - 1
    BY <1>1, <1>3, <2>1, FS_RemoveElement
  <2>. QED
    BY <1>3, <1>4, <2>1, <2>2
<1>6. Cardinality(Closed) <= Cardinality(rest) /\ Cardinality(Closed) \in Nat
  BY <1>2, <1>4, <1>5, FS_Subset, FS_CardinalityType
<1>. QED
  BY <1>0, <1>5, <1>6 DEF PasskeyInv, Signed, Counters

\* The client goes on with its challenge, or gives it up.
Onwards(p) ==
  \E r \in ClientRecord :
    /\ client' = [client EXCEPT ![p] = r] /\ r.at # "page"
    /\ r.at # "idle" => /\ r.serial = client[p].serial /\ r.key = client[p].key
                        /\ r.type = client[p].type

\* A page gets its answer, or is closed without one; who has one goes on to the end.
LEMMA ClientStep ==
  ASSUME PasskeyInv, NEW p \in Clients,
         \/ VerifyResponse(p) \/ ReadAccount(p) \/ UpdateAccount(p) \/ DropChallenge(p) \/ GiveUp(p)
  PROVE  PasskeyInv'
<1>0. /\ client \in [Clients -> ClientRecord] /\ made \in 0 .. MaxOptions /\ made \in Nat
      /\ signs \in [Credentials -> Counters] /\ passkeys \in PasskeysOf
      /\ challenges \subseteq Challenge /\ PasskeyTypeOK /\ expired \subseteq 1 .. made
      /\ signs \in [Credentials -> Nat]
  BY PasskeyTypes DEF PasskeyInv, PasskeySafe, Counters
<1>1. client[p] \in ClientRecord
  BY <1>0
<1>2. Waits(p)
  BY DEF VerifyResponse, ReadAccount, UpdateAccount, DropChallenge, GiveUp, Waits
<1>3. UNCHANGED <<made, expired, refusedRoom>>
  BY DEF VerifyResponse, ReadAccount, UpdateAccount, DropChallenge, GiveUp
<1>4. Onwards(p)
  <2>1. ASSUME client' = [client EXCEPT ![p] = AtRest] PROVE Onwards(p)
    BY <2>1, AtRestIsClient DEF Onwards
  <2>2. ASSUME NEW at \in Steps \ {"page"}, client' = [client EXCEPT ![p].at = at] PROVE Onwards(p)
    <3>1. PICK r : r = [client[p] EXCEPT !.at = at]
      OBVIOUS
    <3>2. r \in ClientRecord
      BY <1>1, <3>1 DEF ClientRecord
    <3>3. r.at = at /\ r.serial = client[p].serial /\ r.key = client[p].key /\ r.type = client[p].type
      BY <1>1, <3>1 DEF ClientRecord
    <3>4. client' = [client EXCEPT ![p] = r]
      BY <2>2, <3>1
    <3>. QED
      BY <3>2, <3>3, <3>4 DEF Onwards
  <2>3. CASE VerifyResponse(p)
    <3>1. CASE Leaves(p)
      BY <2>1, <3>1 DEF Leaves
    <3>2. ASSUME NEW c \in challenges,
                 client' = [client EXCEPT ![p] = [@ EXCEPT !.at = "account", !.got = c,
                                                           !.count = signs[Cred(p)] + 1]]
          PROVE  Onwards(p)
      <4>1. PICK r : r = [client[p] EXCEPT !.at = "account", !.got = c, !.count = signs[Cred(p)] + 1]
        OBVIOUS
      <4>2. signs[Cred(p)] + 1 \in Counters
        <5>1. On(p) = "page" /\ Cred(p) \in Credentials
          BY <1>1, <2>3 DEF VerifyResponse, Cred, ClientRecord
        <5>. QED
          BY <1>0, <5>1, RoomToSign DEF Counters
      <4>3. c \in Challenge /\ "account" \in Steps
        BY <1>0 DEF Steps
      <4>4. r \in ClientRecord
        BY <1>1, <4>1, <4>2, <4>3 DEF ClientRecord
      <4>5. r.at = "account" /\ r.serial = client[p].serial /\ r.key = client[p].key /\ r.type = client[p].type
        BY <1>1, <4>1 DEF ClientRecord
      <4>6. client' = [client EXCEPT ![p] = r]
        BY <3>2, <4>1
      <4>. QED
        BY <4>4, <4>5, <4>6 DEF Onwards
    <3>. QED
      BY <2>3, <3>1, <3>2 DEF VerifyResponse, Live
  <2>4. CASE ReadAccount(p)
    <3>1. Leaves(p) \/ To(p, "update")
      BY <2>4 DEF ReadAccount
    <3>. QED
      BY <2>1, <2>2, <3>1 DEF Leaves, To, Steps
  <2>5. CASE UpdateAccount(p)
    BY <2>2, <2>5 DEF UpdateAccount, To, Steps
  <2>6. CASE DropChallenge(p) \/ GiveUp(p)
    BY <2>1, <2>6 DEF DropChallenge, GiveUp, Leaves
  <2>. QED
    BY <2>3, <2>4, <2>5, <2>6
<1>5. (\A c \in challenges' : c \in challenges) /\ \A c \in challenges : c \notin challenges' => c.key = client[p].key
  BY DEF VerifyResponse, ReadAccount, UpdateAccount, DropChallenge, GiveUp
<1>6. PICK r \in ClientRecord :
        /\ client' = [client EXCEPT ![p] = r] /\ r.at # "page"
        /\ r.at # "idle" => /\ r.serial = client[p].serial /\ r.key = client[p].key
                            /\ r.type = client[p].type
  BY <1>4 DEF Onwards
<1>7. /\ client' \in [Clients -> ClientRecord]
      /\ RegistrationUndisturbed' /\ NobodyKeptOut' /\ Apart' /\ Closed \subseteq Closed'
      /\ On(p) = "page" => client[p].serial \in Closed' \ Closed
  BY <1>2, <1>3, <1>5, <1>6, ClientMoves
<1>8. passkeys' \in PasskeysOf
  <2>1. CASE passkeys' = passkeys
    BY <1>0, <2>1
  <2>2. CASE UpdateAccount(p) /\ Type(p) = "registration"
    <3>1. passkeys' = [c \in DOMAIN passkeys \cup {Cred(p)} |-> IF c \in DOMAIN passkeys THEN passkeys[c] ELSE 0]
      BY <2>2 DEF UpdateAccount
    <3>2. PICK K : K = DOMAIN passkeys \cup {Cred(p)}
      OBVIOUS
    <3>3. K \in SUBSET Credentials
      BY <1>0, <1>1, <3>2, PasskeyFiles DEF Cred, ClientRecord
    <3>4. passkeys' \in [K -> Counters]
      BY <1>0, <3>1, <3>2, PasskeyFiles DEF Counters
    <3>. QED
      BY <1>0, <3>3, <3>4, PasskeyFiles
  <2>3. CASE UpdateAccount(p) /\ Type(p) # "registration"
    <3>1. passkeys' = [passkeys EXCEPT ![Cred(p)] = client[p].count] /\ client[p].count \in Counters
      BY <1>1, <2>3 DEF UpdateAccount, ClientRecord
    <3>2. PICK K \in SUBSET Credentials : passkeys \in [K -> Counters]
      BY <1>0 DEF PasskeysOf
    <3>3. passkeys' \in [K -> Counters]
      BY <3>1, <3>2
    <3>. QED
      BY <1>0, <3>3, PasskeyFiles
  <2>. QED
    BY <2>1, <2>2, <2>3 DEF VerifyResponse, ReadAccount, UpdateAccount, DropChallenge, GiveUp
<1>9. signs' \in [Credentials -> Counters] /\ Signed'
  <2>1. CASE VerifyResponse(p)
    <3>1. On(p) = "page" /\ signs' = [signs EXCEPT ![Cred(p)] = @ + 1] /\ Cred(p) \in Credentials
      BY <1>1, <2>1 DEF VerifyResponse, Cred, ClientRecord
    <3>2. signs' \in [Credentials -> Counters]
      BY <1>0, <3>1, RoomToSign DEF Counters
    <3>3. PICK n : n = client[p].serial
      OBVIOUS
    <3>4. Closed \cup {n} \subseteq Closed' /\ n \notin Closed
      BY <1>7, <3>1, <3>3
    <3>5. IsFiniteSet(Closed) /\ Cardinality(Closed) \in Nat
      BY <1>0, ClosedFinite
    <3>6. IsFiniteSet(Closed \cup {n}) /\ Cardinality(Closed \cup {n}) = Cardinality(Closed) + 1
      BY <3>4, <3>5, FS_AddElement
    <3>7. IsFiniteSet(Closed')
      <4>1. Closed' \subseteq 1 .. made'
        BY DEF Closed
      <4>2. IsFiniteSet(1 .. made')
        BY <1>0, <1>3, FS_Interval
      <4>. QED
        BY <4>1, <4>2, FS_Subset
    <3>8. Cardinality(Closed) + 1 <= Cardinality(Closed') /\ Cardinality(Closed') \in Nat
      BY <3>4, <3>6, <3>7, FS_Subset, FS_CardinalityType
    <3>9. \A a \in Credentials : signs'[a] <= signs[a] + 1
      BY <1>0, <3>1
    <3>. QED
      BY <1>0, <3>2, <3>5, <3>8, <3>9 DEF PasskeyInv, Signed, Counters
  <2>2. CASE ~ VerifyResponse(p)
    <3>1. signs' = signs
      BY <2>2 DEF ReadAccount, UpdateAccount, DropChallenge, GiveUp
    <3>. QED
      BY <1>0, <1>3, <1>7, <3>1, SignedStays DEF PasskeyInv
  <2>. QED
    BY <2>1, <2>2
<1>. QED
  BY <1>0, <1>3, <1>5, <1>7, <1>8, <1>9, PasskeyTypesStay DEF PasskeyInv, PasskeySafe

\* Time passes, and the timer removes what is over.
LEMMA TimerStep ==
  ASSUME PasskeyInv, (\E n \in Serials : Expires(n)) \/ CleanUp PROVE PasskeyInv'
<1>0. /\ client \in [Clients -> ClientRecord] /\ made \in 0 .. MaxOptions /\ made \in Nat
      /\ signs \in [Credentials -> Counters] /\ passkeys \in PasskeysOf
      /\ PasskeyTypeOK /\ expired \subseteq 1 .. made
  BY PasskeyTypes DEF PasskeyInv, PasskeySafe
<1>1. /\ UNCHANGED <<made, passkeys, signs, client, refusedRoom>>
      /\ challenges' \subseteq challenges /\ expired \subseteq expired' /\ expired' \subseteq 1 .. made
      /\ \A c \in challenges : c \notin challenges' => c.serial \in expired
  BY <1>0 DEF Expires, CleanUp, Live
<1>2. PasskeyTypeOK' /\ IsFiniteSet(challenges')
  BY <1>0, <1>1, PasskeyTypesStay DEF PasskeyInv
<1>3. Apart' /\ Signed' /\ NobodyKeptOut'
  BY <1>1 DEF PasskeyInv, PasskeySafe, Apart, Keyed, Waits, On, Signed, Closed, NobodyKeptOut
<1>4. RegistrationUndisturbed'
  BY <1>1 DEF PasskeyInv, PasskeySafe, RegistrationUndisturbed, On, Type
<1>. QED
  BY <1>2, <1>3, <1>4 DEF PasskeyInv, PasskeySafe

LEMMA PasskeyStep == PasskeyInv /\ [PasskeyNext]_passkeyVars => PasskeyInv'
<1>. SUFFICES ASSUME PasskeyInv, [PasskeyNext]_passkeyVars PROVE PasskeyInv'
  OBVIOUS
<1>1. CASE PasskeyNext
  BY <1>1, OptionsStep, ClientStep, TimerStep DEF PasskeyNext, Types
<1>2. CASE UNCHANGED passkeyVars
  BY <1>2 DEF passkeyVars, PasskeyInv, PasskeySafe, PasskeyTypeOK, RegistrationUndisturbed, NobodyKeptOut,
              Apart, Keyed, Signed, Closed, Waits, On, Type
<1>. QED
  BY <1>1, <1>2

\* Whatever the other tabs do and however late the timer runs: who registers a passkey keeps
\* its challenge until it is over, and nobody is refused while a challenge in the Map is over.
THEOREM PasskeySafeTheorem == PasskeySpec => []PasskeySafe
<1>1. PasskeyInv => PasskeySafe
  BY DEF PasskeyInv
<1>. QED
  BY <1>1, PasskeyStart, PasskeyStep, PTL DEF PasskeySpec
-----------------------------------------------------------------------------
(* Federation. *)

USE FederationAssumption

Stores == [followers : SUBSET Actors, actors : SUBSET Actors, posts : SUBSET Notes]

\* The database is on disk as it is in memory, unless the last write of it has failed.
StoreTypes ==
  /\ store \in Stores /\ file \in Stores /\ truncated \in BOOLEAN
  /\ ~ truncated => file = store
  /\ dropped \in [followers : SUBSET Actors, posts : SUBSET Notes]
  /\ delivery \in [Deliveries -> [at : {"none", "verify", "handle", "accept"},
                                  kind : {"none", "Follow", "Undo"}, actor : Actors \cup {NoActor},
                                  signer : Actors \cup {NoActor}]]
  /\ \A d \in Deliveries : delivery[d].at # "none" => delivery[d].actor \in Actors
  /\ \A d \in Deliveries : delivery[d].at = "verify" => delivery[d].signer \in Actors

\* A note that is not in the table was sent to nobody, and what is still to be sent to an
\* inbox has not been.
SendsInOrder ==
  /\ sending \in [Notes -> SUBSET Inboxes]
  /\ copies \in [Notes -> [Inboxes -> Nat]]
  /\ \A n \in Notes \ dropped.posts :
       /\ n \notin store.posts => sending[n] = {} /\ \A i \in Inboxes : copies[n][i] = 0
       /\ \A i \in Inboxes : copies[n][i] <= 1
       /\ \A i \in sending[n] : copies[n][i] = 0

FollowersInv == StoreTypes /\ AcceptedStaysFollower /\ SendsInOrder

LEMMA FollowersStart == FederationInit => FollowersInv
<1>. SUFFICES ASSUME FederationInit PROVE FollowersInv
  OBVIOUS
<1>1. StoreTypes
  BY DEF FederationInit, StoreTypes, Stores, EmptyStore, NoDelivery
<1>2. SendsInOrder
  BY DEF FederationInit, SendsInOrder
<1>3. AcceptedStaysFollower
  BY DEF FederationInit, AcceptedStaysFollower
<1>. QED
  BY <1>1, <1>2, <1>3 DEF FollowersInv

\* What is in the store comes from Actors and Notes.
LEMMA StoreParts ==
  ASSUME store \in Stores
  PROVE  /\ store.followers \subseteq Actors /\ store.actors \subseteq Actors
         /\ store.posts \subseteq Notes
         /\ store = [followers |-> store.followers, actors |-> store.actors, posts |-> store.posts]
BY DEF Stores

\* A statement leaves the file as the store, or cut off.
Saved == /\ file' \in Stores /\ truncated' \in BOOLEAN
         /\ ~ truncated' => file' = store'

LEMMA RunStmtSaves ==
  ASSUME NEW s \in Stores, RunStmt(s) \/ FailStmt(s)
  PROVE  store' = s /\ Saved
<1>1. CASE RunStmt(s)
  BY <1>1 DEF RunStmt, Saved
<1>2. CASE FailStmt(s)
  <2>1. EmptyStore \in Stores
    BY DEF EmptyStore, Stores
  <2>. QED
    BY <1>2, <2>1 DEF FailStmt, Saved
<1>. QED
  BY <1>1, <1>2

\* What a step of the inbox leaves as it is, and keeps.
InboxKeeps ==
  /\ StoreTypes' /\ AcceptedStaysFollower'
  /\ store'.posts = store.posts /\ UNCHANGED <<dropped, sending, copies>>

\* The inbox leaves the posts and what is sent of them alone.
LEMMA InboxStep ==
  ASSUME FollowersInv, NEW d \in Deliveries,
         \/ \E kind \in {"Follow", "Undo"}, a \in Actors, signer \in Actors : Receive(d, kind, a, signer)
         \/ \E ok \in BOOLEAN : VerifySignature(d, ok) \/ Follow(d, ok) \/ SendAccept(d, ok)
         \/ Undo(d)
  PROVE  FollowersInv'
<1> DEFINE Moved == /\ delivery' \in [Deliveries -> [at : {"none", "verify", "handle", "accept"},
                                  kind : {"none", "Follow", "Undo"}, actor : Actors \cup {NoActor},
                                  signer : Actors \cup {NoActor}]]
                    /\ \A e \in Deliveries : delivery'[e].at # "none" => delivery'[e].actor \in Actors
                    /\ \A e \in Deliveries : delivery'[e].at = "verify" => delivery'[e].signer \in Actors
<1>0. /\ StoreTypes /\ store \in Stores /\ welcomed \subseteq store.followers \cup dropped.followers
      /\ delivery \in [Deliveries -> [at : {"none", "verify", "handle", "accept"},
                                  kind : {"none", "Follow", "Undo"}, actor : Actors \cup {NoActor},
                                  signer : Actors \cup {NoActor}]]
      /\ \A e \in Deliveries : delivery[e].at # "none" => delivery[e].actor \in Actors
      /\ \A e \in Deliveries : delivery[e].at = "verify" => delivery[e].signer \in Actors
  BY DEF FollowersInv, StoreTypes, AcceptedStaysFollower
<1>01. SUFFICES InboxKeeps
  BY DEF InboxKeeps, FollowersInv, SendsInOrder
<1>1. ASSUME NEW kind \in {"Follow", "Undo"}, NEW a \in Actors, NEW signer \in Actors,
             Receive(d, kind, a, signer)
      PROVE  InboxKeeps
  <2>1. Moved
    BY <1>0, <1>1 DEF Receive
  <2>. QED
    BY <1>0, <1>1, <2>1 DEF Receive, storeVars, InboxKeeps, StoreTypes, AcceptedStaysFollower
\* Of one that goes on: where it can go.
<1>2. ASSUME \/ Move(d, "accept") /\ delivery[d].at # "none"
             \/ Handle(d) /\ delivery[d].at # "none"
             \/ Answered(d)
      PROVE  Moved
  <2>1. CASE Move(d, "accept") /\ delivery[d].at # "none"
    BY <1>0, <2>1 DEF Move
  <2>2. CASE Handle(d) /\ delivery[d].at # "none"
    BY <1>0, <2>2 DEF Handle
  <2>3. CASE Answered(d)
    BY <1>0, <2>3 DEF Answered, NoDelivery
  <2>. QED
    BY <1>2, <2>1, <2>2, <2>3
\* And of its statement: it adds actors and followers, or none.
<1>3. ASSUME NEW s \in Stores, Moved, s.posts = store.posts,
             welcomed' \subseteq s.followers \cup dropped.followers, UNCHANGED <<dropped, sending, copies>>,
             RunStmt(s) \/ FailStmt(s) \/ (s = store /\ UNCHANGED storeVars)
      PROVE  InboxKeeps
  <2>1. store' = s /\ Saved
    <3>1. CASE s = store /\ UNCHANGED storeVars
      BY <1>0, <3>1 DEF storeVars, Saved, StoreTypes
    <3>. QED
      BY <1>3, <3>1, RunStmtSaves
  <2>. QED
    BY <1>0, <1>3, <2>1 DEF InboxKeeps, Saved, StoreTypes, AcceptedStaysFollower
<1>. HIDE DEF Moved
\* The stores that it may leave.
<1>4. ASSUME NEW a \in Actors
      PROVE  /\ WithActor(a) \in Stores /\ WithActor(a).posts = store.posts
             /\ WithActor(a).followers = store.followers
             /\ [WithActor(a) EXCEPT !.followers = @ \cup {a}] \in Stores
             /\ [WithActor(a) EXCEPT !.followers = @ \cup {a}].posts = store.posts
             /\ [WithActor(a) EXCEPT !.followers = @ \cup {a}].followers = store.followers \cup {a}
             /\ [store EXCEPT !.followers = @ \ {a}] \in Stores
             /\ [store EXCEPT !.followers = @ \ {a}].posts = store.posts
             /\ [store EXCEPT !.followers = @ \ {a}].followers = store.followers \ {a}
  <2>0. store = [followers |-> store.followers, actors |-> store.actors, posts |-> store.posts]
    BY <1>0, StoreParts
  <2>1. WithActor(a) = [followers |-> store.followers, actors |-> store.actors \cup {a}, posts |-> store.posts]
    BY <2>0 DEF WithActor
  <2>2. [WithActor(a) EXCEPT !.followers = @ \cup {a}]
          = [followers |-> store.followers \cup {a}, actors |-> store.actors \cup {a}, posts |-> store.posts]
    BY <2>1
  <2>3. [store EXCEPT !.followers = @ \ {a}]
          = [followers |-> store.followers \ {a}, actors |-> store.actors, posts |-> store.posts]
    BY <2>0
  <2>. QED
    BY <1>0, <2>1, <2>2, <2>3, StoreParts DEF Stores
<1>5. ASSUME NEW ok \in BOOLEAN, VerifySignature(d, ok)
      PROVE  InboxKeeps
  <2>1. delivery[d].at = "verify" /\ delivery[d].signer \in Actors
    BY <1>0, <1>5 DEF VerifySignature
  <2>2. PICK a \in Actors : a = delivery[d].signer
    BY <2>1
  <2>3. PICK s : s = IF Known(a, ok) THEN WithActor(a) ELSE store
    OBVIOUS
  <2>4. s \in Stores /\ s.posts = store.posts /\ s.followers = store.followers
    BY <1>0, <1>4, <2>3
  <2>5. /\ RunStmt(s) \/ FailStmt(s) \/ (s = store /\ UNCHANGED storeVars)
        /\ Handle(d) \/ Answered(d)
        /\ UNCHANGED <<welcomed, dropped, sending, copies>>
    BY <1>5, <2>2, <2>3 DEF VerifySignature
  <2>6. Moved
    BY <1>2, <2>1, <2>5
  <2>. QED
    BY <1>0, <1>3, <2>4, <2>5, <2>6
<1>6. ASSUME NEW ok \in BOOLEAN, Follow(d, ok)
      PROVE  InboxKeeps
  <2>1. delivery[d].at = "handle" /\ delivery[d].actor \in Actors
    BY <1>0, <1>6 DEF Follow
  <2>2. PICK a \in Actors : a = delivery[d].actor
    BY <2>1
  <2>3. PICK s : \/ s = [WithActor(a) EXCEPT !.followers = @ \cup {a}] /\ (RunStmt(s) \/ FailStmt(s))
                 \/ s = WithActor(a) /\ FailStmt(s)
                 \/ s = store /\ UNCHANGED storeVars
    BY <1>6, <2>2 DEF Follow
  <2>4. Move(d, "accept") \/ Answered(d)
    BY <1>6 DEF Follow
  <2>5. s \in Stores /\ s.posts = store.posts /\ store.followers \subseteq s.followers
    BY <1>0, <1>4, <2>3
  <2>6. Moved
    BY <1>2, <2>1, <2>4
  <2>7. UNCHANGED <<welcomed, dropped, sending, copies>>
    BY <1>6 DEF Follow
  <2>8. RunStmt(s) \/ FailStmt(s) \/ (s = store /\ UNCHANGED storeVars)
    BY <2>3
  <2>. QED
    BY <1>0, <1>3, <2>5, <2>6, <2>7, <2>8
<1>7. ASSUME NEW ok \in BOOLEAN, SendAccept(d, ok)
      PROVE  InboxKeeps
  <2>1. Answered(d) /\ UNCHANGED storeVars /\ UNCHANGED <<dropped, sending, copies>>
    BY <1>7 DEF SendAccept
  <2>2. welcomed' \subseteq store.followers \cup dropped.followers
    BY <1>0, <1>7 DEF SendAccept
  <2>3. Moved
    BY <1>2, <2>1
  <2>. QED
    BY <1>0, <1>3, <2>1, <2>2, <2>3
<1>8. ASSUME Undo(d)
      PROVE  InboxKeeps
  <2>1. delivery[d].at = "handle" /\ delivery[d].actor \in Actors
    BY <1>0, <1>8 DEF Undo
  <2>2. PICK a \in Actors : a = delivery[d].actor
    BY <2>1
  <2>3. PICK s : s = [store EXCEPT !.followers = @ \ {a}]
    OBVIOUS
  <2>4. /\ RunStmt(s) \/ FailStmt(s)
        /\ welcomed' = welcomed \ {a} /\ Answered(d) /\ UNCHANGED <<dropped, sending, copies>>
    BY <1>8, <2>2, <2>3 DEF Undo
  <2>5. s \in Stores /\ s.posts = store.posts /\ welcomed' \subseteq s.followers \cup dropped.followers
    BY <1>0, <1>4, <2>3, <2>4
  <2>6. Moved
    BY <1>2, <2>4
  <2>. QED
    BY <1>3, <2>4, <2>5, <2>6
<1>. QED
  BY <1>1, <1>5, <1>6, <1>7, <1>8

\* The outbox sends a note once to each inbox the followers had when it was saved.
LEMMA OutboxStep ==
  ASSUME FollowersInv, NEW n \in Notes,
         Post(n) \/ PostBare(n) \/ \E i \in Inboxes, ok \in BOOLEAN : Deliver(n, i, ok)
  PROVE  FollowersInv'
<1>0. /\ StoreTypes /\ store \in Stores /\ SendsInOrder /\ AcceptedStaysFollower
      /\ sending \in [Notes -> SUBSET Inboxes] /\ copies \in [Notes -> [Inboxes -> Nat]]
  BY DEF FollowersInv, StoreTypes, SendsInOrder
<1>1. ASSUME n \notin store.posts, SaveAndSend(n) PROVE FollowersInv'
  <2>1. FollowerInboxes \subseteq Inboxes
    BY <1>0, StoreParts DEF FollowerInboxes, Inboxes
  <2>2. PICK s : s = [store EXCEPT !.posts = @ \cup {n}]
    OBVIOUS
  <2>30. store = [followers |-> store.followers, actors |-> store.actors, posts |-> store.posts]
    BY <1>0, StoreParts
  <2>3. s = [followers |-> store.followers, actors |-> store.actors, posts |-> store.posts \cup {n}]
    BY <2>2, <2>30
  <2>4. s \in Stores /\ s.followers = store.followers /\ s.posts = store.posts \cup {n}
    BY <1>0, <2>3, StoreParts DEF Stores
  <2>5. /\ RunStmt(s) \/ FailStmt(s)
        /\ sending' = [sending EXCEPT ![n] = FollowerInboxes] \/ sending' = sending
        /\ UNCHANGED <<dropped, delivery, copies, welcomed>>
    BY <1>1, <2>2 DEF SaveAndSend
  <2>6. store' = s /\ Saved
    BY <2>4, <2>5, RunStmtSaves
  <2>7. StoreTypes' /\ AcceptedStaysFollower'
    BY <1>0, <2>4, <2>5, <2>6 DEF StoreTypes, Saved, AcceptedStaysFollower
  <2>8. sending' \in [Notes -> SUBSET Inboxes] /\ \A m \in Notes \ {n} : sending'[m] = sending[m]
    BY <1>0, <2>1, <2>5
  <2>9. ASSUME NEW m \in Notes \ dropped'.posts
        PROVE  /\ m \notin store'.posts => sending'[m] = {} /\ \A i \in Inboxes : copies'[m][i] = 0
               /\ \A i \in Inboxes : copies'[m][i] <= 1
               /\ \A i \in sending'[m] : copies'[m][i] = 0
    <3>1. CASE m = n
      <4>1. \A i \in Inboxes : copies[n][i] = 0
        BY <1>0, <1>1, <2>5, <2>9, <3>1 DEF SendsInOrder
      <4>2. sending'[n] \subseteq Inboxes
        BY <2>8
      <4>. QED
        BY <2>4, <2>5, <2>6, <3>1, <4>1, <4>2
    <3>2. CASE m # n
      BY <1>0, <2>4, <2>5, <2>6, <2>8, <2>9, <3>2 DEF SendsInOrder
    <3>. QED
      BY <3>1, <3>2
  <2>. QED
    BY <1>0, <2>5, <2>7, <2>8, <2>9 DEF FollowersInv, SendsInOrder
<1>2. ASSUME NEW i \in Inboxes, NEW ok \in BOOLEAN, Deliver(n, i, ok) PROVE FollowersInv'
  <2>1. /\ i \in sending[n] /\ sending' = [sending EXCEPT ![n] = @ \ {i}]
        /\ copies' = IF ok THEN [copies EXCEPT ![n][i] = @ + 1] ELSE copies
        /\ UNCHANGED <<storeVars, dropped, delivery, welcomed>>
    BY <1>2 DEF Deliver
  <2>2. StoreTypes' /\ AcceptedStaysFollower'
    BY <1>0, <2>1 DEF StoreTypes, AcceptedStaysFollower, storeVars
  <2>3. /\ copies' \in [Notes -> [Inboxes -> Nat]] /\ sending' \in [Notes -> SUBSET Inboxes]
        /\ copies'[n][i] \in {copies[n][i], copies[n][i] + 1}
        /\ \A m \in Notes : \A j \in Inboxes : (m # n \/ j # i) => copies'[m][j] = copies[m][j]
        /\ \A m \in Notes : sending'[m] = IF m = n THEN sending[n] \ {i} ELSE sending[m]
    BY <1>0, <2>1
  <2>4. ASSUME NEW m \in Notes \ dropped'.posts
        PROVE  /\ m \notin store'.posts => sending'[m] = {} /\ \A j \in Inboxes : copies'[m][j] = 0
               /\ \A j \in Inboxes : copies'[m][j] <= 1
               /\ \A j \in sending'[m] : copies'[m][j] = 0
    <3>0. store' = store /\ dropped' = dropped
      BY <2>1 DEF storeVars
    <3>1. /\ m \notin store.posts => sending[m] = {} /\ \A j \in Inboxes : copies[m][j] = 0
          /\ \A j \in Inboxes : copies[m][j] <= 1
          /\ \A j \in sending[m] : copies[m][j] = 0
      BY <1>0, <2>4, <3>0 DEF SendsInOrder
    <3>2. CASE m = n
      <4>1. n \in store.posts /\ copies[n][i] = 0
        BY <2>1, <3>1, <3>2
      <4>2. copies'[n][i] <= 1 /\ sending[n] \subseteq Inboxes
        BY <1>0, <2>3, <4>1
      <4>. QED
        BY <2>3, <3>0, <3>1, <3>2, <4>1, <4>2
    <3>3. CASE m # n
      BY <1>0, <2>3, <3>0, <3>1, <3>3
    <3>. QED
      BY <3>2, <3>3
  <2>. QED
    BY <2>2, <2>3, <2>4 DEF FollowersInv, SendsInOrder
<1>. QED
  BY <1>1, <1>2 DEF Post, PostBare, IsNew
-----------------------------------------------------------------------------
\* A code that can be exchanged is as it was minted and has given nothing; one that was
\* exchanged has given at most one token, to the client and at the redirect it was minted
\* for, in time.
CodesInv ==
  /\ minute \in Nat
  /\ \A x \in DOMAIN minted : minted[x].expires \in Nat
  /\ \A x \in DOMAIN authCodes : x \in DOMAIN minted /\ authCodes[x] = minted[x]
  /\ issued = [x \in CodeIds |-> issued[x]]
  /\ \A x \in CodeIds :
       \/ issued[x] = <<>>
       \/ /\ x \in DOMAIN minted \ DOMAIN authCodes
          /\ \E t \in Nat : /\ t <= minted[x].expires
                           /\ issued[x] = <<[client |-> minted[x].client,
                                            redirect |-> minted[x].redirect, at |-> t]>>

LEMMA CodesStart == FederationInit => CodesInv
BY DEF FederationInit, CodesInv

LEMMA CodesStep == ASSUME CodesInv, OauthNext PROVE CodesInv'
<1>. USE DEF CodesInv
<1>1. ASSUME NEW c \in Apps, RegisterApp(c) PROVE CodesInv'
  BY <1>1 DEF RegisterApp
<1>2. ASSUME NEW c \in Apps, NEW r \in Redirects, NEW code \in CodeIds, Authorize(c, r, code)
      PROVE  CodesInv'
  BY <1>2 DEF Authorize, Grant
<1>3. ASSUME NEW c \in Apps, NEW r \in Redirects, NEW code \in CodeIds, Exchange(c, r, code)
      PROVE  CodesInv'
  <2>1. /\ issued[code] = <<>> /\ code \in DOMAIN minted /\ authCodes[code] = minted[code]
        /\ UNCHANGED <<minted, minute>> /\ code \notin DOMAIN authCodes'
        /\ \A x \in DOMAIN authCodes' : x \in DOMAIN authCodes /\ authCodes'[x] = authCodes[x]
    BY <1>3 DEF Exchange, Forgotten
  <2>2. CASE GoodFor(authCodes[code], c, r)
    <3>1. Append(<<>>, Token(c, r)) = <<Token(c, r)>>
      OBVIOUS
    <3>2. /\ issued'[code] = <<[client |-> minted[code].client, redirect |-> minted[code].redirect,
                                at |-> minute]>>
          /\ minute <= minted[code].expires
      BY <1>3, <2>1, <2>2, <3>1 DEF Exchange, GoodFor, Token
    <3>3. /\ issued' = [x \in CodeIds |-> issued'[x]]
          /\ \A x \in CodeIds \ {code} : issued'[x] = issued[x]
      BY <1>3, <2>2 DEF Exchange
    <3>. QED
      BY <2>1, <3>2, <3>3
  <2>3. CASE ~ GoodFor(authCodes[code], c, r)
    <3>1. issued' = issued
      BY <1>3, <2>3 DEF Exchange
    <3>. QED
      BY <2>1, <3>1
  <2>. QED
    BY <2>2, <2>3
<1>4. CASE SweepCodes
  BY <1>4 DEF SweepCodes
<1>5. CASE Minute
  BY <1>5 DEF Minute
<1>. QED
  BY <1>1, <1>2, <1>3, <1>4, <1>5 DEF OauthNext

\* A server that starts again has forgotten codes, sends and deliveries, but not the store,
\* unless that was cut off.
LEMMA RestartStep == ASSUME FollowersInv, CodesInv, RestartServer PROVE FollowersInv' /\ CodesInv'
<1>1. FollowersInv'
  <2>1. PICK whole \in BOOLEAN :
          /\ store' = (IF whole THEN file ELSE EmptyStore) /\ file' = store'
          /\ dropped' = IF whole /\ ~ truncated THEN dropped
                        ELSE [followers |-> dropped.followers \cup store.followers,
                              posts |-> dropped.posts \cup store.posts]
    BY DEF RestartServer
  <2>2. /\ truncated' = FALSE /\ delivery' = [d \in Deliveries |-> NoDelivery]
        /\ sending' = [n \in Notes |-> {}] /\ UNCHANGED <<copies, welcomed>>
    BY DEF RestartServer
  <2>3. /\ store \in Stores /\ file \in Stores /\ (~ truncated => file = store)
        /\ dropped \in [followers : SUBSET Actors, posts : SUBSET Notes]
        /\ welcomed \subseteq store.followers \cup dropped.followers /\ SendsInOrder
    BY DEF FollowersInv, StoreTypes, AcceptedStaysFollower
  <2>4. /\ store' \in Stores
        /\ dropped' \in [followers : SUBSET Actors, posts : SUBSET Notes]
        /\ dropped.posts \subseteq dropped'.posts
        /\ store.followers \cup dropped.followers \subseteq store'.followers \cup dropped'.followers
        /\ store.posts \subseteq store'.posts \cup dropped'.posts
    <3>1. CASE whole /\ ~ truncated
      BY <2>1, <2>3, <3>1
    <3>2. CASE ~ (whole /\ ~ truncated)
      <4>1. dropped' = [followers |-> dropped.followers \cup store.followers,
                        posts |-> dropped.posts \cup store.posts]
        BY <2>1, <3>2
      <4>2. store' \in Stores
        BY <2>1, <2>3 DEF EmptyStore, Stores
      <4>. QED
        BY <2>3, <4>1, <4>2, StoreParts
    <3>. QED
      BY <3>1, <3>2
  <2>5. StoreTypes' /\ AcceptedStaysFollower'
    BY <2>1, <2>2, <2>3, <2>4 DEF StoreTypes, AcceptedStaysFollower, NoDelivery
  <2>6. SendsInOrder'
    BY <2>2, <2>3, <2>4 DEF SendsInOrder
  <2>. QED
    BY <2>5, <2>6 DEF FollowersInv
<1>2. CodesInv'
  BY DEF CodesInv, RestartServer
<1>. QED
  BY <1>1, <1>2

LEMMA FederationStep ==
  ASSUME FollowersInv, CodesInv, [FederationNext]_federationVars PROVE FollowersInv' /\ CodesInv'
<1>1. CASE ActivityNext
  <2>1. CodesInv'
    <3>1. UNCHANGED oauthVars
      BY <1>1 DEF ActivityNext, Receive, VerifySignature, Follow, SendAccept, Undo, Post, PostBare,
                     SaveAndSend, Deliver
    <3>. QED
      BY <3>1 DEF oauthVars, CodesInv
  <2>. QED
    BY <1>1, <2>1, InboxStep, OutboxStep DEF ActivityNext
<1>2. CASE OauthNext
  <2>1. UNCHANGED apVars
    BY <1>2 DEF OauthNext, RegisterApp, Authorize, Exchange, SweepCodes, Minute
  <2>2. FollowersInv'
    BY <2>1 DEF apVars, FollowersInv, StoreTypes, SendsInOrder, AcceptedStaysFollower
  <2>. QED
    BY <1>2, <2>2, CodesStep
<1>3. CASE UNCHANGED federationVars
  BY <1>3 DEF federationVars, FollowersInv, StoreTypes, SendsInOrder, AcceptedStaysFollower, CodesInv
<1>. QED
  BY <1>1, <1>2, <1>3, RestartStep DEF FederationNext

LEMMA FederationInvariance == FederationSpec => [](FollowersInv /\ CodesInv)
<1>1. (FollowersInv /\ CodesInv) /\ [FederationNext]_federationVars => (FollowersInv /\ CodesInv)'
  BY FederationStep
<1>. QED
  BY <1>1, FollowersStart, CodesStart, PTL DEF FederationSpec

\* For any actors, inboxes they share, notes and restarts of the server: who was sent an
\* Accept stays a follower until an Undo in its name arrives, and no inbox gets a note twice
\* under one id, unless the database was cut off while it was written.
THEOREM FollowersToldTheorem == FederationSpec => []FollowersTold
<1>1. FollowersInv => FollowersTold
  BY DEF FollowersInv, FollowersTold, SendsInOrder, NoteSentOnce
<1>. QED
  BY <1>1, FederationInvariance, PTL

\* For any clients, codes and life of a code: POST /oauth/token gives one token for a
\* code, to the client and at the redirect it was minted for, and before it is over.
THEOREM CodeGivesOneTokenTheorem == FederationSpec => []CodeGivesOneToken
<1>1. CodesInv => CodeGivesOneToken
  <2>. SUFFICES ASSUME CodesInv, NEW x \in CodeIds
                PROVE  /\ Len(issued[x]) <= 1
                       /\ \A i \in DOMAIN issued[x] :
                            /\ issued[x][i].client = minted[x].client
                            /\ issued[x][i].redirect = minted[x].redirect
                            /\ issued[x][i].at <= minted[x].expires
    BY DEF CodeGivesOneToken
  <2>1. CASE issued[x] = <<>>
    BY <2>1
  <2>2. CASE issued[x] # <<>>
    <3>1. PICK t \in Nat : /\ t <= minted[x].expires
                           /\ issued[x] = <<[client |-> minted[x].client,
                                            redirect |-> minted[x].redirect, at |-> t]>>
      BY <2>2 DEF CodesInv
    <3>. QED
      BY <3>1
  <2>. QED
    BY <2>1, <2>2
<1>. QED
  BY <1>1, FederationInvariance, PTL

-----------------------------------------------------------------------------
(* Login. *)

HIDE RegistrationAssumption
HIDE PasskeyAssumption
HIDE FederationAssumption

USE LoginAssumption

\* What switchAccount leaves: a login that belongs to nobody.
Cold(i) == i.prompt = "login" /\ i.session = NoAccount /\ i.result = NoResult

Proving == {"login", "json", "passkeyComplete", "schnorrComplete"}
Named == {"login", "json", "schnorr", "passkeyComplete", "schnorrComplete"}

\* The request is on its way to finish the login it has proved.
Owed(at, next, kind) ==
  \/ at = "account" /\ kind = "schnorrComplete"
  \/ at = "save" /\ next = "finish" /\ kind \in Proving
  \/ at = "finish" /\ kind \in Proving

\* What is known of a tab r when n interactions have begun: the answer a request is about to
\* save names the account it has proved, and the copy of a switch is cold.
OkTab(r, n) ==
  /\ r.flow = 1 \/ r.flow <= n
  /\ r.at # "idle" => n > 0
  /\ r.at = "idle" /\ r.page \in {"passkey", "signed"} => r.who \in Accounts
  /\ r.at = "save" /\ r.next \in {"passkey", "signed"} => r.who \in Accounts
  /\ r.at # "idle" /\ r.right /\ r.kind \in Named => r.who \in Accounts
  /\ r.at = "account" /\ r.kind = "passkeySkip" => r.copy.result.by = "prompt"
  /\ r.at = "save" /\ r.kind = "switch" => Cold(r.copy)
  /\ Owed(r.at, r.next, r.kind) => r.copy.result.account = r.who

LoginInv ==
  /\ LoginTypeOK
  /\ switched \subseteq 1 .. begun
  /\ \A f \in switched : Cold(inter[f])
  /\ \A t \in Tabs : OkTab(tab[t], begun)

Moved(t, n) == \E m \in Tab : tab' = [tab EXCEPT ![t] = m] /\ OkTab(m, n)

\* What With makes of a tab.
LEMMA Merged ==
  ASSUME NEW r \in Tab, NEW c
  PROVE  With(r, c) = [page |-> IF "page" \in DOMAIN c THEN c["page"] ELSE r.page,
                       flow |-> IF "flow" \in DOMAIN c THEN c["flow"] ELSE r.flow,
                       kind |-> IF "kind" \in DOMAIN c THEN c["kind"] ELSE r.kind,
                       who |-> IF "who" \in DOMAIN c THEN c["who"] ELSE r.who,
                       right |-> IF "right" \in DOMAIN c THEN c["right"] ELSE r.right,
                       at |-> IF "at" \in DOMAIN c THEN c["at"] ELSE r.at,
                       copy |-> IF "copy" \in DOMAIN c THEN c["copy"] ELSE r.copy,
                       next |-> IF "next" \in DOMAIN c THEN c["next"] ELSE r.next]
<1>1. DOMAIN r = {"page", "flow", "kind", "who", "right", "at", "copy", "next"}
  BY DEF Tab
<1>2. With(r, c) = [y \in {"page", "flow", "kind", "who", "right", "at", "copy", "next"} |->
                      IF y \in DOMAIN c THEN c[y] ELSE r[y]]
  BY <1>1 DEF With
<1>. QED
  BY <1>2

LEMMA TabTypes ==
  ASSUME LoginInv, NEW t \in Tabs
  PROVE  /\ tab[t] \in Tab /\ OkTab(tab[t], begun) /\ begun \in 0 .. MaxFlows /\ Copy(t) \in Interaction
         /\ Flow(t) \in Flows /\ Who(t) \in Somebody /\ inter \in [Flows -> Interaction]
BY DEF LoginInv, LoginTypeOK, Tab, Copy, Flow, Who

\* A step that changes one tab.
LEMMA TabMoves ==
  ASSUME LoginInv, NEW t \in Tabs, Moved(t, begun'), begun' \in 0 .. MaxFlows, begun <= begun',
         inter' \in [Flows -> Interaction], cookies' \in SUBSET Flows, session' \in Somebody,
         settled' \in SUBSET Accounts, forms' \in 0 .. MaxForms, faults' \in 0 .. MaxFaults,
         switched' \subseteq 1 .. begun', \A f \in switched' : Cold(inter'[f])
  PROVE  LoginInv'
<1>1. PICK m \in Tab : tab' = [tab EXCEPT ![t] = m] /\ OkTab(m, begun')
  BY DEF Moved
<1>2. tab \in [Tabs -> Tab] /\ begun \in 0 .. MaxFlows
  BY DEF LoginInv, LoginTypeOK
<1>3. tab' \in [Tabs -> Tab]
  BY <1>1, <1>2
<1>4. ASSUME NEW o \in Tabs PROVE OkTab(tab[o], begun)'
  <2>1. CASE o = t
    BY <1>1, <1>2, <2>1 DEF OkTab, Owed, Cold
  <2>2. CASE o # t
    <3>1. tab'[o] = tab[o] /\ OkTab(tab[o], begun) /\ tab[o].flow \in Flows
      BY <1>1, <1>2, <2>2 DEF LoginInv, Tab
    <3>2. OkTab(tab[o], begun')
      BY <1>2, <3>1 DEF OkTab, Owed, Flows
    <3>. QED
      BY <3>1, <3>2 DEF OkTab, Owed, Cold
  <2>. QED
    BY <2>1, <2>2
<1>5. switched' \in SUBSET Flows
  BY DEF Flows
<1>6. LoginTypeOK'
  BY <1>3, <1>5 DEF LoginTypeOK
<1>. QED
  BY <1>4, <1>6 DEF LoginInv, Cold

LEMMA GoneType == Gone \in Interaction /\ NoResult \in Results
BY DEF Gone, Interaction, NoResult, Results, Somebody

LEMMA PageType ==
  ASSUME NEW i \in Interaction
  PROVE  Page(i) \in Pages /\ Page(i) \notin {"passkey", "signed"}
<1>1. i.live \in BOOLEAN /\ i.prompt \in {"login", "consent"}
  BY DEF Interaction
<1>2. CASE ~ i.live
  BY <1>1, <1>2 DEF Page, Pages
<1>3. CASE i.live
  BY <1>1, <1>3 DEF Page, Pages
<1>. QED
  BY <1>2, <1>3

LEMMA ShowsMoves ==
  ASSUME LoginInv, NEW t \in Tabs, NEW p \in Pages, Shows(t, p), NEW n \in Nat, begun <= n,
         p \in {"passkey", "signed"} => Who(t) \in Accounts
  PROVE  Moved(t, n)
<1>0. PICK w \in Somebody : w = IF p \in {"passkey", "signed"} THEN Who(t) ELSE NoAccount
  BY TabTypes DEF Somebody
<1>1. PICK c : c = [page |-> p, at |-> "idle", copy |-> Gone, next |-> "blank", kind |-> "none",
                    right |-> FALSE, who |-> w]
  OBVIOUS
<1>2. PICK m : m = With(tab[t], c)
  OBVIOUS
<1>3. tab' = [tab EXCEPT ![t] = m]
  BY <1>0, <1>1, <1>2 DEF Shows, Now
<1>4. m = [page |-> p, flow |-> tab[t].flow, kind |-> "none", who |-> w,
           right |-> FALSE, at |-> "idle", copy |-> Gone, next |-> "blank"]
  <2>1. DOMAIN c = {"page", "at", "copy", "next", "kind", "right", "who"}
    BY <1>1
  <2>2. c["page"] = p /\ c["kind"] = "none" /\ c["who"] = w /\ c["right"] = FALSE /\ c["at"] = "idle"
        /\ c["copy"] = Gone /\ c["next"] = "blank"
    BY <1>1
  <2>3. m.page = p /\ m.flow = tab[t].flow
    BY <1>2, <2>1, <2>2, TabTypes, Merged
  <2>. QED
    BY <1>2, <2>1, <2>2, TabTypes, Merged
<1>5. m \in Tab
  BY <1>4, TabTypes, GoneType DEF Tab, Kinds, TabSteps, Pages, Flow
<1>6. OkTab(m, n)
  BY <1>0, <1>4, TabTypes DEF OkTab, Owed, Flow, Flows
<1>. QED
  BY <1>3, <1>5, <1>6 DEF Moved

LEMMA OpensMoves ==
  ASSUME LoginInv, NEW t \in Tabs, NEW f \in Flows, NEW i \in Interaction, Opens(t, f, i), NEW n \in Nat, f <= n
  PROVE  Moved(t, n)
<1>1. PICK c : c = [page |-> Page(i), flow |-> f, kind |-> "none", who |-> NoAccount, right |-> FALSE,
                    at |-> "idle", copy |-> Gone, next |-> "blank"]
  OBVIOUS
<1>2. PICK m : m = With(tab[t], c)
  OBVIOUS
<1>3. tab' = [tab EXCEPT ![t] = m]
  BY <1>1, <1>2 DEF Opens, Now
<1>4. m = c
  BY <1>1, <1>2, TabTypes, Merged
<1>5. m \in Tab
  BY <1>1, <1>4, PageType, GoneType DEF Tab, Kinds, TabSteps, Pages, Somebody
<1>6. OkTab(m, n)
  BY <1>1, <1>4, PageType DEF OkTab, Owed
<1>. QED
  BY <1>3, <1>5, <1>6 DEF Moved

LEMMA ResultTypes ==
  ASSUME NEW i \in Interaction
  PROVE  /\ i.live \in BOOLEAN /\ i.prompt \in {"login", "consent"} /\ i.session \in Somebody
         /\ i.result \in Results /\ i.error \in BOOLEAN /\ i.result.account \in Somebody
         /\ i.result.by = "prompt" => i.result.account \in Accounts
BY DEF Interaction, Results

LEMMA NewType ==
  ASSUME NEW p \in {"login", "consent"}, NEW a \in Somebody
  PROVE  NewInteraction(p, a) \in Interaction
<1>1. PICK d : d = [Gone EXCEPT !.live = TRUE]
  OBVIOUS
<1>2. d = [live |-> TRUE, prompt |-> "login", session |-> NoAccount, result |-> NoResult, error |-> FALSE]
  BY <1>1 DEF Gone
<1>3. PICK e : e = [d EXCEPT !.prompt = p]
  OBVIOUS
<1>4. e = [live |-> TRUE, prompt |-> p, session |-> NoAccount, result |-> NoResult, error |-> FALSE]
  BY <1>2, <1>3
<1>5. NewInteraction(p, a) = [e EXCEPT !.session = a]
  BY Zenon, <1>1, <1>3 DEF NewInteraction
<1>6. NewInteraction(p, a) = [live |-> TRUE, prompt |-> p, session |-> a, result |-> NoResult, error |-> FALSE]
  BY <1>4, <1>5
<1>. QED
  BY <1>6, GoneType DEF Interaction

LEMMA BeginFlowKeeps ==
  ASSUME LoginInv, NEW t \in Tabs, BeginFlow(t)
  PROVE  LoginInv'
<1>1. PICK n : n = begun + 1
  OBVIOUS
<1>2. PICK p \in {"login", "consent"} : p = IF session = NoAccount THEN "login" ELSE "consent"
  OBVIOUS
<1>3. PICK i : i = NewInteraction(p, session)
  OBVIOUS
<1>4. /\ begun' = n /\ inter' = [inter EXCEPT ![n] = i] /\ cookies' = cookies \cup {n} /\ Opens(t, n, inter'[n])
      /\ begun < MaxFlows /\ UNCHANGED <<session, settled, switched, forms, faults>>
  BY <1>1, <1>2, <1>3 DEF BeginFlow
<1>5. n \in Flows /\ n \in Nat /\ n \in 0 .. MaxFlows /\ begun <= n /\ i \in Interaction
      /\ switched \subseteq 1 .. begun /\ begun \in Nat
  BY <1>1, <1>3, <1>4, NewType DEF LoginInv, LoginTypeOK, Flows
<1>6. inter' \in [Flows -> Interaction] /\ inter'[n] = i
  BY <1>4, <1>5 DEF LoginInv, LoginTypeOK
<1>7. Moved(t, n)
  BY <1>4, <1>5, <1>6, OpensMoves
<1>8. switched' \subseteq 1 .. begun' /\ n \notin switched'
  BY <1>1, <1>4, <1>5
<1>9. \A f \in switched' : Cold(inter'[f])
  BY <1>4, <1>8 DEF LoginInv, LoginTypeOK
<1>10. cookies' \in SUBSET Flows /\ session' \in Somebody /\ settled' \in SUBSET Accounts
       /\ forms' \in 0 .. MaxForms /\ faults' \in 0 .. MaxFaults
  BY <1>4, <1>5 DEF LoginInv, LoginTypeOK
<1>. QED
  BY <1>4, <1>5, <1>6, <1>7, <1>8, <1>9, <1>10, TabMoves

\* A step of one tab that leaves the files, the cookies and the session alone.
LEMMA TabOnly ==
  ASSUME LoginInv, NEW t \in Tabs, Moved(t, begun), session' \in Somebody, settled' \in SUBSET Accounts,
         forms' \in 0 .. MaxForms, UNCHANGED <<begun, inter, cookies, switched, faults>>
  PROVE  LoginInv'
<1>1. Moved(t, begun')
  BY DEF Moved
<1>2. begun' \in 0 .. MaxFlows /\ begun <= begun' /\ inter' \in [Flows -> Interaction]
      /\ cookies' \in SUBSET Flows /\ faults' \in 0 .. MaxFaults /\ switched' \subseteq 1 .. begun'
      /\ \A f \in switched' : Cold(inter'[f])
  BY DEF LoginInv, LoginTypeOK
<1>. QED
  BY <1>1, <1>2, TabMoves

\* The shape of most steps: where the request is, and the copy of the interaction it holds.
LEMMA NowMoves ==
  ASSUME LoginInv, NEW t \in Tabs, NEW c, Now(t, c), tab[t].at # "idle",
         DOMAIN c \subseteq {"at", "copy", "next"}, "at" \in DOMAIN c, c["at"] \in TabSteps,
         "copy" \in DOMAIN c => c["copy"] \in Interaction,
         "next" \in DOMAIN c => c["next"] \in Pages \cup {"open", "finish"},
         NEW i, i = IF "copy" \in DOMAIN c THEN c["copy"] ELSE Copy(t),
         NEW n, n = IF "next" \in DOMAIN c THEN c["next"] ELSE tab[t].next,
         c["at"] = "save" /\ Kind(t) = "switch" => Cold(i),
         c["at"] # "idle",
         c["at"] = "save" /\ n \in {"passkey", "signed"} => Who(t) \in Accounts,
         c["at"] = "account" /\ Kind(t) = "passkeySkip" => i.result.by = "prompt",
         Owed(c["at"], n, Kind(t)) => i.result.account = Who(t)
  PROVE  Moved(t, begun)
<1>1. PICK m : m = With(tab[t], c)
  OBVIOUS
<1>2. tab' = [tab EXCEPT ![t] = m]
  BY <1>1 DEF Now
<1>3. m = [page |-> tab[t].page, flow |-> tab[t].flow, kind |-> tab[t].kind, who |-> tab[t].who,
           right |-> tab[t].right, at |-> c["at"], copy |-> i, next |-> n]
  <2>1. tab[t] \in Tab /\ Copy(t) = tab[t].copy
    BY TabTypes DEF Copy
  <2>2. m.page = tab[t].page /\ m = [page |-> IF "page" \in DOMAIN c THEN c["page"] ELSE tab[t].page,
               flow |-> IF "flow" \in DOMAIN c THEN c["flow"] ELSE tab[t].flow,
               kind |-> IF "kind" \in DOMAIN c THEN c["kind"] ELSE tab[t].kind,
               who |-> IF "who" \in DOMAIN c THEN c["who"] ELSE tab[t].who,
               right |-> IF "right" \in DOMAIN c THEN c["right"] ELSE tab[t].right,
               at |-> IF "at" \in DOMAIN c THEN c["at"] ELSE tab[t].at,
               copy |-> IF "copy" \in DOMAIN c THEN c["copy"] ELSE tab[t].copy,
               next |-> IF "next" \in DOMAIN c THEN c["next"] ELSE tab[t].next]
    BY <1>1, <2>1, Merged
  <2>3. "page" \notin DOMAIN c /\ "flow" \notin DOMAIN c /\ "kind" \notin DOMAIN c /\ "who" \notin DOMAIN c
        /\ "right" \notin DOMAIN c
    OBVIOUS
  <2>. QED
    BY <2>1, <2>2, <2>3
<1>4. tab[t] \in Tab /\ i \in Interaction /\ n \in Pages \cup {"open", "finish"}
  BY TabTypes DEF Tab
<1>5. m \in Tab
  BY <1>3, <1>4 DEF Tab
<1>6. OkTab(m, begun)
  <2>1. OkTab(tab[t], begun) /\ Kind(t) = tab[t].kind /\ Who(t) = tab[t].who
    BY TabTypes DEF Kind, Who
  <2>2. /\ m.page = tab[t].page /\ m.flow = tab[t].flow /\ m.kind = tab[t].kind /\ m.who = tab[t].who
        /\ m.right = tab[t].right /\ m.at = c["at"] /\ m.copy = i /\ m.next = n
    BY <1>3
  <2>3. m.right /\ m.kind \in Named => m.who \in Accounts
    BY Zenon, <2>1, <2>2 DEF OkTab, Owed
  <2>4. /\ m.flow = 1 \/ m.flow <= begun
        /\ m.at # "idle" /\ begun > 0
    BY <2>1, <2>2 DEF OkTab, Owed
  <2>5. m.at = "save" /\ m.next \in {"passkey", "signed"} => m.who \in Accounts
    BY <2>1, <2>2
  <2>6. m.at = "account" /\ m.kind = "passkeySkip" => m.copy.result.by = "prompt"
    BY <2>1, <2>2
  <2>7. m.at = "save" /\ m.kind = "switch" => Cold(m.copy)
    BY <2>1, <2>2
  <2>8. Owed(m.at, m.next, m.kind) => m.copy.result.account = m.who
    BY <2>1, <2>2
  <2>. QED
    BY Zenon, <2>3, <2>4, <2>5, <2>6, <2>7, <2>8 DEF OkTab, Owed
<1>. QED
  BY <1>2, <1>5, <1>6 DEF Moved

LEMMA FindKeeps ==
  ASSUME LoginInv, NEW t \in Tabs, Find(t)
  PROVE  LoginInv'
<1>1. tab[t].at = "find" /\ UNCHANGED <<begun, inter, cookies, session, settled, switched, forms, faults>>
  BY DEF Find
<1>2. PICK i \in Interaction : i = inter[Flow(t)]
  BY TabTypes
<1>3. Moved(t, begun)
  <2>1. CASE Shows(t, "error")
    BY <2>1, ShowsMoves, TabTypes DEF Pages
  <2>2. CASE Matches(t, i) /\ Now(t, [at |-> "account", copy |-> i])
    <3>1. PICK c : c = [at |-> "account", copy |-> i]
      OBVIOUS
    <3>2. /\ Kind(t) = "schnorrComplete" => i.result.account = Who(t)
          /\ Kind(t) = "passkeySkip" => i.result.by = "prompt"
      BY <2>2 DEF Matches
    <3>. QED
      BY <1>1, <2>2, <3>1, <3>2, NowMoves DEF TabSteps, Owed
  <2>. QED
    BY <1>2, <2>1, <2>2 DEF Find
<1>. QED
  BY <1>1, <1>3, TabOnly DEF LoginInv, LoginTypeOK

Fine(f) ==
  /\ f.kind \in Kinds /\ f.who \in Somebody /\ f.right \in BOOLEAN /\ f.kind # "none"
  /\ f.right /\ f.kind \in Named => f.who \in Accounts

LEMMA FormType ==
  ASSUME NEW k, k \subseteq Kinds \ {"none"}, NEW a, a \subseteq Somebody, NEW b, b \subseteq BOOLEAN,
         k \cap Named = {} \/ a \subseteq Accounts \/ b = {FALSE}, NEW f \in FormsOf(k, a, b)
  PROVE  Fine(f)
<1>1. f.kind \in k /\ f.who \in a /\ f.right \in b
  BY DEF FormsOf
<1>2. f.kind \in Kinds /\ f.who \in Somebody /\ f.right \in BOOLEAN /\ f.kind # "none"
  BY <1>1
<1>3. CASE k \cap Named = {}
  BY <1>1, <1>2, <1>3 DEF Fine
<1>4. CASE a \subseteq Accounts
  BY <1>1, <1>2, <1>4 DEF Fine
<1>5. CASE b = {FALSE}
  BY <1>1, <1>2, <1>5 DEF Fine
<1>. QED
  BY <1>3, <1>4, <1>5

\* What a page offers: a proof that holds names an account.
LEMMA OfferedType ==
  ASSUME NEW t \in Tabs, Who(t) \in Somebody, NEW f \in Offered(t),
         tab[t].page \in {"passkey", "signed"} => Who(t) \in Accounts
  PROVE  Fine(f)
<1>0. /\ \A k \in {{"login", "json", "schnorr"}, {"passkeyComplete"}, {"abort"}, {"confirm", "switch", "abort"},
                   {"passkeySkip"}, {"schnorrComplete"}} : k \subseteq Kinds \ {"none"}
      /\ {"abort"} \cap Named = {} /\ {"confirm", "switch", "abort"} \cap Named = {}
      /\ {"passkeySkip"} \cap Named = {} /\ {NoAccount} \subseteq Somebody /\ Accounts \subseteq Somebody
      /\ {TRUE} \subseteq BOOLEAN /\ {FALSE} \subseteq BOOLEAN
  BY DEF Kinds, Named, Somebody
<1>1. CASE tab[t].page \in {"login", "loginError"}
  <2>1. Offered(t) = FormsOf({"login", "json", "schnorr"}, Accounts, {TRUE})
         \cup FormsOf({"login", "json", "schnorr"}, {NoAccount}, {FALSE})
         \cup FormsOf({"passkeyComplete"}, Accounts, BOOLEAN) \cup FormsOf({"abort"}, {NoAccount}, {TRUE})
    BY <1>1 DEF Offered
  <2>2. CASE f \in FormsOf({"login", "json", "schnorr"}, Accounts, {TRUE})
    BY <1>0, <2>2, FormType
  <2>3. CASE f \in FormsOf({"login", "json", "schnorr"}, {NoAccount}, {FALSE})
    BY <1>0, <2>3, FormType
  <2>4. CASE f \in FormsOf({"passkeyComplete"}, Accounts, BOOLEAN)
    BY <1>0, <2>4, FormType
  <2>5. CASE f \in FormsOf({"abort"}, {NoAccount}, {TRUE})
    BY <1>0, <2>5, FormType
  <2>. QED
    BY <2>1, <2>2, <2>3, <2>4, <2>5
<1>2. CASE tab[t].page = "consent"
  <2>1. f \in FormsOf({"confirm", "switch", "abort"}, {NoAccount}, {TRUE})
    BY <1>2 DEF Offered
  <2>. QED
    BY <1>0, <2>1, FormType
<1>3. CASE tab[t].page = "passkey"
  <2>1. f \in FormsOf({"passkeyComplete"}, {Who(t)}, BOOLEAN) \/ f \in FormsOf({"passkeySkip"}, {NoAccount}, {TRUE})
    BY <1>3 DEF Offered
  <2>2. {Who(t)} \subseteq Accounts /\ {Who(t)} \subseteq Somebody
    BY <1>3 DEF Somebody
  <2>3. CASE f \in FormsOf({"passkeyComplete"}, {Who(t)}, BOOLEAN)
    BY <1>0, <2>2, <2>3, FormType
  <2>4. CASE f \in FormsOf({"passkeySkip"}, {NoAccount}, {TRUE})
    BY <1>0, <2>4, FormType
  <2>. QED
    BY <2>1, <2>3, <2>4
<1>4. CASE tab[t].page = "signed"
  <2>1. f \in FormsOf({"schnorrComplete"}, {Who(t)}, BOOLEAN)
    BY <1>4 DEF Offered
  <2>2. {Who(t)} \subseteq Accounts /\ {Who(t)} \subseteq Somebody
    BY <1>4 DEF Somebody
  <2>. QED
    BY <1>0, <2>1, <2>2, FormType
<1>5. CASE tab[t].page \notin {"login", "loginError", "consent", "passkey", "signed"}
  BY <1>5 DEF Offered
<1>. QED
  BY <1>1, <1>2, <1>3, <1>4, <1>5

LEMMA SendKeeps ==
  ASSUME LoginInv, NEW t \in Tabs, Send(t)
  PROVE  LoginInv'
<1>1. /\ tab[t].at = "idle" /\ begun > 0 /\ begun \in Nat
      /\ UNCHANGED <<begun, inter, cookies, session, settled, switched, faults>>
  BY DEF Send, LoginInv, LoginTypeOK
<1>2. forms' \in 0 .. MaxForms
  <2>1. forms' = forms \/ (forms < MaxForms /\ forms' = forms + 1)
    BY Zenon DEF Send
  <2>. QED
    BY <2>1 DEF LoginInv, LoginTypeOK
<1>3. Moved(t, begun)
  <2>1. ASSUME NEW f \in 1 .. begun, Opens(t, f, inter[f]) PROVE Moved(t, begun)
    <3>1. f \in Flows /\ inter[f] \in Interaction /\ f <= begun
      BY <1>1, TabTypes DEF Flows
    <3>. QED
      BY <1>1, <2>1, <3>1, OpensMoves
  <2>2. ASSUME NEW form \in Offered(t),
               Now(t, [kind |-> form.kind, who |-> form.who, right |-> form.right,
                       at |-> IF form.kind = "abort" THEN "finish" ELSE "find",
                       copy |-> IF form.kind = "abort" THEN [Gone EXCEPT !.result.by = "denied"] ELSE Copy(t)])
        PROVE  Moved(t, begun)
    <3>1. PICK x : x = IF form.kind = "abort" THEN "finish" ELSE "find"
      OBVIOUS
    <3>2. PICK i : i = IF form.kind = "abort" THEN [Gone EXCEPT !.result.by = "denied"] ELSE Copy(t)
      OBVIOUS
    <3>3. i \in Interaction
      <4>1. [NoResult EXCEPT !.by = "denied"] \in Results
        BY DEF NoResult, Results, Somebody
      <4>2. PICK e \in Results : e = [NoResult EXCEPT !.by = "denied"]
        BY <4>1
      <4>3. Gone.result = NoResult
        BY DEF Gone
      <4>4. [Gone EXCEPT !.result.by = "denied"] = [Gone EXCEPT !.result = e]
        BY Zenon, <4>2, <4>3
      <4>5. [Gone EXCEPT !.result = e] \in Interaction
        BY DEF Gone, Interaction, Somebody
      <4>. QED
        BY <3>2, <4>4, <4>5, TabTypes
    <3>4. PICK c : c = [kind |-> form.kind, who |-> form.who, right |-> form.right, at |-> x, copy |-> i]
      OBVIOUS
    <3>5. PICK m : m = With(tab[t], c)
      OBVIOUS
    <3>6. tab' = [tab EXCEPT ![t] = m]
      BY <2>2, <3>1, <3>2, <3>4, <3>5 DEF Now
    <3>7. m = [page |-> tab[t].page, flow |-> tab[t].flow, kind |-> form.kind, who |-> form.who,
               right |-> form.right, at |-> x, copy |-> i, next |-> tab[t].next]
      <4>1. DOMAIN c = {"kind", "who", "right", "at", "copy"}
        BY <3>4
      <4>2. c["kind"] = form.kind /\ c["who"] = form.who /\ c["right"] = form.right /\ c["at"] = x /\ c["copy"] = i
        BY <3>4
      <4>3. tab[t] \in Tab
        BY TabTypes
      <4>. QED
        BY <3>5, <4>1, <4>2, <4>3, Merged
    <3>8. /\ form.kind \in Kinds /\ form.who \in Somebody /\ form.right \in BOOLEAN
          /\ form.right /\ form.kind \in Named => form.who \in Accounts
      <4>1. Who(t) \in Somebody /\ (tab[t].page \in {"passkey", "signed"} => Who(t) \in Accounts)
        <5>1. Who(t) \in Somebody /\ OkTab(tab[t], begun)
          BY TabTypes
        <5>. QED
          BY Zenon, <1>1, <5>1 DEF OkTab, Owed, Who
      <4>. QED
        BY <4>1, OfferedType DEF Fine
    <3>9. m \in Tab
      <4>1. tab[t].page \in Pages /\ tab[t].flow \in Flows /\ tab[t].next \in Pages \cup {"open", "finish"}
        BY TabTypes DEF Tab
      <4>2. x \in TabSteps
        BY <3>1 DEF TabSteps
      <4>. QED
        BY <3>3, <3>7, <3>8, <4>1, <4>2 DEF Tab
    <3>10. OkTab(m, begun)
      <4>1. tab[t].flow = 1 \/ tab[t].flow <= begun
        BY TabTypes DEF OkTab, Owed
      <4>2. x = "find" \/ (x = "finish" /\ form.kind \notin Proving)
        BY <3>1 DEF Proving
      <4>. QED
        BY <1>1, <3>7, <3>8, <4>1, <4>2 DEF OkTab, Owed, Named
    <3>. QED
      BY <3>6, <3>9, <3>10 DEF Moved
  <2>. QED
    BY <2>1, <2>2 DEF Send
<1>. QED
  BY <1>1, <1>2, <1>3, TabOnly DEF LoginInv, LoginTypeOK

\* The copies that are saved are interactions.
LEMMA CopyTypes ==
  ASSUME NEW i \in Interaction
  PROVE  /\ [i EXCEPT !.error = TRUE] \in Interaction
         /\ \A r \in Results : [i EXCEPT !.result = r] \in Interaction /\ [i EXCEPT !.result = r].result = r
         /\ TurnedBack(i) \in Interaction /\ Cold(TurnedBack(i))
<1>1. [i EXCEPT !.error = TRUE] \in Interaction
  BY DEF Interaction
<1>2. \A r \in Results : [i EXCEPT !.result = r] \in Interaction /\ [i EXCEPT !.result = r].result = r
  BY DEF Interaction
<1>3. PICK d : d = [i EXCEPT !.prompt = "login"]
  OBVIOUS
<1>4. d \in Interaction /\ d.prompt = "login"
  BY <1>3 DEF Interaction
<1>5. PICK e : e = [d EXCEPT !.session = NoAccount]
  OBVIOUS
<1>6. e \in Interaction /\ e.prompt = "login" /\ e.session = NoAccount
  BY <1>4, <1>5 DEF Interaction, Somebody
<1>7. PICK f : f = [e EXCEPT !.result = NoResult]
  OBVIOUS
<1>8. f \in Interaction /\ Cold(f)
  BY <1>6, <1>7, GoneType DEF Interaction, Cold
<1>9. PICK g : g = [f EXCEPT !.error = FALSE]
  OBVIOUS
<1>10. g \in Interaction /\ Cold(g)
  BY <1>8, <1>9 DEF Interaction, Cold
<1>11. TurnedBack(i) = g
  BY Zenon, <1>3, <1>5, <1>7, <1>9 DEF TurnedBack
<1>. QED
  BY <1>1, <1>2, <1>10, <1>11

LEMMA KeepMoves ==
  ASSUME LoginInv, NEW t \in Tabs, tab[t].at # "idle", NEW by \in {"login", "prompt", "consent"}, NEW a \in Somebody,
         by = "prompt" => a \in Accounts
  PROVE  /\ \A n \in Pages \cup {"open", "finish"} :
              Keep(t, by, a, n) /\ Kind(t) # "switch" /\ (n \in {"passkey", "signed"} => Who(t) \in Accounts)
                /\ (n = "finish" /\ Kind(t) \in Proving => a = Who(t))
                => Moved(t, begun)
         /\ Complete(t, by, a) /\ (Kind(t) \in Proving => a = Who(t)) => Moved(t, begun)
<1>0. [by |-> by, account |-> a] \in Results
  BY DEF Results
<1>1. PICK r \in Results : r = [by |-> by, account |-> a]
  BY <1>0
<1>2. PICK i \in Interaction : i = [Copy(t) EXCEPT !.result = r] /\ i.result.account = a
  <2>1. Copy(t) \in Interaction
    BY TabTypes
  <2>2. [Copy(t) EXCEPT !.result = r] \in Interaction /\ [Copy(t) EXCEPT !.result = r].result = r
    BY <2>1, CopyTypes
  <2>3. r.account = a
    BY <1>1
  <2>. QED
    BY <2>2, <2>3
<1>3. ASSUME NEW n \in Pages \cup {"open", "finish"}, Keep(t, by, a, n), Kind(t) # "switch", n \in {"passkey", "signed"} => Who(t) \in Accounts,
             n = "finish" /\ Kind(t) \in Proving => a = Who(t)
      PROVE  Moved(t, begun)
  <2>1. PICK c : c = [at |-> "save", next |-> n, copy |-> i]
    OBVIOUS
  <2>2. Now(t, c)
    BY <1>1, <1>2, <1>3, <2>1 DEF Keep
  <2>3. DOMAIN c = {"at", "next", "copy"} /\ c["at"] = "save" /\ c["next"] = n /\ c["copy"] = i
    BY <2>1
  <2>. QED
    BY <1>2, <1>3, <2>2, <2>3, NowMoves DEF TabSteps, Owed
<1>4. ASSUME Complete(t, by, a), Kind(t) \in Proving => a = Who(t)
      PROVE  Moved(t, begun)
  <2>1. PICK c : c = [at |-> "finish", copy |-> i]
    OBVIOUS
  <2>2. Now(t, c)
    BY <1>1, <1>2, <1>4, <2>1 DEF Complete
  <2>3. DOMAIN c = {"at", "copy"} /\ c["at"] = "finish" /\ c["copy"] = i
    BY <2>1
  <2>. QED
    BY <1>2, <1>4, <2>2, <2>3, NowMoves DEF TabSteps, Owed
<1>. QED
  BY <1>3, <1>4

\* Moving on with the copy as it is.
LEMMA AtMoves ==
  ASSUME LoginInv, NEW t \in Tabs, tab[t].at # "idle", NEW x \in {"finish", "hung"}, Now(t, [at |-> x]),
         x = "finish" /\ Kind(t) \in Proving => Copy(t).result.account = Who(t)
  PROVE  Moved(t, begun)
<1>1. PICK c : c = [at |-> x]
  OBVIOUS
<1>2. DOMAIN c = {"at"} /\ c["at"] = x
  BY <1>1
<1>. QED
  BY <1>1, <1>2, NowMoves DEF TabSteps, Owed

LEMMA AccountKeeps ==
  ASSUME LoginInv, NEW t \in Tabs, LoginChecked(t) \/ SchnorrChecked(t) \/ CompletionChecked(t)
  PROVE  LoginInv'
<1>1. tab[t].at = "account" /\ UNCHANGED <<begun, inter, cookies, session, switched, forms, faults>>
  BY DEF LoginChecked, SchnorrChecked, CompletionChecked
<1>2. /\ Kind(t) = "schnorrComplete" => Copy(t).result.account = Who(t)
      /\ tab[t].right /\ Kind(t) \in Named => Who(t) \in Accounts
      /\ Kind(t) = "passkeySkip" => Copy(t).result.account \in Accounts
      /\ Copy(t) \in Interaction /\ Who(t) \in Somebody /\ begun \in Nat
  <2>1. OkTab(tab[t], begun) /\ Copy(t) \in Interaction /\ Who(t) \in Somebody /\ begun \in 0 .. MaxFlows
    BY TabTypes
  <2>. QED
    <3>1. /\ Kind(t) = "schnorrComplete" => Copy(t).result.account = Who(t)
          /\ Kind(t) = "passkeySkip" => Copy(t).result.by = "prompt"
      BY <1>1, <2>1 DEF OkTab, Owed, Kind, Copy, Who
    <3>2. tab[t].at # "idle"
      BY <1>1
    <3>3. tab[t].right /\ Kind(t) \in Named => Who(t) \in Accounts
      BY Zenon, <2>1, <3>2 DEF OkTab, Owed, Kind, Who
    <3>. QED
      BY <2>1, <3>1, <3>3, ResultTypes
<1>3. settled' \in SUBSET Accounts
  <2>0. settled \in SUBSET Accounts
    BY DEF LoginInv, LoginTypeOK
  <2>1. \/ settled' = settled
        \/ settled' = settled \cup {Who(t)} /\ tab[t].right /\ Kind(t) = "passkeyComplete"
        \/ settled' = settled \cup {Copy(t).result.account} /\ Kind(t) = "passkeySkip"
    BY Zenon DEF LoginChecked, SchnorrChecked, CompletionChecked
  <2>. QED
    BY <1>2, <2>0, <2>1 DEF Named, Proving
<1>4. Moved(t, begun)
  <2>1. CASE LoginChecked(t)
    <3>1. CASE Now(t, [at |-> "save", next |-> "open", copy |-> [Copy(t) EXCEPT !.error = TRUE]])
      <4>1. PICK i \in Interaction : i = [Copy(t) EXCEPT !.error = TRUE]
        BY <1>2, CopyTypes
      <4>2. PICK c : c = [at |-> "save", next |-> "open", copy |-> i]
        OBVIOUS
      <4>3. Now(t, c) /\ DOMAIN c = {"at", "next", "copy"} /\ c["at"] = "save" /\ c["next"] = "open" /\ c["copy"] = i
        BY <3>1, <4>1, <4>2
      <4>4. Kind(t) # "switch"
        BY <2>1 DEF LoginChecked
      <4>. QED
        BY <1>1, <4>3, <4>4, NowMoves DEF TabSteps, Owed
    <3>2. CASE tab[t].right /\ (Keep(t, "prompt", Who(t), "passkey") \/ Keep(t, "login", Who(t), "finish"))
      <4>1. Kind(t) # "switch" /\ Who(t) \in Accounts
        BY <1>2, <2>1, <3>2 DEF LoginChecked, Named, Proving
      <4>. QED
        BY <1>1, <1>2, <3>2, <4>1, KeepMoves DEF Pages
    <3>. QED
      BY <2>1, <3>1, <3>2 DEF LoginChecked
  <2>2. CASE SchnorrChecked(t)
    <3>1. CASE Shows(t, "login")
      BY <1>2, <3>1, ShowsMoves DEF Pages
    <3>2. CASE tab[t].right /\ Keep(t, "login", Who(t), "signed")
      BY <1>1, <1>2, <2>2, <3>2, KeepMoves DEF Pages, SchnorrChecked, Named, Proving
    <3>. QED
      BY <2>2, <3>1, <3>2 DEF SchnorrChecked
  <2>3. CASE CompletionChecked(t)
    <3>1. CASE Shows(t, "error")
      BY <1>2, <3>1, ShowsMoves DEF Pages
    <3>2. CASE Complete(t, "login", Who(t))
      BY <1>1, <1>2, <3>2, KeepMoves
    <3>3. CASE Kind(t) \in {"passkeySkip", "schnorrComplete"} /\ Now(t, [at |-> "finish"])
      BY <1>1, <1>2, <3>3, AtMoves DEF Proving
    <3>. QED
      BY <2>3, <3>1, <3>2, <3>3 DEF CompletionChecked
  <2>. QED
    BY <2>1, <2>2, <2>3
<1>5. session' \in Somebody /\ forms' \in 0 .. MaxForms
  BY <1>1 DEF LoginInv, LoginTypeOK
<1>. QED
  BY <1>1, <1>3, <1>4, <1>5, TabOnly

LEMMA ConsentKeeps ==
  ASSUME LoginInv, NEW t \in Tabs, ConsentChecked(t)
  PROVE  LoginInv'
<1>1. tab[t].at = "account" /\ UNCHANGED <<begun, inter, cookies, settled, switched, forms, faults>>
  BY DEF ConsentChecked
<1>2. Copy(t) \in Interaction /\ Copy(t).session \in Somebody
  BY TabTypes, ResultTypes
<1>3. session' \in Somebody
  BY DEF ConsentChecked, LoginInv, LoginTypeOK, Somebody
<1>4. Moved(t, begun)
  <2>1. CASE Kind(t) = "confirm" /\ Complete(t, "consent", Copy(t).session)
    BY <1>1, <1>2, <2>1, KeepMoves DEF Proving
  <2>2. CASE Kind(t) = "switch" /\ Now(t, [at |-> "save", next |-> "open", copy |-> TurnedBack(Copy(t))])
    <3>1. PICK i \in Interaction : i = TurnedBack(Copy(t)) /\ Cold(i)
      BY <1>2, CopyTypes
    <3>2. PICK c : c = [at |-> "save", next |-> "open", copy |-> i]
      OBVIOUS
    <3>3. Now(t, c) /\ DOMAIN c = {"at", "next", "copy"} /\ c["at"] = "save" /\ c["next"] = "open" /\ c["copy"] = i
      BY <2>2, <3>1, <3>2
    <3>. QED
      BY <1>1, <3>1, <3>3, NowMoves DEF TabSteps, Owed
  <2>. QED
    BY <2>1, <2>2 DEF ConsentChecked
<1>5. settled' \in SUBSET Accounts /\ forms' \in 0 .. MaxForms
  BY <1>1 DEF LoginInv, LoginTypeOK
<1>. QED
  BY <1>1, <1>3, <1>4, <1>5, TabOnly

\* A step of one tab that writes one interaction.
LEMMA OneFile ==
  ASSUME LoginInv, NEW t \in Tabs, tab[t].at # "idle", Moved(t, begun), NEW i \in Interaction,
         inter' = [inter EXCEPT ![Flow(t)] = i],
         \/ switched' = switched \ {Flow(t)}
         \/ switched' = switched \cup {Flow(t)} /\ Cold(i),
         session' \in Somebody, UNCHANGED <<begun, cookies, settled, forms, faults>>
  PROVE  LoginInv'
<1>1. begun \in 0 .. MaxFlows /\ Flow(t) \in Flows /\ Flow(t) \in 1 .. begun /\ inter \in [Flows -> Interaction]
  <2>1. begun \in 0 .. MaxFlows /\ Flow(t) \in Flows /\ inter \in [Flows -> Interaction] /\ OkTab(tab[t], begun)
    BY TabTypes
  <2>. QED
    BY <2>1 DEF OkTab, Flow, Flows
<1>2. inter' \in [Flows -> Interaction] /\ inter'[Flow(t)] = i
      /\ \A f \in Flows \ {Flow(t)} : inter'[f] = inter[f]
  BY <1>1
<1>3. switched \subseteq 1 .. begun /\ (\A f \in switched : Cold(inter[f]))
      /\ begun' = begun /\ 1 .. begun \subseteq Flows
  BY <1>1 DEF LoginInv, Flows
<1>4. switched' \subseteq 1 .. begun'
  BY <1>1, <1>3
<1>5. \A f \in switched' : Cold(inter'[f])
  BY <1>2, <1>3, <1>4
<1>6. cookies' \in SUBSET Flows /\ settled' \in SUBSET Accounts /\ forms' \in 0 .. MaxForms
      /\ faults' \in 0 .. MaxFaults
  BY DEF LoginInv, LoginTypeOK
<1>7. Moved(t, begun') /\ begun' \in 0 .. MaxFlows /\ begun <= begun'
  <2>1. begun' = begun /\ begun \in Nat
    BY <1>1, <1>3
  <2>. QED
    BY <1>1, <2>1
<1>. QED
  BY <1>2, <1>4, <1>5, <1>6, <1>7, TabMoves

LEMMA SaveKeeps ==
  ASSUME LoginInv, NEW t \in Tabs, SaveInteraction(t)
  PROVE  LoginInv'
<1>1. tab[t].at = "save" /\ UNCHANGED <<begun, cookies, session, settled, forms, faults>>
      /\ inter' = [inter EXCEPT ![Flow(t)] = Copy(t)]
  BY DEF SaveInteraction
<1>2. /\ begun \in Nat /\ Flow(t) <= begun /\ Flow(t) \in Flows /\ Copy(t) \in Interaction
      /\ Kind(t) = "switch" => Cold(Copy(t))
      /\ tab[t].next \in {"passkey", "signed"} => Who(t) \in Accounts
      /\ tab[t].next = "finish" /\ Kind(t) \in Proving => Copy(t).result.account = Who(t)
      /\ tab[t].next \in Pages \cup {"open", "finish"} /\ session \in Somebody
  <2>1. OkTab(tab[t], begun) /\ begun \in 0 .. MaxFlows /\ Flow(t) \in Flows /\ Copy(t) \in Interaction
    BY TabTypes
  <2>2. tab[t].next \in Pages \cup {"open", "finish"} /\ session \in Somebody
    BY TabTypes DEF Tab, LoginInv, LoginTypeOK
  <2>. QED
    BY <1>1, <2>1, <2>2 DEF OkTab, Owed, Flow, Flows, Kind, Who, Copy
<1>3. Moved(t, begun)
  <2>1. CASE tab[t].next = "open"
    <3>1. Opens(t, Flow(t), Copy(t))
      BY <2>1 DEF SaveInteraction
    <3>. QED
      BY <1>2, <3>1, OpensMoves
  <2>2. CASE tab[t].next = "finish"
    <3>1. Now(t, [at |-> "finish"])
      BY <2>2 DEF SaveInteraction
    <3>. QED
      BY <1>1, <1>2, <2>2, <3>1, AtMoves
  <2>3. CASE tab[t].next \notin {"open", "finish"}
    <3>1. Shows(t, tab[t].next)
      BY <2>3 DEF SaveInteraction
    <3>. QED
      BY <1>2, <2>3, <3>1, ShowsMoves
  <2>. QED
    BY <2>1, <2>2, <2>3
<1>4. \/ switched' = switched \ {Flow(t)}
      \/ switched' = switched \cup {Flow(t)} /\ Cold(Copy(t))
  BY <1>2 DEF SaveInteraction
<1>. QED
  BY <1>1, <1>2, <1>3, <1>4, OneFile

LEMMA FinishKeeps ==
  ASSUME LoginInv, NEW t \in Tabs, FinishInteraction(t)
  PROVE  LoginInv'
<1>1. tab[t].at = "finish" /\ UNCHANGED <<begun, cookies, session, settled, forms, faults>>
  BY DEF FinishInteraction
<1>2. begun \in Nat /\ Copy(t) \in Interaction /\ session \in Somebody /\ settled \in SUBSET Accounts
      /\ forms \in 0 .. MaxForms /\ Flow(t) \in Flows /\ inter \in [Flows -> Interaction]
  BY TabTypes DEF LoginInv, LoginTypeOK
<1>3. CASE AnswerFailure(t) /\ UNCHANGED <<inter, switched>>
  <2>1. CASE Shows(t, "error")
    BY <1>1, <1>2, <1>3, <2>1, ShowsMoves, TabOnly DEF Pages
  <2>2. CASE Now(t, [at |-> "hung"])
    BY <1>1, <1>2, <1>3, <2>2, AtMoves, TabOnly
  <2>. QED
    BY <1>3, <2>1, <2>2 DEF AnswerFailure
<1>4. CASE /\ inter' = [inter EXCEPT ![Flow(t)].result = Copy(t).result]
           /\ switched' = switched \ {Flow(t)}
           /\ Now(t, [at |-> "resume", copy |-> Gone])
  <2>1. PICK c : c = [at |-> "resume", copy |-> Gone]
    OBVIOUS
  <2>2. Now(t, c) /\ DOMAIN c = {"at", "copy"} /\ c["at"] = "resume" /\ c["copy"] = Gone
    BY <1>4, <2>1
  <2>3. Moved(t, begun)
    BY <1>1, <2>2, NowMoves, GoneType DEF TabSteps, Owed
  <2>4. [inter[Flow(t)] EXCEPT !.result = Copy(t).result] \in Interaction
    BY <1>2, CopyTypes, ResultTypes
  <2>5. PICK i \in Interaction : i = [inter[Flow(t)] EXCEPT !.result = Copy(t).result]
    BY <2>4
  <2>6. inter' = [inter EXCEPT ![Flow(t)] = i]
    BY Zenon, <1>4, <2>5
  <2>. QED
    BY <1>1, <1>2, <1>4, <2>3, <2>6, OneFile
<1>. QED
  BY <1>3, <1>4 DEF FinishInteraction

LEMMA ResumeKeeps ==
  ASSUME LoginInv, NEW t \in Tabs, Resume(t)
  PROVE  LoginInv'
<1>1. tab[t].at = "resume" /\ UNCHANGED <<settled, forms, faults>> /\ switched' = switched \ {Flow(t)}
  BY DEF Resume
<1>2. /\ begun \in 0 .. MaxFlows /\ begun \in Nat /\ session \in Somebody /\ Flow(t) \in Flows
      /\ inter \in [Flows -> Interaction] /\ cookies \in SUBSET Flows /\ settled \in SUBSET Accounts
      /\ forms \in 0 .. MaxForms /\ faults \in 0 .. MaxFaults
      /\ switched \subseteq 1 .. begun /\ \A f \in switched : Cold(inter[f])
  BY TabTypes DEF LoginInv, LoginTypeOK
<1>3. Flow(t) <= begun
  <2>1. OkTab(tab[t], begun)
    BY TabTypes
  <2>. QED
    BY <1>1, <1>2, <2>1 DEF OkTab, Flow, Flows
<1>4. PICK i \in Interaction : i = inter[Flow(t)]
  BY <1>2
<1>5. i.result.account \in Somebody
  BY ResultTypes
<1>6. ASSUME Shows(t, "error") \/ Shows(t, "done") \/ Opens(t, Flow(t), i),
             UNCHANGED <<begun, cookies>>, session' \in Somebody,
             inter' = inter \/ inter' = [inter EXCEPT ![Flow(t)] = Gone]
      PROVE  LoginInv'
  <2>1. Moved(t, begun)
    BY <1>2, <1>3, <1>6, ShowsMoves, OpensMoves DEF Pages
  <2>2. \E j \in Interaction : inter' = [inter EXCEPT ![Flow(t)] = j]
    BY <1>2, <1>4, <1>6, GoneType
  <2>. QED
    BY <1>1, <1>6, <2>1, <2>2, OneFile
<1>7. CASE /\ begun < MaxFlows /\ begun' = begun + 1
           /\ inter' = [inter EXCEPT ![Flow(t)] = Gone,
                                     ![begun + 1] = NewInteraction("consent", i.result.account)]
           /\ cookies' = cookies \cup {begun + 1}
           /\ session' = i.result.account
           /\ Opens(t, begun + 1, inter'[begun + 1])
  <2>1. PICK n : n = begun + 1
    OBVIOUS
  <2>2. n \in Flows /\ n \in Nat /\ begun <= n /\ n \in 0 .. MaxFlows /\ n \notin 1 .. begun
    BY <1>2, <1>7, <2>1 DEF Flows
  <2>3. PICK k \in Interaction : k = NewInteraction("consent", i.result.account)
    BY <1>5, NewType
  <2>4. PICK d : d = [inter EXCEPT ![Flow(t)] = Gone]
    OBVIOUS
  <2>5. inter' = [d EXCEPT ![n] = k]
    BY Zenon, <1>7, <2>1, <2>3, <2>4
  <2>6. d \in [Flows -> Interaction] /\ \A f \in Flows \ {Flow(t)} : d[f] = inter[f]
    BY <1>2, <2>4, GoneType
  <2>7. inter' \in [Flows -> Interaction] /\ inter'[n] = k /\ \A f \in Flows \ {n} : inter'[f] = d[f]
    BY <2>2, <2>5, <2>6
  <2>8. Opens(t, n, k)
    BY <1>7, <2>1, <2>7
  <2>9. Moved(t, begun')
    BY <1>7, <2>1, <2>2, <2>8, OpensMoves
  <2>10. switched' \subseteq 1 .. begun' /\ switched' \subseteq Flows \ {Flow(t), n}
    <3>1. 1 .. begun \subseteq 1 .. begun' /\ 1 .. begun \subseteq Flows \ {n}
      BY <1>2, <1>7, <2>2 DEF Flows
    <3>2. switched' \subseteq switched \ {Flow(t)}
      BY <1>1
    <3>. QED
      BY <1>2, <3>1, <3>2
  <2>11. \A f \in switched' : Cold(inter'[f])
    BY <1>1, <1>2, <2>6, <2>7, <2>10
  <2>12. begun' \in 0 .. MaxFlows /\ begun <= begun' /\ cookies' \in SUBSET Flows /\ session' \in Somebody
         /\ settled' \in SUBSET Accounts /\ forms' \in 0 .. MaxForms /\ faults' \in 0 .. MaxFaults
    BY <1>1, <1>2, <1>5, <1>7, <2>1, <2>2
  <2>. QED
    BY <2>7, <2>9, <2>10, <2>11, <2>12, TabMoves
<1>8. \/ /\ Shows(t, "error") \/ Opens(t, Flow(t), i)
         /\ UNCHANGED <<begun, inter, cookies, session>>
      \/ /\ Shows(t, "done") /\ inter' = [inter EXCEPT ![Flow(t)] = Gone]
         /\ session' \in {i.result.account, session}
         /\ UNCHANGED <<begun, cookies>>
      \/ /\ begun < MaxFlows /\ begun' = begun + 1
         /\ inter' = [inter EXCEPT ![Flow(t)] = Gone,
                                   ![begun + 1] = NewInteraction("consent", i.result.account)]
         /\ cookies' = cookies \cup {begun + 1}
         /\ session' = i.result.account
         /\ Opens(t, begun + 1, inter'[begun + 1])
  BY Zenon, <1>4 DEF Resume
<1>9. ASSUME Shows(t, "error") \/ Opens(t, Flow(t), i), UNCHANGED <<begun, inter, cookies, session>>
      PROVE  LoginInv'
  BY <1>2, <1>6, <1>9
<1>10. ASSUME Shows(t, "done"), inter' = [inter EXCEPT ![Flow(t)] = Gone],
              session' \in {i.result.account, session}, UNCHANGED <<begun, cookies>>
       PROVE  LoginInv'
  BY <1>2, <1>5, <1>6, <1>10
<1>. QED
  BY Zenon, <1>7, <1>8, <1>9, <1>10

LEMMA FaultKeeps ==
  ASSUME LoginInv, NEW f \in Flows, ExpireFlow(f) \/ LoseCookie(f)
  PROVE  LoginInv'
<1>1. /\ inter' = inter \/ (inter' = [inter EXCEPT ![f] = Gone] /\ f \notin switched')
      /\ switched' \subseteq switched /\ cookies' \subseteq cookies
      /\ faults < MaxFaults /\ faults' = faults + 1
      /\ UNCHANGED <<begun, session, settled, tab, forms>>
  BY DEF ExpireFlow, LoseCookie
<1>2. LoginTypeOK'
  <2>1. inter' \in [Flows -> Interaction]
    BY <1>1, GoneType DEF LoginInv, LoginTypeOK
  <2>2. faults' \in 0 .. MaxFaults
    BY <1>1 DEF LoginInv, LoginTypeOK
  <2>. QED
    BY <1>1, <2>1, <2>2 DEF LoginInv, LoginTypeOK
<1>3. \A g \in switched' : Cold(inter'[g])
  <2>1. inter \in [Flows -> Interaction] /\ switched \subseteq Flows /\ \A g \in switched : Cold(inter[g])
    BY DEF LoginInv, LoginTypeOK
  <2>. QED
    BY <1>1, <2>1
<1>4. \A o \in Tabs : OkTab(tab[o], begun)'
  BY <1>1 DEF LoginInv, OkTab, Cold
<1>. QED
  BY <1>1, <1>2, <1>3, <1>4 DEF LoginInv, Cold

LEMMA LoginStart == LoginInit => LoginInv
<1>. SUFFICES ASSUME LoginInit PROVE LoginInv
  OBVIOUS
<1>1. PICK r : r = [page |-> "blank", flow |-> 1, kind |-> "none", who |-> NoAccount,
                    right |-> FALSE, at |-> "idle", copy |-> Gone, next |-> "blank"]
  OBVIOUS
<1>2. r \in Tab
  BY <1>1, GoneType DEF Tab, Pages, Kinds, Somebody, TabSteps, Flows
<1>3. tab = [t \in Tabs |-> r] /\ inter = [f \in Flows |-> Gone]
  BY <1>1 DEF LoginInit
<1>4. LoginTypeOK
  <2>1. tab \in [Tabs -> Tab] /\ inter \in [Flows -> Interaction]
    BY <1>2, <1>3, GoneType
  <2>2. /\ begun = 0 /\ forms = 0 /\ faults = 0 /\ cookies = {} /\ session \in Somebody /\ switched = {}
        /\ settled \in SUBSET Accounts
    BY DEF LoginInit
  <2>. QED
    BY <2>1, <2>2 DEF LoginTypeOK
<1>5. OkTab(r, 0)
  BY <1>1 DEF OkTab, Owed
<1>6. begun = 0 /\ switched = {}
  BY DEF LoginInit
<1>. QED
  BY <1>3, <1>4, <1>5, <1>6 DEF LoginInv

LEMMA LoginStep == LoginInv /\ [LoginNext]_loginVars => LoginInv'
<1>. SUFFICES ASSUME LoginInv, [LoginNext]_loginVars PROVE LoginInv'
  OBVIOUS
<1>1. ASSUME NEW t \in Tabs, BeginFlow(t) \/ Send(t) PROVE LoginInv'
  BY <1>1, BeginFlowKeeps, SendKeeps
<1>2. ASSUME NEW t \in Tabs, TabStep(t) PROVE LoginInv'
  BY <1>2, FindKeeps, AccountKeeps, ConsentKeeps, SaveKeeps, FinishKeeps, ResumeKeeps DEF TabStep
<1>3. ASSUME NEW f \in Flows, ExpireFlow(f) \/ LoseCookie(f) PROVE LoginInv'
  BY <1>3, FaultKeeps
<1>4. CASE UNCHANGED loginVars
  BY <1>4 DEF loginVars, LoginInv, LoginTypeOK, OkTab, Cold
<1>. QED
  BY <1>1, <1>2, <1>3, <1>4 DEF LoginNext

LEMMA LoginAlways == LoginSpec => []LoginInv
BY LoginStart, LoginStep, PTL DEF LoginSpec

\* Signing in as somebody else starts cold, in any number of tabs and interactions
\* (handleSwitchAccount and whoever writes the interaction after it, src/idp/interactions.js).
THEOREM LoginSafeTheorem == LoginSpec => []LoginSafe
<1>1. LoginInv => LoginSafe
  BY DEF LoginInv, LoginSafe, SwitchedCold, Cold
<1>. QED
  BY <1>1, LoginAlways, PTL

\* What a request does changes the tab that has sent it, and no other.
LEMMA OneTab ==
  ASSUME NEW t \in Tabs, BeginFlow(t) \/ Send(t) \/ TabStep(t)
  PROVE  \E m : tab' = [tab EXCEPT ![t] = m]
<1>0. \A c : Now(t, c) => \E m : tab' = [tab EXCEPT ![t] = m]
  BY Zenon DEF Now
<1>1. \A p : Shows(t, p) => \E m : tab' = [tab EXCEPT ![t] = m]
  BY Zenon, <1>0 DEF Shows
<1>2. \A f, i : Opens(t, f, i) => \E m : tab' = [tab EXCEPT ![t] = m]
  BY Zenon, <1>0 DEF Opens
<1>3. BeginFlow(t) \/ Send(t) \/ Find(t) => \E m : tab' = [tab EXCEPT ![t] = m]
  BY Zenon, <1>0, <1>1, <1>2 DEF BeginFlow, Send, Find
<1>4. LoginChecked(t) \/ SchnorrChecked(t) => \E m : tab' = [tab EXCEPT ![t] = m]
  BY Zenon, <1>0, <1>1 DEF LoginChecked, SchnorrChecked, Keep
<1>5. CompletionChecked(t) \/ ConsentChecked(t) => \E m : tab' = [tab EXCEPT ![t] = m]
  BY Zenon, <1>0, <1>1 DEF CompletionChecked, ConsentChecked, Complete
<1>6. SaveInteraction(t) => \E m : tab' = [tab EXCEPT ![t] = m]
  <2>1. SaveInteraction(t) => Opens(t, Flow(t), Copy(t)) \/ Now(t, [at |-> "finish"]) \/ Shows(t, tab[t].next)
    BY DEF SaveInteraction
  <2>. QED
    BY Zenon, <1>0, <1>1, <1>2, <2>1
<1>7. FinishInteraction(t) => \E m : tab' = [tab EXCEPT ![t] = m]
  BY Zenon, <1>0, <1>1 DEF FinishInteraction, AnswerFailure
<1>8. Resume(t) => \E m : tab' = [tab EXCEPT ![t] = m]
  BY Zenon, <1>1, <1>2 DEF Resume
<1>. QED
  BY Zenon, <1>3, <1>4, <1>5, <1>6, <1>7, <1>8 DEF TabStep

\* A tab that moves on to the authorization has finished its own interaction.
LEMMA OnlyFinishing ==
  ASSUME LoginInv, LoginNext, NEW t \in Tabs, tab[t].at = "finish", tab'[t].at = "resume"
  PROVE  FinishInteraction(t)
<1>0. tab \in [Tabs -> Tab]
  BY DEF LoginInv, LoginTypeOK
<1>1. PICK o \in Tabs : BeginFlow(o) \/ Send(o) \/ TabStep(o)
  <2>1. ASSUME NEW f \in Flows, ExpireFlow(f) \/ LoseCookie(f) PROVE tab' = tab
    BY <2>1 DEF ExpireFlow, LoseCookie
  <2>. QED
    BY <2>1 DEF LoginNext
<1>2. CASE o # t
  <2>1. tab'[t] = tab[t]
    BY <1>0, <1>1, <1>2, OneTab
  <2>. QED
    BY <2>1
<1>3. CASE o = t
  <2>1. BeginFlow(t) \/ Send(t) => tab[t].at = "idle"
    BY Zenon DEF BeginFlow, Send
  <2>2. Find(t) \/ LoginChecked(t) \/ SchnorrChecked(t) \/ CompletionChecked(t) \/ ConsentChecked(t)
          => tab[t].at \in {"find", "account"}
    BY DEF Find, LoginChecked, SchnorrChecked, CompletionChecked, ConsentChecked
  <2>3. SaveInteraction(t) \/ Resume(t) => tab[t].at \in {"save", "resume"}
    BY DEF SaveInteraction, Resume
  <2>. QED
    BY <1>1, <1>3, <2>1, <2>2, <2>3 DEF TabStep
<1>. QED
  BY <1>2, <1>3

LEMMA OwnAccountStep ==
  LoginInv /\ [LoginNext]_loginVars
    => [\A t \in Tabs :
          tab[t].at = "finish" /\ tab'[t].at = "resume"
            /\ Kind(t) \in {"login", "json", "passkeyComplete", "schnorrComplete"}
          => inter'[Flow(t)].result.account = Who(t)]_loginVars
<1>. SUFFICES ASSUME LoginInv, LoginNext, NEW t \in Tabs, tab[t].at = "finish", tab'[t].at = "resume",
                     Kind(t) \in Proving
              PROVE  inter'[Flow(t)].result.account = Who(t)
  BY DEF Proving
<1>1. FinishInteraction(t)
  BY OnlyFinishing
<1>2. tab[t] \in Tab /\ Copy(t) \in Interaction /\ Flow(t) \in Flows /\ inter \in [Flows -> Interaction]
      /\ tab \in [Tabs -> Tab]
  BY TabTypes DEF LoginInv, LoginTypeOK
<1>3. Copy(t).result.account = Who(t)
  <2>1. OkTab(tab[t], begun)
    BY TabTypes
  <2>. QED
    BY <2>1 DEF OkTab, Owed, Kind, Who, Copy
<1>4. ~ AnswerFailure(t)
  <2>1. ASSUME Now(t, [at |-> "hung"]) PROVE FALSE
    <3>1. PICK c : c = [at |-> "hung"]
      OBVIOUS
    <3>2. tab'[t] = With(tab[t], c) /\ DOMAIN c = {"at"} /\ c["at"] = "hung"
      BY <1>2, <2>1, <3>1 DEF Now
    <3>3. tab'[t].at = "hung"
      BY <1>2, <3>2, Merged
    <3>. QED
      BY <3>3
  <2>2. ASSUME Shows(t, "error") PROVE FALSE
    <3>1. PICK w : w = IF "error" \in {"passkey", "signed"} THEN Who(t) ELSE NoAccount
      OBVIOUS
    <3>2. PICK c : c = [page |-> "error", at |-> "idle", copy |-> Gone, next |-> "blank", kind |-> "none",
                        right |-> FALSE, who |-> w]
      OBVIOUS
    <3>3. tab'[t] = With(tab[t], c)
      BY <1>2, <2>2, <3>1, <3>2 DEF Now, Shows
    <3>4. "at" \in DOMAIN c /\ c["at"] = "idle"
      BY <3>2
    <3>5. tab'[t].at = "idle"
      BY <1>2, <3>3, <3>4, Merged
    <3>. QED
      BY <3>5
  <2>. QED
    BY <2>1, <2>2 DEF AnswerFailure
<1>5. inter' = [inter EXCEPT ![Flow(t)].result = Copy(t).result]
  BY Zenon, <1>1, <1>4 DEF FinishInteraction
<1>6. inter'[Flow(t)].result = Copy(t).result
  <2>1. inter'[Flow(t)] = [inter[Flow(t)] EXCEPT !.result = Copy(t).result]
    BY <1>2, <1>5
  <2>. QED
    BY <1>2, <2>1 DEF Interaction
<1>. QED
  BY <1>3, <1>6

\* Whoever has proved an account is signed in as that one (handleLogin, handlePasskeyComplete
\* and handleSchnorrComplete write the account into the copy they hand to interactionFinished).
THEOREM OwnAccountTheorem == LoginSpec => OwnAccount
BY LoginAlways, OwnAccountStep, PTL DEF LoginSpec, OwnAccount
-----------------------------------------------------------------------------
(* Accounts. An operation is the sequence of its steps, so the first thing *)
(* is what is known of the steps that are left when one is next (Shape).   *)

FormOps == {"register", "login", "change", "delete"}
KeyOps == {"addPasskey", "removePasskey", "passkeyLogin"}
Uses == {"find", "absent", "enter", "leave"}

StepsOf(op) ==
  CASE op = "register" -> {<<"makePod", "pod">>, <<"put", "file">>} \cup {"load", "absent", "enter"} \X FormKeys
    [] op = "login" -> {<<"verify", "password">>, <<"write", "login">>} \cup {"load", "find"} \X FormKeys
    [] op = "change" -> {<<"verify", "password">>, <<"again", "fail">>, <<"write", "change">>}
                          \cup {"load", "find"} \X FormKeys
    [] op = "delete" -> {<<"verify", "password">>, <<"again", "purge">>, <<"remove", "file">>, <<"purge", "pod">>}
                          \cup {"load", "find", "leave"} \X FormKeys
    [] op = "addPasskey" ->
         {<<"again", "fail">>, <<"write", "addPasskey">>, <<"load", "passkey">>, <<"enter", "passkey">>}
    [] op = "removePasskey" ->
         {<<"again", "fail">>, <<"write", "removePasskey">>, <<"load", "passkey">>, <<"leave", "passkey">>}
    [] op = "passkeyLogin" ->
         {<<"again", "fail">>, <<"write", "login">>, <<"load", "passkey">>, <<"find", "passkey">>}
    [] OTHER -> {}

\* The order in which steps come, whatever the operation.
Rank == [makePod |-> 1, absent |-> 2, put |-> 3, find |-> 4, verify |-> 5, again |-> 6, write |-> 7,
         enter |-> 8, leave |-> 8, remove |-> 9, purge |-> 10]

ToDo(todo) == {todo[n] : n \in DOMAIN todo}

\* What is loaded is for the step that comes next, which looks at nothing else.
Paired(todo) ==
  \A n \in DOMAIN todo :
    /\ todo[n][1] = "load" => /\ n + 1 \in DOMAIN todo
                              /\ todo[n + 1][1] \in Uses /\ todo[n + 1][2] = todo[n][2]
    /\ n > 1 /\ todo[n][1] \in Uses => todo[n - 1] = <<"load", todo[n][2]>>

Sorted(todo) ==
  \A m, n \in DOMAIN todo :
    m < n /\ todo[m][1] # "load" /\ todo[n][1] # "load" =>
      todo[m] # todo[n] /\ Rank[todo[m][1]] <= Rank[todo[n][1]]

\* What is begun is to be finished.
Whole(op, todo) ==
  /\ \A s \in ToDo(todo) :
       /\ s[1] \in {"makePod", "absent"} => <<"put", "file">> \in ToDo(todo)
       /\ op = "delete" /\ s[1] \in {"find", "verify"} => <<"again", "purge">> \in ToDo(todo)
       /\ op = "delete" /\ s[1] = "leave" => <<"remove", "file">> \in ToDo(todo)
  /\ \A x \in FormKeys : /\ <<"put", "file">> \in ToDo(todo) => <<"enter", x>> \in ToDo(todo)
                         /\ <<"again", "purge">> \in ToDo(todo) => <<"leave", x>> \in ToDo(todo)

Shape(op, todo) ==
  todo \in Seq(StepsOf(op)) /\ Paired(todo) /\ Sorted(todo) /\ Whole(op, todo)
-----------------------------------------------------------------------------
(* Whose account it is: an id stands for one form from the moment at which *)
(* its file is written, and nobody has an id before.                       *)

Putting(t) == <<"put", "file">> \in ToDo(task[t].todo)
Born(i) == i = FirstId \/ (i \in Tasks /\ task[i].op \in {"register", "died"} /\ ~ Putting(i))
BornIds == {i \in Ids : Born(i)}

Lists(x, g) == IF x = "passkey" THEN Passkeys \X BornIds ELSE {<<g[i][x], i>> : i \in BornIds}
Pairs == ({f[x] : f \in AccountForms, x \in FormKeys} \cup Passkeys) \X Ids
Todos == Seq(UNION {StepsOf(op) : op \in FormOps \cup KeyOps})

BlankTasks == [op : {"idle", "done", "died"}, todo : {<<>>}, account : {NoFile}, copy : {{}}]
FormTasks ==
  [op : FormOps, todo : Todos,
   account : AccountFiles \cup {NoFile}, copy : SUBSET Pairs,
   form : AccountForms, password : Passwords, new : Passwords]
KeyTasks ==
  [op : KeyOps, todo : Todos,
   account : AccountFiles, copy : SUBSET Pairs, form : AccountForms, passkey : Passkeys]

\* Of an account in hand, and of what a task is about to do with it.
InHand(t, g) ==
  /\ task[t].account # NoFile => Born(task[t].account.id) /\ task[t].account.form = g[task[t].account.id]
  /\ task[t].todo # <<>> /\ task[t].account = NoFile =>
       \E s \in ToDo(task[t].todo) : s[1] \in {"find", "put"}
  /\ task[t].todo # <<>> /\ Step(t)[1] \in Uses => task[t].copy \subseteq Lists(Step(t)[2], g)
  /\ task[t].op = "register" => task[t].form = g[t]
  /\ task[t].op = "register" /\ ~ Putting(t) => task[t].account.id = t

TasksInv(g) ==
  \A t \in Tasks :
    /\ task[t] \in BlankTasks \cup FormTasks \cup KeyTasks
    /\ Shape(task[t].op, task[t].todo)
    /\ InHand(t, g)

FilesNamed(g) ==
  \A i \in Ids : files[i] # NoFile => files[i].id = i /\ files[i].form = g[i] /\ Born(i)

IndexNamed(g) == \A x \in Indexes : index[x] \subseteq Lists(x, g)

NamesTypes ==
  /\ task \in [Tasks -> BlankTasks \cup FormTasks \cup KeyTasks]
  /\ files \in [Ids -> AccountFiles \cup {NoFile}]
  /\ index \in [Indexes -> SUBSET Pairs]
  /\ podOf \in [Pods -> Ids \cup {NoId}]
  /\ mishaps \in 0 .. MaxMishaps /\ raced \in BOOLEAN

NamedBy(g) == TasksInv(g) /\ FilesNamed(g) /\ IndexNamed(g)

MarksTyped == torn \subseteq Indexes \cup Ids /\ failed \subseteq Ids

NamesInv == NamesTypes /\ \E g \in [Ids -> AccountForms] : NamedBy(g)
-----------------------------------------------------------------------------
(* Up to the first race. *)

There(i) == files[i] # NoFile

NamesLead == \A x \in FormKeys : \A e \in index[x] : There(e[2])

Distinct ==
  \A i, j \in Ids : There(i) /\ There(j) /\ i # j => \A x \in FormKeys : files[i].form[x] # files[j].form[x]

\* A pod is its account's, and before that its registration's.
PodsHeld ==
  /\ \A i \in Ids : There(i) /\ i \notin failed => podOf[files[i].form.pod] = i
  /\ \A t \in Tasks : task[t].op = "register" /\ Putting(t) /\ <<"makePod", "pod">> \notin ToDo(task[t].todo)
                        => podOf[task[t].form.pod] = t

\* How far a deletion has come.
Left(u, x) == task[u].op = "delete" /\ Underway(u) /\ <<"leave", x>> \notin ToDo(task[u].todo)
DeletesInOrder ==
  \A u \in Tasks :
    /\ \A x \in FormKeys : Left(u, x) => \A e \in index[x] : e[2] # task[u].account.id
    /\ task[u].op = "delete" /\ Underway(u) /\ <<"remove", "file">> \notin ToDo(task[u].todo)
         => ~ There(task[u].account.id)

\* Whoever is not in an index is about to be, or is being deleted, or one of the two threw.
Entering(i, x) == i \in Tasks /\ task[i].op = "register" /\ <<"enter", x>> \in ToDo(task[i].todo)
Missing(i, x) ==
  Entering(i, x) \/ i \in failed \/ \E u \in Tasks : Left(u, x) /\ task[u].account.id = i
AllListed ==
  \A i \in Ids : There(i) => \A x \in FormKeys : <<files[i].form[x], i>> \in index[x] \/ Missing(i, x)

UpToRace == NamesLead /\ Distinct /\ PodsHeld /\ DeletesInOrder /\ (mishaps = 0 => AllListed)

AccountsInv == NamesInv /\ MarksTyped /\ (raced \/ UpToRace)

LEMMA TailParts ==
  ASSUME NEW S, NEW s \in Seq(S), s # <<>>
  PROVE  /\ Tail(s) \in Seq(S) /\ Len(s) \in Nat \ {0} /\ Len(Tail(s)) = Len(s) - 1
         /\ DOMAIN s = 1 .. Len(s) /\ DOMAIN Tail(s) = 1 .. Len(s) - 1
         /\ \A n \in 1 .. Len(s) - 1 : Tail(s)[n] = s[n + 1]
         /\ Head(s) = s[1] /\ s[1] \in S
OBVIOUS

LEMMA TailToDo ==
  ASSUME NEW S, NEW s \in Seq(S), s # <<>>
  PROVE  ToDo(s) = {s[1]} \cup ToDo(Tail(s)) /\ s[1] \in ToDo(s) /\ ToDo(s) \subseteq S
<1>1. \A n \in 1 .. Len(s) : n = 1 \/ (n - 1 \in 1 .. Len(s) - 1 /\ (n - 1) + 1 = n)
  BY TailParts
<1>2. \A n \in 1 .. Len(s) - 1 : n + 1 \in 1 .. Len(s)
  BY TailParts
<1>3. 1 \in 1 .. Len(s)
  BY TailParts
<1>4. ToDo(s) \subseteq {s[1]} \cup ToDo(Tail(s))
  <2>1. SUFFICES ASSUME NEW n \in 1 .. Len(s) PROVE s[n] \in {s[1]} \cup ToDo(Tail(s))
    BY TailParts DEF ToDo
  <2>2. CASE n = 1
    BY <2>2
  <2>3. CASE n - 1 \in 1 .. Len(s) - 1 /\ (n - 1) + 1 = n
    <3>1. Tail(s)[n - 1] = s[n]
      BY <2>3, TailParts
    <3>. QED
      BY <2>3, <3>1, TailParts DEF ToDo
  <2>. QED
    BY <1>1, <2>2, <2>3
<1>5. ToDo(Tail(s)) \subseteq ToDo(s)
  BY <1>2, TailParts DEF ToDo
<1>6. s[1] \in ToDo(s)
  BY <1>3, TailParts DEF ToDo
<1>7. ToDo(s) \subseteq S
  BY DEF ToDo
<1>. QED
  BY <1>4, <1>5, <1>6, <1>7

\* What a step says of the operation.
StepNames == {"makePod", "absent", "put", "find", "verify", "again", "write", "enter", "leave", "remove", "purge"}
KnownStep(op, a, b) ==
  /\ a \in StepNames \cup {"load"}
  /\ a = "makePod" => op = "register" /\ b = "pod"
  /\ a = "put" => op = "register" /\ b = "file"
  /\ a = "absent" => op = "register" /\ b \in FormKeys
  /\ a = "load" => b \in Indexes
  /\ a = "find" => op \in {"login", "change", "delete", "passkeyLogin"} /\ b \in Indexes
  /\ a = "find" => (b = "passkey" <=> op = "passkeyLogin")
  /\ a = "verify" => op \in {"login", "change", "delete"}
  /\ a = "again" => op \in {"change", "delete"} \cup KeyOps /\ (b = "purge" <=> op = "delete")
  /\ a = "write" => op \in {"login", "change"} \cup KeyOps
  /\ a = "write" => b \in {"login", "change", "addPasskey", "removePasskey"}
  /\ a = "write" => (b = "change" <=> op = "change")
  /\ a = "write" /\ b \in {"addPasskey", "removePasskey"} => op = b
  /\ a = "enter" => op \in {"register", "addPasskey"} /\ b \in Indexes /\ (b = "passkey" <=> op = "addPasskey")
  /\ a = "leave" => op \in {"delete", "removePasskey"} /\ b \in Indexes /\ (b = "passkey" <=> op = "removePasskey")
  /\ a = "remove" => op = "delete" /\ b = "file"
  /\ a = "purge" => op = "delete" /\ b = "pod"

LEMMA StepsAre ==
  /\ StepsOf("register") = {<<"makePod", "pod">>, <<"put", "file">>} \cup {"load", "absent", "enter"} \X FormKeys
  /\ StepsOf("login") = {<<"verify", "password">>, <<"write", "login">>} \cup {"load", "find"} \X FormKeys
  /\ StepsOf("change") = {<<"verify", "password">>, <<"again", "fail">>, <<"write", "change">>}
                          \cup {"load", "find"} \X FormKeys
  /\ StepsOf("delete") = {<<"verify", "password">>, <<"again", "purge">>, <<"remove", "file">>, <<"purge", "pod">>}
                          \cup {"load", "find", "leave"} \X FormKeys
  /\ StepsOf("addPasskey") =
         {<<"again", "fail">>, <<"write", "addPasskey">>, <<"load", "passkey">>, <<"enter", "passkey">>}
  /\ StepsOf("removePasskey") =
         {<<"again", "fail">>, <<"write", "removePasskey">>, <<"load", "passkey">>, <<"leave", "passkey">>}
  /\ StepsOf("passkeyLogin") =
         {<<"again", "fail">>, <<"write", "login">>, <<"load", "passkey">>, <<"find", "passkey">>}
  /\ StepsOf("idle") = {} /\ StepsOf("done") = {} /\ StepsOf("died") = {}
BY DEF StepsOf

LEMMA PairsKnown ==
  ASSUME NEW op \in FormOps \cup KeyOps, NEW a, NEW b, <<a, b>> \in StepsOf(op)
  PROVE  KnownStep(op, a, b)
<1>1. CASE op = "register"
  <2>1. \/ a = "makePod" /\ b = "pod"
        \/ a = "put" /\ b = "file"
        \/ a \in {"load", "absent", "enter"} /\ b \in FormKeys
    BY <1>1, StepsAre
  <2>. QED
    BY <1>1, <2>1 DEF KnownStep, StepNames, Indexes, FormKeys, KeyOps
<1>2. CASE op = "login"
  <2>1. \/ a = "verify" /\ b = "password"
        \/ a = "write" /\ b = "login"
        \/ a \in {"load", "find"} /\ b \in FormKeys
    BY <1>2, StepsAre
  <2>. QED
    BY <1>2, <2>1 DEF KnownStep, StepNames, Indexes, FormKeys, KeyOps
<1>3. CASE op = "change"
  <2>1. \/ a = "verify" /\ b = "password"
        \/ a = "again" /\ b = "fail"
        \/ a = "write" /\ b = "change"
        \/ a \in {"load", "find"} /\ b \in FormKeys
    BY <1>3, StepsAre
  <2>. QED
    BY <1>3, <2>1 DEF KnownStep, StepNames, Indexes, FormKeys, KeyOps
<1>4. CASE op = "delete"
  <2>1. \/ a = "verify" /\ b = "password"
        \/ a = "again" /\ b = "purge"
        \/ a = "remove" /\ b = "file"
        \/ a = "purge" /\ b = "pod"
        \/ a \in {"load", "find", "leave"} /\ b \in FormKeys
    BY <1>4, StepsAre
  <2>. QED
    BY <1>4, <2>1 DEF KnownStep, StepNames, Indexes, FormKeys, KeyOps
<1>5. CASE op \in KeyOps
  <2>1. \/ a = "again" /\ b = "fail"
        \/ a = "load" /\ b = "passkey"
        \/ op \in {"addPasskey", "removePasskey"} /\ a = "write" /\ b = op
        \/ op = "passkeyLogin" /\ a = "write" /\ b = "login"
        \/ op = "addPasskey" /\ a = "enter" /\ b = "passkey"
        \/ op = "removePasskey" /\ a = "leave" /\ b = "passkey"
        \/ op = "passkeyLogin" /\ a = "find" /\ b = "passkey"
    BY <1>5, StepsAre DEF KeyOps
  <2>. QED
    BY <1>5, <2>1 DEF KnownStep, StepNames, Indexes, FormKeys, KeyOps
<1>. QED
  BY <1>1, <1>2, <1>3, <1>4, <1>5 DEF FormOps

LEMMA StepsKnown ==
  ASSUME NEW op \in FormOps \cup KeyOps, NEW s \in StepsOf(op)
  PROVE  s = <<s[1], s[2]>> /\ KnownStep(op, s[1], s[2])
<1>1. \E a, b : s = <<a, b>>
  <2>1. CASE op \in FormOps
    BY <2>1, StepsAre DEF FormOps
  <2>2. CASE op \in KeyOps
    BY <2>2, StepsAre DEF KeyOps
  <2>. QED
    BY <2>1, <2>2
<1>2. PICK a, b : s = <<a, b>>
  BY <1>1
<1>3. s[1] = a /\ s[2] = b
  BY <1>2
<1>. QED
  BY <1>2, <1>3, PairsKnown

LEMMA PairedTail ==
  ASSUME NEW S, NEW s \in Seq(S), s # <<>>, Paired(s)
  PROVE  Paired(Tail(s))
<1>1. PICK m \in Nat, r \in Seq(S) : m = Len(s) - 1 /\ r = Tail(s)
  BY TailParts
<1>2. DOMAIN s = 1 .. m + 1 /\ DOMAIN r = 1 .. m /\ \A n \in 1 .. m : r[n] = s[n + 1]
  BY <1>1, TailParts
<1>3. SUFFICES ASSUME NEW n \in 1 .. m
               PROVE  /\ r[n][1] = "load" => /\ n + 1 \in 1 .. m
                                             /\ r[n + 1][1] \in Uses /\ r[n + 1][2] = r[n][2]
                      /\ n > 1 /\ r[n][1] \in Uses => r[n - 1] = <<"load", r[n][2]>>
  BY <1>1, <1>2 DEF Paired
<1>4. n + 1 \in DOMAIN s /\ n + 1 > 1 /\ (n + 1) - 1 = n /\ r[n] = s[n + 1]
  BY <1>2
<1>5. ASSUME r[n][1] = "load" PROVE n + 1 \in 1 .. m /\ r[n + 1][1] \in Uses /\ r[n + 1][2] = r[n][2]
  <2>1. (n + 1) + 1 \in DOMAIN s /\ s[(n + 1) + 1][1] \in Uses /\ s[(n + 1) + 1][2] = s[n + 1][2]
    BY <1>4, <1>5 DEF Paired
  <2>2. n + 1 \in 1 .. m
    BY <1>2, <2>1
  <2>3. r[n + 1] = s[(n + 1) + 1]
    BY <1>2, <2>2
  <2>. QED
    BY <1>4, <2>1, <2>2, <2>3
<1>6. ASSUME n > 1, r[n][1] \in Uses PROVE r[n - 1] = <<"load", r[n][2]>>
  <2>1. s[(n + 1) - 1] = <<"load", s[n + 1][2]>>
    BY <1>4, <1>6 DEF Paired
  <2>2. n - 1 \in 1 .. m /\ (n - 1) + 1 = n
    BY <1>6
  <2>3. r[n - 1] = s[n]
    BY <1>2, <2>2
  <2>. QED
    BY <1>4, <2>1, <2>3
<1>. QED
  BY <1>5, <1>6

LEMMA SortedTail ==
  ASSUME NEW S, NEW s \in Seq(S), s # <<>>, Sorted(s)
  PROVE  /\ Sorted(Tail(s))
         /\ s[1][1] # "load" =>
              \A u \in ToDo(Tail(s)) : u[1] # "load" => u # s[1] /\ Rank[s[1][1]] <= Rank[u[1]]
<1>1. PICK m \in Nat, r \in Seq(S) : m = Len(s) - 1 /\ r = Tail(s)
  BY TailParts
<1>2. DOMAIN s = 1 .. m + 1 /\ DOMAIN r = 1 .. m /\ \A n \in 1 .. m : r[n] = s[n + 1]
  BY <1>1, TailParts
<1>3. Sorted(r)
  <2>1. SUFFICES ASSUME NEW a \in 1 .. m, NEW b \in 1 .. m,
                        a < b, r[a][1] # "load", r[b][1] # "load"
                 PROVE  r[a] # r[b] /\ Rank[r[a][1]] <= Rank[r[b][1]]
    BY <1>2 DEF Sorted
  <2>2. a + 1 \in DOMAIN s /\ b + 1 \in DOMAIN s /\ a + 1 < b + 1
    BY <1>2, <2>1
  <2>3. r[a] = s[a + 1] /\ r[b] = s[b + 1]
    BY <1>2
  <2>. QED
    BY <2>1, <2>2, <2>3 DEF Sorted
<1>4. ASSUME s[1][1] # "load", NEW u \in ToDo(r), u[1] # "load"
      PROVE  u # s[1] /\ Rank[s[1][1]] <= Rank[u[1]]
  <2>1. PICK n \in 1 .. m : u = r[n]
    BY <1>2 DEF ToDo
  <2>2. 1 \in DOMAIN s /\ n + 1 \in DOMAIN s /\ 1 < n + 1 /\ u = s[n + 1]
    BY <1>2, <2>1
  <2>. QED
    BY <1>4, <2>2 DEF Sorted
<1>. QED
  BY <1>1, <1>3, <1>4

LEMMA WholeTail ==
  ASSUME NEW op \in FormOps \cup KeyOps, NEW s \in Seq(StepsOf(op)), s # <<>>, Sorted(s), Whole(op, s)
  PROVE  Whole(op, Tail(s))
<1>1. ToDo(s) = {s[1]} \cup ToDo(Tail(s)) /\ ToDo(s) \subseteq StepsOf(op)
  BY TailToDo
<1>2. \A u \in ToDo(s) : u = <<u[1], u[2]>> /\ KnownStep(op, u[1], u[2])
  BY <1>1, StepsKnown
<1>3. \A u \in ToDo(Tail(s)) : s[1][1] # "load" /\ u[1] # "load" => u # s[1] /\ Rank[s[1][1]] <= Rank[u[1]]
  BY SortedTail
<1>4. ASSUME NEW u \in ToDo(Tail(s)), u[1] \in {"makePod", "absent"} PROVE <<"put", "file">> \in ToDo(Tail(s))
  <2>1. <<"put", "file">> \in ToDo(s)
    BY <1>1, <1>4 DEF Whole
  <2>2. s[1] # <<"put", "file">>
    BY <1>3, <1>4 DEF Rank
  <2>. QED
    BY <1>1, <2>1, <2>2
<1>5. ASSUME op = "delete", NEW u \in ToDo(Tail(s)), u[1] \in {"find", "verify"}
      PROVE  <<"again", "purge">> \in ToDo(Tail(s))
  <2>1. <<"again", "purge">> \in ToDo(s)
    BY <1>1, <1>5 DEF Whole
  <2>2. s[1] # <<"again", "purge">>
    BY <1>3, <1>5 DEF Rank
  <2>. QED
    BY <1>1, <2>1, <2>2
<1>6. ASSUME op = "delete", NEW u \in ToDo(Tail(s)), u[1] = "leave"
      PROVE  <<"remove", "file">> \in ToDo(Tail(s))
  <2>1. <<"remove", "file">> \in ToDo(s)
    BY <1>1, <1>6 DEF Whole
  <2>2. s[1] # <<"remove", "file">>
    BY <1>3, <1>6 DEF Rank
  <2>. QED
    BY <1>1, <2>1, <2>2
<1>7. ASSUME NEW x \in FormKeys, <<"put", "file">> \in ToDo(Tail(s))
      PROVE  <<"enter", x>> \in ToDo(Tail(s))
  <2>1. <<"enter", x>> \in ToDo(s)
    BY <1>1, <1>7 DEF Whole
  <2>2. s[1] # <<"enter", x>>
    BY <1>3, <1>7 DEF Rank
  <2>. QED
    BY <1>1, <2>1, <2>2
<1>8. ASSUME NEW x \in FormKeys, <<"again", "purge">> \in ToDo(Tail(s))
      PROVE  <<"leave", x>> \in ToDo(Tail(s))
  <2>1. <<"leave", x>> \in ToDo(s)
    BY <1>1, <1>8 DEF Whole
  <2>2. s[1] # <<"leave", x>>
    BY <1>3, <1>8 DEF Rank
  <2>. QED
    BY <1>1, <2>1, <2>2
<1>. QED
  BY <1>4, <1>5, <1>6, <1>7, <1>8 DEF Whole

LEMMA ShapeTail ==
  ASSUME NEW op \in FormOps \cup KeyOps, NEW s, Shape(op, s), s # <<>>
  PROVE  Shape(op, Tail(s))
BY TailParts, PairedTail, SortedTail, WholeTail DEF Shape

-----------------------------------------------------------------------------
(* The operations have this shape. They are joined of single steps and of  *)
(* pairs of a load and a use.                                              *)

Good(s, T) ==
  /\ s \in Seq(T) /\ ToDo(s) = T /\ s # <<>> /\ s[1][1] \notin Uses
  /\ Paired(s) /\ Sorted(s)

InOrder(T, U) ==
  \A s \in T, u \in U : s[1] # "load" /\ u[1] # "load" => s # u /\ Rank[s[1]] <= Rank[u[1]]

LEMMA Joined ==
  ASSUME NEW s, NEW t, NEW T, NEW U, Good(s, T), Good(t, U), InOrder(T, U)
  PROVE  Good(s \o t, T \cup U)
<1>. DEFINE m == Len(s)  n == Len(t)  j == s \o t
<1>0. /\ m \in Nat \ {0} /\ n \in Nat \ {0} /\ DOMAIN s = 1 .. m /\ DOMAIN t = 1 .. n
      /\ j \in Seq(T \cup U) /\ Len(j) = m + n /\ DOMAIN j = 1 .. m + n
  BY DEF Good
<1>1. /\ \A i \in 1 .. m : j[i] = s[i]
      /\ \A i \in 1 .. n : j[m + i] = t[i]
  BY DEF Good
<1>2. \A i \in 1 .. m + n : i \in 1 .. m \/ (i - m \in 1 .. n /\ m + (i - m) = i)
  BY <1>0
<1>3. \A i \in 1 .. n : m + i \in 1 .. m + n
  BY <1>0
<1>4. \A i \in 1 .. m : i \in 1 .. m + n
  BY <1>0
<1>5. ToDo(j) = T \cup U
  <2>1. ToDo(j) \subseteq T \cup U
    BY <1>0 DEF ToDo
  <2>2. ASSUME NEW v \in T PROVE v \in ToDo(j)
    <3>1. PICK i \in 1 .. m : v = s[i]
      BY <1>0 DEF Good, ToDo
    <3>. QED
      BY <1>0, <1>1, <1>4, <3>1 DEF ToDo
  <2>3. ASSUME NEW v \in U PROVE v \in ToDo(j)
    <3>1. PICK i \in 1 .. n : v = t[i]
      BY <1>0 DEF Good, ToDo
    <3>. QED
      BY <1>0, <1>1, <1>3, <3>1 DEF ToDo
  <2>. QED
    BY <2>1, <2>2, <2>3
<1>6. j # <<>> /\ j[1][1] \notin Uses
  <2>1. 1 \in 1 .. m
    BY <1>0
  <2>. QED
    BY <1>0, <1>1, <2>1 DEF Good
<1>7. Paired(j)
  <2>1. SUFFICES ASSUME NEW i \in 1 .. m + n
                 PROVE  /\ j[i][1] = "load" => /\ i + 1 \in 1 .. m + n
                                               /\ j[i + 1][1] \in Uses /\ j[i + 1][2] = j[i][2]
                        /\ i > 1 /\ j[i][1] \in Uses => j[i - 1] = <<"load", j[i][2]>>
    BY <1>0 DEF Paired
  <2>2. CASE i \in 1 .. m
    <3>1. i > 1 => i - 1 \in 1 .. m
      BY <2>2
    <3>2. i + 1 \in 1 .. m => i + 1 \in 1 .. m + n
      BY <1>4
    <3>. QED
      BY <1>0, <1>1, <2>2, <3>1, <3>2 DEF Good, Paired
  <2>3. CASE i - m \in 1 .. n /\ m + (i - m) = i
    <3>1. PICK k \in 1 .. n : i = m + k
      BY <2>3
    <3>2. j[i] = t[k] /\ (k + 1 \in 1 .. n => j[i + 1] = t[k + 1] /\ i + 1 \in 1 .. m + n)
      <4>1. i + 1 = m + (k + 1)
        BY <1>0, <3>1
      <4>. QED
        BY <1>1, <1>3, <3>1, <4>1
    <3>3. k > 1 => j[i - 1] = t[k - 1] /\ k - 1 \in 1 .. n
      <4>1. k > 1 => i - 1 = m + (k - 1) /\ k - 1 \in 1 .. n
        BY <1>0, <3>1
      <4>. QED
        BY <1>1, <4>1
    <3>4. k = 1 => t[k][1] \notin Uses
      BY DEF Good
    <3>5. /\ t[k][1] = "load" => /\ k + 1 \in 1 .. n
                                 /\ t[k + 1][1] \in Uses /\ t[k + 1][2] = t[k][2]
          /\ k > 1 /\ t[k][1] \in Uses => t[k - 1] = <<"load", t[k][2]>>
      BY <1>0 DEF Good, Paired
    <3>6. j[i][1] \in Uses => k > 1
      BY <3>2, <3>4
    <3>. QED
      BY <3>2, <3>3, <3>5, <3>6
  <2>. QED
    BY <1>2, <2>2, <2>3
<1>8. Sorted(j)
  <2>1. SUFFICES ASSUME NEW i \in 1 .. m + n, NEW k \in 1 .. m + n, i < k,
                        j[i][1] # "load", j[k][1] # "load"
                 PROVE  j[i] # j[k] /\ Rank[j[i][1]] <= Rank[j[k][1]]
    BY <1>0 DEF Sorted
  <2>2. CASE k \in 1 .. m
    <3>1. i \in 1 .. m
      BY <2>1, <2>2, <1>0
    <3>. QED
      BY <1>0, <1>1, <2>1, <2>2, <3>1 DEF Good, Sorted
  <2>3. CASE i \in 1 .. m /\ k - m \in 1 .. n /\ m + (k - m) = k
    <3>1. j[i] \in T /\ j[k] \in U
      BY <1>0, <1>1, <2>3 DEF Good
    <3>. QED
      BY <2>1, <3>1 DEF InOrder
  <2>4. CASE i - m \in 1 .. n /\ m + (i - m) = i /\ k - m \in 1 .. n /\ m + (k - m) = k
    <3>1. j[i] = t[i - m] /\ j[k] = t[k - m] /\ i - m < k - m
      BY <1>0, <1>1, <2>1, <2>4
    <3>. QED
      BY <1>0, <2>1, <2>4, <3>1 DEF Good, Sorted
  <2>. QED
    BY <1>2, <2>2, <2>3, <2>4
<1>. QED
  BY <1>0, <1>5, <1>6, <1>7, <1>8 DEF Good

LEMMA OneStep ==
  ASSUME NEW a \in StepNames, NEW b, a \notin Uses
  PROVE  Good(<<<<a, b>>>>, {<<a, b>>})
<1>. DEFINE s == <<<<a, b>>>>
<1>1. s \in Seq({<<a, b>>}) /\ Len(s) = 1 /\ DOMAIN s = 1 .. 1 /\ s[1] = <<a, b>> /\ s # <<>>
  OBVIOUS
<1>2. ToDo(s) = {<<a, b>>}
  BY <1>1 DEF ToDo
<1>3. Paired(s)
  BY <1>1 DEF Paired, StepNames
<1>4. Sorted(s)
  BY <1>1 DEF Sorted
<1>. QED
  BY <1>1, <1>2, <1>3, <1>4 DEF Good

LEMMA LoadAndUse ==
  ASSUME NEW use \in Uses, NEW x
  PROVE  Good(<<<<"load", x>>, <<use, x>>>>, {<<"load", x>>, <<use, x>>})
<1>. DEFINE s == <<<<"load", x>>, <<use, x>>>>
<1>1. /\ s \in Seq({<<"load", x>>, <<use, x>>}) /\ Len(s) = 2 /\ DOMAIN s = 1 .. 2
      /\ s[1] = <<"load", x>> /\ s[2] = <<use, x>> /\ s # <<>>
  OBVIOUS
<1>2. ToDo(s) = {<<"load", x>>, <<use, x>>}
  BY <1>1 DEF ToDo
<1>3. \A n \in 1 .. 2 : n = 1 \/ n = 2
  OBVIOUS
<1>4. Paired(s)
  BY <1>1, <1>3 DEF Paired, Uses
<1>5. Sorted(s)
  BY <1>1, <1>3 DEF Sorted
<1>. QED
  BY <1>1, <1>2, <1>4, <1>5 DEF Good, Uses


\* What a good sequence of steps needs to be an operation.
LEMMA ShapeOf ==
  ASSUME NEW op, NEW s, NEW T, Good(s, T), T \subseteq StepsOf(op),
         \A u \in T : /\ u[1] \in {"makePod", "absent"} => <<"put", "file">> \in T
                      /\ op = "delete" /\ u[1] \in {"find", "verify"} => <<"again", "purge">> \in T
                      /\ op = "delete" /\ u[1] = "leave" => <<"remove", "file">> \in T,
         \A x \in FormKeys : /\ <<"put", "file">> \in T => <<"enter", x>> \in T
                             /\ <<"again", "purge">> \in T => <<"leave", x>> \in T
  PROVE  Shape(op, s)
<1>1. s \in Seq(StepsOf(op))
  BY DEF Good
<1>. QED
  BY <1>1 DEF Good, Shape, Whole

LEMMA PlainShape ==
  ASSUME NEW op, NEW s, NEW T, Good(s, T), T \subseteq StepsOf(op), op # "delete",
         \A u \in T : u[1] \notin {"makePod", "absent", "put"} /\ u # <<"again", "purge">>
  PROVE  Shape(op, s)
BY ShapeOf

LEMMA RegisterShapeOf ==
  ASSUME NEW s, NEW T, Good(s, T), T \subseteq StepsOf("register"), <<"put", "file">> \in T,
         <<"again", "purge">> \notin T, \A x \in FormKeys : <<"enter", x>> \in T
  PROVE  Shape("register", s)
BY ShapeOf

LEMMA DeleteShapeOf ==
  ASSUME NEW s, NEW T, Good(s, T), T \subseteq StepsOf("delete"), <<"again", "purge">> \in T,
         <<"remove", "file">> \in T, \A x \in FormKeys : <<"leave", x>> \in T,
         \A u \in T : u[1] \notin {"makePod", "absent", "put"}
  PROVE  Shape("delete", s)
BY ShapeOf

LEMMA Blocks ==
  /\ \A x \in Indexes : /\ Good(FindBy(x), {<<"load", x>>, <<"find", x>>})
                         /\ Good(Absent(x), {<<"load", x>>, <<"absent", x>>})
                         /\ Good(Enter(x), {<<"load", x>>, <<"enter", x>>})
                         /\ Good(Leave(x), {<<"load", x>>, <<"leave", x>>})
  /\ \A a \in StepNames \ Uses : \A b : Good(<<<<a, b>>>>, {<<a, b>>})
BY LoadAndUse, OneStep DEF FindBy, Absent, Enter, Leave, Uses

\* Joining, when nothing is done twice or in the wrong order.
LEMMA JoinedTo ==
  ASSUME NEW s, NEW t, NEW T, NEW U, NEW V, Good(s, T), Good(t, U), V = T \cup U,
         \A u \in U : u[1] # "load" =>
           \A v \in T : v[1] # "load" => v # u /\ Rank[v[1]] <= Rank[u[1]]
  PROVE  Good(s \o t, V)
BY Joined DEF InOrder

LEMMA TwoSteps ==
  ASSUME NEW a \in StepNames \ Uses, NEW b \in StepNames \ Uses, NEW c, NEW d, Rank[a] <= Rank[b], a # b
  PROVE  Good(<<<<a, c>>, <<b, d>>>>, {<<a, c>>, <<b, d>>})
<1>. DEFINE s == <<<<a, c>>, <<b, d>>>>
<1>1. /\ s \in Seq({<<a, c>>, <<b, d>>}) /\ Len(s) = 2 /\ DOMAIN s = 1 .. 2
      /\ s[1] = <<a, c>> /\ s[2] = <<b, d>> /\ s # <<>>
  OBVIOUS
<1>2. ToDo(s) = {<<a, c>>, <<b, d>>}
  BY <1>1 DEF ToDo
<1>3. \A n \in 1 .. 2 : n = 1 \/ n = 2
  OBVIOUS
<1>4. Paired(s)
  BY <1>1, <1>3 DEF Paired, StepNames
<1>5. Sorted(s)
  BY <1>1, <1>3 DEF Sorted
<1>. QED
  BY <1>1, <1>2, <1>4, <1>5 DEF Good

LEMMA CreateGood ==
  Good(CreateAccount,
       {<<"load", "username">>, <<"absent", "username">>, <<"load", "email">>,
        <<"absent", "email">>, <<"load", "webid">>, <<"absent", "webid">>, <<"put", "file">>,
        <<"enter", "username">>, <<"enter", "email">>, <<"enter", "webid">>})
<1>. USE DEF StepNames, Uses, Indexes
<1>1. Good(Absent("username"),
         {<<"load", "username">>, <<"absent", "username">>})
  BY Blocks
<1>2. Good(Absent("username") \o Absent("email"),
         {<<"load", "username">>, <<"absent", "username">>, <<"load", "email">>,
          <<"absent", "email">>})
  <2>1. Good(Absent("email"),
           {<<"load", "email">>, <<"absent", "email">>})
    BY Blocks
  <2>. QED
    BY <1>1, <2>1, JoinedTo DEF Rank
<1>3. Good(Absent("username") \o Absent("email") \o Absent("webid"),
         {<<"load", "username">>, <<"absent", "username">>, <<"load", "email">>,
          <<"absent", "email">>, <<"load", "webid">>, <<"absent", "webid">>})
  <2>1. Good(Absent("webid"),
           {<<"load", "webid">>, <<"absent", "webid">>})
    BY Blocks
  <2>. QED
    BY <1>2, <2>1, JoinedTo DEF Rank
<1>4. Good(Absent("username") \o Absent("email") \o Absent("webid") \o <<<<"put", "file">>>>,
         {<<"load", "username">>, <<"absent", "username">>, <<"load", "email">>,
          <<"absent", "email">>, <<"load", "webid">>, <<"absent", "webid">>, <<"put", "file">>})
  <2>1. Good(<<<<"put", "file">>>>,
           {<<"put", "file">>})
    BY Blocks
  <2>. QED
    BY <1>3, <2>1, JoinedTo DEF Rank
<1>5. Good(Absent("username") \o Absent("email") \o Absent("webid") \o <<<<"put", "file">>>> \o Enter("username"),
         {<<"load", "username">>, <<"absent", "username">>, <<"load", "email">>,
          <<"absent", "email">>, <<"load", "webid">>, <<"absent", "webid">>, <<"put", "file">>,
          <<"enter", "username">>})
  <2>1. Good(Enter("username"),
           {<<"load", "username">>, <<"enter", "username">>})
    BY Blocks
  <2>. QED
    BY <1>4, <2>1, JoinedTo DEF Rank
<1>6. Good(Absent("username") \o Absent("email") \o Absent("webid") \o <<<<"put", "file">>>> \o Enter("username") \o Enter("email"),
         {<<"load", "username">>, <<"absent", "username">>, <<"load", "email">>,
          <<"absent", "email">>, <<"load", "webid">>, <<"absent", "webid">>, <<"put", "file">>,
          <<"enter", "username">>, <<"enter", "email">>})
  <2>1. Good(Enter("email"),
           {<<"load", "email">>, <<"enter", "email">>})
    BY Blocks
  <2>. QED
    BY <1>5, <2>1, JoinedTo DEF Rank
<1>7. Good(Absent("username") \o Absent("email") \o Absent("webid") \o <<<<"put", "file">>>> \o Enter("username") \o Enter("email") \o Enter("webid"),
         {<<"load", "username">>, <<"absent", "username">>, <<"load", "email">>,
          <<"absent", "email">>, <<"load", "webid">>, <<"absent", "webid">>, <<"put", "file">>,
          <<"enter", "username">>, <<"enter", "email">>, <<"enter", "webid">>})
  <2>1. Good(Enter("webid"),
           {<<"load", "webid">>, <<"enter", "webid">>})
    BY Blocks
  <2>. QED
    BY <1>6, <2>1, JoinedTo DEF Rank
<1>. QED
  BY <1>7 DEF CreateAccount

LEMMA RegisterGood ==
  Good(Register,
       {<<"makePod", "pod">>, <<"load", "username">>, <<"absent", "username">>,
        <<"load", "email">>, <<"absent", "email">>, <<"load", "webid">>, <<"absent", "webid">>,
        <<"put", "file">>, <<"enter", "username">>, <<"enter", "email">>, <<"enter", "webid">>})
<1>. USE DEF StepNames, Uses, Indexes
<1>1. Good(<<<<"makePod", "pod">>>>,
         {<<"makePod", "pod">>})
  BY Blocks
<1>2. Good(<<<<"makePod", "pod">>>> \o CreateAccount,
         {<<"makePod", "pod">>, <<"load", "username">>, <<"absent", "username">>,
          <<"load", "email">>, <<"absent", "email">>, <<"load", "webid">>, <<"absent", "webid">>,
          <<"put", "file">>, <<"enter", "username">>, <<"enter", "email">>, <<"enter", "webid">>})
  <2>1. Good(CreateAccount,
           {<<"load", "username">>, <<"absent", "username">>, <<"load", "email">>,
            <<"absent", "email">>, <<"load", "webid">>, <<"absent", "webid">>, <<"put", "file">>,
            <<"enter", "username">>, <<"enter", "email">>, <<"enter", "webid">>})
    BY CreateGood
  <2>. QED
    BY <1>1, <2>1, JoinedTo DEF Rank
<1>. QED
  BY <1>2 DEF Register

LEMMA RegisterShape == Shape("register", Register)
<1>. DEFINE T == {<<"makePod", "pod">>, <<"load", "username">>, <<"absent", "username">>,
                 <<"load", "email">>, <<"absent", "email">>, <<"load", "webid">>, <<"absent", "webid">>,
                 <<"put", "file">>, <<"enter", "username">>, <<"enter", "email">>, <<"enter", "webid">>}
<1>a. T \subseteq StepsOf("register")
  BY StepsAre DEF FormKeys
<1>b. <<"put", "file">> \in T /\ <<"again", "purge">> \notin T /\ \A x \in FormKeys : <<"enter", x>> \in T
  BY DEF FormKeys
<1>c. Good(Register, T)
  BY RegisterGood
<1>. HIDE DEF T
<1>. QED
  BY <1>a, <1>b, <1>c, RegisterShapeOf

LEMMA AuthenticateGood ==
  Good(Authenticate,
       {<<"load", "username">>, <<"find", "username">>, <<"verify", "password">>,
        <<"write", "login">>})
<1>. USE DEF StepNames, Uses, Indexes
<1>1. Good(FindBy("username"),
         {<<"load", "username">>, <<"find", "username">>})
  BY Blocks
<1>2. Good(FindBy("username") \o <<<<"verify", "password">>, <<"write", "login">>>>,
         {<<"load", "username">>, <<"find", "username">>, <<"verify", "password">>,
          <<"write", "login">>})
  <2>1. Good(<<<<"verify", "password">>, <<"write", "login">>>>,
           {<<"verify", "password">>, <<"write", "login">>})
    BY TwoSteps DEF Rank
  <2>. QED
    BY <1>1, <2>1, JoinedTo DEF Rank
<1>. QED
  BY <1>2 DEF Authenticate

LEMMA AuthenticateShape == Shape("login", Authenticate)
<1>. DEFINE T == {<<"load", "username">>, <<"find", "username">>, <<"verify", "password">>,
                 <<"write", "login">>}
<1>a. T \subseteq StepsOf("login")
  BY StepsAre DEF FormKeys
<1>b. \A u \in T : u[1] \notin {"makePod", "absent", "put"} /\ u # <<"again", "purge">>
  BY DEF FormKeys
<1>c. Good(Authenticate, T)
  BY AuthenticateGood
<1>. HIDE DEF T
<1>. QED
  BY <1>a, <1>b, <1>c, PlainShape

LEMMA ByEmailGood ==
  Good(ByEmail,
       {<<"load", "email">>, <<"find", "email">>, <<"verify", "password">>, <<"write", "login">>})
<1>. USE DEF StepNames, Uses, Indexes
<1>1. Good(FindBy("email"),
         {<<"load", "email">>, <<"find", "email">>})
  BY Blocks
<1>2. Good(FindBy("email") \o <<<<"verify", "password">>, <<"write", "login">>>>,
         {<<"load", "email">>, <<"find", "email">>, <<"verify", "password">>, <<"write", "login">>})
  <2>1. Good(<<<<"verify", "password">>, <<"write", "login">>>>,
           {<<"verify", "password">>, <<"write", "login">>})
    BY TwoSteps DEF Rank
  <2>. QED
    BY <1>1, <2>1, JoinedTo DEF Rank
<1>. QED
  BY <1>2 DEF ByEmail

LEMMA ByEmailShape == Shape("login", ByEmail)
<1>. DEFINE T == {<<"load", "email">>, <<"find", "email">>, <<"verify", "password">>, <<"write", "login">>}
<1>a. T \subseteq StepsOf("login")
  BY StepsAre DEF FormKeys
<1>b. \A u \in T : u[1] \notin {"makePod", "absent", "put"} /\ u # <<"again", "purge">>
  BY DEF FormKeys
<1>c. Good(ByEmail, T)
  BY ByEmailGood
<1>. HIDE DEF T
<1>. QED
  BY <1>a, <1>b, <1>c, PlainShape

LEMMA UpdateGood ==
  Good(UpdatePassword,
       {<<"again", "fail">>, <<"write", "change">>})
<1>. USE DEF StepNames, Uses, Indexes
<1>1. Good(<<<<"again", "fail">>, <<"write", "change">>>>,
         {<<"again", "fail">>, <<"write", "change">>})
  BY TwoSteps DEF Rank
<1>. QED
  BY <1>1 DEF UpdatePassword

LEMMA ChangeGood ==
  Good(HandleChangePassword,
       {<<"load", "webid">>, <<"find", "webid">>, <<"verify", "password">>,
        <<"again", "fail">>, <<"write", "change">>})
<1>. USE DEF StepNames, Uses, Indexes
<1>1. Good(FindBy("webid"),
         {<<"load", "webid">>, <<"find", "webid">>})
  BY Blocks
<1>2. Good(FindBy("webid") \o <<<<"verify", "password">>>>,
         {<<"load", "webid">>, <<"find", "webid">>, <<"verify", "password">>})
  <2>1. Good(<<<<"verify", "password">>>>,
           {<<"verify", "password">>})
    BY Blocks
  <2>. QED
    BY <1>1, <2>1, JoinedTo DEF Rank
<1>3. Good(FindBy("webid") \o <<<<"verify", "password">>>> \o UpdatePassword,
         {<<"load", "webid">>, <<"find", "webid">>, <<"verify", "password">>,
          <<"again", "fail">>, <<"write", "change">>})
  <2>1. Good(UpdatePassword,
           {<<"again", "fail">>, <<"write", "change">>})
    BY UpdateGood
  <2>. QED
    BY <1>2, <2>1, JoinedTo DEF Rank
<1>. QED
  BY <1>3 DEF HandleChangePassword

LEMMA ChangeShape == Shape("change", HandleChangePassword)
<1>. DEFINE T == {<<"load", "webid">>, <<"find", "webid">>, <<"verify", "password">>,
                 <<"again", "fail">>, <<"write", "change">>}
<1>a. T \subseteq StepsOf("change")
  BY StepsAre DEF FormKeys
<1>b. \A u \in T : u[1] \notin {"makePod", "absent", "put"} /\ u # <<"again", "purge">>
  BY DEF FormKeys
<1>c. Good(HandleChangePassword, T)
  BY ChangeGood
<1>. HIDE DEF T
<1>. QED
  BY <1>a, <1>b, <1>c, PlainShape

LEMMA DeleteGood ==
  Good(DeleteAccount,
       {<<"again", "purge">>, <<"load", "username">>, <<"leave", "username">>,
        <<"load", "email">>, <<"leave", "email">>, <<"load", "webid">>, <<"leave", "webid">>,
        <<"remove", "file">>})
<1>. USE DEF StepNames, Uses, Indexes
<1>1. Good(<<<<"again", "purge">>>>,
         {<<"again", "purge">>})
  BY Blocks
<1>2. Good(<<<<"again", "purge">>>> \o Leave("username"),
         {<<"again", "purge">>, <<"load", "username">>, <<"leave", "username">>})
  <2>1. Good(Leave("username"),
           {<<"load", "username">>, <<"leave", "username">>})
    BY Blocks
  <2>. QED
    BY <1>1, <2>1, JoinedTo DEF Rank
<1>3. Good(<<<<"again", "purge">>>> \o Leave("username") \o Leave("email"),
         {<<"again", "purge">>, <<"load", "username">>, <<"leave", "username">>,
          <<"load", "email">>, <<"leave", "email">>})
  <2>1. Good(Leave("email"),
           {<<"load", "email">>, <<"leave", "email">>})
    BY Blocks
  <2>. QED
    BY <1>2, <2>1, JoinedTo DEF Rank
<1>4. Good(<<<<"again", "purge">>>> \o Leave("username") \o Leave("email") \o Leave("webid"),
         {<<"again", "purge">>, <<"load", "username">>, <<"leave", "username">>,
          <<"load", "email">>, <<"leave", "email">>, <<"load", "webid">>, <<"leave", "webid">>})
  <2>1. Good(Leave("webid"),
           {<<"load", "webid">>, <<"leave", "webid">>})
    BY Blocks
  <2>. QED
    BY <1>3, <2>1, JoinedTo DEF Rank
<1>5. Good(<<<<"again", "purge">>>> \o Leave("username") \o Leave("email") \o Leave("webid") \o <<<<"remove", "file">>>>,
         {<<"again", "purge">>, <<"load", "username">>, <<"leave", "username">>,
          <<"load", "email">>, <<"leave", "email">>, <<"load", "webid">>, <<"leave", "webid">>,
          <<"remove", "file">>})
  <2>1. Good(<<<<"remove", "file">>>>,
           {<<"remove", "file">>})
    BY Blocks
  <2>. QED
    BY <1>4, <2>1, JoinedTo DEF Rank
<1>. QED
  BY <1>5 DEF DeleteAccount

LEMMA PurgeGood ==
  Good(DeleteAccountAndPurge,
       {<<"again", "purge">>, <<"load", "username">>, <<"leave", "username">>,
        <<"load", "email">>, <<"leave", "email">>, <<"load", "webid">>, <<"leave", "webid">>,
        <<"remove", "file">>, <<"purge", "pod">>})
<1>. USE DEF StepNames, Uses, Indexes
<1>1. Good(DeleteAccount,
         {<<"again", "purge">>, <<"load", "username">>, <<"leave", "username">>,
          <<"load", "email">>, <<"leave", "email">>, <<"load", "webid">>, <<"leave", "webid">>,
          <<"remove", "file">>})
  BY DeleteGood
<1>2. Good(DeleteAccount \o <<<<"purge", "pod">>>>,
         {<<"again", "purge">>, <<"load", "username">>, <<"leave", "username">>,
          <<"load", "email">>, <<"leave", "email">>, <<"load", "webid">>, <<"leave", "webid">>,
          <<"remove", "file">>, <<"purge", "pod">>})
  <2>1. Good(<<<<"purge", "pod">>>>,
           {<<"purge", "pod">>})
    BY Blocks
  <2>. QED
    BY <1>1, <2>1, JoinedTo DEF Rank
<1>. QED
  BY <1>2 DEF DeleteAccountAndPurge

LEMMA AskGood ==
  Good(HandleDeleteAccount,
       {<<"load", "webid">>, <<"find", "webid">>, <<"verify", "password">>})
<1>. USE DEF StepNames, Uses, Indexes
<1>1. Good(FindBy("webid"),
         {<<"load", "webid">>, <<"find", "webid">>})
  BY Blocks
<1>2. Good(FindBy("webid") \o <<<<"verify", "password">>>>,
         {<<"load", "webid">>, <<"find", "webid">>, <<"verify", "password">>})
  <2>1. Good(<<<<"verify", "password">>>>,
           {<<"verify", "password">>})
    BY Blocks
  <2>. QED
    BY <1>1, <2>1, JoinedTo DEF Rank
<1>. QED
  BY <1>2 DEF HandleDeleteAccount

LEMMA FormGood ==
  Good(HandleAccountDeleteForm,
       {<<"load", "username">>, <<"find", "username">>, <<"verify", "password">>})
<1>. USE DEF StepNames, Uses, Indexes
<1>1. Good(FindBy("username"),
         {<<"load", "username">>, <<"find", "username">>})
  BY Blocks
<1>2. Good(FindBy("username") \o <<<<"verify", "password">>>>,
         {<<"load", "username">>, <<"find", "username">>, <<"verify", "password">>})
  <2>1. Good(<<<<"verify", "password">>>>,
           {<<"verify", "password">>})
    BY Blocks
  <2>. QED
    BY <1>1, <2>1, JoinedTo DEF Rank
<1>. QED
  BY <1>2 DEF HandleAccountDeleteForm

LEMMA AskedDeleteGood ==
  Good(HandleDeleteAccount \o DeleteAccount,
       {<<"load", "webid">>, <<"find", "webid">>, <<"verify", "password">>,
        <<"again", "purge">>, <<"load", "username">>, <<"leave", "username">>,
        <<"load", "email">>, <<"leave", "email">>, <<"leave", "webid">>, <<"remove", "file">>})
<1>. USE DEF StepNames, Uses, Indexes
<1>1. Good(HandleDeleteAccount,
         {<<"load", "webid">>, <<"find", "webid">>, <<"verify", "password">>})
  BY AskGood
<1>2. Good(HandleDeleteAccount \o DeleteAccount,
         {<<"load", "webid">>, <<"find", "webid">>, <<"verify", "password">>,
          <<"again", "purge">>, <<"load", "username">>, <<"leave", "username">>,
          <<"load", "email">>, <<"leave", "email">>, <<"leave", "webid">>, <<"remove", "file">>})
  <2>1. Good(DeleteAccount,
           {<<"again", "purge">>, <<"load", "username">>, <<"leave", "username">>,
            <<"load", "email">>, <<"leave", "email">>, <<"load", "webid">>, <<"leave", "webid">>,
            <<"remove", "file">>})
    BY DeleteGood
  <2>. QED
    BY <1>1, <2>1, JoinedTo DEF Rank
<1>. QED
  BY <1>2

LEMMA AskedDeleteShape == Shape("delete", HandleDeleteAccount \o DeleteAccount)
<1>. DEFINE T == {<<"load", "webid">>, <<"find", "webid">>, <<"verify", "password">>,
                 <<"again", "purge">>, <<"load", "username">>, <<"leave", "username">>,
                 <<"load", "email">>, <<"leave", "email">>, <<"leave", "webid">>, <<"remove", "file">>}
<1>a. T \subseteq StepsOf("delete")
  BY StepsAre DEF FormKeys
<1>b. /\ <<"again", "purge">> \in T /\ <<"remove", "file">> \in T /\ \A x \in FormKeys : <<"leave", x>> \in T
      /\ \A u \in T : u[1] \notin {"makePod", "absent", "put"}
  BY DEF FormKeys
<1>c. Good(HandleDeleteAccount \o DeleteAccount, T)
  BY AskedDeleteGood
<1>. HIDE DEF T
<1>. QED
  BY <1>a, <1>b, <1>c, DeleteShapeOf

LEMMA FormDeleteGood ==
  Good(HandleAccountDeleteForm \o DeleteAccountAndPurge,
       {<<"load", "username">>, <<"find", "username">>, <<"verify", "password">>,
        <<"again", "purge">>, <<"leave", "username">>, <<"load", "email">>,
        <<"leave", "email">>, <<"load", "webid">>, <<"leave", "webid">>, <<"remove", "file">>,
        <<"purge", "pod">>})
<1>. USE DEF StepNames, Uses, Indexes
<1>1. Good(HandleAccountDeleteForm,
         {<<"load", "username">>, <<"find", "username">>, <<"verify", "password">>})
  BY FormGood
<1>2. Good(HandleAccountDeleteForm \o DeleteAccountAndPurge,
         {<<"load", "username">>, <<"find", "username">>, <<"verify", "password">>,
          <<"again", "purge">>, <<"leave", "username">>, <<"load", "email">>,
          <<"leave", "email">>, <<"load", "webid">>, <<"leave", "webid">>, <<"remove", "file">>,
          <<"purge", "pod">>})
  <2>1. Good(DeleteAccountAndPurge,
           {<<"again", "purge">>, <<"load", "username">>, <<"leave", "username">>,
            <<"load", "email">>, <<"leave", "email">>, <<"load", "webid">>, <<"leave", "webid">>,
            <<"remove", "file">>, <<"purge", "pod">>})
    BY PurgeGood
  <2>. QED
    BY <1>1, <2>1, JoinedTo DEF Rank
<1>. QED
  BY <1>2

LEMMA FormDeleteShape == Shape("delete", HandleAccountDeleteForm \o DeleteAccountAndPurge)
<1>. DEFINE T == {<<"load", "username">>, <<"find", "username">>, <<"verify", "password">>,
                 <<"again", "purge">>, <<"leave", "username">>, <<"load", "email">>,
                 <<"leave", "email">>, <<"load", "webid">>, <<"leave", "webid">>, <<"remove", "file">>,
                 <<"purge", "pod">>}
<1>a. T \subseteq StepsOf("delete")
  BY StepsAre DEF FormKeys
<1>b. /\ <<"again", "purge">> \in T /\ <<"remove", "file">> \in T /\ \A x \in FormKeys : <<"leave", x>> \in T
      /\ \A u \in T : u[1] \notin {"makePod", "absent", "put"}
  BY DEF FormKeys
<1>c. Good(HandleAccountDeleteForm \o DeleteAccountAndPurge, T)
  BY FormDeleteGood
<1>. HIDE DEF T
<1>. QED
  BY <1>a, <1>b, <1>c, DeleteShapeOf

LEMMA AddPasskeyGood ==
  Good(AddPasskey,
       {<<"again", "fail">>, <<"write", "addPasskey">>, <<"load", "passkey">>,
        <<"enter", "passkey">>})
<1>. USE DEF StepNames, Uses, Indexes
<1>1. Good(<<<<"again", "fail">>, <<"write", "addPasskey">>>>,
         {<<"again", "fail">>, <<"write", "addPasskey">>})
  BY TwoSteps DEF Rank
<1>2. Good(<<<<"again", "fail">>, <<"write", "addPasskey">>>> \o Enter("passkey"),
         {<<"again", "fail">>, <<"write", "addPasskey">>, <<"load", "passkey">>,
          <<"enter", "passkey">>})
  <2>1. Good(Enter("passkey"),
           {<<"load", "passkey">>, <<"enter", "passkey">>})
    BY Blocks
  <2>. QED
    BY <1>1, <2>1, JoinedTo DEF Rank
<1>. QED
  BY <1>2 DEF AddPasskey

LEMMA AddPasskeyShape == Shape("addPasskey", AddPasskey)
<1>. DEFINE T == {<<"again", "fail">>, <<"write", "addPasskey">>, <<"load", "passkey">>,
                 <<"enter", "passkey">>}
<1>a. T \subseteq StepsOf("addPasskey")
  BY StepsAre DEF FormKeys
<1>b. \A u \in T : u[1] \notin {"makePod", "absent", "put"} /\ u # <<"again", "purge">>
  BY DEF FormKeys
<1>c. Good(AddPasskey, T)
  BY AddPasskeyGood
<1>. HIDE DEF T
<1>. QED
  BY <1>a, <1>b, <1>c, PlainShape

LEMMA RemovePasskeyGood ==
  Good(RemovePasskey,
       {<<"again", "fail">>, <<"write", "removePasskey">>, <<"load", "passkey">>,
        <<"leave", "passkey">>})
<1>. USE DEF StepNames, Uses, Indexes
<1>1. Good(<<<<"again", "fail">>, <<"write", "removePasskey">>>>,
         {<<"again", "fail">>, <<"write", "removePasskey">>})
  BY TwoSteps DEF Rank
<1>2. Good(<<<<"again", "fail">>, <<"write", "removePasskey">>>> \o Leave("passkey"),
         {<<"again", "fail">>, <<"write", "removePasskey">>, <<"load", "passkey">>,
          <<"leave", "passkey">>})
  <2>1. Good(Leave("passkey"),
           {<<"load", "passkey">>, <<"leave", "passkey">>})
    BY Blocks
  <2>. QED
    BY <1>1, <2>1, JoinedTo DEF Rank
<1>. QED
  BY <1>2 DEF RemovePasskey

LEMMA RemovePasskeyShape == Shape("removePasskey", RemovePasskey)
<1>. DEFINE T == {<<"again", "fail">>, <<"write", "removePasskey">>, <<"load", "passkey">>,
                 <<"leave", "passkey">>}
<1>a. T \subseteq StepsOf("removePasskey")
  BY StepsAre DEF FormKeys
<1>b. \A u \in T : u[1] \notin {"makePod", "absent", "put"} /\ u # <<"again", "purge">>
  BY DEF FormKeys
<1>c. Good(RemovePasskey, T)
  BY RemovePasskeyGood
<1>. HIDE DEF T
<1>. QED
  BY <1>a, <1>b, <1>c, PlainShape

LEMMA LastLoginGood ==
  Good(UpdateLastLogin,
       {<<"again", "fail">>, <<"write", "login">>})
<1>. USE DEF StepNames, Uses, Indexes
<1>1. Good(<<<<"again", "fail">>, <<"write", "login">>>>,
         {<<"again", "fail">>, <<"write", "login">>})
  BY TwoSteps DEF Rank
<1>. QED
  BY <1>1 DEF UpdateLastLogin

LEMMA PasskeyLoginGood ==
  Good(FindBy("passkey") \o UpdateLastLogin,
       {<<"load", "passkey">>, <<"find", "passkey">>, <<"again", "fail">>, <<"write", "login">>})
<1>. USE DEF StepNames, Uses, Indexes
<1>1. Good(FindBy("passkey"),
         {<<"load", "passkey">>, <<"find", "passkey">>})
  BY Blocks
<1>2. Good(FindBy("passkey") \o UpdateLastLogin,
         {<<"load", "passkey">>, <<"find", "passkey">>, <<"again", "fail">>, <<"write", "login">>})
  <2>1. Good(UpdateLastLogin,
           {<<"again", "fail">>, <<"write", "login">>})
    BY LastLoginGood
  <2>. QED
    BY <1>1, <2>1, JoinedTo DEF Rank
<1>. QED
  BY <1>2

LEMMA PasskeyLoginShape == Shape("passkeyLogin", FindBy("passkey") \o UpdateLastLogin)
<1>. DEFINE T == {<<"load", "passkey">>, <<"find", "passkey">>, <<"again", "fail">>, <<"write", "login">>}
<1>a. T \subseteq StepsOf("passkeyLogin")
  BY StepsAre DEF FormKeys
<1>b. \A u \in T : u[1] \notin {"makePod", "absent", "put"} /\ u # <<"again", "purge">>
  BY DEF FormKeys
<1>c. Good(FindBy("passkey") \o UpdateLastLogin, T)
  BY PasskeyLoginGood
<1>. HIDE DEF T
<1>. QED
  BY <1>a, <1>b, <1>c, PlainShape

-----------------------------------------------------------------------------
(* Files and tasks are records. *)

USE AccountsAssumption

MaybeFiles == AccountFiles \cup {NoFile}
TaskTypes == BlankTasks \cup FormTasks \cup KeyTasks
AtWork == FormTasks \cup KeyTasks

LEMMA FilesAre ==
  /\ AccountFiles = [id : Ids, form : AccountForms, password : Passwords, passkeys : SUBSET Passkeys]
  /\ NoFile \notin AccountFiles
<1>1. ASSUME NEW a \in AccountFiles
      PROVE  a \in [id : Ids, form : AccountForms, password : Passwords, passkeys : SUBSET Passkeys] /\ a # NoFile
  BY DEF AccountFiles, Account, NoFile, Ids
<1>2. ASSUME NEW a \in [id : Ids, form : AccountForms, password : Passwords, passkeys : SUBSET Passkeys]
      PROVE  a \in AccountFiles
  <2>1. a = Account(a.id, a.form, a.password, a.passkeys)
    BY DEF Account
  <2>. QED
    BY <2>1 DEF AccountFiles
<1>. QED
  BY <1>1, <1>2

LEMMA FileParts ==
  ASSUME NEW a \in AccountFiles
  PROVE  /\ a.id \in Ids /\ a.form \in AccountForms /\ a.password \in Passwords /\ a.passkeys \subseteq Passkeys
         /\ a # NoFile
         /\ \A w \in Passwords : LET b == [a EXCEPT !.password = w]
                                 IN b \in AccountFiles /\ b.id = a.id /\ b.form = a.form
         /\ \A k \in SUBSET Passkeys : LET b == [a EXCEPT !.passkeys = k]
                                       IN b \in AccountFiles /\ b.id = a.id /\ b.form = a.form
<1>1. a \in [id : Ids, form : AccountForms, password : Passwords, passkeys : SUBSET Passkeys]
  BY FilesAre
<1>. QED
  BY <1>1, FilesAre

LEMMA NewFile ==
  ASSUME NEW i \in Ids, NEW f \in AccountForms, NEW w \in Passwords
  PROVE  Account(i, f, w, {}) \in AccountFiles /\ Account(i, f, w, {}).id = i /\ Account(i, f, w, {}).form = f
BY FilesAre DEF Account

LEMMA NoFileParts == NoFile.id = NoId /\ NoFile \notin AccountFiles /\ NoFile \in MaybeFiles
BY FilesAre DEF NoFile, MaybeFiles

LEMMA TaskParts ==
  ASSUME NEW r \in TaskTypes
  PROVE  /\ r \in BlankTasks \/ r \in AtWork
         /\ r.account \in MaybeFiles /\ r.copy \in SUBSET Pairs
         /\ r \in BlankTasks => /\ r.op \in {"idle", "done", "died"} /\ r.todo = <<>>
                                /\ r.account = NoFile /\ r.copy = {}
         /\ r \in FormTasks => r.op \in FormOps /\ r.form \in AccountForms
                               /\ r.password \in Passwords /\ r.new \in Passwords
         /\ r \in KeyTasks => r.op \in KeyOps /\ r.account \in AccountFiles
                              /\ r.form \in AccountForms /\ r.passkey \in Passkeys
         /\ r \in AtWork => r.todo \in Todos /\ r.op \in FormOps \cup KeyOps
         /\ r \in AtWork /\ r.op \in FormOps => r \in FormTasks
         /\ r \in AtWork /\ r.op \in KeyOps => r \in KeyTasks
<1>1. FormOps \cap KeyOps = {}
  BY DEF FormOps, KeyOps
<1>. QED
  BY <1>1 DEF TaskTypes, AtWork, BlankTasks, FormTasks, KeyTasks, MaybeFiles

\* An operation that goes on has the same name and was asked for with the same form.
Same(r, q) ==
  /\ q \in AtWork /\ q.op = r.op /\ q.form = r.form
  /\ q \in FormTasks <=> r \in FormTasks

LEMMA NewTodo ==
  ASSUME NEW r \in AtWork, NEW todo \in Todos
  PROVE  LET q == [r EXCEPT !.todo = todo]
         IN Same(r, q) /\ q.todo = todo /\ q.account = r.account /\ q.copy = r.copy
<1>1. FormOps \cap KeyOps = {}
  BY DEF FormOps, KeyOps
<1>2. CASE r \in FormTasks
  BY <1>1, <1>2 DEF AtWork, FormTasks, KeyTasks, Same
<1>3. CASE r \in KeyTasks
  BY <1>1, <1>3 DEF AtWork, FormTasks, KeyTasks, Same
<1>. QED
  BY <1>2, <1>3 DEF AtWork

LEMMA NewAccount ==
  ASSUME NEW r \in AtWork, NEW a \in AccountFiles
  PROVE  LET q == [r EXCEPT !.account = a]
         IN Same(r, q) /\ q.todo = r.todo /\ q.account = a /\ q.copy = r.copy
<1>1. FormOps \cap KeyOps = {}
  BY DEF FormOps, KeyOps
<1>2. CASE r \in FormTasks
  BY <1>1, <1>2 DEF AtWork, FormTasks, KeyTasks, Same
<1>3. CASE r \in KeyTasks
  BY <1>1, <1>3 DEF AtWork, FormTasks, KeyTasks, Same
<1>. QED
  BY <1>2, <1>3 DEF AtWork

LEMMA NewCopy ==
  ASSUME NEW r \in AtWork, NEW c \in SUBSET Pairs
  PROVE  LET q == [r EXCEPT !.copy = c]
         IN Same(r, q) /\ q.todo = r.todo /\ q.account = r.account /\ q.copy = c
<1>1. FormOps \cap KeyOps = {}
  BY DEF FormOps, KeyOps
<1>2. CASE r \in FormTasks
  BY <1>1, <1>2 DEF AtWork, FormTasks, KeyTasks, Same
<1>3. CASE r \in KeyTasks
  BY <1>1, <1>3 DEF AtWork, FormTasks, KeyTasks, Same
<1>. QED
  BY <1>2, <1>3 DEF AtWork

LEMMA Blank ==
  ASSUME NEW o \in {"done", "died"}
  PROVE  LET q == [Idle EXCEPT !.op = o]
         IN q \in BlankTasks /\ q.op = o /\ q.todo = <<>> /\ q.account = NoFile /\ q.copy = {}
BY DEF Idle, BlankTasks

LEMMA IdleParts == Idle \in BlankTasks /\ Idle.op = "idle" /\ Idle.todo = <<>> /\ Idle.account = NoFile
BY DEF Idle, BlankTasks

-----------------------------------------------------------------------------
(* A step of an operation. *)

Rest(t) == Tail(task[t].todo)

LEMMA WiderSeq == ASSUME NEW S, NEW T, S \subseteq T, NEW s \in Seq(S) PROVE s \in Seq(T)
OBVIOUS

LEMMA SecondStep ==
  ASSUME NEW S, NEW s \in Seq(S), s # <<>>
  PROVE  /\ Tail(s) # <<>> => Head(Tail(s)) = s[2] /\ 1 \in DOMAIN s /\ 2 \in DOMAIN s
         /\ 2 \in DOMAIN s => Tail(s) # <<>>
<1>1. ASSUME Tail(s) # <<>> PROVE Head(Tail(s)) = s[2] /\ 1 \in DOMAIN s /\ 2 \in DOMAIN s
  <2>1. Tail(s) \in Seq(S) /\ Len(Tail(s)) = Len(s) - 1
    BY TailParts
  <2>2. PICK r \in Seq(S) : r = Tail(s)
    BY <2>1
  <2>3. Head(r) = r[1] /\ Len(r) \in Nat \ {0}
    BY <1>1, <2>2, TailParts
  <2>4. Len(s) - 1 >= 1 /\ Len(s) \in Nat
    BY <2>1, <2>2, <2>3
  <2>5. 1 \in 1 .. Len(s) - 1
    BY <2>4
  <2>6. Tail(s)[1] = s[1 + 1]
    BY <2>5, TailParts
  <2>. QED
    BY <2>2, <2>3, <2>4, <2>6
<1>2. ASSUME 2 \in DOMAIN s PROVE Tail(s) # <<>>
  <2>1. Len(Tail(s)) = Len(s) - 1 /\ Len(s) \in Nat /\ 2 \in 1 .. Len(s)
    BY <1>2, TailParts
  <2>2. Len(Tail(s)) # 0
    BY <2>1
  <2>3. PICK e \in Seq(S) : e = Tail(s)
    BY TailParts
  <2>4. Len(e) # 0
    BY <2>2, <2>3
  <2>5. e # <<>>
    BY ONLY <2>4
  <2>. QED
    BY <2>3, <2>5
<1>. QED
  BY <1>1, <1>2

LEMMA NextStep ==
  ASSUME NEW t \in Tasks, task[t] \in TaskTypes, Shape(task[t].op, task[t].todo), Underway(t)
  PROVE  /\ task[t] \in AtWork /\ task[t].op \in FormOps \cup KeyOps
         /\ Step(t) = task[t].todo[1] /\ Step(t) = <<Step(t)[1], Step(t)[2]>>
         /\ KnownStep(task[t].op, Step(t)[1], Step(t)[2])
         /\ Rest(t) \in Todos /\ Shape(task[t].op, Rest(t))
         /\ ToDo(task[t].todo) = {Step(t)} \cup ToDo(Rest(t))
         /\ Step(t)[1] # "load" =>
              \A u \in ToDo(Rest(t)) : u[1] # "load" => u # Step(t) /\ Rank[Step(t)[1]] <= Rank[u[1]]
         /\ Step(t)[1] = "load" => /\ Rest(t) # <<>> /\ Head(Rest(t))[1] \in Uses
                                   /\ Head(Rest(t))[2] = Step(t)[2]
         /\ Step(t)[1] # "load" /\ Rest(t) # <<>> => Head(Rest(t))[1] \notin Uses
         /\ \A u \in ToDo(Rest(t)) : KnownStep(task[t].op, u[1], u[2]) /\ u = <<u[1], u[2]>>
<1>. DEFINE r == task[t]  s == r.todo
<1>1. r \in AtWork /\ r.op \in FormOps \cup KeyOps
  BY TaskParts DEF Underway
<1>2. s \in Seq(StepsOf(r.op)) /\ Paired(s) /\ Sorted(s) /\ Whole(r.op, s) /\ s # <<>>
  BY DEF Shape, Underway
<1>3. /\ Tail(s) \in Seq(StepsOf(r.op)) /\ Len(s) \in Nat \ {0} /\ Len(Tail(s)) = Len(s) - 1
      /\ DOMAIN s = 1 .. Len(s) /\ DOMAIN Tail(s) = 1 .. Len(s) - 1
      /\ \A n \in 1 .. Len(s) - 1 : Tail(s)[n] = s[n + 1]
      /\ Head(s) = s[1] /\ s[1] \in StepsOf(r.op)
  BY <1>2, TailParts
<1>4. Step(t) = s[1] /\ Rest(t) = Tail(s)
  BY <1>3 DEF Step, Rest
<1>5. Shape(r.op, Rest(t))
  BY <1>1, <1>2, <1>4, ShapeTail
<1>6. Rest(t) \in Todos
  <2>1. StepsOf(r.op) \subseteq UNION {StepsOf(op) : op \in FormOps \cup KeyOps}
    BY <1>1
  <2>2. PICK P, Q : P = StepsOf(r.op) /\ Q = UNION {StepsOf(op) : op \in FormOps \cup KeyOps}
    OBVIOUS
  <2>3. P \subseteq Q /\ Rest(t) \in Seq(P)
    BY <1>3, <1>4, <2>1, <2>2
  <2>4. Rest(t) \in Seq(Q)
    BY <2>3, WiderSeq
  <2>. QED
    BY <2>2, <2>4 DEF Todos
<1>7. Step(t) = <<Step(t)[1], Step(t)[2]>> /\ KnownStep(r.op, Step(t)[1], Step(t)[2])
  BY <1>1, <1>3, <1>4, StepsKnown
<1>8. ToDo(s) = {s[1]} \cup ToDo(Tail(s)) /\ ToDo(Tail(s)) \subseteq StepsOf(r.op)
  BY <1>2, TailToDo
<1>9. \A u \in ToDo(Rest(t)) : KnownStep(r.op, u[1], u[2]) /\ u = <<u[1], u[2]>>
  BY <1>1, <1>4, <1>8, StepsKnown
<1>10. Step(t)[1] # "load" =>
         \A u \in ToDo(Rest(t)) : u[1] # "load" => u # Step(t) /\ Rank[Step(t)[1]] <= Rank[u[1]]
  BY <1>2, <1>4, SortedTail
<1>11. Rest(t) # <<>> => Head(Rest(t)) = s[2] /\ 1 \in DOMAIN s /\ 2 \in DOMAIN s
  BY <1>2, <1>4, SecondStep
<1>12. Step(t)[1] = "load" => /\ Rest(t) # <<>> /\ Head(Rest(t))[1] \in Uses
                              /\ Head(Rest(t))[2] = Step(t)[2]
  <2>1. SUFFICES ASSUME Step(t)[1] = "load"
                 PROVE  Rest(t) # <<>> /\ s[2][1] \in Uses /\ s[2][2] = s[1][2]
    BY <1>4, <1>11
  <2>2. 1 \in DOMAIN s
    BY <1>3
  <2>3. 1 + 1 \in DOMAIN s /\ s[1 + 1][1] \in Uses /\ s[1 + 1][2] = s[1][2]
    BY <1>2, <1>4, <2>1, <2>2 DEF Paired
  <2>4. 2 \in DOMAIN s
    BY <2>3
  <2>. QED
    BY <1>2, <1>4, <2>3, <2>4, SecondStep
<1>13. Step(t)[1] # "load" /\ Rest(t) # <<>> => Head(Rest(t))[1] \notin Uses
  <2>1. SUFFICES ASSUME Step(t)[1] # "load", Rest(t) # <<>>, s[2][1] \in Uses PROVE FALSE
    BY <1>11
  <2>2. 2 \in DOMAIN s /\ 2 > 1
    BY <1>11, <2>1
  <2>3. s[2 - 1] = <<"load", s[2][2]>>
    BY <1>2, <2>1, <2>2 DEF Paired
  <2>4. s[1] = <<"load", s[2][2]>>
    BY <2>3
  <2>5. s[1][1] = "load"
    BY <2>4
  <2>. QED
    BY <1>4, <2>1, <2>5
<1>. QED
  BY <1>1, <1>4, <1>5, <1>6, <1>7, <1>8, <1>9, <1>10, <1>12, <1>13

\* The task has gone on to `todo`, with an account and a copy in hand.
Goes(t, todo, a, c) ==
  /\ \A u \in Tasks \ {t} : task'[u] = task[u]
  /\ Same(task[t], task'[t])
  /\ task'[t].todo = todo /\ task'[t].account = a /\ task'[t].copy = c
  /\ task' \in [Tasks -> TaskTypes]

LEMMA GoesOn ==
  ASSUME task \in [Tasks -> TaskTypes], NEW t \in Tasks, task[t] \in AtWork, Rest(t) \in Todos,
         Continue(t, task[t])
  PROVE  Goes(t, Rest(t), task[t].account, task[t].copy)
<1>1. PICK q : q = [task[t] EXCEPT !.todo = Rest(t)]
  OBVIOUS
<1>2. Same(task[t], q) /\ q.todo = Rest(t) /\ q.account = task[t].account /\ q.copy = task[t].copy
  BY <1>1, NewTodo
<1>3. task' = [task EXCEPT ![t] = q]
  BY <1>1 DEF Continue, Rest
<1>. QED
  BY <1>2, <1>3 DEF Goes, Same, TaskTypes, AtWork

LEMMA GoesOnWith ==
  ASSUME task \in [Tasks -> TaskTypes], NEW t \in Tasks, task[t] \in AtWork, Rest(t) \in Todos,
         NEW a \in AccountFiles, Continue(t, [task[t] EXCEPT !.account = a])
  PROVE  Goes(t, Rest(t), a, task[t].copy)
<1>1. PICK p : p = [task[t] EXCEPT !.account = a]
  OBVIOUS
<1>2. Same(task[t], p) /\ p.todo = task[t].todo /\ p.account = a /\ p.copy = task[t].copy
  BY <1>1, NewAccount
<1>3. PICK q : q = [p EXCEPT !.todo = Rest(t)]
  OBVIOUS
<1>4. Same(p, q) /\ q.todo = Rest(t) /\ q.account = p.account /\ q.copy = p.copy
  BY <1>2, <1>3, NewTodo DEF Same
<1>5. task' = [task EXCEPT ![t] = q]
  BY <1>1, <1>2, <1>3 DEF Continue, Rest
<1>. QED
  BY <1>2, <1>4, <1>5 DEF Goes, Same, TaskTypes, AtWork

LEMMA GoesOnWithCopy ==
  ASSUME task \in [Tasks -> TaskTypes], NEW t \in Tasks, task[t] \in AtWork, Rest(t) \in Todos,
         NEW c \in SUBSET Pairs, Continue(t, [task[t] EXCEPT !.copy = c])
  PROVE  Goes(t, Rest(t), task[t].account, c)
<1>1. PICK p : p = [task[t] EXCEPT !.copy = c]
  OBVIOUS
<1>2. Same(task[t], p) /\ p.todo = task[t].todo /\ p.account = task[t].account /\ p.copy = c
  BY <1>1, NewCopy
<1>3. PICK q : q = [p EXCEPT !.todo = Rest(t)]
  OBVIOUS
<1>4. Same(p, q) /\ q.todo = Rest(t) /\ q.account = p.account /\ q.copy = p.copy
  BY <1>2, <1>3, NewTodo DEF Same
<1>5. task' = [task EXCEPT ![t] = q]
  BY <1>1, <1>2, <1>3 DEF Continue, Rest
<1>. QED
  BY <1>2, <1>4, <1>5 DEF Goes, Same, TaskTypes, AtWork

LEMMA GoesTo ==
  ASSUME task \in [Tasks -> TaskTypes], NEW t \in Tasks, task[t] \in AtWork, NEW todo \in Todos,
         task' = [task EXCEPT ![t].todo = todo]
  PROVE  Goes(t, todo, task[t].account, task[t].copy)
<1>1. PICK q : q = [task[t] EXCEPT !.todo = todo]
  OBVIOUS
<1>2. Same(task[t], q) /\ q.todo = todo /\ q.account = task[t].account /\ q.copy = task[t].copy
  BY <1>1, NewTodo
<1>3. task' = [task EXCEPT ![t] = q]
  BY <1>1
<1>. QED
  BY <1>2, <1>3 DEF Goes, Same, TaskTypes, AtWork

\* The task has ended.
Ends(t) ==
  /\ \A u \in Tasks \ {t} : task'[u] = task[u]
  /\ task'[t] \in BlankTasks /\ task'[t].op = "done" /\ task'[t].todo = <<>>
  /\ task'[t].account = NoFile
  /\ task' \in [Tasks -> TaskTypes]

LEMMA EndEnds ==
  ASSUME task \in [Tasks -> TaskTypes], NEW t \in Tasks, End(t)
  PROVE  Ends(t)
<1>1. PICK q : q = [Idle EXCEPT !.op = "done"]
  OBVIOUS
<1>2. q \in BlankTasks /\ q.op = "done" /\ q.todo = <<>> /\ q.account = NoFile
  BY <1>1, Blank
<1>3. task' = [task EXCEPT ![t] = q]
  BY <1>1 DEF End
<1>. QED
  BY <1>2, <1>3 DEF Ends, TaskTypes

-----------------------------------------------------------------------------
(* What each step does to its task.                                        *)

LEMMA NoSteps ==
  /\ ToDo(<<>>) = {}
  /\ \A op : Shape(op, <<>>)
<1>1. PICK e : e = <<>>
  OBVIOUS
<1>2. Len(e) = 0 /\ \A S : e \in Seq(S)
  BY <1>1
<1>3. \A n : n \notin DOMAIN e
  BY <1>1
<1>4. ToDo(e) = {}
  BY <1>3 DEF ToDo
<1>5. Paired(e) /\ Sorted(e)
  BY <1>3 DEF Paired, Sorted
<1>6. \A op : Whole(op, e)
  BY <1>4 DEF Whole
<1>. QED
  BY <1>1, <1>2, <1>4, <1>5, <1>6 DEF Shape

LEMMA TodosOf ==
  ASSUME NEW op \in FormOps \cup KeyOps, NEW todo, Shape(op, todo)
  PROVE  todo \in Todos
<1>1. PICK P, Q : P = StepsOf(op) /\ Q = UNION {StepsOf(o) : o \in FormOps \cup KeyOps}
  OBVIOUS
<1>2. P \subseteq Q /\ todo \in Seq(P)
  BY <1>1 DEF Shape
<1>3. todo \in Seq(Q)
  BY <1>2, WiderSeq
<1>. QED
  BY <1>1, <1>3 DEF Todos

LEMMA OnlyPurgeShape ==
  ASSUME NEW todo
  PROVE  /\ Shape("delete", OnlyPurge(todo)) /\ OnlyPurge(todo) \in Todos
         /\ \A s \in ToDo(OnlyPurge(todo)) : s[1] = "purge"
         /\ OnlyPurge(todo) # <<>> => Head(OnlyPurge(todo))[1] = "purge"
<1>1. Good(<<<<"purge", "pod">>>>, {<<"purge", "pod">>})
  BY OneStep DEF StepNames, Uses
<1>2. <<"purge", "pod">> \in StepsOf("delete")
  BY StepsAre
<1>3. Shape("delete", <<<<"purge", "pod">>>>)
  <2>1. PICK s, T : s = <<<<"purge", "pod">>>> /\ T = {<<"purge", "pod">>}
    OBVIOUS
  <2>2. /\ \A u \in T : u[1] = "purge"
        /\ <<"put", "file">> \notin T /\ <<"again", "purge">> \notin T
    BY <2>1
  <2>3. Good(s, T) /\ T \subseteq StepsOf("delete")
    BY <1>1, <1>2, <2>1
  <2>4. Shape("delete", s)
    BY <2>2, <2>3, ShapeOf
  <2>. QED
    BY <2>1, <2>4
<1>4. Shape("delete", OnlyPurge(todo))
  BY <1>3, NoSteps DEF OnlyPurge
<1>5. ToDo(OnlyPurge(todo)) \subseteq {<<"purge", "pod">>}
  BY <1>1, NoSteps DEF OnlyPurge, Good
<1>6. OnlyPurge(todo) # <<>> => Head(OnlyPurge(todo)) = <<"purge", "pod">>
  BY DEF OnlyPurge
<1>. QED
  BY <1>4, <1>5, <1>6, TodosOf DEF FormOps

LEMMA ByEmailTodo ==
  /\ Shape("login", ByEmail) /\ ByEmail \in Todos
  /\ \E s \in ToDo(ByEmail) : s[1] = "find"
  /\ Head(ByEmail)[1] \notin Uses
<1>1. Shape("login", ByEmail) /\ ByEmail \in Todos
  BY ByEmailShape, TodosOf DEF FormOps
<1>2. PICK s : s = ByEmail
  OBVIOUS
<1>3. \E T : Good(s, T) /\ <<"find", "email">> \in T
  BY ByEmailGood, <1>2
<1>4. <<"find", "email">> \in ToDo(s) /\ s # <<>> /\ s[1][1] \notin Uses
  BY <1>3 DEF Good
<1>5. Head(s) = s[1]
  BY <1>3, TailParts DEF Good
<1>. QED
  BY <1>1, <1>2, <1>4, <1>5

-----------------------------------------------------------------------------
\* A task of which a step is due.
Due(t) == NamesTypes /\ t \in Tasks /\ Shape(task[t].op, task[t].todo) /\ Underway(t)

LEMMA DueParts ==
  ASSUME NEW t, Due(t)
  PROVE  /\ t \in Tasks /\ task \in [Tasks -> TaskTypes] /\ task[t] \in AtWork /\ Rest(t) \in Todos
         /\ task[t].account \in MaybeFiles /\ task[t].copy \in SUBSET Pairs
         /\ KnownStep(task[t].op, Step(t)[1], Step(t)[2]) /\ Step(t) = <<Step(t)[1], Step(t)[2]>>
<1>1. task \in [Tasks -> TaskTypes] /\ t \in Tasks
  BY DEF Due, NamesTypes, TaskTypes
<1>. QED
  BY <1>1, NextStep, TaskParts DEF Due

LEMMA MakePodEffect ==
  ASSUME NEW t, Due(t), MakePod(t)
  PROVE  /\ UNCHANGED <<files, index, mishaps, failed, raced>> /\ Step(t)[1] = "makePod"
         /\ \/ /\ podOf[task[t].form.pod] = NoId
               /\ podOf' = [podOf EXCEPT ![task[t].form.pod] = t]
               /\ Goes(t, Rest(t), task[t].account, task[t].copy)
            \/ Ends(t) /\ UNCHANGED podOf
BY DueParts, GoesOn, EndEnds DEF MakePod, At

LEMMA LoadEffect ==
  ASSUME NEW t, Due(t), Load(t)
  PROVE  /\ UNCHANGED <<files, index, podOf, mishaps, failed, raced>>
         /\ Step(t)[1] = "load" /\ Step(t)[2] \in Indexes
         /\ Goes(t, Rest(t), task[t].account, index[Step(t)[2]])
<1>1. Step(t)[1] = "load" /\ Step(t)[2] \in Indexes
  BY DueParts DEF Load, At, KnownStep
<1>2. index[Step(t)[2]] \in SUBSET Pairs
  BY <1>1 DEF Due, NamesTypes
<1>. QED
  BY <1>1, <1>2, DueParts, GoesOnWithCopy DEF Load, At

\* What an index leads to is a file that there is, or none.
LEMMA FoundFile ==
  ASSUME NEW t, Due(t), NEW x
  PROVE  Found(t, x) # NoFile => \E i \in Ids : Found(t, x) = files[i] /\ There(i)
<1>. DEFINE ids == Led(t, x)
<1>1. ids \subseteq Ids
  BY DueParts DEF Pairs, Led
<1>2. CASE ids = {}
  BY <1>2 DEF Found
<1>3. CASE ids # {}
  <2>1. PICK i : i = CHOOSE j \in ids : TRUE
    OBVIOUS
  <2>2. i \in ids
    BY <1>3, <2>1
  <2>3. Found(t, x) = files[i]
    BY <1>3, <2>1 DEF Found
  <2>. QED
    BY <1>1, <2>2, <2>3 DEF There
<1>. QED
  BY <1>2, <1>3

LEMMA FindEffect ==
  ASSUME NEW t, Due(t), FindById(t)
  PROVE  /\ UNCHANGED <<files, index, podOf, mishaps, failed, raced>> /\ Step(t)[1] = "find"
         /\ \/ \E i \in Ids : There(i) /\ Goes(t, Rest(t), files[i], task[t].copy)
            \/ /\ task[t].op = "login"
               /\ Goes(t, ByEmail, task[t].account, task[t].copy)
            \/ Ends(t)
<1>1. PICK x, a : x = Step(t)[2] /\ a = Found(t, x)
  OBVIOUS
<1>2. /\ UNCHANGED <<files, index, podOf, mishaps, failed, raced>> /\ Step(t)[1] = "find"
      /\ CASE a # NoFile -> Continue(t, [task[t] EXCEPT !.account = a])
           [] a = NoFile /\ task[t].op = "login" /\ Step(t)[2] = "username" ->
                task' = [task EXCEPT ![t].todo = ByEmail]
           [] OTHER -> End(t)
  BY <1>1 DEF FindById, At
<1>3. CASE a # NoFile
  <2>1. Continue(t, [task[t] EXCEPT !.account = a])
    BY <1>2, <1>3, Zenon
  <2>2. PICK i \in Ids : a = files[i] /\ There(i)
    BY <1>1, <1>3, FoundFile
  <2>3. a \in AccountFiles
    BY <1>3, <2>2 DEF Due, NamesTypes
  <2>4. Goes(t, Rest(t), a, task[t].copy)
    BY <2>1, <2>3, DueParts, GoesOnWith
  <2>. QED
    BY <1>2, <2>2, <2>4
<1>4. CASE a = NoFile /\ task[t].op = "login" /\ Step(t)[2] = "username"
  <2>1. task' = [task EXCEPT ![t].todo = ByEmail]
    BY <1>2, <1>4, Zenon
  <2>2. Goes(t, ByEmail, task[t].account, task[t].copy)
    BY <2>1, DueParts, ByEmailTodo, GoesTo
  <2>. QED
    BY <1>2, <1>4, <2>2
<1>5. CASE a = NoFile /\ ~ (task[t].op = "login" /\ Step(t)[2] = "username")
  <2>1. End(t)
    BY <1>2, <1>5, Zenon
  <2>. QED
    BY <1>2, <2>1, DueParts, EndEnds
<1>. QED
  BY <1>3, <1>4, <1>5

LEMMA CheckAbsentEffect ==
  ASSUME NEW t, Due(t), CheckAbsent(t)
  PROVE  /\ UNCHANGED <<files, index, mishaps, failed>> /\ Step(t)[1] = "absent"
         /\ \/ Goes(t, Rest(t), task[t].account, task[t].copy) /\ UNCHANGED <<podOf, raced>>
            \/ /\ Ends(t)
               /\ podOf' = [podOf EXCEPT ![task[t].form.pod] = NoId]
               /\ raced' = (raced \/ podOf[task[t].form.pod] # t)
BY DueParts, GoesOn, EndEnds DEF CheckAbsent, At

LEMMA VerifyEffect ==
  ASSUME NEW t, Due(t), Verify(t)
  PROVE  /\ UNCHANGED <<files, index, podOf, mishaps, failed, raced>> /\ Step(t)[1] = "verify"
         /\ Goes(t, Rest(t), task[t].account, task[t].copy) \/ Ends(t)
BY DueParts, GoesOn, EndEnds DEF Verify, At

LEMMA PutEffect ==
  ASSUME NEW t, Due(t), Put(t)
  PROVE  /\ UNCHANGED <<index, podOf, mishaps, failed>> /\ Step(t)[1] = "put"
         /\ raced' = (raced \/ Overtaken(task[t].form))
         /\ \E a \in AccountFiles : /\ a.id = t /\ a.form = task[t].form
                                    /\ files' = [files EXCEPT ![t] = a]
                                    /\ Goes(t, Rest(t), a, task[t].copy)
<1>1. PICK a : a = Account(t, task[t].form, task[t].password, {})
  OBVIOUS
<1>2. /\ UNCHANGED <<index, podOf, mishaps, failed>> /\ Step(t)[1] = "put"
      /\ raced' = (raced \/ Overtaken(task[t].form))
      /\ files' = [files EXCEPT ![t] = a]
      /\ Continue(t, [task[t] EXCEPT !.account = a])
  BY <1>1 DEF Put, At
<1>3. task[t] \in FormTasks
  BY <1>2, DueParts, TaskParts DEF KnownStep, FormOps
<1>4. a \in AccountFiles /\ a.id = t /\ a.form = task[t].form
  BY <1>1, <1>3, TaskParts, DueParts, NewFile DEF TaskTypes, Ids
<1>5. Goes(t, Rest(t), a, task[t].copy)
  BY <1>2, <1>4, DueParts, GoesOnWith
<1>. QED
  BY <1>2, <1>4, <1>5

LEMMA AgainEffect ==
  ASSUME NEW t, Due(t), Again(t), task[t].account.id \in Ids
  PROVE  /\ UNCHANGED <<files, index, podOf, mishaps, failed, raced>> /\ Step(t)[1] = "again"
         /\ \/ There(task[t].account.id) /\ Goes(t, Rest(t), files[task[t].account.id], task[t].copy)
            \/ /\ ~ There(task[t].account.id) /\ task[t].op = "delete"
               /\ Goes(t, OnlyPurge(task[t].todo), task[t].account, task[t].copy)
            \/ Ends(t) /\ task[t].op # "delete"
<1>1. PICK a : a = files[task[t].account.id]
  OBVIOUS
<1>2. /\ UNCHANGED <<files, index, podOf, mishaps, failed, raced>> /\ Step(t)[1] = "again"
      /\ CASE a # NoFile /\ ~ Needless(t, a) -> Continue(t, [task[t] EXCEPT !.account = a])
           [] a = NoFile /\ Step(t)[2] = "purge" ->
                task' = [task EXCEPT ![t].todo = OnlyPurge(@)]
           [] OTHER -> End(t)
  BY <1>1 DEF Again, At
<1>3. Step(t)[2] = "purge" <=> task[t].op = "delete"
  BY <1>2, DueParts DEF KnownStep
<1>4. CASE a # NoFile /\ ~ Needless(t, a)
  <2>1. Continue(t, [task[t] EXCEPT !.account = a])
    BY <1>2, <1>4, Zenon
  <2>2. a \in AccountFiles
    BY <1>1, <1>4 DEF Due, NamesTypes
  <2>3. Goes(t, Rest(t), a, task[t].copy)
    BY <2>1, <2>2, DueParts, GoesOnWith
  <2>. QED
    BY <1>1, <1>2, <1>4, <2>3 DEF There
<1>5. CASE a = NoFile /\ Step(t)[2] = "purge"
  <2>1. task' = [task EXCEPT ![t].todo = OnlyPurge(@)]
    BY <1>2, <1>5, Zenon
  <2>2. PICK todo : todo = OnlyPurge(task[t].todo)
    OBVIOUS
  <2>3. todo \in Todos
    BY <2>2, OnlyPurgeShape
  <2>4. task' = [task EXCEPT ![t].todo = todo]
    BY <2>1, <2>2, DueParts
  <2>5. Goes(t, todo, task[t].account, task[t].copy)
    BY <2>3, <2>4, DueParts, GoesTo
  <2>. QED
    BY <1>1, <1>2, <1>3, <1>5, <2>2, <2>5 DEF There
<1>6. CASE ~ (a # NoFile /\ ~ Needless(t, a)) /\ ~ (a = NoFile /\ Step(t)[2] = "purge")
  <2>1. End(t)
    BY <1>2, <1>6, Zenon
  <2>2. task[t].op # "delete"
    BY <1>3, <1>6 DEF Needless
  <2>. QED
    BY <1>2, <2>1, <2>2, DueParts, EndEnds
<1>. QED
  BY <1>4, <1>5, <1>6

\* What is written back is the account with something changed, and the same names.
LEMMA WriteEffect ==
  ASSUME NEW t, Due(t), Write(t), task[t].account \in AccountFiles
  PROVE  /\ UNCHANGED <<index, podOf, mishaps, failed>> /\ Step(t)[1] = "write"
         /\ raced' = (raced \/ files[task[t].account.id] # task[t].account)
         /\ Goes(t, Rest(t), task[t].account, task[t].copy)
         /\ \E a \in AccountFiles : /\ a.id = task[t].account.id /\ a.form = task[t].account.form
                                    /\ files' = [files EXCEPT ![task[t].account.id] = a]
<1>1. PICK a : a = Amended(t)
  OBVIOUS
<1>2. /\ UNCHANGED <<index, podOf, mishaps, failed>> /\ Step(t)[1] = "write"
      /\ raced' = (raced \/ files[task[t].account.id] # task[t].account)
      /\ Continue(t, task[t])
      /\ files' = [files EXCEPT ![task[t].account.id] = a]
  BY <1>1 DEF Write, At
<1>3. KnownStep(task[t].op, Step(t)[1], Step(t)[2]) /\ task[t] \in AtWork
  BY DueParts
<1>4. a \in AccountFiles /\ a.id = task[t].account.id /\ a.form = task[t].account.form
  <2>1. CASE Step(t)[2] = "change"
    <3>1. a = [task[t].account EXCEPT !.password = task[t].new]
      BY <1>1, <2>1, Zenon DEF Amended
    <3>2. task[t] \in FormTasks
      BY <1>2, <1>3, <2>1, TaskParts DEF KnownStep, FormOps, TaskTypes, AtWork
    <3>3. task[t].new \in Passwords
      BY <3>2, TaskParts DEF TaskTypes
    <3>. QED
      BY <3>1, <3>3, FileParts
  <2>2. CASE Step(t)[2] = "addPasskey"
    <3>1. a = [task[t].account EXCEPT !.passkeys = @ \cup {task[t].passkey}]
      BY <1>1, <2>2, Zenon DEF Amended
    <3>2. task[t] \in KeyTasks
      BY <1>2, <1>3, <2>2, TaskParts DEF KnownStep, KeyOps, TaskTypes, AtWork
    <3>3. task[t].account.passkeys \cup {task[t].passkey} \in SUBSET Passkeys
      BY <3>2, TaskParts, FileParts DEF TaskTypes
    <3>4. a = [task[t].account EXCEPT !.passkeys = task[t].account.passkeys \cup {task[t].passkey}]
      BY <3>1, FilesAre
    <3>. QED
      BY <3>3, <3>4, FileParts
  <2>3. CASE Step(t)[2] = "removePasskey"
    <3>1. a = [task[t].account EXCEPT !.passkeys = @ \ {task[t].passkey}]
      BY <1>1, <2>3, Zenon DEF Amended
    <3>2. task[t].account.passkeys \ {task[t].passkey} \in SUBSET Passkeys
      BY FileParts
    <3>3. a = [task[t].account EXCEPT !.passkeys = task[t].account.passkeys \ {task[t].passkey}]
      BY <3>1, FilesAre
    <3>. QED
      BY <3>2, <3>3, FileParts
  <2>4. CASE Step(t)[2] \notin {"change", "addPasskey", "removePasskey"}
    <3>1. a = task[t].account
      BY <1>1, <2>4 DEF Amended
    <3>. QED
      BY <3>1
  <2>. QED
    BY <2>1, <2>2, <2>3, <2>4
<1>5. Goes(t, Rest(t), task[t].account, task[t].copy)
  BY <1>2, DueParts, GoesOn
<1>. QED
  BY <1>2, <1>4, <1>5

LEMMA SaveEnteredEffect ==
  ASSUME NEW t, Due(t), SaveEntered(t)
  PROVE  /\ UNCHANGED <<files, podOf, mishaps, failed>> /\ Step(t)[1] = "enter" /\ Step(t)[2] \in Indexes
         /\ Goes(t, Rest(t), task[t].account, task[t].copy)
         /\ index' = [index EXCEPT ![Step(t)[2]] = Others(t, Step(t)[2]) \cup {Mine(t, Step(t)[2])}]
         /\ raced' = (raced \/ index[Step(t)[2]] # task[t].copy \/ files[task[t].account.id] = NoFile
                            \/ \E u \in Tasks : Deletes(u, task[t].account.id))
BY DueParts, GoesOn DEF SaveEntered, At, KnownStep

LEMMA SaveLeftEffect ==
  ASSUME NEW t, Due(t), SaveLeft(t)
  PROVE  /\ UNCHANGED <<files, podOf, mishaps, failed>> /\ Step(t)[1] = "leave" /\ Step(t)[2] \in Indexes
         /\ Goes(t, Rest(t), task[t].account, task[t].copy)
         /\ index' = [index EXCEPT ![Step(t)[2]] = Others(t, Step(t)[2])]
         /\ raced' = (raced \/ index[Step(t)[2]] # task[t].copy
                            \/ index[Step(t)[2]] \ Others(t, Step(t)[2]) \notin {{}, {Mine(t, Step(t)[2])}})
BY DueParts, GoesOn DEF SaveLeft, At, KnownStep

LEMMA RemoveEffect ==
  ASSUME NEW t, Due(t), Remove(t)
  PROVE  /\ UNCHANGED <<index, podOf, mishaps, failed, raced>> /\ Step(t)[1] = "remove"
         /\ Goes(t, Rest(t), task[t].account, task[t].copy)
         /\ files' = [files EXCEPT ![task[t].account.id] = NoFile]
BY DueParts, GoesOn DEF Remove, At

LEMMA PurgeEffect ==
  ASSUME NEW t, Due(t), Purge(t)
  PROVE  /\ UNCHANGED <<files, index, mishaps, failed>> /\ Step(t)[1] = "purge"
         /\ Goes(t, Rest(t), task[t].account, task[t].copy)
         /\ \/ /\ podOf' = [podOf EXCEPT ![task[t].account.form.pod] = NoId]
               /\ raced' = (raced \/ podOf[task[t].account.form.pod] \notin {NoId, task[t].account.id})
            \/ UNCHANGED <<podOf, raced>>
BY DueParts, GoesOn DEF Purge, At

-----------------------------------------------------------------------------
(* Whose account it is, from step to step.                                 *)

\* Who is born stays so.
Grows == \A i \in Ids : Born(i) => (Born(i))'

LEMMA DueNames ==
  ASSUME NamesTypes, NEW g, NamedBy(g), NEW t \in Tasks, Underway(t)
  PROVE  Due(t) /\ InHand(t, g)
BY DEF Due, NamedBy, TasksInv

LEMMA GoesOp ==
  ASSUME NEW t \in Tasks, NEW todo, NEW a, NEW c, Goes(t, todo, a, c)
  PROVE  task'[t].op = task[t].op /\ task[t].op \in FormOps \cup KeyOps /\ task[t].op # "died"
<1>1. task'[t] \in AtWork /\ task'[t] \in TaskTypes /\ task'[t].op = task[t].op
  BY DEF Goes, Same
<1>2. task'[t].op \in FormOps \cup KeyOps
  BY <1>1, TaskParts
<1>. QED
  BY <1>1, <1>2 DEF FormOps, KeyOps

LEMMA GoesGrows ==
  ASSUME NEW t \in Tasks, NEW todo, NEW a, NEW c, Goes(t, todo, a, c),
         task[t].op = "register" => ToDo(todo) \subseteq ToDo(task[t].todo)
  PROVE  Grows
<1>1. SUFFICES ASSUME NEW i \in Tasks, task[i].op \in {"register", "died"}, ~ Putting(i)
               PROVE  task'[i].op \in {"register", "died"} /\ <<"put", "file">> \notin ToDo(task'[i].todo)
  BY DEF Grows, Born, Putting
<1>2. CASE i = t
  <2>1. task[t].op = "register"
    BY <1>1, <1>2, GoesOp
  <2>. QED
    BY <1>1, <1>2, <2>1 DEF Goes, Same, Putting
<1>3. CASE i # t
  BY <1>1, <1>3 DEF Goes, Putting
<1>. QED
  BY <1>2, <1>3

\* A registration does not end before its file is there.
LEMMA EndsGrows ==
  ASSUME NEW t \in Tasks, Ends(t), Underway(t), task[t] \in TaskTypes,
         task[t].op = "register" => Putting(t)
  PROVE  Grows
<1>1. SUFFICES ASSUME NEW i \in Tasks, task[i].op \in {"register", "died"}, ~ Putting(i)
               PROVE  task'[i].op \in {"register", "died"} /\ <<"put", "file">> \notin ToDo(task'[i].todo)
  BY DEF Grows, Born, Putting
<1>2. i # t
  BY <1>1, TaskParts DEF Underway, AtWork, FormOps, KeyOps
<1>. QED
  BY <1>1, <1>2 DEF Ends, Putting

LEMMA ListsGrow ==
  ASSUME Grows, NEW x, NEW g
  PROVE  Lists(x, g) \subseteq (Lists(x, g))'
<1>1. BornIds \subseteq BornIds'
  BY DEF Grows, BornIds
<1>. QED
  BY <1>1 DEF Lists

LEMMA OthersKeep ==
  ASSUME NEW g, NEW u \in Tasks, task'[u] = task[u], Grows, InHand(u, g),
         task[u].account \in MaybeFiles
  PROVE  (InHand(u, g))'
<1>1. task[u].account # NoFile => (Born(task[u].account.id))'
  BY FileParts DEF Grows, InHand, MaybeFiles
<1>2. PICK x : x = Step(u)[2]
  OBVIOUS
<1>4. task[u].todo # <<>> /\ Step(u)[1] \in Uses => task[u].copy \subseteq (Lists(x, g))'
  BY <1>2, ListsGrow DEF InHand
<1>3. Step(u)' = Step(u) /\ Putting(u)' = Putting(u)
  BY DEF Step, Putting
<1>. QED
  BY <1>1, <1>2, <1>3, <1>4 DEF InHand

LEMMA FilesKeep ==
  ASSUME NEW g, Grows, FilesNamed(g), UNCHANGED files
  PROVE  (FilesNamed(g))'
BY DEF Grows, FilesNamed

LEMMA IndexKeeps ==
  ASSUME NEW g, Grows, IndexNamed(g), UNCHANGED index
  PROVE  (IndexNamed(g))'
BY ListsGrow DEF IndexNamed

LEMMA GoesNames ==
  ASSUME NamesTypes, NEW g, TasksInv(g), NEW t \in Tasks, NEW todo, NEW a, NEW c, Goes(t, todo, a, c),
         Grows, Shape(task[t].op, todo),
         a # NoFile => a.id \in Ids /\ (Born(a.id))' /\ a.form = g[a.id],
         todo # <<>> /\ a = NoFile => \E s \in ToDo(todo) : s[1] \in {"find", "put"},
         todo # <<>> /\ Head(todo)[1] \in Uses => c \subseteq Lists(Head(todo)[2], g),
         task[t].op = "register" /\ <<"put", "file">> \notin ToDo(todo) => a.id = t
  PROVE  (TasksInv(g))'
<1>1. SUFFICES ASSUME NEW u \in Tasks
               PROVE  /\ task'[u] \in TaskTypes /\ Shape(task'[u].op, task'[u].todo)
                      /\ (InHand(u, g))'
  BY DEF TasksInv, TaskTypes
<1>2. CASE u # t
  <2>1. task'[u] = task[u] /\ task[u] \in TaskTypes
    BY <1>1, <1>2 DEF Goes, NamesTypes, TaskTypes
  <2>2. Shape(task[u].op, task[u].todo) /\ InHand(u, g)
    BY <1>1 DEF TasksInv
  <2>. QED
    BY <1>1, <2>1, <2>2, OthersKeep, TaskParts
<1>3. CASE u = t
  <2>1. /\ task'[t] \in TaskTypes /\ task'[t].op = task[t].op /\ task'[t].form = task[t].form
        /\ task'[t].todo = todo /\ task'[t].account = a /\ task'[t].copy = c
    BY DEF Goes, Same
  <2>2. (Step(t))' = Head(todo) /\ ((Putting(t))' <=> <<"put", "file">> \in ToDo(todo))
    BY <2>1 DEF Step, Putting
  <2>3. todo # <<>> /\ Head(todo)[1] \in Uses => c \subseteq (Lists(Head(todo)[2], g))'
    BY ListsGrow
  <2>4. task[t].op = "register" => task[t].form = g[t]
    BY DEF TasksInv, InHand
  <2>5. (InHand(t, g))'
    BY <2>1, <2>2, <2>3, <2>4 DEF InHand
  <2>. QED
    BY <1>3, <2>1, <2>5
<1>. QED
  BY <1>2, <1>3

LEMMA EndsNames ==
  ASSUME NamesTypes, NEW g, TasksInv(g), NEW t \in Tasks, Ends(t), Grows
  PROVE  (TasksInv(g))'
<1>1. SUFFICES ASSUME NEW u \in Tasks
               PROVE  /\ task'[u] \in TaskTypes /\ Shape(task'[u].op, task'[u].todo)
                      /\ (InHand(u, g))'
  BY DEF TasksInv, TaskTypes
<1>2. CASE u # t
  <2>1. task'[u] = task[u] /\ task[u] \in TaskTypes
    BY <1>1, <1>2 DEF Ends, NamesTypes, TaskTypes
  <2>2. Shape(task[u].op, task[u].todo) /\ InHand(u, g)
    BY <1>1 DEF TasksInv
  <2>. QED
    BY <1>1, <2>1, <2>2, OthersKeep, TaskParts
<1>3. CASE u = t
  <2>1. /\ task'[t] \in TaskTypes /\ task'[t].op = "done"
        /\ task'[t].todo = <<>> /\ task'[t].account = NoFile
    BY DEF Ends
  <2>2. (InHand(t, g))'
    BY <2>1 DEF InHand
  <2>. QED
    BY <1>3, <2>1, <2>2, NoSteps
<1>. QED
  BY <1>2, <1>3

-----------------------------------------------------------------------------
\* Whatever comes after an account has been found or made is done with one in hand.
LEMMA AccountHeld ==
  ASSUME NEW t, Due(t), NEW g, InHand(t, g), Step(t)[1] \in StepNames, Rank[Step(t)[1]] >= 5
  PROVE  /\ task[t].account \in AccountFiles /\ task[t].account.id \in Ids
         /\ Born(task[t].account.id) /\ task[t].account.form = g[task[t].account.id]
<1>1. task[t] \in TaskTypes /\ t \in Tasks /\ task[t].account \in MaybeFiles
  BY DueParts
<1>2. task[t].account # NoFile
  <2>1. SUFFICES ASSUME task[t].account = NoFile PROVE FALSE
    OBVIOUS
  <2>2. PICK s \in ToDo(task[t].todo) : s[1] \in {"find", "put"}
    BY <2>1 DEF InHand, Due, Underway
  <2>3. /\ ToDo(task[t].todo) = {Step(t)} \cup ToDo(Rest(t))
        /\ \A u \in ToDo(Rest(t)) : u[1] # "load" => Rank[Step(t)[1]] <= Rank[u[1]]
    BY <1>1, NextStep DEF Due, StepNames
  <2>4. Rank["find"] = 4 /\ Rank["put"] = 3 /\ Rank[Step(t)[1]] \in Nat
    BY DEF Rank, StepNames
  <2>5. s # Step(t)
    BY <2>2, <2>4
  <2>. QED
    BY <2>2, <2>3, <2>4, <2>5
<1>3. task[t].account \in AccountFiles
  BY <1>1, <1>2 DEF MaybeFiles
<1>. QED
  BY <1>2, <1>3, FileParts DEF InHand

\* A step that neither finds nor makes the account goes on with the one in hand.
LEMMA PlainNames ==
  ASSUME NamesTypes, NEW g, NamedBy(g), NEW t, Due(t), NEW c, Goes(t, Rest(t), task[t].account, c),
         Step(t)[1] \notin {"find", "put"},
         Step(t)[1] = "load" => c \subseteq Lists(Step(t)[2], g)
  PROVE  Grows /\ (TasksInv(g))'
<1>1. t \in Tasks /\ task[t] \in TaskTypes /\ InHand(t, g) /\ task[t].account \in MaybeFiles /\ TasksInv(g)
  BY DueParts DEF NamedBy, TasksInv
<1>2. /\ ToDo(task[t].todo) = {Step(t)} \cup ToDo(Rest(t)) /\ Shape(task[t].op, Rest(t))
      /\ Step(t)[1] = "load" => /\ Rest(t) # <<>> /\ Head(Rest(t))[1] \in Uses
                                /\ Head(Rest(t))[2] = Step(t)[2]
      /\ Step(t)[1] # "load" /\ Rest(t) # <<>> => Head(Rest(t))[1] \notin Uses
  BY <1>1, NextStep DEF Due
<1>3. Grows
  BY <1>1, <1>2, GoesGrows
<1>4. task[t].account # NoFile =>
        task[t].account.id \in Ids /\ task[t].account.form = g[task[t].account.id]
  BY <1>1, FileParts DEF InHand, MaybeFiles
<1>5. Rest(t) # <<>> /\ task[t].account = NoFile => \E s \in ToDo(Rest(t)) : s[1] \in {"find", "put"}
  BY <1>1, <1>2 DEF InHand, Due, Underway
<1>6. Rest(t) # <<>> /\ Head(Rest(t))[1] \in Uses => c \subseteq Lists(Head(Rest(t))[2], g)
  BY <1>2
<1>7. task[t].op = "register" /\ <<"put", "file">> \notin ToDo(Rest(t)) => task[t].account.id = t
  <2>1. Step(t) # <<"put", "file">>
    BY <1>1
  <2>. QED
    BY <1>1, <1>2, <2>1 DEF InHand, Putting
<1>8. PICK todo, a : todo = Rest(t) /\ a = task[t].account
  OBVIOUS
<1>9. /\ Goes(t, todo, a, c) /\ Shape(task[t].op, todo)
      /\ a # NoFile => a.id \in Ids /\ a.form = g[a.id]
      /\ todo # <<>> /\ a = NoFile => \E s \in ToDo(todo) : s[1] \in {"find", "put"}
      /\ todo # <<>> /\ Head(todo)[1] \in Uses => c \subseteq Lists(Head(todo)[2], g)
      /\ task[t].op = "register" /\ <<"put", "file">> \notin ToDo(todo) => a.id = t
  BY <1>2, <1>4, <1>5, <1>6, <1>7, <1>8
<1>10. a # NoFile => (Born(a.id))'
  <2>1. a # NoFile => Born(a.id) /\ a.id \in Ids
    BY <1>1, <1>4, <1>8 DEF InHand
  <2>. QED
    BY <1>3, <2>1 DEF Grows
<1>. QED
  BY <1>1, <1>3, <1>9, <1>10, GoesNames

LEMMA StayNamed ==
  ASSUME NEW g, NamedBy(g), Grows, UNCHANGED <<files, index>>
  PROVE  (FilesNamed(g))' /\ (IndexNamed(g))'
BY FilesKeep, IndexKeeps DEF NamedBy

\* A registration has its file to write as long as its pod or a name is to do.
LEMMA BeforePut ==
  ASSUME NEW t, Due(t), Step(t)[1] \in {"makePod", "absent"}
  PROVE  task[t].op = "register" /\ Putting(t)
<1>1. Step(t) \in ToDo(task[t].todo) /\ task[t].op = "register"
  BY NextStep, DueParts DEF Due, KnownStep
<1>. QED
  BY <1>1 DEF Due, Shape, Whole, Putting

LEMMA MakePodNames ==
  ASSUME NamesTypes, NEW g, NamedBy(g), NEW t, Due(t), MakePod(t)
  PROVE  NamesTypes' /\ (NamedBy(g))'
<1>1. t \in Tasks /\ task[t] \in TaskTypes
  BY DueParts
<1>2. CASE Ends(t) /\ UNCHANGED podOf
  <2>1. Grows
    BY <1>1, <1>2, MakePodEffect, BeforePut, EndsGrows DEF Due
  <2>2. (TasksInv(g))'
    BY <1>1, <1>2, <2>1, EndsNames DEF NamedBy
  <2>. QED
    BY <1>2, <2>1, <2>2, MakePodEffect, StayNamed DEF NamedBy, NamesTypes, Ends, TaskTypes
<1>3. CASE /\ podOf' = [podOf EXCEPT ![task[t].form.pod] = t]
           /\ Goes(t, Rest(t), task[t].account, task[t].copy)
  <2>1. Grows /\ (TasksInv(g))'
    BY <1>3, MakePodEffect, PlainNames
  <2>2. podOf' \in [Pods -> Ids \cup {NoId}]
    BY <1>1, <1>3 DEF NamesTypes, Ids
  <2>. QED
    BY <1>3, <2>1, <2>2, MakePodEffect, StayNamed DEF NamedBy, NamesTypes, Goes, TaskTypes
<1>. QED
  BY <1>2, <1>3, MakePodEffect

LEMMA LoadNames ==
  ASSUME NamesTypes, NEW g, NamedBy(g), NEW t, Due(t), Load(t)
  PROVE  NamesTypes' /\ (NamedBy(g))'
<1>1. index[Step(t)[2]] \subseteq Lists(Step(t)[2], g)
  BY LoadEffect DEF NamedBy, IndexNamed
<1>2. Grows /\ (TasksInv(g))'
  BY <1>1, LoadEffect, PlainNames
<1>. QED
  BY <1>2, LoadEffect, StayNamed DEF NamedBy, NamesTypes, Goes, TaskTypes

LEMMA CheckAbsentNames ==
  ASSUME NamesTypes, NEW g, NamedBy(g), NEW t, Due(t), CheckAbsent(t)
  PROVE  NamesTypes' /\ (NamedBy(g))'
<1>1. t \in Tasks /\ task[t] \in TaskTypes
  BY DueParts
<1>2. CASE Goes(t, Rest(t), task[t].account, task[t].copy) /\ UNCHANGED <<podOf, raced>>
  <2>1. Grows /\ (TasksInv(g))'
    BY <1>2, CheckAbsentEffect, PlainNames
  <2>. QED
    BY <1>2, <2>1, CheckAbsentEffect, StayNamed DEF NamedBy, NamesTypes, Goes, TaskTypes
<1>3. CASE /\ Ends(t)
           /\ podOf' = [podOf EXCEPT ![task[t].form.pod] = NoId]
           /\ raced' = (raced \/ podOf[task[t].form.pod] # t)
  <2>1. Grows
    BY <1>1, <1>3, CheckAbsentEffect, BeforePut, EndsGrows DEF Due
  <2>2. (TasksInv(g))'
    BY <1>1, <1>3, <2>1, EndsNames DEF NamedBy
  <2>3. podOf' \in [Pods -> Ids \cup {NoId}] /\ raced' \in BOOLEAN
    BY <1>3 DEF NamesTypes
  <2>. QED
    BY <1>3, <2>1, <2>2, <2>3, CheckAbsentEffect, StayNamed DEF NamedBy, NamesTypes, Ends, TaskTypes
<1>. QED
  BY <1>2, <1>3, CheckAbsentEffect

LEMMA VerifyNames ==
  ASSUME NamesTypes, NEW g, NamedBy(g), NEW t, Due(t), Verify(t)
  PROVE  NamesTypes' /\ (NamedBy(g))'
<1>1. t \in Tasks /\ task[t] \in TaskTypes /\ task[t].op # "register"
  BY DueParts, VerifyEffect DEF KnownStep
<1>2. CASE Goes(t, Rest(t), task[t].account, task[t].copy)
  <2>1. Grows /\ (TasksInv(g))'
    BY <1>2, VerifyEffect, PlainNames
  <2>. QED
    BY <1>2, <2>1, VerifyEffect, StayNamed DEF NamedBy, NamesTypes, Goes, TaskTypes
<1>3. CASE Ends(t)
  <2>1. Grows
    BY <1>1, <1>3, EndsGrows DEF Due
  <2>2. (TasksInv(g))'
    BY <1>1, <1>3, <2>1, EndsNames DEF NamedBy
  <2>. QED
    BY <1>3, <2>1, <2>2, VerifyEffect, StayNamed DEF NamedBy, NamesTypes, Ends, TaskTypes
<1>. QED
  BY <1>2, <1>3, VerifyEffect

-----------------------------------------------------------------------------
LEMMA NewInHand ==
  ASSUME NamesTypes, NEW g, NamedBy(g), NEW t, Due(t), NEW a \in AccountFiles,
         Goes(t, Rest(t), a, task[t].copy), Step(t)[1] # "load", Grows,
         a.id \in Ids, (Born(a.id))', a.form = g[a.id],
         task[t].op = "register" => a.id = t
  PROVE  (TasksInv(g))'
<1>1. t \in Tasks /\ task[t] \in TaskTypes /\ a # NoFile
  BY DueParts, FileParts
<1>2. PICK todo, c : todo = Rest(t) /\ c = task[t].copy
  OBVIOUS
<1>3. Shape(task[t].op, todo) /\ (todo # <<>> => Head(todo)[1] \notin Uses)
  BY <1>1, <1>2, NextStep DEF Due
<1>. QED
  BY <1>1, <1>2, <1>3, GoesNames DEF NamedBy

LEMMA FindNames ==
  ASSUME NamesTypes, NEW g, NamedBy(g), NEW t, Due(t), FindById(t)
  PROVE  NamesTypes' /\ (NamedBy(g))'
<1>1. /\ t \in Tasks /\ task[t] \in TaskTypes
      /\ task[t].op # "register" /\ task[t].account \in MaybeFiles
  BY DueParts, FindEffect DEF KnownStep
<1>2. ASSUME NEW i \in Ids, There(i), Goes(t, Rest(t), files[i], task[t].copy)
      PROVE  NamesTypes' /\ (NamedBy(g))'
  <2>1. PICK a : a = files[i]
    OBVIOUS
  <2>2. a \in AccountFiles /\ a.id = i /\ a.form = g[i] /\ Born(i)
    BY <1>2, <2>1 DEF There, NamedBy, FilesNamed, NamesTypes
  <2>3. Goes(t, Rest(t), a, task[t].copy)
    BY <1>2, <2>1
  <2>4. Grows
    BY <1>1, <2>3, GoesGrows
  <2>5. (Born(a.id))'
    BY <2>2, <2>4 DEF Grows
  <2>6. (TasksInv(g))'
    BY <1>1, <2>2, <2>3, <2>4, <2>5, FindEffect, NewInHand
  <2>. QED
    BY <2>3, <2>4, <2>6, FindEffect, StayNamed DEF NamedBy, NamesTypes, Goes, TaskTypes
<1>3. CASE task[t].op = "login" /\ Goes(t, ByEmail, task[t].account, task[t].copy)
  <2>1. PICK todo, a, c : todo = ByEmail /\ a = task[t].account /\ c = task[t].copy
    OBVIOUS
  <2>2. /\ Goes(t, todo, a, c) /\ Shape(task[t].op, todo) /\ a \in MaybeFiles
        /\ \E s \in ToDo(todo) : s[1] \in {"find", "put"}
        /\ Head(todo)[1] \notin Uses
    BY <1>1, <1>3, <2>1, ByEmailTodo
  <2>3. Grows
    BY <1>1, <2>2, GoesGrows
  <2>4. a # NoFile => a.id \in Ids /\ Born(a.id) /\ a.form = g[a.id]
    BY <1>1, <2>1, <2>2, FileParts DEF NamedBy, TasksInv, InHand, MaybeFiles
  <2>5. a # NoFile => (Born(a.id))'
    BY <2>3, <2>4 DEF Grows
  <2>6. (TasksInv(g))'
    BY <1>1, <2>2, <2>3, <2>4, <2>5, GoesNames DEF NamedBy
  <2>. QED
    BY <2>2, <2>3, <2>6, FindEffect, StayNamed DEF NamedBy, NamesTypes, Goes, TaskTypes
<1>4. CASE Ends(t)
  <2>1. Grows
    BY <1>1, <1>4, EndsGrows DEF Due
  <2>2. (TasksInv(g))'
    BY <1>1, <1>4, <2>1, EndsNames DEF NamedBy
  <2>. QED
    BY <1>4, <2>1, <2>2, FindEffect, StayNamed DEF NamedBy, NamesTypes, Ends, TaskTypes
<1>. QED
  BY <1>2, <1>3, <1>4, FindEffect

\* The file of a registration is what makes its account be born.
LEMMA PutNames ==
  ASSUME NamesTypes, NEW g, NamedBy(g), NEW t, Due(t), Put(t)
  PROVE  NamesTypes' /\ (NamedBy(g))'
<1>1. t \in Tasks /\ t \in Ids /\ task[t] \in TaskTypes /\ task[t].op = "register"
  BY DueParts, PutEffect DEF KnownStep, Ids
<1>2. PICK a \in AccountFiles : /\ a.id = t /\ a.form = task[t].form
                                /\ files' = [files EXCEPT ![t] = a]
                                /\ Goes(t, Rest(t), a, task[t].copy)
  BY PutEffect
<1>3. /\ ToDo(Rest(t)) \subseteq ToDo(task[t].todo)
      /\ <<"put", "file">> \notin ToDo(Rest(t))
  <2>1. /\ ToDo(task[t].todo) = {Step(t)} \cup ToDo(Rest(t))
        /\ \A u \in ToDo(Rest(t)) : u[1] # "load" => u # Step(t)
    BY <1>1, NextStep, PutEffect DEF Due
  <2>2. Step(t) = <<"put", "file">>
    BY DueParts, PutEffect DEF KnownStep
  <2>3. <<"put", "file">>[1] # "load"
    OBVIOUS
  <2>. QED
    BY <2>1, <2>2, <2>3
<1>4. Grows
  BY <1>1, <1>2, <1>3, GoesGrows
<1>5. a.form = g[t]
  BY <1>1, <1>2 DEF NamedBy, TasksInv, InHand
<1>6. (Born(t))'
  BY <1>1, <1>2, <1>3 DEF Born, Putting, Goes, Same
<1>7. (Born(a.id))'
  BY <1>2, <1>6
<1>8. (TasksInv(g))'
  BY <1>1, <1>2, <1>4, <1>5, <1>7, PutEffect, NewInHand
<1>9. files' \in [Ids -> AccountFiles \cup {NoFile}]
  BY <1>1, <1>2 DEF NamesTypes
<1>10. (FilesNamed(g))'
  <2>1. SUFFICES ASSUME NEW i \in Ids, files'[i] # NoFile
                 PROVE  files'[i].id = i /\ files'[i].form = g[i] /\ (Born(i))'
    BY DEF FilesNamed
  <2>2. CASE i = t
    BY <1>1, <1>2, <1>5, <1>6, <2>2 DEF NamesTypes
  <2>3. CASE i # t
    <3>1. files'[i] = files[i]
      BY <1>1, <1>2, <2>3 DEF NamesTypes
    <3>. QED
      BY <1>4, <2>1, <3>1 DEF NamedBy, FilesNamed, Grows
  <2>. QED
    BY <2>2, <2>3
<1>11. (IndexNamed(g))'
  BY <1>4, PutEffect, IndexKeeps DEF NamedBy
<1>12. raced' \in BOOLEAN
  BY PutEffect DEF NamesTypes, Overtaken
<1>. QED
  BY <1>2, <1>8, <1>9, <1>10, <1>11, <1>12, PutEffect DEF NamedBy, NamesTypes, Goes, TaskTypes

LEMMA AgainNames ==
  ASSUME NamesTypes, NEW g, NamedBy(g), NEW t, Due(t), Again(t)
  PROVE  NamesTypes' /\ (NamedBy(g))'
<1>1. /\ t \in Tasks /\ task[t] \in TaskTypes /\ task[t].op # "register"
      /\ Step(t)[1] = "again"
  BY DueParts DEF KnownStep, KeyOps, Again, At
<1>2. /\ task[t].account \in AccountFiles /\ task[t].account.id \in Ids
      /\ Born(task[t].account.id) /\ task[t].account.form = g[task[t].account.id]
  <2>1. Rank[Step(t)[1]] >= 5 /\ Step(t)[1] \in StepNames
    BY <1>1 DEF Rank, StepNames
  <2>. QED
    BY <1>1, <2>1, AccountHeld DEF NamedBy, TasksInv
<1>3. PICK i : i = task[t].account.id
  OBVIOUS
<1>4. CASE There(i) /\ Goes(t, Rest(t), files[i], task[t].copy)
  <2>1. PICK a : a = files[i]
    OBVIOUS
  <2>2. a \in AccountFiles /\ a.id = i /\ a.form = g[i] /\ Born(i) /\ i \in Ids
    BY <1>2, <1>3, <1>4, <2>1 DEF There, NamedBy, FilesNamed, NamesTypes
  <2>3. Goes(t, Rest(t), a, task[t].copy)
    BY <1>4, <2>1
  <2>4. Grows
    BY <1>1, <2>3, GoesGrows
  <2>5. (Born(a.id))'
    BY <2>2, <2>4 DEF Grows
  <2>6. (TasksInv(g))'
    BY <1>1, <2>2, <2>3, <2>4, <2>5, NewInHand
  <2>. QED
    BY <1>2, <2>3, <2>4, <2>6, AgainEffect, StayNamed DEF NamedBy, NamesTypes, Goes, TaskTypes
<1>5. CASE task[t].op = "delete" /\ Goes(t, OnlyPurge(task[t].todo), task[t].account, task[t].copy)
  <2>1. PICK todo, a, c : todo = OnlyPurge(task[t].todo) /\ a = task[t].account /\ c = task[t].copy
    OBVIOUS
  <2>2. /\ Goes(t, todo, a, c) /\ Shape(task[t].op, todo)
        /\ todo # <<>> => Head(todo)[1] \notin Uses
        /\ a # NoFile /\ a.id \in Ids /\ Born(a.id) /\ a.form = g[a.id]
    BY <1>2, <1>5, <2>1, OnlyPurgeShape, NoFileParts DEF Uses
  <2>3. Grows
    BY <1>1, <2>2, GoesGrows
  <2>5. (Born(a.id))'
    BY <2>2, <2>3 DEF Grows
  <2>6. (TasksInv(g))'
    BY <1>1, <2>2, <2>3, <2>5, GoesNames DEF NamedBy
  <2>. QED
    BY <1>2, <2>2, <2>3, <2>6, AgainEffect, StayNamed DEF NamedBy, NamesTypes, Goes, TaskTypes
<1>6. CASE Ends(t)
  <2>1. Grows
    BY <1>1, <1>6, EndsGrows DEF Due
  <2>2. (TasksInv(g))'
    BY <1>1, <1>6, <2>1, EndsNames DEF NamedBy
  <2>. QED
    BY <1>2, <1>6, <2>1, <2>2, AgainEffect, StayNamed DEF NamedBy, NamesTypes, Ends, TaskTypes
<1>. QED
  BY <1>2, <1>3, <1>4, <1>5, <1>6, AgainEffect

-----------------------------------------------------------------------------
LEMMA WriteNames ==
  ASSUME NamesTypes, NEW g, NamedBy(g), NEW t, Due(t), Write(t)
  PROVE  NamesTypes' /\ (NamedBy(g))'
<1>1. t \in Tasks /\ task[t] \in TaskTypes /\ Step(t)[1] = "write"
  BY DueParts DEF Write, At
<1>2. /\ task[t].account \in AccountFiles /\ task[t].account.id \in Ids
      /\ Born(task[t].account.id) /\ task[t].account.form = g[task[t].account.id]
  <2>1. Rank[Step(t)[1]] >= 5 /\ Step(t)[1] \in StepNames
    BY <1>1 DEF Rank, StepNames
  <2>. QED
    BY <1>1, <2>1, AccountHeld DEF NamedBy, TasksInv
<1>3. Grows /\ (TasksInv(g))'
  BY <1>1, <1>2, WriteEffect, PlainNames
<1>4. PICK i : i = task[t].account.id
  OBVIOUS
<1>5. PICK a \in AccountFiles : a.id = i /\ a.form = g[i] /\ files' = [files EXCEPT ![i] = a]
  BY <1>2, <1>4, WriteEffect
<1>6. files' \in [Ids -> AccountFiles \cup {NoFile}]
  BY <1>2, <1>4, <1>5 DEF NamesTypes
<1>7. (Born(i))'
  BY <1>2, <1>3, <1>4 DEF Grows
<1>8. (FilesNamed(g))'
  <2>1. SUFFICES ASSUME NEW j \in Ids, files'[j] # NoFile
                 PROVE  files'[j].id = j /\ files'[j].form = g[j] /\ (Born(j))'
    BY DEF FilesNamed
  <2>2. CASE j = i
    BY <1>5, <1>7, <2>2 DEF NamesTypes
  <2>3. CASE j # i
    <3>1. files'[j] = files[j]
      BY <1>5, <2>3 DEF NamesTypes
    <3>. QED
      BY <1>3, <2>1, <3>1 DEF NamedBy, FilesNamed, Grows
  <2>. QED
    BY <2>2, <2>3
<1>9. (IndexNamed(g))'
  BY <1>2, <1>3, WriteEffect, IndexKeeps DEF NamedBy
<1>10. raced' \in BOOLEAN /\ UNCHANGED <<index, podOf, mishaps, failed>> /\ task' \in [Tasks -> TaskTypes]
  BY <1>2, WriteEffect DEF NamesTypes, Goes
<1>. QED
  BY <1>3, <1>6, <1>8, <1>9, <1>10 DEF NamedBy, NamesTypes, TaskTypes

LEMMA ListsArePairs ==
  ASSUME NEW g \in [Ids -> AccountForms], NEW x \in Indexes
  PROVE  Lists(x, g) \subseteq Pairs
<1>1. CASE x = "passkey"
  BY <1>1 DEF Lists, Pairs, BornIds
<1>2. CASE x # "passkey"
  BY <1>2 DEF Lists, Pairs, BornIds, Indexes, FormKeys
<1>. QED
  BY <1>1, <1>2

\* The entry that is made, and what is kept of the index.
LEMMA EntryNamed ==
  ASSUME NEW g \in [Ids -> AccountForms], NamedBy(g), NEW t, Due(t), Step(t)[1] \in {"enter", "leave"}
  PROVE  /\ Others(t, Step(t)[2]) \subseteq Lists(Step(t)[2], g)
         /\ Step(t)[1] = "enter" => Mine(t, Step(t)[2]) \in Lists(Step(t)[2], g)
<1>1. t \in Tasks /\ task[t] \in TaskTypes /\ InHand(t, g)
  BY DueParts DEF NamedBy, TasksInv
<1>2. /\ task[t].account \in AccountFiles /\ task[t].account.id \in Ids
      /\ Born(task[t].account.id) /\ task[t].account.form = g[task[t].account.id]
  <2>1. Rank[Step(t)[1]] >= 5 /\ Step(t)[1] \in StepNames
    BY DEF Rank, StepNames
  <2>. QED
    BY <1>1, <2>1, AccountHeld
<1>3. Others(t, Step(t)[2]) \subseteq Lists(Step(t)[2], g)
  BY <1>1 DEF Others, InHand, Uses, Due, Underway
<1>4. task[t].account.id \in BornIds
  BY <1>2 DEF BornIds
<1>5. ASSUME Step(t)[1] = "enter" PROVE Mine(t, Step(t)[2]) \in Lists(Step(t)[2], g)
  <2>1. CASE Step(t)[2] = "passkey"
    <3>1. task[t].op = "addPasskey"
      BY <1>5, <2>1, DueParts DEF KnownStep
    <3>2. task[t].passkey \in Passkeys
      BY <1>1, <3>1, DueParts, TaskParts DEF KeyOps, TaskTypes
    <3>. QED
      BY <1>4, <2>1, <3>2 DEF Mine, Lists
  <2>2. CASE Step(t)[2] # "passkey"
    BY <1>2, <1>4, <2>2 DEF Mine, Lists
  <2>. QED
    BY <2>1, <2>2
<1>. QED
  BY <1>3, <1>5

LEMMA IndexStays ==
  ASSUME NamesTypes, NEW g \in [Ids -> AccountForms], NamedBy(g), Grows,
         NEW x \in Indexes, NEW s, s \subseteq Lists(x, g), index' = [index EXCEPT ![x] = s]
  PROVE  index' \in [Indexes -> SUBSET Pairs] /\ (IndexNamed(g))'
<1>1. s \in SUBSET Pairs
  BY ListsArePairs
<1>2. index' \in [Indexes -> SUBSET Pairs]
  BY <1>1 DEF NamesTypes
<1>3. ASSUME NEW y \in Indexes PROVE index'[y] \subseteq Lists(y, g)
  BY DEF NamesTypes, NamedBy, IndexNamed
<1>4. ASSUME NEW y \in Indexes PROVE index'[y] \subseteq (Lists(y, g))'
  BY <1>3, ListsGrow
<1>. QED
  BY <1>2, <1>4 DEF IndexNamed

LEMMA SaveEnteredNames ==
  ASSUME NamesTypes, NEW g \in [Ids -> AccountForms], NamedBy(g), NEW t, Due(t), SaveEntered(t)
  PROVE  NamesTypes' /\ (NamedBy(g))'
<1>1. Grows /\ (TasksInv(g))'
  BY SaveEnteredEffect, PlainNames
<1>2. PICK x, s : x = Step(t)[2] /\ s = Others(t, x) \cup {Mine(t, x)}
  OBVIOUS
<1>3. x \in Indexes /\ s \subseteq Lists(x, g) /\ index' = [index EXCEPT ![x] = s]
  BY <1>2, SaveEnteredEffect, EntryNamed
<1>4. index' \in [Indexes -> SUBSET Pairs] /\ (IndexNamed(g))'
  BY <1>1, <1>3, IndexStays
<1>5. /\ raced' \in BOOLEAN /\ UNCHANGED <<files, podOf, mishaps, failed>>
      /\ task' \in [Tasks -> TaskTypes]
  BY SaveEnteredEffect DEF NamesTypes, Goes
<1>6. (FilesNamed(g))'
  BY <1>1, <1>5, FilesKeep DEF NamedBy
<1>. QED
  BY <1>1, <1>4, <1>5, <1>6 DEF NamedBy, NamesTypes, TaskTypes

LEMMA SaveLeftNames ==
  ASSUME NamesTypes, NEW g \in [Ids -> AccountForms], NamedBy(g), NEW t, Due(t), SaveLeft(t)
  PROVE  NamesTypes' /\ (NamedBy(g))'
<1>1. Grows /\ (TasksInv(g))'
  BY SaveLeftEffect, PlainNames
<1>2. PICK x, s : x = Step(t)[2] /\ s = Others(t, x)
  OBVIOUS
<1>3. x \in Indexes /\ s \subseteq Lists(x, g) /\ index' = [index EXCEPT ![x] = s]
  BY <1>2, SaveLeftEffect, EntryNamed
<1>4. index' \in [Indexes -> SUBSET Pairs] /\ (IndexNamed(g))'
  BY <1>1, <1>3, IndexStays
<1>5. /\ raced' \in BOOLEAN /\ UNCHANGED <<files, podOf, mishaps, failed>>
      /\ task' \in [Tasks -> TaskTypes]
  BY SaveLeftEffect DEF NamesTypes, Goes
<1>6. (FilesNamed(g))'
  BY <1>1, <1>5, FilesKeep DEF NamedBy
<1>. QED
  BY <1>1, <1>4, <1>5, <1>6 DEF NamedBy, NamesTypes, TaskTypes

LEMMA RemoveNames ==
  ASSUME NamesTypes, NEW g, NamedBy(g), NEW t, Due(t), Remove(t)
  PROVE  NamesTypes' /\ (NamedBy(g))'
<1>1. Grows /\ (TasksInv(g))'
  BY RemoveEffect, PlainNames
<1>2. PICK i : i = task[t].account.id
  OBVIOUS
<1>3. files' = [files EXCEPT ![i] = NoFile]
  BY <1>2, RemoveEffect
<1>4. files' \in [Ids -> AccountFiles \cup {NoFile}]
  BY <1>3 DEF NamesTypes
<1>5. (FilesNamed(g))'
  <2>1. SUFFICES ASSUME NEW j \in Ids, files'[j] # NoFile
                 PROVE  files'[j].id = j /\ files'[j].form = g[j] /\ (Born(j))'
    BY DEF FilesNamed
  <2>2. files'[j] = files[j]
    BY <1>3, <2>1 DEF NamesTypes
  <2>. QED
    BY <1>1, <2>1, <2>2 DEF NamedBy, FilesNamed, Grows
<1>6. UNCHANGED <<index, podOf, mishaps, failed, raced>> /\ task' \in [Tasks -> TaskTypes]
  BY RemoveEffect DEF Goes
<1>7. (IndexNamed(g))'
  BY <1>1, <1>6, IndexKeeps DEF NamedBy
<1>. QED
  BY <1>1, <1>4, <1>5, <1>6, <1>7 DEF NamedBy, NamesTypes, TaskTypes

LEMMA PurgeNames ==
  ASSUME NamesTypes, NEW g, NamedBy(g), NEW t, Due(t), Purge(t)
  PROVE  NamesTypes' /\ (NamedBy(g))'
<1>1. Grows /\ (TasksInv(g))'
  BY PurgeEffect, PlainNames
<1>2. podOf' \in [Pods -> Ids \cup {NoId}] /\ raced' \in BOOLEAN
  BY PurgeEffect DEF NamesTypes
<1>. QED
  BY <1>1, <1>2, PurgeEffect, StayNamed DEF NamedBy, NamesTypes, Goes, TaskTypes

\* Operations that end with nothing but their name: they threw, or the server died.
LEMMA DeathsNames ==
  ASSUME NamesTypes, NEW g, NamedBy(g), NEW D, UNCHANGED <<files, index>>,
         NEW r, r = [Idle EXCEPT !.op = "died"],
         task' = [u \in Tasks |-> IF u \in D THEN r ELSE task[u]]
  PROVE  task' \in [Tasks -> TaskTypes] /\ (NamedBy(g))'
<1>1. r \in BlankTasks /\ r.op = "died" /\ r.todo = <<>> /\ r.account = NoFile
  BY Blank
<1>2. \A u \in Tasks : task'[u] = IF u \in D THEN r ELSE task[u]
  OBVIOUS
<1>3. task' \in [Tasks -> TaskTypes]
  BY <1>1, <1>2 DEF NamesTypes, TaskTypes
<1>4. Grows
  <2>1. SUFFICES ASSUME NEW i \in Tasks, task[i].op \in {"register", "died"}, ~ Putting(i)
                 PROVE  task'[i].op \in {"register", "died"} /\ <<"put", "file">> \notin ToDo(task'[i].todo)
    BY DEF Grows, Born, Putting
  <2>. QED
    BY <1>1, <1>2, <2>1, NoSteps DEF Putting
<1>5. (TasksInv(g))'
  <2>1. SUFFICES ASSUME NEW u \in Tasks
                 PROVE  /\ task'[u] \in TaskTypes /\ Shape(task'[u].op, task'[u].todo)
                        /\ (InHand(u, g))'
    BY DEF TasksInv, TaskTypes
  <2>2. CASE u \in D
    <3>1. task'[u] = r
      BY <1>2, <2>2
    <3>2. (InHand(u, g))'
      BY <1>1, <3>1 DEF InHand
    <3>. QED
      BY <1>1, <1>3, <3>1, <3>2, NoSteps
  <2>3. CASE u \notin D
    <3>1. task'[u] = task[u] /\ task[u] \in TaskTypes
      BY <1>2, <2>3 DEF NamesTypes, TaskTypes
    <3>2. Shape(task[u].op, task[u].todo) /\ InHand(u, g)
      BY DEF NamedBy, TasksInv
    <3>. QED
      BY <1>4, <3>1, <3>2, OthersKeep, TaskParts
  <2>. QED
    BY <2>2, <2>3
<1>. QED
  BY <1>3, <1>4, <1>5, StayNamed DEF NamedBy

LEMMA CrashNames ==
  ASSUME NamesTypes, NEW g, NamedBy(g), AccountsCrash
  PROVE  NamesTypes' /\ (NamedBy(g))'
<1>1. PICK r, D : r = [Idle EXCEPT !.op = "died"] /\ D = {u \in Tasks : Underway(u)}
  OBVIOUS
<1>2. task' = [u \in Tasks |-> IF u \in D THEN r ELSE task[u]]
  BY <1>1 DEF AccountsCrash
<1>3. UNCHANGED <<files, index, podOf, raced>> /\ mishaps' \in 0 .. MaxMishaps
  BY DEF AccountsCrash, NamesTypes
<1>4. task' \in [Tasks -> TaskTypes] /\ (NamedBy(g))'
  BY <1>1, <1>2, <1>3, DeathsNames
<1>. QED
  BY <1>3, <1>4 DEF NamesTypes, TaskTypes

\* An operation that throws is over. A registration has its pod removed, and where the file
\* of the account may be there the account is noted.
LEMMA ThrowsEffect ==
  ASSUME NamesTypes, NEW t \in Tasks, Throws(t)
  PROVE  /\ UNCHANGED <<files, index>> /\ mishaps' \in 0 .. MaxMishaps /\ (mishaps' = 0 => mishaps = 0)
         /\ task' = [task EXCEPT ![t] = [Idle EXCEPT !.op = "died"]]
         /\ Underway(t)
         /\ failed' = failed \cup {i \in Ids : i = task[t].account.id /\ task[t].op \in {"register", "delete"}}
         /\ \/ /\ task[t].op = "register" /\ podOf' = [podOf EXCEPT ![task[t].form.pod] = NoId]
               /\ raced' = (raced \/ podOf[task[t].form.pod] # t)
            \/ task[t].op # "register" /\ UNCHANGED <<podOf, raced>>
<1>1. Underway(t)
  BY DEF Throws, Reads, At
<1>2. mishaps' \in 0 .. MaxMishaps /\ (mishaps' = 0 => mishaps = 0)
  BY DEF Throws, NamesTypes
<1>. QED
  BY <1>1, <1>2 DEF Throws

LEMMA ThrowsNames ==
  ASSUME NamesTypes, NEW g, NamedBy(g), NEW t \in Tasks, Throws(t)
  PROVE  NamesTypes' /\ (NamedBy(g))'
<1>1. PICK r, D : r = [Idle EXCEPT !.op = "died"] /\ D = {t}
  OBVIOUS
<1>2. task' = [u \in Tasks |-> IF u \in D THEN r ELSE task[u]]
  BY <1>1, ThrowsEffect DEF NamesTypes
<1>5. UNCHANGED <<files, index>>
  BY ThrowsEffect
<1>3. task' \in [Tasks -> TaskTypes] /\ (NamedBy(g))'
  BY <1>1, <1>2, <1>5, DeathsNames
<1>4. podOf' \in [Pods -> Ids \cup {NoId}] /\ raced' \in BOOLEAN
  BY ThrowsEffect DEF NamesTypes
<1>. QED
  BY <1>3, <1>4, ThrowsEffect DEF NamesTypes, TaskTypes

-----------------------------------------------------------------------------
\* An operation as it is begun.
Begun(op, todo) ==
  /\ op \in FormOps \cup KeyOps /\ Shape(op, todo) /\ todo \in Todos
  /\ todo # <<>> /\ Head(todo)[1] \notin Uses
  /\ op \in FormOps => \E s \in ToDo(todo) : s[1] \in {"find", "put"}
  /\ op = "register" => {<<"makePod", "pod">>, <<"put", "file">>} \subseteq ToDo(todo)

LEMMA BegunOf ==
  ASSUME NEW op \in FormOps \cup KeyOps, NEW todo, Shape(op, todo), NEW T, Good(todo, T),
         op \in FormOps => \E s \in T : s[1] \in {"find", "put"},
         op = "register" => {<<"makePod", "pod">>, <<"put", "file">>} \subseteq T
  PROVE  Begun(op, todo)
<1>1. todo # <<>> /\ ToDo(todo) = T /\ todo[1][1] \notin Uses /\ Head(todo) = todo[1]
  BY TailParts DEF Good
<1>. QED
  BY <1>1, TodosOf DEF Begun

LEMMA RegisterBegun == Begun("register", Register)
<1>1. PICK s : s = Register
  OBVIOUS
<1>2. \E T : Good(s, T) /\ {<<"makePod", "pod">>, <<"put", "file">>} \subseteq T
  BY <1>1, RegisterGood
<1>. QED
  BY <1>1, <1>2, RegisterShape, BegunOf DEF FormOps

LEMMA AuthenticateBegun == Begun("login", Authenticate)
<1>1. PICK s : s = Authenticate
  OBVIOUS
<1>2. \E T : Good(s, T) /\ <<"find", "username">> \in T
  BY <1>1, AuthenticateGood
<1>. QED
  BY <1>1, <1>2, AuthenticateShape, BegunOf DEF FormOps

LEMMA ChangeBegun == Begun("change", HandleChangePassword)
<1>1. PICK s : s = HandleChangePassword
  OBVIOUS
<1>2. \E T : Good(s, T) /\ <<"find", "webid">> \in T
  BY <1>1, ChangeGood
<1>. QED
  BY <1>1, <1>2, ChangeShape, BegunOf DEF FormOps

LEMMA AskedDeleteBegun == Begun("delete", HandleDeleteAccount \o DeleteAccount)
<1>1. PICK s : s = HandleDeleteAccount \o DeleteAccount
  OBVIOUS
<1>2. \E T : Good(s, T) /\ <<"find", "webid">> \in T
  BY <1>1, AskedDeleteGood
<1>. QED
  BY <1>1, <1>2, AskedDeleteShape, BegunOf DEF FormOps

LEMMA FormDeleteBegun == Begun("delete", HandleAccountDeleteForm \o DeleteAccountAndPurge)
<1>1. PICK s : s = HandleAccountDeleteForm \o DeleteAccountAndPurge
  OBVIOUS
<1>2. \E T : Good(s, T) /\ <<"find", "username">> \in T
  BY <1>1, FormDeleteGood
<1>. QED
  BY <1>1, <1>2, FormDeleteShape, BegunOf DEF FormOps

LEMMA KeyOpsBegun ==
  /\ Begun("addPasskey", AddPasskey)
  /\ Begun("removePasskey", RemovePasskey)
  /\ Begun("passkeyLogin", FindBy("passkey") \o UpdateLastLogin)
<1>1. FormOps \cap {"addPasskey", "removePasskey", "passkeyLogin"} = {}
  BY DEF FormOps
<1>2. PICK s1, s2, s3 : s1 = AddPasskey /\ s2 = RemovePasskey /\ s3 = FindBy("passkey") \o UpdateLastLogin
  OBVIOUS
<1>3. (\E T : Good(s1, T)) /\ (\E T : Good(s2, T)) /\ (\E T : Good(s3, T))
  BY <1>2, AddPasskeyGood, RemovePasskeyGood, PasskeyLoginGood
<1>4. Shape("addPasskey", s1) /\ Shape("removePasskey", s2) /\ Shape("passkeyLogin", s3)
  BY <1>2, AddPasskeyShape, RemovePasskeyShape, PasskeyLoginShape
<1>5. Begun("addPasskey", s1) /\ Begun("removePasskey", s2) /\ Begun("passkeyLogin", s3)
  BY <1>1, <1>3, <1>4, BegunOf DEF KeyOps
<1>. QED
  BY <1>2, <1>5

\* A request, whatever it is: a task that was idle has an operation begun.
Begins(t) ==
  /\ UNCHANGED <<files, index, podOf, mishaps, failed, raced>>
  /\ task[t].op = "idle"
  /\ \E r \in AtWork : /\ task' = [task EXCEPT ![t] = r]
                       /\ Begun(r.op, r.todo) /\ r.form \in AccountForms /\ r.copy = {}
                       /\ \/ r.account = NoFile /\ r.op \in FormOps
                          \/ /\ r.op \in KeyOps
                             /\ \E i \in Ids : There(i) /\ r.account = files[i]

LEMMA BeginBegins ==
  ASSUME NEW t \in Tasks, NEW op \in FormOps, NEW todo, NEW f \in AccountForms,
         NEW w \in Passwords, NEW v \in Passwords, Begun(op, todo), Begin(t, op, todo, f, w, v)
  PROVE  Begins(t)
<1>1. PICK r : r = [op |-> op, todo |-> todo, account |-> NoFile, copy |-> {},
                    form |-> f, password |-> w, new |-> v]
  OBVIOUS
<1>2. todo \in Todos /\ NoFile \in AccountFiles \cup {NoFile} /\ {} \in SUBSET Pairs
  BY DEF Begun
<1>3. r \in FormTasks
  BY <1>1, <1>2 DEF FormTasks
<1>4. /\ r.op = op /\ r.todo = todo /\ r.account = NoFile /\ r.copy = {} /\ r.form = f
      /\ task' = [task EXCEPT ![t] = r] /\ task[t].op = "idle"
      /\ UNCHANGED <<files, index, podOf, mishaps, failed, raced>>
  BY <1>1 DEF Begin
<1>. QED
  BY <1>3, <1>4 DEF Begins, AtWork

LEMMA BeginByIdBegins ==
  ASSUME NamesTypes, NEW t \in Tasks, NEW op \in KeyOps, NEW todo, NEW i \in Ids, NEW k \in Passkeys,
         Begun(op, todo), BeginById(t, op, todo, i, k)
  PROVE  Begins(t)
<1>0. PICK a : a = files[i]
  OBVIOUS
<1>1. PICK r : r = [op |-> op, todo |-> todo, account |-> a, copy |-> {},
                    form |-> a.form, passkey |-> k]
  OBVIOUS
<1>2. a \in AccountFiles /\ a.form \in AccountForms
  BY <1>0, FileParts DEF BeginById, NamesTypes
<1>3. todo \in Todos /\ {} \in SUBSET Pairs
  BY DEF Begun
<1>4. r \in KeyTasks
  BY <1>1, <1>2, <1>3 DEF KeyTasks
<1>5. /\ r.op = op /\ r.todo = todo /\ r.account = a /\ r.copy = {} /\ r.form = a.form
      /\ task' = [task EXCEPT ![t] = r] /\ task[t].op = "idle" /\ a # NoFile
      /\ UNCHANGED <<files, index, podOf, mishaps, failed, raced>>
  BY <1>0, <1>1 DEF BeginById
<1>6. There(i) /\ r.account = files[i]
  BY <1>0, <1>5 DEF There
<1>. QED
  BY <1>2, <1>4, <1>5, <1>6 DEF Begins, AtWork

LEMMA RequestsBegin ==
  ASSUME NamesTypes, NEW t \in Tasks, Requests(t)
  PROVE  Begins(t)
<1>1. ASSUME NEW f \in AccountForms, NEW w \in Passwords,
             \/ Begin(t, "register", Register, f, w, w)
             \/ Begin(t, "login", Authenticate, f, w, w)
             \/ \E v \in Passwords : Begin(t, "change", HandleChangePassword, f, w, v)
             \/ Begin(t, "delete", HandleDeleteAccount \o DeleteAccount, f, w, w)
             \/ Begin(t, "delete", HandleAccountDeleteForm \o DeleteAccountAndPurge, f, w, w)
      PROVE  Begins(t)
  <2>1. {"register", "login", "change", "delete"} = FormOps
    BY DEF FormOps
  <2>2. PICK s1, s2, s3, s4, s5 :
          /\ s1 = Register /\ s2 = Authenticate /\ s3 = HandleChangePassword
          /\ s4 = HandleDeleteAccount \o DeleteAccount
          /\ s5 = HandleAccountDeleteForm \o DeleteAccountAndPurge
    OBVIOUS
  <2>3. /\ Begun("register", s1) /\ Begun("login", s2) /\ Begun("change", s3)
        /\ Begun("delete", s4) /\ Begun("delete", s5)
    BY <2>2, RegisterBegun, AuthenticateBegun, ChangeBegun, AskedDeleteBegun, FormDeleteBegun
  <2>4. \/ Begin(t, "register", s1, f, w, w)
        \/ Begin(t, "login", s2, f, w, w)
        \/ \E v \in Passwords : Begin(t, "change", s3, f, w, v)
        \/ Begin(t, "delete", s4, f, w, w)
        \/ Begin(t, "delete", s5, f, w, w)
    BY <1>1, <2>2
  <2>. QED
    BY <2>1, <2>3, <2>4, BeginBegins
<1>2. ASSUME NEW i \in Ids, NEW k \in Passkeys,
             \/ BeginById(t, "addPasskey", AddPasskey, i, k)
             \/ BeginById(t, "removePasskey", RemovePasskey, i, k)
             \/ BeginById(t, "passkeyLogin", FindBy("passkey") \o UpdateLastLogin, i, k)
      PROVE  Begins(t)
  <2>1. {"addPasskey", "removePasskey", "passkeyLogin"} = KeyOps
    BY DEF KeyOps
  <2>2. PICK s1, s2, s3 : s1 = AddPasskey /\ s2 = RemovePasskey /\ s3 = FindBy("passkey") \o UpdateLastLogin
    OBVIOUS
  <2>3. Begun("addPasskey", s1) /\ Begun("removePasskey", s2) /\ Begun("passkeyLogin", s3)
    BY <2>2, KeyOpsBegun
  <2>4. \/ BeginById(t, "addPasskey", s1, i, k)
        \/ BeginById(t, "removePasskey", s2, i, k)
        \/ BeginById(t, "passkeyLogin", s3, i, k)
    BY <1>2, <2>2
  <2>. QED
    BY <2>1, <2>3, <2>4, BeginByIdBegins
<1>. QED
  BY <1>1, <1>2 DEF Requests

\* The form of the request is what a task's id stands for from now on.
LEMMA BeginsNames ==
  ASSUME NamesTypes, NEW g \in [Ids -> AccountForms], NamedBy(g), NEW t \in Tasks, Begins(t)
  PROVE  NamesTypes' /\ \E h \in [Ids -> AccountForms] : (NamedBy(h))'
<1>1. /\ UNCHANGED <<files, index, podOf, mishaps, failed, raced>>
      /\ task[t].op = "idle" /\ task[t] \in TaskTypes /\ t \in Ids
  BY DEF Begins, NamesTypes, TaskTypes, Ids
<1>2. PICK r \in AtWork : /\ task' = [task EXCEPT ![t] = r]
                          /\ Begun(r.op, r.todo) /\ r.form \in AccountForms /\ r.copy = {}
                          /\ \/ r.account = NoFile /\ r.op \in FormOps
                             \/ /\ r.op \in KeyOps
                                /\ \E i \in Ids : There(i) /\ r.account = files[i]
  BY DEF Begins
<1>3. PICK h : h = [g EXCEPT ![t] = r.form]
  OBVIOUS
<1>4. h \in [Ids -> AccountForms] /\ h[t] = r.form /\ \A i \in Ids : i # t => h[i] = g[i]
  BY <1>1, <1>2, <1>3
<1>5. ~ Born(t)
  BY <1>1 DEF Born
<1>6. task' \in [Tasks -> TaskTypes] /\ task'[t] = r /\ \A u \in Tasks : u # t => task'[u] = task[u]
  BY <1>2 DEF NamesTypes, TaskTypes, AtWork
<1>7. Grows
  <2>1. SUFFICES ASSUME NEW i \in Tasks, task[i].op \in {"register", "died"}, ~ Putting(i)
                 PROVE  task'[i].op \in {"register", "died"} /\ <<"put", "file">> \notin ToDo(task'[i].todo)
    BY DEF Grows, Born, Putting
  <2>. QED
    BY <1>1, <1>6, <2>1 DEF Putting
<1>8. ASSUME NEW i \in Ids, Born(i) PROVE h[i] = g[i] /\ (Born(i))'
  BY <1>4, <1>5, <1>7, <1>8 DEF Grows
<1>9. ASSUME NEW x PROVE Lists(x, g) \subseteq (Lists(x, h))'
  <2>1. \A i \in BornIds : i \in BornIds' /\ h[i] = g[i]
    BY <1>8 DEF BornIds
  <2>. QED
    BY <2>1 DEF Lists
<1>10. (FilesNamed(h))' /\ (IndexNamed(h))'
  BY <1>1, <1>8, <1>9 DEF NamedBy, FilesNamed, IndexNamed
<1>11. ASSUME NEW u \in Tasks, u # t PROVE (InHand(u, h))' /\ Shape(task'[u].op, task'[u].todo)
  <2>1. task'[u] = task[u] /\ Shape(task[u].op, task[u].todo) /\ InHand(u, g) /\ task[u] \in TaskTypes
    BY <1>6, <1>11 DEF NamedBy, TasksInv, TaskTypes
  <2>2. task[u].account # NoFile =>
          /\ (Born(task[u].account.id))' /\ task[u].account.id \in Ids
          /\ h[task[u].account.id] = g[task[u].account.id]
    BY <1>8, <2>1, TaskParts, FileParts DEF InHand, MaybeFiles
  <2>3. PICK x : x = Step(u)[2]
    OBVIOUS
  <2>4. task[u].todo # <<>> /\ Step(u)[1] \in Uses => task[u].copy \subseteq (Lists(x, h))'
    BY <1>9, <2>1, <2>3 DEF InHand
  <2>5. Step(u)' = Step(u) /\ Putting(u)' = Putting(u)
    BY <2>1 DEF Step, Putting
  <2>6. h[u] = g[u]
    BY <1>4, <1>11 DEF Ids
  <2>. QED
    BY <2>1, <2>2, <2>3, <2>4, <2>5, <2>6 DEF InHand
<1>12. (InHand(t, h))' /\ Shape(task'[t].op, task'[t].todo)
  <2>1. r.account # NoFile => (Born(r.account.id))' /\ r.account.form = h[r.account.id]
    BY <1>2, <1>8 DEF There, NamedBy, FilesNamed
  <2>2. r.account = NoFile => \E s \in ToDo(r.todo) : s[1] \in {"find", "put"}
    BY <1>2 DEF Begun, There
  <2>3. r.todo # <<>> /\ Head(r.todo)[1] \notin Uses /\ Shape(r.op, r.todo)
        /\ (r.op = "register" => <<"put", "file">> \in ToDo(r.todo))
    BY <1>2 DEF Begun
  <2>4. Step(t)' = Head(r.todo) /\ ((Putting(t))' <=> <<"put", "file">> \in ToDo(r.todo))
    BY <1>6 DEF Step, Putting
  <2>. QED
    BY <1>4, <1>6, <2>1, <2>2, <2>3, <2>4 DEF InHand
<1>13. (TasksInv(h))'
  BY <1>6, <1>11, <1>12 DEF TasksInv, TaskTypes
<1>14. NamesTypes'
  BY <1>1, <1>6 DEF NamesTypes, TaskTypes
<1>. QED
  BY <1>4, <1>10, <1>13, <1>14 DEF NamedBy

\* Every id stands for one form, whatever the operations do and where they are cut short.
LEMMA NamesStep ==
  ASSUME NamesInv, [AccountsNext]_accountVars
  PROVE  NamesInv'
<1>1. PICK g \in [Ids -> AccountForms] : NamedBy(g)
  BY DEF NamesInv
<1>2. NamesTypes
  BY DEF NamesInv
<1>3. CASE UNCHANGED accountVars
  BY <1>3 DEF accountVars, NamesInv, NamesTypes, NamedBy, TasksInv, FilesNamed, IndexNamed, InHand, Lists,
              BornIds, Born, Putting, Step
<1>4. CASE AccountsCrash
  BY <1>1, <1>2, <1>4, CrashNames DEF NamesInv
<1>5. ASSUME NEW t \in Tasks,
             \/ Requests(t) \/ MakePod(t) \/ Load(t) \/ FindById(t) \/ CheckAbsent(t) \/ Verify(t)
             \/ Put(t) \/ Again(t) \/ Write(t) \/ SaveEntered(t) \/ SaveLeft(t) \/ Remove(t) \/ Purge(t) \/ Throws(t)
      PROVE  NamesInv'
  <2>1. CASE Requests(t)
    BY <1>1, <1>2, <2>1, RequestsBegin, BeginsNames DEF NamesInv
  <2>3. CASE Throws(t)
    BY <1>1, <1>2, <2>3, ThrowsNames DEF NamesInv
  <2>2. CASE ~ Requests(t) /\ ~ Throws(t)
    <3>1. Due(t)
      BY <1>1, <1>2, <1>5, <2>2, DueNames DEF At, MakePod, Load, FindById, CheckAbsent, Verify, Put, Again,
           Write, SaveEntered, SaveLeft, Remove, Purge
    <3>. QED
      BY <1>1, <1>2, <1>5, <2>2, <3>1, MakePodNames, LoadNames, FindNames, CheckAbsentNames, VerifyNames,
         PutNames, AgainNames, WriteNames, SaveEnteredNames, SaveLeftNames, RemoveNames, PurgeNames DEF NamesInv
  <2>. QED
    BY <2>1, <2>2, <2>3
<1>. QED
  BY <1>3, <1>4, <1>5 DEF AccountsNext

-----------------------------------------------------------------------------
(* Up to the first race: what a step of one task keeps of each part.       *)

OnlyTask(t) == \A u \in Tasks \ {t} : task'[u] = task[u]

NoNewNames ==
  /\ \A i \in Ids : (There(i))' => There(i) /\ files'[i].form = files[i].form
  /\ failed \subseteq failed'

Holds(t) == task[t].op = "register" /\ Putting(t) /\ <<"makePod", "pod">> \notin ToDo(task[t].todo)

LEMMA DistinctStays ==
  ASSUME Distinct, NoNewNames
  PROVE  Distinct'
BY DEF Distinct, NoNewNames

LEMMA PodsStay ==
  ASSUME NamesTypes, PodsHeld, NoNewNames,
         NEW q, q \in Pods \/ podOf' = podOf,
         \A p \in Pods : p # q => podOf'[p] = podOf[p],
         \/ podOf'[q] = podOf[q]
         \/ podOf[q] = NoId
         \/ \E j \in Ids : podOf[q] = j /\ (~ (There(j))' \/ j \in failed') /\ (j \in Tasks => ~ (Holds(j))'),
         \A u \in Tasks : (Holds(u))' => task'[u].form \in AccountForms
                                         /\ \/ Holds(u) /\ task'[u].form = task[u].form
                                            \/ podOf'[task'[u].form.pod] = u
  PROVE  PodsHeld'
<1>1. ASSUME NEW i \in Ids, (There(i))', i \notin failed' PROVE podOf'[files'[i].form.pod] = i
  <2>1. There(i) /\ files'[i].form = files[i].form /\ i \notin failed
    BY <1>1 DEF NoNewNames
  <2>2. PICK p : p = files[i].form.pod
    OBVIOUS
  <2>5. files[i] \in AccountFiles
    BY <2>1 DEF There, NamesTypes
  <2>6. files[i].form \in AccountForms
    BY <2>5, FileParts
  <2>3. p \in Pods /\ podOf[p] = i
    BY <2>1, <2>2, <2>6 DEF PodsHeld, Pods
  <2>4. i # NoId
    BY DEF Ids
  <2>. QED
    BY <1>1, <2>1, <2>2, <2>3, <2>4
<1>2. ASSUME NEW u \in Tasks, (Holds(u))' PROVE podOf'[task'[u].form.pod] = u
  <2>1. CASE Holds(u) /\ task'[u].form = task[u].form
    <3>1. PICK p : p = task[u].form.pod
      OBVIOUS
    <3>2. task[u].form \in AccountForms
      BY <1>2, <2>1
    <3>3. p \in Pods
      BY <3>1, <3>2 DEF Pods
    <3>4. podOf[p] = u
      BY <2>1, <3>1 DEF PodsHeld, Holds
    <3>5. u # NoId
      OBVIOUS
    <3>. QED
      BY <1>2, <2>1, <3>1, <3>3, <3>4, <3>5
  <2>. QED
    BY <1>2, <2>1
<1>. QED
  BY <1>1, <1>2 DEF PodsHeld, Holds

\* A deletion that has begun to delete has the account in hand.
LEMMA DeleteHeld ==
  ASSUME NamesTypes, NEW g, NamedBy(g), NEW u \in Tasks, task[u].op = "delete", Underway(u),
         (\E x \in FormKeys : Left(u, x)) \/ <<"remove", "file">> \notin ToDo(task[u].todo)
  PROVE  /\ task[u].account # NoFile /\ task[u].account.id \in Ids
         /\ Born(task[u].account.id) /\ task[u].account.form = g[task[u].account.id]
<1>1. /\ task[u] \in TaskTypes /\ InHand(u, g) /\ Shape("delete", task[u].todo)
      /\ task[u].account \in MaybeFiles
  BY TaskParts DEF NamesTypes, NamedBy, TasksInv, TaskTypes
<1>2. task[u].account # NoFile
  <2>1. SUFFICES ASSUME task[u].account = NoFile PROVE FALSE
    OBVIOUS
  <2>2. PICK s \in ToDo(task[u].todo) : s[1] \in {"find", "put"}
    BY <1>1, <2>1 DEF InHand, Underway
  <2>3. s[1] # "put"
    <3>1. Due(u)
      BY DueNames
    <3>2. \A v \in ToDo(task[u].todo) : KnownStep("delete", v[1], v[2])
      BY <1>1, <3>1, NextStep DEF Due
    <3>. QED
      BY <2>2, <3>2 DEF KnownStep
  <2>4. <<"again", "purge">> \in ToDo(task[u].todo)
    BY <1>1, <2>2, <2>3 DEF Shape, Whole
  <2>5. \A x \in FormKeys : <<"leave", x>> \in ToDo(task[u].todo)
    BY <1>1, <2>4 DEF Shape, Whole
  <2>6. <<"leave", "email">> \in ToDo(task[u].todo) /\ <<"leave", "email">>[1] = "leave"
    BY <2>5 DEF FormKeys
  <2>7. <<"remove", "file">> \in ToDo(task[u].todo)
    BY <1>1, <2>6 DEF Shape, Whole
  <2>. QED
    BY <2>5, <2>7 DEF Left
<1>. QED
  BY <1>1, <1>2, FileParts DEF InHand, MaybeFiles

LEMMA DeletesStay ==
  ASSUME NamesTypes, NEW g, NamedBy(g), DeletesInOrder, NoNewNames, NEW t \in Tasks, OnlyTask(t),
         \A x \in FormKeys : index'[x] \subseteq index[x],
         \A x \in FormKeys : (Left(t, x))' => \A e \in index'[x] : e[2] # task'[t].account.id,
         task'[t].op = "delete" /\ (Underway(t))' /\ <<"remove", "file">> \notin ToDo(task'[t].todo)
           => files'[task'[t].account.id] = NoFile
  PROVE  DeletesInOrder'
<1>1. SUFFICES ASSUME NEW u \in Tasks
               PROVE  /\ \A x \in FormKeys : (Left(u, x))' => \A e \in index'[x] : e[2] # task'[u].account.id
                      /\ task'[u].op = "delete" /\ (Underway(u))' /\ <<"remove", "file">> \notin ToDo(task'[u].todo)
                           => files'[task'[u].account.id] = NoFile
  BY DEF DeletesInOrder, There
<1>2. CASE u = t
  BY <1>2
<1>3. CASE u # t
  <2>1. task'[u] = task[u]
    BY <1>3 DEF OnlyTask
  <2>2. ASSUME NEW x \in FormKeys, (Left(u, x))' PROVE \A e \in index'[x] : e[2] # task'[u].account.id
    <3>1. Left(u, x)
      BY <2>1, <2>2 DEF Left, Underway
    <3>. QED
      BY <2>1, <3>1 DEF DeletesInOrder
  <2>3. ASSUME task'[u].op = "delete", (Underway(u))', <<"remove", "file">> \notin ToDo(task'[u].todo)
        PROVE  files'[task'[u].account.id] = NoFile
    <3>1. task[u].op = "delete" /\ Underway(u) /\ <<"remove", "file">> \notin ToDo(task[u].todo)
      BY <2>1, <2>3 DEF Underway
    <3>2. task[u].account.id \in Ids /\ ~ There(task[u].account.id)
      BY <3>1, DeleteHeld DEF DeletesInOrder
    <3>. QED
      BY <2>1, <3>2 DEF NoNewNames, There
  <2>. QED
    BY <2>2, <2>3
<1>. QED
  BY <1>2, <1>3

LEMMA ListedStay ==
  ASSUME AllListed, NoNewNames, NEW t \in Tasks, OnlyTask(t),
         \A i \in Ids, x \in FormKeys :
           (There(i))' /\ <<files[i].form[x], i>> \in index[x] =>
             <<files[i].form[x], i>> \in index'[x] \/ (Missing(i, x))',
         \A x \in FormKeys :
           (There(t))' /\ Entering(t, x) =>
             <<files[t].form[x], t>> \in index'[x] \/ (Entering(t, x))' \/ t \in failed',
         \A x \in FormKeys :
           Left(t, x) => \/ (Left(t, x))' /\ task'[t].account = task[t].account
                         \/ files'[task[t].account.id] = NoFile \/ task[t].account.id \in failed'
  PROVE  AllListed'
<1>1. SUFFICES ASSUME NEW i \in Ids, (There(i))', NEW x \in FormKeys
               PROVE  <<files'[i].form[x], i>> \in index'[x] \/ (Missing(i, x))'
  BY DEF AllListed
<1>2. There(i) /\ files'[i].form = files[i].form
  BY <1>1 DEF NoNewNames
<1>3. CASE <<files[i].form[x], i>> \in index[x]
  BY <1>1, <1>2, <1>3
<1>4. CASE Entering(i, x)
  <2>1. CASE i = t
    BY <1>1, <1>2, <1>4, <2>1 DEF Missing
  <2>2. CASE i # t
    BY <1>4, <2>2 DEF Missing, Entering, OnlyTask
  <2>. QED
    BY <2>1, <2>2
<1>5. ASSUME NEW u \in Tasks, Left(u, x), task[u].account.id = i
      PROVE  (Missing(i, x))'
  <2>1. CASE u = t
    BY <1>1, <1>5, <2>1 DEF Missing, There
  <2>2. CASE u # t
    BY <1>5, <2>2 DEF Missing, Left, Underway, OnlyTask
  <2>. QED
    BY <2>1, <2>2
<1>6. CASE i \in failed
  BY <1>6 DEF Missing, NoNewNames
<1>. QED
  BY <1>2, <1>3, <1>4, <1>5, <1>6 DEF AllListed, Missing

-----------------------------------------------------------------------------
\* Once a step is due, those that come before it are done.
LEMMA DoneBefore ==
  ASSUME NEW t, Due(t), Step(t)[1] \in StepNames, NEW s, s[1] \in StepNames, Rank[s[1]] < Rank[Step(t)[1]]
  PROVE  s \notin ToDo(task[t].todo)
<1>1. task[t] \in TaskTypes /\ t \in Tasks
  BY DueParts
<1>2. /\ ToDo(task[t].todo) = {Step(t)} \cup ToDo(Rest(t))
      /\ Step(t)[1] # "load" => \A u \in ToDo(Rest(t)) : u[1] # "load" => Rank[Step(t)[1]] <= Rank[u[1]]
  BY <1>1, NextStep DEF Due
<1>3. Rank[s[1]] \in Nat /\ Rank[Step(t)[1]] \in Nat /\ s[1] # "load" /\ Step(t)[1] # "load"
  BY DEF Rank, StepNames
<1>. QED
  BY <1>2, <1>3

LEMMA RestToDo ==
  ASSUME NEW t, Due(t)
  PROVE  /\ ToDo(task[t].todo) = {Step(t)} \cup ToDo(Rest(t))
         /\ Step(t)[1] # "load" => Step(t) \notin ToDo(Rest(t))
BY DueParts, NextStep DEF Due

LEMMA NotThereYet ==
  ASSUME NamesTypes, NEW g, NamedBy(g), NEW t \in Tasks, task[t].op = "register", Putting(t)
  PROVE  ~ Born(t) /\ ~ There(t)
BY DEF NamedBy, FilesNamed, Born, There, Ids

LEMMA RegisterForm ==
  ASSUME task \in [Tasks -> TaskTypes], NEW u \in Tasks, task[u].op = "register"
  PROVE  task[u].form \in AccountForms
BY TaskParts DEF AtWork, FormOps, TaskTypes

\* Until its deletion begins, all the steps of it are to do.
LEMMA AskingToDo ==
  ASSUME NEW t, Due(t), task[t].op = "delete", Step(t)[1] \in {"find", "verify", "again"}
  PROVE  /\ \A x \in FormKeys : <<"leave", x>> \in ToDo(task[t].todo) /\ <<"leave", x>> \in ToDo(Rest(t))
         /\ <<"remove", "file">> \in ToDo(task[t].todo) /\ <<"remove", "file">> \in ToDo(Rest(t))
         /\ \A x \in FormKeys : ~ Left(t, x)
<1>1. Whole("delete", task[t].todo)
  BY DEF Due, Shape
<1>2. /\ ToDo(task[t].todo) = {Step(t)} \cup ToDo(Rest(t))
      /\ Step(t)[1] = "again" => Step(t) = <<"again", "purge">>
  BY RestToDo, DueParts DEF KnownStep
<1>3. <<"again", "purge">> \in ToDo(task[t].todo)
  BY <1>1, <1>2 DEF Whole
<1>4. \A x \in FormKeys : <<"leave", x>> \in ToDo(task[t].todo) /\ <<"leave", x>>[1] = "leave"
  BY <1>1, <1>3 DEF Whole
<1>5. <<"remove", "file">> \in ToDo(task[t].todo) /\ <<"remove", "file">>[1] = "remove"
  <2>1. <<"leave", "email">> \in ToDo(task[t].todo) /\ <<"leave", "email">>[1] = "leave"
    BY <1>4 DEF FormKeys
  <2>. QED
    BY <1>1, <2>1 DEF Whole
<1>. QED
  BY <1>2, <1>4, <1>5 DEF Left

LEMMA PodsStayAlone ==
  ASSUME NamesTypes, PodsHeld, NoNewNames, NEW t \in Tasks, OnlyTask(t),
         NEW q, q \in Pods \/ podOf' = podOf,
         \A p \in Pods : p # q => podOf'[p] = podOf[p],
         \/ podOf'[q] = podOf[q]
         \/ podOf[q] = NoId
         \/ \E j \in Ids : podOf[q] = j /\ (~ (There(j))' \/ j \in failed') /\ (j \in Tasks => ~ (Holds(j))'),
         (Holds(t))' => task'[t].form \in AccountForms
                        /\ \/ Holds(t) /\ task'[t].form = task[t].form
                           \/ podOf'[task'[t].form.pod] = t
  PROVE  PodsHeld'
<1>1. ASSUME NEW u \in Tasks, (Holds(u))'
      PROVE  task'[u].form \in AccountForms
             /\ \/ Holds(u) /\ task'[u].form = task[u].form
                \/ podOf'[task'[u].form.pod] = u
  <2>1. CASE u = t
    BY <1>1, <2>1
  <2>2. CASE u # t
    <3>1. task'[u] = task[u]
      BY <2>2 DEF OnlyTask
    <3>2. Holds(u)
      BY <1>1, <3>1 DEF Holds, Putting
    <3>3. task[u].form \in AccountForms
      BY <3>2, RegisterForm DEF Holds, NamesTypes, TaskTypes
    <3>. QED
      BY <3>1, <3>2, <3>3
  <2>. QED
    BY <2>1, <2>2
<1>. QED
  BY <1>1, PodsStay

LEMMA SamePods ==
  ASSUME NamesTypes, PodsHeld, NoNewNames, NEW t \in Tasks, OnlyTask(t), UNCHANGED podOf,
         (Holds(t))' => task'[t].form = task[t].form /\ Holds(t)
  PROVE  PodsHeld'
<1>1. (Holds(t))' => task'[t].form \in AccountForms /\ Holds(t) /\ task'[t].form = task[t].form
  BY RegisterForm DEF Holds, NamesTypes, TaskTypes
<1>. QED
  BY <1>1, PodsStayAlone

\* A step that changes no index, and no file by more than a password or a passkey.
LEMMA Quiet ==
  ASSUME NamesTypes, NEW g, NamedBy(g), UpToRace, NEW t \in Tasks, OnlyTask(t), NoNewNames,
         \A i \in Ids : There(i) => (There(i))',
         UNCHANGED index, mishaps' = 0 => mishaps = 0, PodsHeld',
         \A x \in FormKeys : (Left(t, x))' => \A e \in index[x] : e[2] # task'[t].account.id,
         task'[t].op = "delete" /\ (Underway(t))' /\ <<"remove", "file">> \notin ToDo(task'[t].todo)
           => files'[task'[t].account.id] = NoFile,
         \A x \in FormKeys : (There(t))' /\ Entering(t, x) => (Entering(t, x))' \/ t \in failed',
         \A x \in FormKeys :
           Left(t, x) => \/ (Left(t, x))' /\ task'[t].account = task[t].account
                         \/ files'[task[t].account.id] = NoFile \/ task[t].account.id \in failed'
  PROVE  UpToRace'
<1>1. NamesLead'
  <2>1. \A x \in FormKeys : \A e \in index[x] : e[2] \in Ids
    BY DEF NamesTypes, Pairs, Indexes, FormKeys
  <2>. QED
    BY <2>1 DEF NamesLead, UpToRace
<1>2. Distinct'
  BY DistinctStays DEF UpToRace
<1>3. DeletesInOrder'
  BY DeletesStay DEF UpToRace
<1>4. mishaps' = 0 => AllListed'
  BY ListedStay DEF UpToRace
<1>. QED
  BY <1>1, <1>2, <1>3, <1>4 DEF UpToRace

\* A step that only goes on.
LEMMA PlainQuiet ==
  ASSUME NamesTypes, NEW g, NamedBy(g), UpToRace, NEW t, Due(t), NEW c, Goes(t, Rest(t), task[t].account, c),
         Step(t)[1] \in {"load", "verify", "absent", "write"}, NoNewNames,
         \A i \in Ids : There(i) => (There(i))', UNCHANGED <<index, podOf, mishaps, failed>>
  PROVE  UpToRace'
<1>1. /\ t \in Tasks /\ OnlyTask(t) /\ ToDo(task[t].todo) = {Step(t)} \cup ToDo(Rest(t))
      /\ task'[t].op = task[t].op /\ task'[t].form = task[t].form
      /\ task'[t].todo = Rest(t) /\ task'[t].account = task[t].account
  BY DueParts, RestToDo DEF Goes, Same, OnlyTask
<1>2. \A s : s[1] \in {"makePod", "put", "enter", "leave", "remove"} =>
               (s \in ToDo(task[t].todo) <=> s \in ToDo(Rest(t)))
  BY <1>1
<1>3. /\ <<"makePod", "pod">>[1] = "makePod" /\ <<"put", "file">>[1] = "put" /\ <<"remove", "file">>[1] = "remove"
      /\ \A x : <<"enter", x>>[1] = "enter" /\ <<"leave", x>>[1] = "leave"
  OBVIOUS
<1>4. /\ <<"makePod", "pod">> \in ToDo(task[t].todo) <=> <<"makePod", "pod">> \in ToDo(Rest(t))
      /\ <<"put", "file">> \in ToDo(task[t].todo) <=> <<"put", "file">> \in ToDo(Rest(t))
      /\ <<"remove", "file">> \in ToDo(task[t].todo) <=> <<"remove", "file">> \in ToDo(Rest(t))
      /\ \A x : <<"enter", x>> \in ToDo(task[t].todo) <=> <<"enter", x>> \in ToDo(Rest(t))
      /\ \A x : <<"leave", x>> \in ToDo(task[t].todo) <=> <<"leave", x>> \in ToDo(Rest(t))
  BY <1>2, <1>3
<1>5. (Holds(t))' => task'[t].form = task[t].form /\ Holds(t)
  BY <1>1, <1>4 DEF Holds, Putting
<1>6. PodsHeld'
  BY <1>1, <1>5, SamePods DEF UpToRace
<1>7. Underway(t) /\ ((Underway(t))' <=> Rest(t) # <<>>)
  BY <1>1 DEF Due, Underway
<1>8. \A x \in FormKeys : (Left(t, x))' => Left(t, x)
  BY <1>1, <1>4, <1>7 DEF Left
<1>9. \A x \in FormKeys : (Left(t, x))' => \A e \in index[x] : e[2] # task'[t].account.id
  BY <1>1, <1>8 DEF UpToRace, DeletesInOrder
<1>10. task[t].op = "delete" /\ <<"remove", "file">> \notin ToDo(Rest(t)) => files'[task[t].account.id] = NoFile
  <2>1. SUFFICES ASSUME task[t].op = "delete", <<"remove", "file">> \notin ToDo(Rest(t))
                 PROVE  files'[task[t].account.id] = NoFile
    OBVIOUS
  <2>2. ~ There(task[t].account.id)
    BY <1>1, <1>4, <1>7, <2>1 DEF UpToRace, DeletesInOrder
  <2>3. task[t].account.id \in Ids
    BY <1>1, <1>4, <1>7, <2>1, DeleteHeld
  <2>. QED
    BY <2>2, <2>3 DEF NoNewNames, There
<1>11. \A x \in FormKeys : Left(t, x) => \/ (Left(t, x))' /\ task'[t].account = task[t].account
                                         \/ files'[task[t].account.id] = NoFile
  <2>1. SUFFICES ASSUME NEW x \in FormKeys, Left(t, x), ~ (Left(t, x))'
                 PROVE  files'[task[t].account.id] = NoFile
    BY <1>1
  <2>2. Rest(t) = <<>> /\ task[t].op = "delete"
    BY <1>1, <1>4, <1>7, <2>1 DEF Left
  <2>. QED
    BY <1>10, <2>2, NoSteps
<1>12. \A x \in FormKeys : Entering(t, x) => (Entering(t, x))'
  BY <1>1, <1>4 DEF Entering
<1>13. task'[t].op = "delete" /\ (Underway(t))' /\ <<"remove", "file">> \notin ToDo(task'[t].todo)
         => files'[task'[t].account.id] = NoFile
  BY <1>1, <1>10
<1>. QED
  BY <1>1, <1>6, <1>9, <1>11, <1>12, <1>13, Quiet

\* A step of an operation that makes no account and has not begun to delete one.
LEMMA AskingQuiet ==
  ASSUME NamesTypes, NEW g, NamedBy(g), UpToRace, NEW t \in Tasks, OnlyTask(t),
         UNCHANGED <<files, index, podOf, mishaps, failed>>,
         task[t].op # "register", task'[t].op # "register",
         \A x \in FormKeys : ~ Left(t, x),
         task'[t].op = "delete" =>
           /\ \A x \in FormKeys : <<"leave", x>> \in ToDo(task'[t].todo)
           /\ <<"remove", "file">> \in ToDo(task'[t].todo)
  PROVE  UpToRace'
<1>1. NoNewNames /\ \A i \in Ids : There(i) => (There(i))'
  BY DEF NoNewNames, There
<1>2. PodsHeld'
  BY <1>1, SamePods DEF Holds, UpToRace
<1>3. \A x \in FormKeys : ~ (Left(t, x))'
  BY DEF Left
<1>4. \A x \in FormKeys : ~ Entering(t, x)
  BY DEF Entering
<1>. QED
  BY <1>1, <1>2, <1>3, <1>4, Quiet

-----------------------------------------------------------------------------
LEMMA SameFiles ==
  ASSUME UNCHANGED files, failed \subseteq failed'
  PROVE  NoNewNames /\ \A i \in Ids : There(i) => (There(i))'
BY DEF NoNewNames, There

LEMMA EndsAlone == ASSUME NEW t \in Tasks, Ends(t) PROVE OnlyTask(t) /\ task'[t].op = "done"
BY DEF Ends, OnlyTask

LEMMA GoesAlone ==
  ASSUME NEW t \in Tasks, NEW todo, NEW a, NEW c, Goes(t, todo, a, c)
  PROVE  /\ OnlyTask(t) /\ task'[t].op = task[t].op /\ task'[t].form = task[t].form
         /\ task'[t].todo = todo /\ task'[t].account = a
BY DEF Goes, Same, OnlyTask

\* A registration that is refused, by the pod or by a name, has not made an account.
LEMMA RefusedQuiet ==
  ASSUME NamesTypes, NEW g, NamedBy(g), UpToRace, NEW t \in Tasks, Ends(t), task[t].op = "register", Putting(t),
         UNCHANGED <<files, index, mishaps, failed>>, task[t].form \in AccountForms,
         \/ UNCHANGED podOf
         \/ /\ podOf' = [podOf EXCEPT ![task[t].form.pod] = NoId] /\ podOf[task[t].form.pod] = t
  PROVE  UpToRace'
<1>1. OnlyTask(t) /\ task'[t].op = "done" /\ ~ There(t) /\ ~ (There(t))' /\ t \in Ids
  BY EndsAlone, NotThereYet DEF There, Ids
<1>2. NoNewNames /\ \A i \in Ids : There(i) => (There(i))'
  BY SameFiles
<1>3. ~ (Holds(t))' /\ \A x \in FormKeys : ~ Left(t, x) /\ ~ (Left(t, x))'
  BY <1>1 DEF Holds, Left
<1>4. PodsHeld'
  <2>1. CASE UNCHANGED podOf
    BY <1>1, <1>2, <1>3, <2>1, SamePods DEF UpToRace
  <2>2. CASE podOf' = [podOf EXCEPT ![task[t].form.pod] = NoId] /\ podOf[task[t].form.pod] = t
    <3>1. PICK q : q = task[t].form.pod
      OBVIOUS
    <3>2. q \in Pods /\ podOf[q] = t /\ \A p \in Pods : p # q => podOf'[p] = podOf[p]
      BY <2>2, <3>1 DEF Pods, NamesTypes
    <3>. QED
      BY <1>1, <1>2, <1>3, <3>2, PodsStayAlone DEF UpToRace
  <2>. QED
    BY <2>1, <2>2
<1>. QED
  BY <1>1, <1>2, <1>3, <1>4, Quiet

LEMMA MakePodQuiet ==
  ASSUME NamesTypes, NEW g, NamedBy(g), UpToRace, NEW t, Due(t), MakePod(t)
  PROVE  UpToRace'
<1>1. /\ t \in Tasks /\ task[t].op = "register" /\ Putting(t) /\ task[t].form \in AccountForms
      /\ UNCHANGED <<files, index, mishaps, failed>> /\ Step(t)[1] = "makePod"
  BY MakePodEffect, BeforePut, DueParts, RegisterForm
<1>2. CASE Ends(t) /\ UNCHANGED podOf
  BY <1>1, <1>2, RefusedQuiet
<1>3. CASE /\ podOf[task[t].form.pod] = NoId
           /\ podOf' = [podOf EXCEPT ![task[t].form.pod] = t]
           /\ Goes(t, Rest(t), task[t].account, task[t].copy)
  <2>1. /\ OnlyTask(t) /\ task'[t].op = task[t].op /\ task'[t].form = task[t].form
        /\ task'[t].todo = Rest(t) /\ task'[t].account = task[t].account
    BY <1>1, <1>3, GoesAlone
  <2>2. NoNewNames /\ \A i \in Ids : There(i) => (There(i))'
    BY <1>1, SameFiles
  <2>3. PICK q : q = task[t].form.pod
    OBVIOUS
  <2>4. /\ q \in Pods /\ podOf[q] = NoId /\ podOf'[q] = t
        /\ \A p \in Pods : p # q => podOf'[p] = podOf[p]
    BY <1>1, <1>3, <2>3 DEF Pods, NamesTypes
  <2>5. PodsHeld'
    BY <1>1, <2>1, <2>2, <2>3, <2>4, PodsStayAlone DEF UpToRace
  <2>6. \A x \in FormKeys : ~ Left(t, x) /\ ~ (Left(t, x))'
    BY <1>1, <2>1 DEF Left
  <2>7. ~ (There(t))'
    BY <1>1, NotThereYet DEF There
  <2>. QED
    BY <1>1, <2>1, <2>2, <2>5, <2>6, <2>7, Quiet
<1>. QED
  BY <1>2, <1>3, MakePodEffect

LEMMA LoadQuiet ==
  ASSUME NamesTypes, NEW g, NamedBy(g), UpToRace, NEW t, Due(t), Load(t)
  PROVE  UpToRace'
BY LoadEffect, SameFiles, PlainQuiet

LEMMA CheckAbsentQuiet ==
  ASSUME NamesTypes, NEW g, NamedBy(g), UpToRace, NEW t, Due(t), CheckAbsent(t), ~ raced'
  PROVE  UpToRace'
<1>1. /\ t \in Tasks /\ task[t].op = "register" /\ Putting(t) /\ task[t].form \in AccountForms
      /\ UNCHANGED <<files, index, mishaps, failed>> /\ Step(t)[1] = "absent"
  BY CheckAbsentEffect, BeforePut, DueParts, RegisterForm
<1>2. CASE Goes(t, Rest(t), task[t].account, task[t].copy) /\ UNCHANGED <<podOf, raced>>
  BY <1>1, <1>2, SameFiles, PlainQuiet
<1>3. CASE /\ Ends(t)
           /\ podOf' = [podOf EXCEPT ![task[t].form.pod] = NoId]
           /\ raced' = (raced \/ podOf[task[t].form.pod] # t)
  BY <1>1, <1>3, RefusedQuiet
<1>. QED
  BY <1>2, <1>3, CheckAbsentEffect

LEMMA VerifyQuiet ==
  ASSUME NamesTypes, NEW g, NamedBy(g), UpToRace, NEW t, Due(t), Verify(t)
  PROVE  UpToRace'
<1>1. /\ t \in Tasks /\ UNCHANGED <<files, index, podOf, mishaps, failed>> /\ Step(t)[1] = "verify"
      /\ task[t].op # "register"
  BY VerifyEffect, DueParts DEF KnownStep
<1>2. CASE Goes(t, Rest(t), task[t].account, task[t].copy)
  BY <1>1, <1>2, SameFiles, PlainQuiet
<1>3. CASE Ends(t)
  <2>1. \A x \in FormKeys : ~ Left(t, x)
    BY <1>1, AskingToDo DEF Left
  <2>. QED
    BY <1>1, <1>3, <2>1, EndsAlone, AskingQuiet
<1>. QED
  BY <1>2, <1>3, VerifyEffect

LEMMA FindQuiet ==
  ASSUME NamesTypes, NEW g, NamedBy(g), UpToRace, NEW t, Due(t), FindById(t)
  PROVE  UpToRace'
<1>1. /\ t \in Tasks /\ UNCHANGED <<files, index, podOf, mishaps, failed>> /\ Step(t)[1] = "find"
      /\ task[t].op # "register"
  BY FindEffect, DueParts DEF KnownStep
<1>2. /\ \A x \in FormKeys : ~ Left(t, x)
      /\ task[t].op = "delete" => /\ \A x \in FormKeys : <<"leave", x>> \in ToDo(Rest(t))
                                  /\ <<"remove", "file">> \in ToDo(Rest(t))
  BY <1>1, AskingToDo DEF Left
<1>3. ASSUME NEW i \in Ids, Goes(t, Rest(t), files[i], task[t].copy)
      PROVE  UpToRace'
  <2>1. /\ OnlyTask(t) /\ task'[t].op = task[t].op /\ task'[t].todo = Rest(t)
    BY <1>1, <1>3, GoesAlone
  <2>. QED
    BY <1>1, <1>2, <2>1, AskingQuiet
<1>4. CASE task[t].op = "login" /\ Goes(t, ByEmail, task[t].account, task[t].copy)
  <2>1. OnlyTask(t) /\ task'[t].op = "login"
    BY <1>1, <1>4, GoesAlone
  <2>. QED
    BY <1>1, <1>2, <2>1, AskingQuiet
<1>5. CASE Ends(t)
  BY <1>1, <1>2, <1>5, EndsAlone, AskingQuiet
<1>. QED
  BY <1>3, <1>4, <1>5, FindEffect

\* An account that is gone already has no names either: only its pod is left to remove.
LEMMA AgainQuiet ==
  ASSUME NamesTypes, NEW g, NamedBy(g), UpToRace, NEW t, Due(t), Again(t)
  PROVE  UpToRace'
<1>1. /\ t \in Tasks /\ task[t].op # "register" /\ Step(t)[1] = "again" /\ InHand(t, g)
  BY DueParts DEF KnownStep, KeyOps, Again, At, NamedBy, TasksInv
<1>2. task[t].account \in AccountFiles /\ task[t].account.id \in Ids
  <2>1. Rank[Step(t)[1]] >= 5 /\ Step(t)[1] \in StepNames
    BY <1>1 DEF Rank, StepNames
  <2>. QED
    BY <1>1, <2>1, AccountHeld
<1>3. UNCHANGED <<files, index, podOf, mishaps, failed>>
  BY <1>2, AgainEffect
<1>4. /\ \A x \in FormKeys : ~ Left(t, x)
      /\ task[t].op = "delete" => /\ \A x \in FormKeys : <<"leave", x>> \in ToDo(Rest(t))
                                  /\ <<"remove", "file">> \in ToDo(Rest(t))
  BY <1>1, AskingToDo DEF Left
<1>5. CASE Goes(t, Rest(t), files[task[t].account.id], task[t].copy)
  <2>1. /\ OnlyTask(t) /\ task'[t].op = task[t].op /\ task'[t].todo = Rest(t)
    BY <1>1, <1>5, GoesAlone
  <2>. QED
    BY <1>1, <1>3, <1>4, <2>1, AskingQuiet
<1>6. CASE /\ ~ There(task[t].account.id) /\ task[t].op = "delete"
           /\ Goes(t, OnlyPurge(task[t].todo), task[t].account, task[t].copy)
  <2>1. /\ OnlyTask(t) /\ task'[t].op = "delete" /\ task'[t].account = task[t].account
    BY <1>1, <1>6, GoesAlone
  <2>2. NoNewNames /\ \A i \in Ids : There(i) => (There(i))'
    BY <1>3, SameFiles
  <2>3. PodsHeld'
    BY <1>1, <1>3, <2>1, <2>2, SamePods DEF UpToRace, Holds
  <2>4. \A x \in FormKeys : \A e \in index[x] : e[2] # task'[t].account.id
    BY <1>6, <2>1 DEF UpToRace, NamesLead
  <2>5. files'[task'[t].account.id] = NoFile
    BY <1>3, <1>6, <2>1 DEF There
  <2>6. \A x \in FormKeys : ~ Entering(t, x)
    BY <1>1 DEF Entering
  <2>. QED
    BY <1>1, <1>3, <1>4, <2>1, <2>2, <2>3, <2>4, <2>5, <2>6, Quiet
<1>7. CASE Ends(t)
  BY <1>1, <1>3, <1>4, <1>7, EndsAlone, AskingQuiet
<1>. QED
  BY <1>2, <1>5, <1>6, <1>7, AgainEffect

LEMMA WriteQuiet ==
  ASSUME NamesTypes, NEW g, NamedBy(g), UpToRace, NEW t, Due(t), Write(t), ~ raced'
  PROVE  UpToRace'
<1>1. t \in Tasks /\ Step(t)[1] = "write" /\ InHand(t, g)
  BY DueParts DEF Write, At, NamedBy, TasksInv
<1>2. task[t].account \in AccountFiles /\ task[t].account.id \in Ids
  <2>1. Rank[Step(t)[1]] >= 5 /\ Step(t)[1] \in StepNames
    BY <1>1 DEF Rank, StepNames
  <2>. QED
    BY <1>1, <2>1, AccountHeld
<1>3. PICK i : i = task[t].account.id
  OBVIOUS
<1>4. files[i] = task[t].account
  BY <1>2, <1>3, WriteEffect
<1>5. PICK a \in AccountFiles : a.form = task[t].account.form /\ files' = [files EXCEPT ![i] = a]
  BY <1>2, <1>3, WriteEffect
<1>6. a # NoFile /\ files[i] # NoFile
  BY <1>2, <1>4, FileParts
<1>7. NoNewNames /\ \A j \in Ids : There(j) => (There(j))'
  <2>1. ASSUME NEW j \in Ids
        PROVE  ((There(j))' => There(j) /\ files'[j].form = files[j].form) /\ (There(j) => (There(j))')
    BY <1>4, <1>5, <1>6 DEF There, NamesTypes
  <2>2. failed' = failed
    BY <1>2, WriteEffect
  <2>. QED
    BY <2>1, <2>2 DEF NoNewNames
<1>. QED
  BY <1>1, <1>2, <1>7, WriteEffect, PlainQuiet

-----------------------------------------------------------------------------
\* createAccount looks for each of the names.
LEMMA LookedForAre == FormKeys \subseteq LookedFor
<1>1. PICK s : s = CreateAccount
  OBVIOUS
<1>2. \A x \in FormKeys : <<"absent", x>> \in ToDo(s)
  <2>1. \E T : Good(s, T) /\ <<"absent", "username">> \in T /\ <<"absent", "email">> \in T
                          /\ <<"absent", "webid">> \in T
    BY <1>1, CreateGood
  <2>. QED
    BY <2>1 DEF Good, FormKeys
<1>3. \A x \in FormKeys : \E n \in DOMAIN s : s[n] = <<"absent", x>>
  BY <1>2 DEF ToDo
<1>4. \A x \in FormKeys : \E n \in DOMAIN s : s[n][1] = "absent" /\ s[n][2] = x
  BY <1>3
<1>. QED
  BY <1>1, <1>4 DEF LookedFor

\* Unless it is overtaken, a registration has names that nobody else has.
LEMMA NewNames ==
  ASSUME NEW f, ~ Overtaken(f), NEW i \in Ids, There(i), NEW x \in FormKeys
  PROVE  files[i].form[x] # f[x]
<1>1. SUFFICES ASSUME files[i].form[x] = f[x] PROVE FALSE
  OBVIOUS
<1>2. <<f[x], i>> \in index[x]
  BY <1>1 DEF Overtaken, There
<1>3. <<f[x], i>>[1] = f[x] /\ <<f[x], i>>[2] = i
  OBVIOUS
<1>4. x \in LookedFor
  BY LookedForAre
<1>. QED
  BY <1>2, <1>3, <1>4 DEF Overtaken, There

LEMMA PutQuiet ==
  ASSUME NamesTypes, NEW g, NamedBy(g), UpToRace, NEW t, Due(t), Put(t), ~ raced'
  PROVE  UpToRace'
<1>1. /\ t \in Tasks /\ t \in Ids /\ task[t].op = "register" /\ Step(t) = <<"put", "file">>
      /\ Step(t)[1] = "put" /\ task[t].form \in AccountForms /\ task[t] \in TaskTypes
  BY PutEffect, DueParts, RegisterForm DEF KnownStep, Ids
<1>2. UNCHANGED <<index, podOf, mishaps, failed>> /\ ~ Overtaken(task[t].form)
  BY PutEffect
<1>3. PICK a \in AccountFiles : /\ a.form = task[t].form /\ files' = [files EXCEPT ![t] = a]
                                /\ Goes(t, Rest(t), a, task[t].copy)
  BY PutEffect
<1>4. /\ OnlyTask(t) /\ task'[t].op = "register" /\ task'[t].form = task[t].form /\ task'[t].todo = Rest(t)
  BY <1>1, <1>3, GoesAlone
<1>5. ToDo(task[t].todo) = {Step(t)} \cup ToDo(Rest(t)) /\ Step(t) \notin ToDo(Rest(t))
  BY <1>1, RestToDo
<1>6. /\ Putting(t) /\ ~ There(t) /\ ~ Born(t) /\ Holds(t) /\ ~ (Holds(t))'
  <2>1. Putting(t)
    BY <1>1, <1>5 DEF Putting
  <2>2. <<"makePod", "pod">> \notin ToDo(task[t].todo)
    <3>1. <<"makePod", "pod">>[1] = "makePod" /\ Rank["makePod"] < Rank["put"]
      BY DEF Rank
    <3>. QED
      BY <1>1, <3>1, DoneBefore DEF StepNames
  <2>3. ~ (Holds(t))'
    BY <1>1, <1>4, <1>5 DEF Holds, Putting
  <2>. QED
    BY <1>1, <2>1, <2>2, <2>3, NotThereYet DEF Holds
<1>7. /\ files'[t] = a /\ a # NoFile /\ \A i \in Ids : i # t => files'[i] = files[i]
  BY <1>1, <1>3, FileParts DEF NamesTypes
<1>8. /\ (There(t))' /\ \A i \in Ids : i # t => ((There(i))' <=> There(i))
  BY <1>7 DEF There
<1>9. \A x \in FormKeys : index[x] \subseteq Pairs
  BY DEF NamesTypes, Indexes, FormKeys
<1>10. NamesLead'
  BY <1>2, <1>6, <1>8, <1>9 DEF UpToRace, NamesLead, Pairs
<1>11. Distinct'
  <2>1. \A i \in Ids : There(i) => \A x \in FormKeys : files[i].form[x] # a.form[x]
    BY <1>2, <1>3, NewNames
  <2>2. SUFFICES ASSUME NEW i \in Ids, NEW j \in Ids, (There(i))', (There(j))', i # j, NEW x \in FormKeys
                 PROVE  files'[i].form[x] # files'[j].form[x]
    BY DEF Distinct
  <2>3. CASE i = t
    BY <1>7, <1>8, <2>1, <2>2, <2>3
  <2>4. CASE j = t
    BY <1>7, <1>8, <2>1, <2>2, <2>4
  <2>5. CASE i # t /\ j # t
    BY <1>7, <1>8, <2>2, <2>5 DEF UpToRace, Distinct
  <2>. QED
    BY <2>3, <2>4, <2>5
<1>12. PodsHeld'
  <2>1. ASSUME NEW i \in Ids, (There(i))', i \notin failed' PROVE podOf'[files'[i].form.pod] = i
    <3>1. CASE i = t
      <4>1. podOf[task[t].form.pod] = t
        BY <1>1, <1>6 DEF UpToRace, PodsHeld, Holds
      <4>2. files'[i].form = task[t].form
        BY <1>3, <1>7, <3>1
      <4>. QED
        BY <1>2, <3>1, <4>1, <4>2
    <3>2. CASE i # t
      BY <1>2, <1>7, <1>8, <2>1, <3>2 DEF UpToRace, PodsHeld
    <3>. QED
      BY <3>1, <3>2
  <2>2. ASSUME NEW u \in Tasks, (Holds(u))' PROVE podOf'[task'[u].form.pod] = u
    <3>1. u # t
      BY <1>6, <2>2
    <3>2. task'[u] = task[u]
      BY <1>4, <3>1 DEF OnlyTask
    <3>3. Holds(u)
      BY <2>2, <3>2 DEF Holds, Putting
    <3>. QED
      BY <1>2, <3>2, <3>3 DEF UpToRace, PodsHeld, Holds
  <2>. QED
    BY <2>1, <2>2 DEF PodsHeld, Holds
<1>13. DeletesInOrder'
  <2>1. SUFFICES ASSUME NEW u \in Tasks, task'[u].op = "delete", (Underway(u))'
                 PROVE  /\ \A x \in FormKeys : (Left(u, x))' => \A e \in index'[x] : e[2] # task'[u].account.id
                        /\ <<"remove", "file">> \notin ToDo(task'[u].todo) => files'[task'[u].account.id] = NoFile
    BY DEF DeletesInOrder, There, Left
  <2>2. task'[u] = task[u]
    BY <1>4, <2>1 DEF OnlyTask
  <2>3. task[u].op = "delete" /\ Underway(u) /\ \A x \in FormKeys : (Left(u, x))' <=> Left(u, x)
    BY <2>1, <2>2 DEF Left, Underway
  <2>4. \A x \in FormKeys : (Left(u, x))' => \A e \in index'[x] : e[2] # task'[u].account.id
    BY <1>2, <2>2, <2>3 DEF UpToRace, DeletesInOrder
  <2>5. ASSUME <<"remove", "file">> \notin ToDo(task'[u].todo) PROVE files'[task'[u].account.id] = NoFile
    <3>1. /\ ~ There(task[u].account.id) /\ task[u].account.id \in Ids /\ Born(task[u].account.id)
      BY <2>2, <2>3, <2>5, DeleteHeld DEF UpToRace, DeletesInOrder
    <3>. QED
      BY <1>6, <1>7, <2>2, <3>1 DEF There
  <2>. QED
    BY <2>4, <2>5
<1>14. AllListed => AllListed'
  <2>1. SUFFICES ASSUME AllListed, NEW i \in Ids, (There(i))', NEW x \in FormKeys
                 PROVE  <<files'[i].form[x], i>> \in index'[x] \/ (Missing(i, x))'
    BY DEF AllListed
  <2>2. CASE i = t
    <3>1. <<"enter", x>> \in ToDo(task[t].todo)
      BY <1>1, <1>6 DEF Due, Shape, Whole, Putting
    <3>2. <<"enter", x>> # <<"put", "file">>
      OBVIOUS
    <3>3. (Entering(t, x))'
      BY <1>1, <1>4, <1>5, <3>1, <3>2 DEF Entering
    <3>. QED
      BY <2>2, <3>3 DEF Missing
  <2>3. CASE i # t
    <3>1. There(i) /\ files'[i] = files[i]
      BY <1>7, <1>8, <2>1, <2>3
    <3>2. Entering(i, x) => (Entering(i, x))'
      BY <1>4, <2>3 DEF Entering, OnlyTask
    <3>3. ASSUME NEW u \in Tasks, Left(u, x), task[u].account.id = i PROVE (Left(u, x))' /\ task'[u].account.id = i
      <4>1. task'[u] = task[u]
        BY <1>1, <1>4, <3>3 DEF Left, OnlyTask
      <4>. QED
        BY <3>3, <4>1 DEF Left, Underway
    <3>. QED
      BY <1>2, <2>1, <3>1, <3>2, <3>3 DEF AllListed, Missing
  <2>. QED
    BY <2>2, <2>3
<1>. QED
  BY <1>2, <1>10, <1>11, <1>12, <1>13, <1>14 DEF UpToRace

LEMMA RemoveQuiet ==
  ASSUME NamesTypes, NEW g, NamedBy(g), UpToRace, NEW t, Due(t), Remove(t)
  PROVE  UpToRace'
<1>1. /\ t \in Tasks /\ task[t].op = "delete" /\ Step(t)[1] = "remove" /\ InHand(t, g)
      /\ Step(t) = <<"remove", "file">> /\ Underway(t)
  BY DueParts, RemoveEffect DEF KnownStep, NamedBy, TasksInv, Due
<1>2. PICK i : i = task[t].account.id
  OBVIOUS
<1>3. i \in Ids
  <2>1. Rank[Step(t)[1]] >= 5 /\ Step(t)[1] \in StepNames
    BY <1>1 DEF Rank, StepNames
  <2>. QED
    BY <1>1, <1>2, <2>1, AccountHeld
<1>4. /\ UNCHANGED <<index, podOf, mishaps, failed>> /\ files' = [files EXCEPT ![i] = NoFile]
      /\ Goes(t, Rest(t), task[t].account, task[t].copy)
  BY <1>2, RemoveEffect
<1>5. /\ OnlyTask(t) /\ task'[t].op = "delete" /\ task'[t].todo = Rest(t) /\ task'[t].account = task[t].account
  BY <1>1, <1>4, GoesAlone
<1>6. files'[i] = NoFile /\ \A j \in Ids : j # i => files'[j] = files[j]
  BY <1>3, <1>4 DEF NamesTypes
<1>7. NoNewNames
  BY <1>4, <1>6 DEF NoNewNames, There
<1>8. \A x \in FormKeys : Left(t, x)
  <2>1. ASSUME NEW x \in FormKeys PROVE <<"leave", x>> \notin ToDo(task[t].todo)
    <3>1. <<"leave", x>>[1] = "leave" /\ Rank["leave"] < Rank["remove"]
      BY DEF Rank
    <3>. QED
      BY <1>1, <3>1, DoneBefore DEF StepNames
  <2>. QED
    BY <1>1, <2>1 DEF Left
<1>9. \A x \in FormKeys : \A e \in index[x] : e[2] # i
  BY <1>1, <1>2, <1>8 DEF UpToRace, DeletesInOrder
<1>10. NamesLead'
  <2>1. \A x \in FormKeys : index[x] \subseteq Pairs
    BY DEF NamesTypes, Indexes, FormKeys
  <2>. QED
    BY <1>4, <1>6, <1>9, <2>1 DEF UpToRace, NamesLead, There, Pairs
<1>11. Distinct'
  BY <1>7, DistinctStays DEF UpToRace
<1>12. PodsHeld'
  BY <1>1, <1>4, <1>5, <1>7, SamePods DEF UpToRace, Holds
<1>13. DeletesInOrder'
  BY <1>1, <1>2, <1>4, <1>5, <1>6, <1>7, <1>9, DeletesStay DEF UpToRace
<1>14. AllListed => AllListed'
  <2>1. \A x \in FormKeys : ~ Entering(t, x)
    BY <1>1 DEF Entering
  <2>. QED
    BY <1>1, <1>2, <1>4, <1>5, <1>6, <1>7, <2>1, ListedStay
<1>. QED
  BY <1>4, <1>10, <1>11, <1>12, <1>13, <1>14 DEF UpToRace

LEMMA PurgeQuiet ==
  ASSUME NamesTypes, NEW g, NamedBy(g), UpToRace, NEW t, Due(t), Purge(t), ~ raced'
  PROVE  UpToRace'
<1>1. /\ t \in Tasks /\ task[t].op = "delete" /\ Step(t)[1] = "purge" /\ InHand(t, g)
      /\ Underway(t)
  BY DueParts, PurgeEffect DEF KnownStep, NamedBy, TasksInv, Due
<1>2. /\ UNCHANGED <<files, index, mishaps, failed>>
      /\ Goes(t, Rest(t), task[t].account, task[t].copy)
  BY PurgeEffect
<1>3. PICK i, q : i = task[t].account.id /\ q = task[t].account.form.pod
  OBVIOUS
<1>4. i \in Ids /\ Born(i) /\ task[t].account \in AccountFiles
  <2>1. Rank[Step(t)[1]] >= 5 /\ Step(t)[1] \in StepNames
    BY <1>1 DEF Rank, StepNames
  <2>. QED
    BY <1>1, <1>3, <2>1, AccountHeld
<1>5. /\ OnlyTask(t) /\ task'[t].op = "delete" /\ task'[t].todo = Rest(t) /\ task'[t].account = task[t].account
  BY <1>1, <1>2, GoesAlone
<1>6. NoNewNames /\ \A j \in Ids : There(j) => (There(j))'
  BY <1>2, SameFiles
<1>7. files[i] = NoFile /\ \A x \in FormKeys : Left(t, x)
  <2>1. <<"remove", "file">> \notin ToDo(task[t].todo)
    <3>1. <<"remove", "file">>[1] = "remove" /\ Rank["remove"] < Rank["purge"]
      BY DEF Rank
    <3>. QED
      BY <1>1, <3>1, DoneBefore DEF StepNames
  <2>2. ASSUME NEW x \in FormKeys PROVE <<"leave", x>> \notin ToDo(task[t].todo)
    <3>1. <<"leave", x>>[1] = "leave" /\ Rank["leave"] < Rank["purge"]
      BY DEF Rank
    <3>. QED
      BY <1>1, <3>1, DoneBefore DEF StepNames
  <2>. QED
    BY <1>1, <1>3, <2>1, <2>2 DEF Left, UpToRace, DeletesInOrder, There
<1>8. \A x \in FormKeys : \A e \in index[x] : e[2] # i
  BY <1>1, <1>3, <1>7 DEF UpToRace, DeletesInOrder
<1>9. ~ (There(i))' /\ (i \in Tasks => ~ (Holds(i))')
  <2>1. ~ (There(i))'
    BY <1>2, <1>7 DEF There
  <2>2. ASSUME i \in Tasks PROVE ~ Holds(i)
    BY <1>4, <2>2, NotThereYet DEF Holds
  <2>3. ASSUME i \in Tasks, (Holds(i))' PROVE Holds(i)
    <3>1. i # t
      BY <1>5, <2>3 DEF Holds
    <3>2. task'[i] = task[i]
      BY <1>5, <2>3, <3>1 DEF OnlyTask
    <3>. QED
      BY <2>3, <3>2 DEF Holds, Putting
  <2>. QED
    BY <2>1, <2>2, <2>3
<1>10. PodsHeld'
  <2>1. ~ (Holds(t))'
    BY <1>5 DEF Holds
  <2>2. CASE UNCHANGED podOf
    BY <1>1, <1>5, <1>6, <2>1, <2>2, SamePods DEF UpToRace
  <2>3. CASE podOf' = [podOf EXCEPT ![q] = NoId] /\ podOf[q] \in {NoId, i}
    <3>1. task[t].account.form \in AccountForms
      BY <1>4, FileParts
    <3>2. q \in Pods /\ \A p \in Pods : p # q => podOf'[p] = podOf[p]
      BY <1>3, <2>3, <3>1 DEF Pods, NamesTypes
    <3>. QED
      BY <1>1, <1>4, <1>5, <1>6, <1>9, <2>1, <2>3, <3>2, PodsStayAlone DEF UpToRace
  <2>. QED
    BY <1>3, <2>2, <2>3, PurgeEffect
<1>11. \A x \in FormKeys : ~ Entering(t, x)
  BY <1>1 DEF Entering
<1>. QED
  BY <1>1, <1>2, <1>3, <1>5, <1>6, <1>7, <1>8, <1>10, <1>11, Quiet

-----------------------------------------------------------------------------
\* A task that enters or leaves an index has the account in hand.
LEMMA EntryHeld ==
  ASSUME NamesTypes, NEW g, NamedBy(g), NEW t, Due(t), Step(t)[1] \in {"enter", "leave"}
  PROVE  /\ task[t].account \in AccountFiles /\ task[t].account.id \in Ids
         /\ Born(task[t].account.id) /\ task[t].account.form = g[task[t].account.id]
<1>1. t \in Tasks /\ InHand(t, g)
  BY DueParts DEF NamedBy, TasksInv
<1>2. Rank[Step(t)[1]] >= 5 /\ Step(t)[1] \in StepNames
  BY DEF Rank, StepNames
<1>. QED
  BY <1>1, <1>2, AccountHeld

\* The index of passkeys is no index of names.
LEMMA PasskeyEntryQuiet ==
  ASSUME NamesTypes, NEW g, NamedBy(g), UpToRace, NEW t \in Tasks, NEW a, NEW c, Goes(t, Rest(t), a, c),
         task[t].op \notin {"register", "delete"}, UNCHANGED <<files, podOf, mishaps, failed>>,
         \A x \in FormKeys : index'[x] = index[x]
  PROVE  UpToRace'
<1>1. OnlyTask(t) /\ task'[t].op \notin {"register", "delete"}
  BY GoesAlone
<1>2. NoNewNames /\ \A i \in Ids : There(i) => (There(i))'
  BY SameFiles
<1>3. PodsHeld'
  BY <1>1, <1>2, SamePods DEF UpToRace, Holds
<1>4. \A x \in FormKeys : ~ Left(t, x) /\ ~ (Left(t, x))' /\ ~ Entering(t, x)
  BY <1>1 DEF Left, Entering
<1>5. NamesLead'
  <2>1. \A x \in FormKeys : \A e \in index[x] : e[2] \in Ids
    BY DEF NamesTypes, Pairs, Indexes, FormKeys
  <2>. QED
    BY <1>2, <2>1 DEF NamesLead, UpToRace
<1>6. Distinct'
  BY <1>2, DistinctStays DEF UpToRace
<1>7. DeletesInOrder'
  BY <1>1, <1>2, <1>4, DeletesStay DEF UpToRace
<1>8. mishaps = 0 => AllListed'
  BY <1>1, <1>2, <1>4, ListedStay DEF UpToRace
<1>. QED
  BY <1>3, <1>5, <1>6, <1>7, <1>8 DEF UpToRace

LEMMA SaveEnteredQuiet ==
  ASSUME NamesTypes, NEW g, NamedBy(g), UpToRace, NEW t, Due(t), SaveEntered(t), ~ raced'
  PROVE  UpToRace'
<1>1. /\ t \in Tasks /\ Step(t)[1] = "enter" /\ Step(t) = <<Step(t)[1], Step(t)[2]>>
      /\ task[t].op \in {"register", "addPasskey"} /\ (Step(t)[2] = "passkey" <=> task[t].op = "addPasskey")
      /\ InHand(t, g)
  BY DueParts, SaveEnteredEffect DEF KnownStep, NamedBy, TasksInv
<1>2. /\ task[t].account \in AccountFiles /\ task[t].account.id \in Ids
      /\ task[t].account.form = g[task[t].account.id]
  BY <1>1, EntryHeld
<1>3. PICK x : x = Step(t)[2]
  OBVIOUS
<1>4. /\ UNCHANGED <<files, podOf, mishaps, failed>> /\ x \in Indexes
      /\ Goes(t, Rest(t), task[t].account, task[t].copy)
      /\ index' = [index EXCEPT ![x] = Others(t, x) \cup {Mine(t, x)}]
      /\ index[x] = task[t].copy /\ files[task[t].account.id] # NoFile
      /\ ~ \E u \in Tasks : Deletes(u, task[t].account.id)
  BY <1>3, SaveEnteredEffect
<1>5. /\ OnlyTask(t) /\ task'[t].op = task[t].op /\ task'[t].todo = Rest(t) /\ task'[t].account = task[t].account
      /\ task'[t].form = task[t].form
  BY <1>1, <1>4, GoesAlone
<1>6. \A y \in Indexes : y # x => index'[y] = index[y]
  BY <1>4 DEF NamesTypes
<1>7. CASE x = "passkey"
  <2>1. \A y \in FormKeys : index'[y] = index[y]
    BY <1>6, <1>7 DEF FormKeys, Indexes
  <2>. QED
    BY <1>1, <1>3, <1>4, <1>7, <2>1, PasskeyEntryQuiet
<1>8. CASE x # "passkey"
  <2>1. x \in FormKeys /\ task[t].op = "register" /\ t \in Ids
    BY <1>1, <1>3, <1>4, <1>8 DEF Indexes, FormKeys, Ids
  <2>2. ~ Putting(t)
    <3>1. <<"put", "file">>[1] = "put" /\ Rank["put"] < Rank["enter"]
      BY DEF Rank
    <3>. QED
      BY <1>1, <3>1, DoneBefore DEF StepNames, Putting
  <2>3. task[t].account.id = t /\ There(t)
    BY <1>1, <1>4, <2>1, <2>2 DEF InHand, There
  <2>4. Mine(t, x) = <<g[t][x], t>> /\ files[t].form = g[t]
    BY <1>2, <1>8, <2>3 DEF Mine, There, NamedBy, FilesNamed
  <2>5. index'[x] = {e \in index[x] : e[1] # g[t][x]} \cup {<<g[t][x], t>>}
    <3>1. <<g[t][x], t>>[1] = g[t][x]
      OBVIOUS
    <3>2. Others(t, x) = {e \in task[t].copy : e[1] # g[t][x]}
      BY <2>4, <3>1 DEF Others
    <3>3. index'[x] = Others(t, x) \cup {Mine(t, x)}
      BY <1>4 DEF NamesTypes
    <3>. QED
      BY <1>4, <2>4, <3>2, <3>3
  <2>6. NoNewNames /\ \A i \in Ids : There(i) => (There(i))'
    BY <1>4, SameFiles
  <2>7. NamesLead'
    <3>1. \A y \in FormKeys : index[y] \subseteq Pairs /\ y \in Indexes
      BY DEF NamesTypes, Indexes, FormKeys
    <3>2. ASSUME NEW y \in FormKeys, NEW e \in index'[y] PROVE files'[e[2]] # NoFile
      <4>1. CASE y = x /\ e = <<g[t][x], t>>
        BY <1>4, <2>3, <4>1 DEF There
      <4>2. CASE e \in index[y]
        BY <1>4, <4>2 DEF UpToRace, NamesLead, There
      <4>. QED
        BY <1>6, <2>5, <3>1, <3>2, <4>1, <4>2
    <3>. QED
      BY <3>2 DEF NamesLead, There
  <2>8. Distinct'
    BY <2>6, DistinctStays DEF UpToRace
  <2>9. PodsHeld'
    <3>1. ~ (Holds(t))'
      <4>1. <<"put", "file">> \notin ToDo(Rest(t))
        BY <1>1, <2>2, RestToDo DEF Putting
      <4>. QED
        BY <1>5, <4>1 DEF Holds, Putting
    <3>. QED
      BY <1>1, <1>4, <1>5, <2>6, <3>1, SamePods DEF UpToRace
  <2>10. DeletesInOrder'
    <3>1. SUFFICES ASSUME NEW u \in Tasks, task'[u].op = "delete", (Underway(u))'
                   PROVE  /\ \A y \in FormKeys : (Left(u, y))' => \A e \in index'[y] : e[2] # task'[u].account.id
                          /\ <<"remove", "file">> \notin ToDo(task'[u].todo) => files'[task'[u].account.id] = NoFile
      BY DEF DeletesInOrder, There, Left
    <3>2. task'[u] = task[u] /\ task[u].op = "delete" /\ Underway(u)
      BY <1>5, <2>1, <3>1 DEF OnlyTask, Underway
    <3>3. task[u].account.id # t
      BY <1>4, <2>3, <3>2 DEF Deletes
    <3>4. ASSUME NEW y \in FormKeys, (Left(u, y))', NEW e \in index'[y] PROVE e[2] # task'[u].account.id
      <4>1. Left(u, y)
        BY <3>2, <3>4 DEF Left
      <4>2. CASE e \in index[y]
        BY <3>2, <4>1, <4>2 DEF UpToRace, DeletesInOrder
      <4>3. CASE e = <<g[t][x], t>>
        BY <3>2, <3>3, <4>3
      <4>. QED
        BY <1>6, <2>5, <3>4, <4>2, <4>3 DEF FormKeys, Indexes
    <3>5. <<"remove", "file">> \notin ToDo(task'[u].todo) => files'[task'[u].account.id] = NoFile
      BY <1>4, <3>2 DEF UpToRace, DeletesInOrder, There
    <3>. QED
      BY <3>4, <3>5
  <2>11. AllListed => AllListed'
    <3>1. SUFFICES ASSUME AllListed PROVE AllListed'
      OBVIOUS
    <3>2. ASSUME NEW i \in Ids, NEW y \in FormKeys, (There(i))', <<files[i].form[y], i>> \in index[y]
          PROVE  <<files[i].form[y], i>> \in index'[y]
      <4>1. CASE y # x
        BY <1>6, <3>2, <4>1 DEF FormKeys, Indexes
      <4>2. CASE y = x /\ i = t
        BY <2>4, <2>5, <4>2
      <4>3. CASE y = x /\ i # t
        <5>1. files[i].form[x] # files[t].form[x]
          BY <2>1, <2>3, <2>6, <3>2, <4>3 DEF UpToRace, Distinct, NoNewNames
        <5>2. PICK e : e = <<files[i].form[x], i>>
          OBVIOUS
        <5>3. e[1] # g[t][x] /\ e \in index[x]
          BY <2>4, <3>2, <4>3, <5>1, <5>2
        <5>4. e \in index'[x]
          BY <2>5, <5>3
        <5>. QED
          BY <4>3, <5>2, <5>4
      <4>. QED
        BY <4>1, <4>2, <4>3
    <3>3. ASSUME NEW y \in FormKeys, Entering(t, y)
          PROVE  <<files[t].form[y], t>> \in index'[y] \/ (Entering(t, y))'
      <4>1. CASE y = x
        BY <2>4, <2>5, <4>1
      <4>2. CASE y # x
        <5>1. <<"enter", y>> # Step(t)
          <6>1. <<"enter", y>>[2] = y
            OBVIOUS
          <6>. QED
            BY <1>3, <4>2, <6>1
        <5>2. <<"enter", y>> \in ToDo(Rest(t))
          BY <1>1, <3>3, <5>1, RestToDo DEF Entering
        <5>. QED
          BY <1>1, <1>5, <2>1, <5>2 DEF Entering
      <4>. QED
        BY <4>1, <4>2
    <3>4. \A y \in FormKeys : ~ Left(t, y)
      BY <2>1 DEF Left
    <3>. QED
      BY <1>1, <1>5, <2>6, <3>1, <3>2, <3>3, <3>4, ListedStay
  <2>. QED
    BY <1>4, <2>7, <2>8, <2>9, <2>10, <2>11 DEF UpToRace
<1>. QED
  BY <1>7, <1>8

LEMMA SaveLeftQuiet ==
  ASSUME NamesTypes, NEW g, NamedBy(g), UpToRace, NEW t, Due(t), SaveLeft(t), ~ raced'
  PROVE  UpToRace'
<1>1. /\ t \in Tasks /\ Step(t)[1] = "leave" /\ Step(t) = <<Step(t)[1], Step(t)[2]>>
      /\ task[t].op \in {"delete", "removePasskey"} /\ (Step(t)[2] = "passkey" <=> task[t].op = "removePasskey")
      /\ InHand(t, g) /\ Underway(t)
  BY DueParts, SaveLeftEffect DEF KnownStep, NamedBy, TasksInv, Due
<1>2. /\ task[t].account \in AccountFiles /\ task[t].account.id \in Ids
      /\ task[t].account.form = g[task[t].account.id]
  BY <1>1, EntryHeld
<1>3. PICK x, k : x = Step(t)[2] /\ k = task[t].account.id
  OBVIOUS
<1>4. /\ UNCHANGED <<files, podOf, mishaps, failed>> /\ x \in Indexes
      /\ Goes(t, Rest(t), task[t].account, task[t].copy)
      /\ index' = [index EXCEPT ![x] = Others(t, x)]
      /\ index[x] = task[t].copy /\ index[x] \ Others(t, x) \in {{}, {Mine(t, x)}}
  BY <1>3, SaveLeftEffect
<1>5. /\ OnlyTask(t) /\ task'[t].op = task[t].op /\ task'[t].todo = Rest(t) /\ task'[t].account = task[t].account
      /\ task'[t].form = task[t].form
  BY <1>1, <1>4, GoesAlone
<1>6. \A y \in Indexes : y # x => index'[y] = index[y]
  BY <1>4 DEF NamesTypes
<1>7. CASE x = "passkey"
  <2>1. \A y \in FormKeys : index'[y] = index[y]
    BY <1>6, <1>7 DEF FormKeys, Indexes
  <2>. QED
    BY <1>1, <1>3, <1>4, <1>7, <2>1, PasskeyEntryQuiet
<1>8. CASE x # "passkey"
  <2>1. x \in FormKeys /\ task[t].op = "delete"
    BY <1>1, <1>3, <1>4, <1>8 DEF Indexes, FormKeys
  <2>2. Mine(t, x) = <<g[k][x], k>> /\ k \in Ids
    BY <1>2, <1>3, <1>8 DEF Mine
  <2>3. index'[x] = {e \in index[x] : e[1] # g[k][x]}
    <3>1. <<g[k][x], k>>[1] = g[k][x]
      OBVIOUS
    <3>2. Others(t, x) = {e \in task[t].copy : e[1] # g[k][x]}
      BY <2>2, <3>1 DEF Others
    <3>3. index'[x] = Others(t, x)
      BY <1>4 DEF NamesTypes
    <3>. QED
      BY <1>4, <3>2, <3>3
  <2>4. \A e \in index[x] : e \notin index'[x] => e = <<g[k][x], k>>
    <3>1. index'[x] = Others(t, x)
      BY <1>4 DEF NamesTypes
    <3>. QED
      BY <1>4, <2>2, <3>1
  <2>5. \A y \in FormKeys : index'[y] \subseteq index[y]
    BY <1>6, <2>3 DEF FormKeys, Indexes
  <2>6. NoNewNames /\ \A i \in Ids : There(i) => (There(i))'
    BY <1>4, SameFiles
  <2>7. NamesLead'
    <3>1. \A y \in FormKeys : index[y] \subseteq Pairs
      BY DEF NamesTypes, Indexes, FormKeys
    <3>. QED
      BY <1>4, <2>5, <3>1 DEF UpToRace, NamesLead, There
  <2>8. Distinct'
    BY <2>6, DistinctStays DEF UpToRace
  <2>9. PodsHeld'
    BY <1>1, <1>4, <1>5, <2>1, <2>6, SamePods DEF UpToRace, Holds
  <2>10. /\ ToDo(task[t].todo) = {Step(t)} \cup ToDo(Rest(t)) /\ Step(t) \notin ToDo(Rest(t))
         /\ Step(t) = <<"leave", x>>
    BY <1>1, <1>3, RestToDo
  <2>11. <<"remove", "file">> \in ToDo(Rest(t)) /\ Rest(t) # <<>> /\ <<"remove", "file">> \in ToDo(task[t].todo)
    <3>1. <<"leave", x>>[1] = "leave" /\ <<"remove", "file">> # <<"leave", x>>
      OBVIOUS
    <3>2. <<"remove", "file">> \in ToDo(task[t].todo)
      BY <2>1, <2>10, <3>1 DEF Due, Shape, Whole
    <3>3. <<"remove", "file">> \in ToDo(Rest(t))
      BY <2>10, <3>1, <3>2
    <3>. QED
      BY <3>2, <3>3, NoSteps
  <2>12. \A y \in FormKeys : y # x => ((Left(t, y))' <=> Left(t, y))
    <3>1. \A y : <<"leave", y>>[2] = y
      OBVIOUS
    <3>2. \A y \in FormKeys : y # x => <<"leave", y>> # Step(t)
      BY <2>10, <3>1
    <3>. QED
      BY <1>1, <1>5, <2>10, <2>11, <3>2 DEF Left, Underway
  <2>13. (Left(t, x))' /\ ~ Left(t, x)
    BY <1>1, <1>5, <2>1, <2>10, <2>11 DEF Left, Underway
  <2>14. \A y \in FormKeys : (Left(t, y))' => \A e \in index'[y] : e[2] # k
    <3>1. ASSUME NEW e \in index'[x], e[2] = k PROVE FALSE
      <4>1. e \in Lists(x, g)
        BY <1>4, <2>3, <3>1 DEF NamedBy, IndexNamed
      <4>2. PICK i \in BornIds : e = <<g[i][x], i>>
        BY <1>8, <4>1 DEF Lists
      <4>3. e[2] = i /\ e[1] = g[i][x]
        BY <4>2
      <4>4. e[1] = g[k][x]
        BY <3>1, <4>3
      <4>. QED
        BY <2>3, <3>1, <4>4
    <3>2. ASSUME NEW y \in FormKeys, y # x, (Left(t, y))' PROVE \A e \in index'[y] : e[2] # k
      BY <1>1, <1>3, <2>5, <2>12, <3>2 DEF UpToRace, DeletesInOrder
    <3>. QED
      BY <3>1, <3>2
  <2>15. DeletesInOrder'
    BY <1>1, <1>3, <1>5, <2>5, <2>6, <2>11, <2>14, DeletesStay DEF UpToRace
  <2>16. AllListed => AllListed'
    <3>1. SUFFICES ASSUME AllListed PROVE AllListed'
      OBVIOUS
    <3>2. ASSUME NEW i \in Ids, NEW y \in FormKeys, (There(i))', <<files[i].form[y], i>> \in index[y]
          PROVE  <<files[i].form[y], i>> \in index'[y] \/ (Missing(i, y))'
      <4>1. CASE y # x
        BY <1>6, <3>2, <4>1 DEF FormKeys, Indexes
      <4>2. CASE y = x /\ <<files[i].form[x], i>> \in index'[x]
        BY <4>2
      <4>3. CASE y = x /\ <<files[i].form[x], i>> \notin index'[x]
        <5>1. PICK e : e = <<files[i].form[x], i>>
          OBVIOUS
        <5>2. e = <<g[k][x], k>>
          BY <2>4, <3>2, <4>3, <5>1
        <5>3. i = k
          BY <5>1, <5>2
        <5>4. (Left(t, x))' /\ task'[t].account.id = i
          BY <1>3, <1>5, <2>13, <5>3
        <5>. QED
          BY <1>1, <4>3, <5>4 DEF Missing
      <4>. QED
        BY <4>1, <4>2, <4>3
    <3>3. \A y \in FormKeys : ~ Entering(t, y)
      BY <2>1 DEF Entering
    <3>4. \A y \in FormKeys : Left(t, y) => (Left(t, y))' /\ task'[t].account = task[t].account
      BY <1>5, <2>12, <2>13
    <3>. QED
      BY <1>1, <1>5, <2>6, <3>1, <3>2, <3>3, <3>4, ListedStay
  <2>. QED
    BY <1>4, <2>7, <2>8, <2>9, <2>15, <2>16 DEF UpToRace
<1>. QED
  BY <1>7, <1>8

-----------------------------------------------------------------------------
\* A request by itself changes nothing, and its operation has all its steps to do.
LEMMA BeginsQuiet ==
  ASSUME NamesTypes, NEW g, NamedBy(g), UpToRace, NEW t \in Tasks, Begins(t)
  PROVE  UpToRace'
<1>1. PICK r \in AtWork : task' = [task EXCEPT ![t] = r] /\ Begun(r.op, r.todo) /\ r.form \in AccountForms
  BY DEF Begins
<1>2. UNCHANGED <<files, index, podOf, mishaps, failed>> /\ task[t].op = "idle"
  BY DEF Begins
<1>3. task'[t] = r /\ OnlyTask(t)
  BY <1>1 DEF NamesTypes, OnlyTask
<1>4. NoNewNames /\ \A i \in Ids : There(i) => (There(i))'
  BY <1>2, SameFiles
<1>5. \A x \in FormKeys : ~ Left(t, x) /\ ~ Entering(t, x)
  BY <1>2 DEF Left, Entering
<1>6. ~ (Holds(t))'
  BY <1>1, <1>3 DEF Begun, Holds
<1>7. PodsHeld'
  BY <1>2, <1>3, <1>4, <1>6, SamePods DEF UpToRace
<1>8. r.op = "delete" =>
        /\ \A x \in FormKeys : <<"leave", x>> \in ToDo(r.todo)
        /\ <<"remove", "file">> \in ToDo(r.todo)
  <2>1. SUFFICES ASSUME r.op = "delete"
                 PROVE  /\ \A x \in FormKeys : <<"leave", x>> \in ToDo(r.todo)
                        /\ <<"remove", "file">> \in ToDo(r.todo)
    OBVIOUS
  <2>2. Shape("delete", r.todo)
    BY <1>1, <2>1 DEF Begun
  <2>3. PICK s \in ToDo(r.todo) : s[1] \in {"find", "put"}
    BY <1>1, <2>1 DEF Begun, FormOps
  <2>4. s \in StepsOf("delete")
    BY <2>2, <2>3 DEF Shape, ToDo
  <2>5. s[1] # "put"
    BY <2>4, StepsKnown DEF FormOps, KnownStep
  <2>6. <<"again", "purge">> \in ToDo(r.todo)
    BY <2>2, <2>3, <2>5 DEF Shape, Whole
  <2>7. \A x \in FormKeys : <<"leave", x>> \in ToDo(r.todo) /\ <<"leave", x>>[1] = "leave"
    BY <2>2, <2>6 DEF Shape, Whole
  <2>8. <<"leave", "email">> \in ToDo(r.todo) /\ <<"leave", "email">>[1] = "leave"
    BY <2>7 DEF FormKeys
  <2>9. <<"remove", "file">> \in ToDo(r.todo)
    BY <2>2, <2>8 DEF Shape, Whole
  <2>. QED
    BY <2>7, <2>9
<1>9. \A x \in FormKeys : ~ (Left(t, x))'
  BY <1>3, <1>8 DEF Left
<1>. QED
  BY <1>2, <1>3, <1>4, <1>5, <1>7, <1>8, <1>9, Quiet

\* An operation that throws leaves nothing half done but an account that is noted.
LEMMA ThrowsQuiet ==
  ASSUME NamesTypes, NEW g, NamedBy(g), UpToRace, NEW t \in Tasks, Throws(t), ~ raced'
  PROVE  UpToRace'
<1>1. PICK r : r = [Idle EXCEPT !.op = "died"]
  OBVIOUS
<1>2. /\ r.op = "died" /\ r.todo = <<>> /\ task' = [task EXCEPT ![t] = r] /\ UNCHANGED <<files, index>>
      /\ mishaps' = 0 => mishaps = 0
      /\ Underway(t) /\ failed \subseteq failed'
  BY <1>1, Blank, ThrowsEffect
<1>3. task'[t] = r /\ OnlyTask(t)
  BY <1>2 DEF NamesTypes, OnlyTask
<1>4. NoNewNames /\ \A i \in Ids : There(i) => (There(i))'
  BY <1>2, SameFiles
<1>5. ~ (Underway(t))' /\ task'[t].op = "died" /\ ~ (Holds(t))' /\ \A x \in FormKeys : ~ (Left(t, x))'
  BY <1>2, <1>3 DEF Underway, Holds, Left
<1>6. ASSUME task[t].op = "register", There(t) PROVE t \in failed'
  <2>1. ~ Putting(t)
    BY <1>6, NotThereYet
  <2>2. task[t].account.id = t /\ t \in Ids
    BY <1>6, <2>1 DEF NamedBy, TasksInv, InHand, Ids
  <2>. QED
    BY <1>6, <2>2, ThrowsEffect
<1>7. ASSUME NEW x \in FormKeys, Left(t, x) PROVE task[t].account.id \in failed'
  <2>1. task[t].op = "delete"
    BY <1>7 DEF Left
  <2>2. task[t].account.id \in Ids
    BY <1>2, <1>7, <2>1, DeleteHeld
  <2>. QED
    BY <2>1, <2>2, ThrowsEffect
<1>8. PodsHeld'
  <2>1. CASE task[t].op # "register"
    BY <1>3, <1>4, <1>5, <2>1, ThrowsEffect, SamePods DEF UpToRace
  <2>2. CASE task[t].op = "register"
    <3>1. PICK q : q = task[t].form.pod
      OBVIOUS
    <3>2. podOf' = [podOf EXCEPT ![q] = NoId] /\ podOf[q] = t
      BY <2>2, <3>1, ThrowsEffect
    <3>3. task[t].form \in AccountForms
      BY <2>2, RegisterForm DEF NamesTypes, TaskTypes
    <3>4. q \in Pods /\ \A p \in Pods : p # q => podOf'[p] = podOf[p]
      BY <3>1, <3>2, <3>3 DEF Pods, NamesTypes
    <3>5. t \in Ids /\ (~ (There(t))' \/ t \in failed')
      BY <1>2, <1>6, <2>2 DEF There, Ids
    <3>. QED
      BY <1>3, <1>4, <1>5, <3>2, <3>4, <3>5, PodsStayAlone DEF UpToRace
  <2>. QED
    BY <2>1, <2>2
<1>9. \A x \in FormKeys : (There(t))' /\ Entering(t, x) => t \in failed'
  BY <1>2, <1>6 DEF Entering, There
<1>. QED
  BY <1>2, <1>3, <1>4, <1>5, <1>7, <1>8, <1>9, Quiet

\* When the server dies no operation is under way any more.
LEMMA CrashQuiet ==
  ASSUME NamesTypes, UpToRace, AccountsCrash
  PROVE  UpToRace'
<1>1. PICK r : r = [Idle EXCEPT !.op = "died"]
  OBVIOUS
<1>2. r.op = "died" /\ r.todo = <<>>
  BY <1>1, Blank
<1>3. /\ \A t \in Tasks : task'[t] = IF Underway(t) THEN r ELSE task[t]
      /\ UNCHANGED <<files, index, podOf, failed>> /\ mishaps' # 0
  <2>1. task' = [t \in Tasks |-> IF Underway(t) THEN r ELSE task[t]]
    BY <1>1 DEF AccountsCrash
  <2>2. mishaps' # 0
    BY DEF AccountsCrash, NamesTypes
  <2>. QED
    BY <2>1, <2>2 DEF AccountsCrash
<1>4. \A t \in Tasks : ~ (Underway(t))' /\ task'[t].todo = <<>>
  BY <1>2, <1>3 DEF Underway
<1>5. \A t \in Tasks : ~ (Holds(t))'
  BY <1>4, NoSteps DEF Holds, Putting
<1>6. PodsHeld'
  BY <1>3, <1>5 DEF UpToRace, PodsHeld, There, Holds
<1>7. DeletesInOrder'
  BY <1>4 DEF DeletesInOrder, Left
<1>8. NamesLead' /\ Distinct'
  BY <1>3 DEF UpToRace, NamesLead, Distinct, There
<1>. QED
  BY <1>3, <1>6, <1>7, <1>8 DEF UpToRace

LEMMA RacedStays ==
  ASSUME AccountsNext
  PROVE  raced => raced'
<1>1. CASE AccountsCrash
  BY <1>1 DEF AccountsCrash
<1>2. ASSUME NEW t \in Tasks, Requests(t) PROVE raced' = raced
  BY <1>2 DEF Requests, Begin, BeginById
<1>3. ASSUME NEW t \in Tasks, MakePod(t) \/ Load(t) \/ FindById(t) \/ Verify(t) \/ Again(t) \/ Remove(t)
      PROVE  raced' = raced
  BY <1>3 DEF MakePod, Load, FindById, Verify, Again, Remove
<1>4. ASSUME NEW t \in Tasks, CheckAbsent(t) PROVE raced => raced'
  BY <1>4 DEF CheckAbsent
<1>5. ASSUME NEW t \in Tasks, Put(t) \/ Write(t) PROVE raced => raced'
  BY <1>5 DEF Put, Write
<1>6. ASSUME NEW t \in Tasks, SaveEntered(t) \/ SaveLeft(t) PROVE raced => raced'
  BY <1>6 DEF SaveEntered, SaveLeft
<1>7. ASSUME NEW t \in Tasks, Purge(t) \/ Throws(t) PROVE raced => raced'
  BY <1>7 DEF Purge, Throws
<1>. QED
  BY <1>1, <1>2, <1>3, <1>4, <1>5, <1>6, <1>7 DEF AccountsNext

LEMMA RaceStep ==
  ASSUME NamesInv, ~ raced => UpToRace, [AccountsNext]_accountVars
  PROVE  ~ raced' => UpToRace'
<1>1. PICK g \in [Ids -> AccountForms] : NamedBy(g)
  BY DEF NamesInv
<1>2. NamesTypes
  BY DEF NamesInv
<1>3. CASE UNCHANGED accountVars
  <2>1. UNCHANGED <<files, index, podOf, task, torn, mishaps, failed, raced>>
    BY <1>3 DEF accountVars
  <2>2. NamesLead' = NamesLead /\ Distinct' = Distinct
    BY <2>1 DEF NamesLead, Distinct, There
  <2>3. PodsHeld' = PodsHeld
    BY <2>1 DEF PodsHeld, There, Putting
  <2>4. DeletesInOrder' = DeletesInOrder
    BY <2>1 DEF DeletesInOrder, Left, Underway, There
  <2>5. AllListed' = AllListed
    BY <2>1 DEF AllListed, Missing, Entering, Left, Underway, There
  <2>. QED
    BY <2>1, <2>2, <2>3, <2>4, <2>5 DEF UpToRace
<1>4. CASE AccountsNext
  <2>1. SUFFICES ASSUME ~ raced' PROVE UpToRace'
    OBVIOUS
  <2>2. UpToRace
    BY <1>4, <2>1, RacedStays
  <2>3. CASE AccountsCrash
    BY <1>2, <2>2, <2>3, CrashQuiet
  <2>4. ASSUME NEW t \in Tasks,
               \/ Requests(t) \/ MakePod(t) \/ Load(t) \/ FindById(t) \/ CheckAbsent(t) \/ Verify(t)
               \/ Put(t) \/ Again(t) \/ Write(t) \/ SaveEntered(t) \/ SaveLeft(t) \/ Remove(t) \/ Purge(t) \/ Throws(t)
        PROVE  UpToRace'
    <3>1. CASE Requests(t)
      BY <1>1, <1>2, <2>2, <3>1, RequestsBegin, BeginsQuiet
    <3>3. CASE Throws(t)
      BY <1>1, <1>2, <2>1, <2>2, <3>3, ThrowsQuiet
    <3>2. CASE ~ Requests(t) /\ ~ Throws(t)
      <4>1. Due(t)
        BY <1>1, <1>2, <2>4, <3>2, DueNames DEF At, MakePod, Load, FindById, CheckAbsent, Verify, Put, Again,
             Write, SaveEntered, SaveLeft, Remove, Purge
      <4>. QED
        BY <1>1, <1>2, <2>1, <2>2, <2>4, <3>2, <4>1, MakePodQuiet, LoadQuiet, FindQuiet, CheckAbsentQuiet,
           VerifyQuiet, PutQuiet, AgainQuiet, WriteQuiet, SaveEnteredQuiet, SaveLeftQuiet, RemoveQuiet, PurgeQuiet
    <3>. QED
      BY <3>1, <3>2, <3>3
  <2>. QED
    BY <1>4, <2>3, <2>4 DEF AccountsNext
<1>. QED
  BY <1>3, <1>4
-----------------------------------------------------------------------------
LEMMA MarksStep ==
  ASSUME NamesInv, MarksTyped, [AccountsNext]_accountVars
  PROVE  MarksTyped'
<1>1. PICK g \in [Ids -> AccountForms] : NamedBy(g)
  BY DEF NamesInv
<1>2. NamesTypes
  BY DEF NamesInv
<1>3. ASSUME NEW t \in Tasks PROVE Writes(t) \subseteq Indexes \cup Ids
  <2>1. CASE At(t, "enter") \/ At(t, "leave") \/ At(t, "write")
    <3>1. Due(t) /\ InHand(t, g)
      BY <1>1, <1>2, <2>1, DueNames DEF At
    <3>2. CASE At(t, "write")
      <4>1. Rank[Step(t)[1]] >= 5 /\ Step(t)[1] \in StepNames
        BY <3>2 DEF Rank, StepNames, At
      <4>2. task[t].account.id \in Ids
        BY <3>1, <4>1, AccountHeld
      <4>. QED
        BY <3>2, <4>2 DEF Writes, At
    <3>3. CASE At(t, "enter") \/ At(t, "leave")
      <4>1. Step(t)[2] \in Indexes
        BY <3>1, <3>3, DueParts DEF KnownStep, At
      <4>. QED
        BY <3>3, <4>1 DEF Writes, At
    <3>. QED
      BY <2>1, <3>2, <3>3
  <2>2. CASE ~ (At(t, "enter") \/ At(t, "leave") \/ At(t, "write"))
    BY <2>2 DEF Writes
  <2>. QED
    BY <2>1, <2>2
<1>4. CASE UNCHANGED accountVars
  BY <1>4 DEF accountVars, MarksTyped
<1>5. CASE AccountsCrash
  BY <1>3, <1>5 DEF AccountsCrash, MarksTyped
<1>6. ASSUME NEW t \in Tasks, Throws(t) PROVE MarksTyped'
  BY <1>3, <1>6 DEF Throws, MarksTyped
<1>7. ASSUME NEW t \in Tasks, Requests(t) PROVE UNCHANGED <<torn, failed>>
  BY <1>7 DEF Requests, Begin, BeginById
<1>8. ASSUME NEW t \in Tasks,
             \/ MakePod(t) \/ Load(t) \/ FindById(t) \/ CheckAbsent(t) \/ Verify(t)
             \/ Put(t) \/ Again(t) \/ Purge(t)
      PROVE  UNCHANGED <<torn, failed>>
  BY <1>8 DEF MakePod, Load, FindById, CheckAbsent, Verify, Put, Again, Purge
<1>9. ASSUME NEW t \in Tasks, Write(t) \/ SaveEntered(t) \/ SaveLeft(t) \/ Remove(t)
      PROVE  torn' \subseteq torn /\ UNCHANGED failed
  BY <1>9 DEF Write, SaveEntered, SaveLeft, Remove
<1>. QED
  BY <1>4, <1>5, <1>6, <1>7, <1>8, <1>9 DEF AccountsNext, MarksTyped

LEMMA AccountsInvInit ==
  ASSUME AccountsInit
  PROVE  AccountsInv
<1>1. PICK f \in AccountForms, w \in Passwords :
        /\ files = [i \in Ids |-> IF i = FirstId THEN Account(i, f, w, {}) ELSE NoFile]
        /\ index = [x \in Indexes |-> IF x = "passkey" THEN {} ELSE {<<f[x], FirstId>>}]
        /\ podOf = [q \in Pods |-> IF q = f.pod THEN FirstId ELSE NoId]
        /\ task = [t \in Tasks |-> Idle]
        /\ torn = {} /\ mishaps = 0
        /\ failed = {} /\ raced = FALSE
  BY DEF AccountsInit
<1>2. PICK a : a = Account(FirstId, f, w, {})
  OBVIOUS
<1>3. FirstId \in Ids /\ a \in AccountFiles /\ a.id = FirstId /\ a.form = f /\ a # NoFile
  BY <1>2, NewFile, FileParts DEF Ids
<1>4. /\ \A i \in Ids : files[i] = IF i = FirstId THEN a ELSE NoFile
      /\ files \in [Ids -> AccountFiles \cup {NoFile}]
  BY <1>1, <1>2, <1>3
<1>5. /\ \A t \in Tasks : task[t] = Idle /\ task[t].op = "idle" /\ task[t].todo = <<>> /\ task[t].account = NoFile
      /\ task \in [Tasks -> TaskTypes]
  BY <1>1, IdleParts DEF TaskTypes
<1>6. /\ \A x \in FormKeys : index[x] = {<<f[x], FirstId>>}
      /\ index["passkey"] = {}
  BY <1>1 DEF FormKeys, Indexes
<1>7. index \in [Indexes -> SUBSET Pairs]
  <2>1. ASSUME NEW x \in FormKeys PROVE <<f[x], FirstId>> \in Pairs
    BY <1>3 DEF Pairs
  <2>2. ASSUME NEW x \in Indexes PROVE index[x] \subseteq Pairs
    BY <1>6, <2>1 DEF Indexes, FormKeys
  <2>. QED
    BY <1>1, <2>2
<1>8. /\ podOf \in [Pods -> Ids \cup {NoId}] /\ podOf[f.pod] = FirstId
  BY <1>1, <1>3 DEF Pods
<1>9. NamesTypes
  <2>1. mishaps = 0 /\ raced = FALSE
    BY <1>1
  <2>2. 0 \in 0 .. MaxMishaps
    OBVIOUS
  <2>3. mishaps \in 0 .. MaxMishaps
    BY <2>1, <2>2
  <2>4. raced \in BOOLEAN
    BY <2>1
  <2>. QED
    BY <2>3, <2>4, <1>4, <1>5, <1>7, <1>8 DEF NamesTypes, TaskTypes
<1>10. PICK g : g = [i \in Ids |-> f]
  OBVIOUS
<1>11. g \in [Ids -> AccountForms] /\ \A i \in Ids : g[i] = f
  BY <1>10
<1>12. TasksInv(g)
  BY <1>5, NoSteps DEF TasksInv, InHand, NamesTypes, TaskTypes
<1>13. FilesNamed(g)
  BY <1>3, <1>4, <1>11 DEF FilesNamed, Born
<1>14. IndexNamed(g)
  <2>1. FirstId \in BornIds
    BY <1>3 DEF BornIds, Born
  <2>2. ASSUME NEW x \in FormKeys PROVE index[x] \subseteq Lists(x, g)
    BY <1>3, <1>6, <1>11, <2>1 DEF Lists, FormKeys
  <2>. QED
    BY <1>6, <2>2 DEF IndexNamed, Indexes, FormKeys
<1>15. \A i \in Ids : There(i) => i = FirstId /\ files[i].form = f
  BY <1>3, <1>4 DEF There
<1>16. NamesLead
  BY <1>3, <1>4, <1>6 DEF NamesLead, There
<1>17. Distinct
  BY <1>15 DEF Distinct
<1>18. PodsHeld
  BY <1>5, <1>8, <1>15 DEF PodsHeld
<1>19. DeletesInOrder
  BY <1>5 DEF DeletesInOrder, Left
<1>20. AllListed
  BY <1>6, <1>15 DEF AllListed
<1>21. MarksTyped
  BY <1>1 DEF MarksTyped
<1>. QED
  BY <1>9, <1>11, <1>12, <1>13, <1>14, <1>16, <1>17, <1>18, <1>19, <1>20, <1>21
     DEF AccountsInv, NamesInv, NamedBy, UpToRace

\* What a reader is promised follows.
LEMMA AccountsInvSafe ==
  ASSUME AccountsInv
  PROVE  AccountsSafe
<1>1. PICK g \in [Ids -> AccountForms] : NamedBy(g)
  BY DEF AccountsInv, NamesInv
<1>2. NamesTypes /\ (raced \/ UpToRace)
  BY DEF AccountsInv, NamesInv
<1>3. \A i \in Ids : There(i) => files[i].id = i /\ files[i].form = g[i] /\ Born(i)
  BY <1>1 DEF NamedBy, FilesNamed, There
<1>4. \A x \in FormKeys : index[x] \subseteq {<<g[i][x], i>> : i \in BornIds} /\ x \in Indexes /\ x # "passkey"
  BY <1>1 DEF NamedBy, IndexNamed, Lists, FormKeys, Indexes
<1>5. AccountsTypeOK
  <2>1. \A i \in Ids : files[i].id \in {i, NoId}
    BY <1>3, NoFileParts DEF There
  <2>2. \A x \in FormKeys : index[x] \subseteq {h[x] : h \in AccountForms} \X Ids
    BY <1>1, <1>4 DEF BornIds
  <2>3. index["passkey"] \subseteq Passkeys \X Ids
    BY <1>1 DEF NamedBy, IndexNamed, Lists, Indexes, BornIds
  <2>. QED
    BY <1>2, <2>1, <2>2, <2>3 DEF NamesTypes, MarksTyped, AccountsInv, AccountsTypeOK
<1>6. IndexedExist
  <2>1. SUFFICES ASSUME NEW x \in FormKeys, NEW e \in index[x]
                 PROVE  IF files[e[2]] = NoFile THEN raced ELSE files[e[2]].form[x] = e[1]
    BY DEF IndexedExist
  <2>2. PICK i \in BornIds : e = <<g[i][x], i>>
    BY <1>4
  <2>3. e[2] = i /\ e[1] = g[i][x] /\ i \in Ids
    BY <2>2 DEF BornIds
  <2>4. CASE files[i] = NoFile
    BY <1>2, <2>1, <2>3, <2>4 DEF UpToRace, NamesLead, There
  <2>5. CASE files[i] # NoFile
    BY <1>3, <2>3, <2>5 DEF There
  <2>. QED
    BY <2>3, <2>4, <2>5
<1>7. NamesUnique
  BY <1>2 DEF NamesUnique, UpToRace, Distinct, There
<1>8. AllIndexed
  <2>1. SUFFICES ASSUME NEW i \in Ids, files[i] # NoFile, i \notin failed, ~ raced, mishaps = 0,
                        \A t \in Tasks : Underway(t) => task[t].account.id # i,
                        NEW x \in FormKeys
                 PROVE  <<files[i].form[x], i>> \in index[x]
    BY DEF AllIndexed
  <2>2. <<files[i].form[x], i>> \in index[x] \/ Missing(i, x)
    BY <1>2, <2>1 DEF UpToRace, AllListed, There
  <2>3. ~ Entering(i, x)
    <3>1. SUFFICES ASSUME Entering(i, x) PROVE FALSE
      OBVIOUS
    <3>2. i \in Tasks /\ task[i].op = "register" /\ <<"enter", x>> \in ToDo(task[i].todo)
      BY <3>1 DEF Entering
    <3>3. ~ Putting(i) /\ Underway(i)
      BY <1>3, <2>1, <3>2, NoSteps DEF There, Born, Underway
    <3>4. task[i].account.id = i
      BY <1>1, <3>2, <3>3 DEF NamedBy, TasksInv, InHand
    <3>. QED
      BY <2>1, <3>2, <3>3, <3>4
  <2>. QED
    BY <2>1, <2>2, <2>3 DEF Missing, Left
<1>9. PodsKept
  BY <1>2 DEF PodsKept, UpToRace, PodsHeld, There
<1>. QED
  BY <1>5, <1>6, <1>7, <1>8, <1>9 DEF AccountsSafe

\* However the requests of credentials.js and accounts.js interleave, whichever writes fail,
\* and wherever the server dies, with files left empty or half written that whoever reads them
\* throws at: a name in an index leads to an account of that name, and until a step acts on what
\* is no longer so, names are unique and an account has its pod and (no write failed) all its
\* names, unless its registration or deletion threw with its file there: the pod of such a
\* registration is removed and the account stays.
THEOREM AccountsSafeTheorem == AccountsSpec => []AccountsSafe
<1>1. AccountsInit => AccountsInv
  BY AccountsInvInit
<1>2. AccountsInv /\ [AccountsNext]_accountVars => AccountsInv'
  <2>1. SUFFICES ASSUME AccountsInv, [AccountsNext]_accountVars PROVE AccountsInv'
    OBVIOUS
  <2>2. NamesInv /\ MarksTyped /\ (~ raced => UpToRace)
    BY <2>1 DEF AccountsInv
  <2>3. NamesInv'
    BY <2>1, <2>2, NamesStep
  <2>4. ~ raced' => UpToRace'
    BY <2>1, <2>2, RaceStep
  <2>5. MarksTyped'
    BY <2>1, <2>2, MarksStep
  <2>. QED
    BY <2>3, <2>4, <2>5 DEF AccountsInv
<1>3. AccountsInv => AccountsSafe
  BY AccountsInvSafe
<1>. QED
  BY <1>1, <1>2, <1>3, PTL DEF AccountsSpec
=============================================================================
