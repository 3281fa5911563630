------------------------------ MODULE MCIdentity ------------------------------
(* Instances for TLC of the accounts, the registration of pods, the passkeys, and the
   two halves of the ActivityPub server. `part` says which of them a behaviour is about;
   the others stay as they began. *)
EXTENDS Accounts, Registration, Passkey, Federation, TLC

CONSTANTS ann, Ann, bob

VARIABLE part

AccountForm(name, mail, pod) == [username |-> name, email |-> mail, webid |-> pod, pod |-> pod]
FormsForTwo ==
  {AccountForm(ann, "a@x", ann), AccountForm(ann, "b@x", Ann), AccountForm(bob, "a@x", bob)}

LowerCase == ann :> ann @@ Ann :> ann

SharedInbox == [a \in Actors |-> "inbox"]

\* The tasks are alike, and the two deliveries: a permutation that swaps two tasks swaps
\* them too. (A behaviour has either the ones or the others.)
SwapsTwo(p) == Cardinality({t \in Tasks : p[t] = t}) = 1
Alike ==
  {[x \in Tasks \cup Deliveries |->
      IF x \in Tasks THEN p[x]
      ELSE IF SwapsTwo(p) THEN CHOOSE d \in Deliveries : d # x ELSE x] : p \in Permutations(Tasks)}

allVars == <<part, accountVars, signupVars, passkeyVars, federationVars>>

\* Two requests are alike: of the forms that they may have one order is enough.
Number(f) ==
  (IF f.name = ann THEN 0 ELSE 8) + (IF f.byForm THEN 4 ELSE 0)
  + (CASE f.invited /\ f.wellFormed -> 0 [] f.invited -> 1 [] f.keyed -> 2 [] OTHER -> 3)
InOrder == LET s == CHOOSE s \in Signups : TRUE
           IN \A t \in Signups : Number(signup[s]) <= Number(signup[t])

PartsInit ==
  /\ part \in {"accounts", "registration", "passkeys", "activities", "oauth"}
  /\ AccountsInit /\ RegistrationInit /\ PasskeyInit /\ FederationInit
  \* An ill-formed request has an invite to lose, and whoever uses the form asks for a key.
  /\ part = "registration" => InOrder /\
       \A s \in Signups : /\ ~ signup[s].wellFormed => signup[s].invited
                          /\ signup[s].byForm => signup[s].keyed
  /\ part # "registration" =>
       \A s \in Signups : signup[s] = [name |-> ann, byForm |-> FALSE, invited |-> FALSE,
                                       wellFormed |-> TRUE, keyed |-> FALSE]
  /\ part # "passkeys" => passkeys = <<>>
  /\ files[FirstId].form = AccountForm(ann, "a@x", ann)

\* Of three account tasks one comes after another.
AtOnce == 2

PartsNext ==
  /\ UNCHANGED part
  /\ \/ /\ part = "accounts" /\ AccountsNext
        /\ Cardinality({t \in Tasks : Underway(t)'}) <= AtOnce
        /\ UNCHANGED <<signupVars, passkeyVars, federationVars>>
     \/ /\ part = "registration" /\ RegistrationNext
        /\ UNCHANGED <<accountVars, passkeyVars, federationVars>>
     \/ /\ part = "passkeys" /\ PasskeyNext
        /\ UNCHANGED <<accountVars, signupVars, federationVars>>
     \/ /\ part = "activities" /\ (ActivityNext \/ RestartServer)
        /\ UNCHANGED <<accountVars, signupVars, passkeyVars>>
     \/ /\ part = "oauth" /\ (OauthNext \/ RestartServer)
        /\ UNCHANGED <<accountVars, signupVars, passkeyVars>>

PartsSpec == PartsInit /\ [][PartsNext]_allVars
=============================================================================
