------------------------------ MODULE Passkey ------------------------------
(***************************************************************************)
(* Passkeys (src/idp/passkey.js): the challenges in memory, at most        *)
(* MAX_CHALLENGES of them, each good for a minute, and the passkeys in the *)
(* account file (src/idp/accounts.js). A challenge is read, then the       *)
(* account and the verification are awaited, and only a success removes    *)
(* it. The authenticators and @simplewebauthn are external.                *)
(***************************************************************************)
EXTENDS Naturals, FiniteSets

CONSTANTS
  Clients,        \* tabs and programs that use passkeys
  Credentials,    \* one account's authenticators
  MaxChallenges,
  MaxOptions,     \* challenges that are made
  NoChallenge

ASSUME PasskeyAssumption ==
  {MaxChallenges, MaxOptions} \subseteq Nat \ {0} /\ Credentials # {}

VARIABLES
  challenges,   \* the Map, as a set of its entries
  made,         \* how many challenges there have been
  expired,      \* of which these are over
  passkeys,     \* the account file: the passkeys, and the counter of each
  signs,        \* the counter of each authenticator
  client,
  refusedRoom   \* history: somebody was refused while a challenge in the Map was over

passkeyVars == <<challenges, made, expired, passkeys, signs, client, refusedRoom>>

Serials == 1..MaxOptions
AccountKey == 0          \* the account's id as the key; others are random, here the serial
ChallengeKeys == 0..MaxOptions
Challenge == [key : ChallengeKeys, type : {"registration", "authentication"}, serial : Serials]
Counters == 0..MaxOptions
PasskeysOf == UNION {[C -> Counters] : C \in SUBSET Credentials}

AtRest == [at |-> "idle", type |-> "registration", cred |-> CHOOSE c \in Credentials : TRUE,
         key |-> 1, serial |-> 1, count |-> 0, got |-> NoChallenge]

PasskeyTypeOK ==
  /\ challenges \subseteq Challenge /\ Cardinality(challenges) <= MaxChallenges
  /\ \A c, d \in challenges : c.key = d.key => c = d
  /\ made \in 0..MaxOptions /\ expired \subseteq 1..made
  /\ passkeys \in PasskeysOf
  /\ signs \in [Credentials -> Counters]
  /\ client \in [Clients -> [at : {"idle", "page", "account", "update", "end"},
                             type : {"registration", "authentication"}, cred : Credentials,
                             key : ChallengeKeys, serial : Serials, count : Counters,
                             got : Challenge \cup {NoChallenge}]]
  /\ refusedRoom \in BOOLEAN

PasskeyInit ==
  /\ challenges = {} /\ made = 0 /\ expired = {} /\ refusedRoom = FALSE
  /\ \E known \in SUBSET Credentials : passkeys = [c \in known |-> 0]
  /\ signs = [c \in Credentials |-> 0]
  /\ client = [p \in Clients |-> AtRest]
-----------------------------------------------------------------------------
On(p) == client[p].at
Type(p) == client[p].type
Cred(p) == client[p].cred
To(p, at) == client' = [client EXCEPT ![p].at = at]
Leaves(p) == client' = [client EXCEPT ![p] = AtRest]

Live(map) == {c \in map : c.serial \notin expired}

\* Variant: only the timer removes what is over.
RoomAsIs(map) == IF Cardinality(map) < MaxChallenges THEN {map} ELSE {}

\* storeChallenge makes room when the Map is full, by removing entries that are over
\* until one fits: what is left of the Map, or nothing when all are good.
Room(map) ==
  CASE Cardinality(map) < MaxChallenges -> {map}
    [] Cardinality(map) >= MaxChallenges -> {map \ {c} : c \in map \ Live(map)}

\* "unique key (prevents race conditions from multiple tabs)".
RegistrationKey(serial) == serial

\* registrationOptions, and authenticationOptions for a user name or, from the login
\* page, for anybody: a new challenge, unless there is no room. An entry with the same
\* key is replaced, whether there was room or not.
Options(p, type, cred, named) ==
  LET serial == made + 1
      key == IF type = "registration" THEN RegistrationKey(serial)
             ELSE IF named /\ DOMAIN passkeys # {} THEN AccountKey ELSE serial IN
  /\ On(p) = "idle" /\ made < MaxOptions
  /\ made' = serial
  /\ type = "registration" => cred \notin DOMAIN passkeys
  /\ \/ \E map \in Room(challenges) :
          /\ challenges' = {c \in map : c.key # key}
                             \cup {[key |-> key, type |-> type, serial |-> serial]}
          /\ client' = [client EXCEPT ![p] = [AtRest EXCEPT !.at = "page", !.type = type, !.cred = cred,
                                                          !.key = key, !.serial = serial]]
          /\ UNCHANGED refusedRoom
     \/ /\ Room(challenges) = {}
        /\ refusedRoom' = (refusedRoom \/ Live(challenges) # challenges)
        /\ Leaves(p) /\ UNCHANGED challenges
  /\ UNCHANGED <<expired, passkeys, signs>>

\* The authenticator signs and the answer arrives: registrationVerify and
\* authenticationVerify read the challenge.
VerifyResponse(p) ==
  LET found == {c \in Live(challenges) : c.key = client[p].key /\ c.type = Type(p)} IN
  /\ On(p) = "page"
  /\ signs' = [signs EXCEPT ![Cred(p)] = @ + 1]
  /\ \/ found = {} /\ Leaves(p)
     \/ \E c \in found :
          client' = [client EXCEPT ![p] = [@ EXCEPT !.at = "account", !.got = c,
                                                    !.count = signs[Cred(p)] + 1]]
  /\ UNCHANGED <<challenges, made, expired, passkeys, refusedRoom>>

\* External: the answer is to this challenge, and the counter has moved on.
Verified(p) ==
  /\ client[p].got.serial = client[p].serial
  /\ Type(p) = "authentication" => client[p].count > passkeys[Cred(p)]

\* findById or findByCredentialId; a passkey that is not the account's is refused, and
\* so is an answer that does not verify.
ReadAccount(p) ==
  LET fine == (Type(p) = "authentication" => Cred(p) \in DOMAIN passkeys) /\ Verified(p) IN
  /\ On(p) = "account"
  /\ IF fine THEN To(p, "update") ELSE Leaves(p)
  /\ UNCHANGED <<challenges, made, expired, passkeys, signs, refusedRoom>>

\* addPasskey, which does not add a passkey twice, or updatePasskeyCounter and
\* updateLastLogin. (How such changes of one account overlap is the matter of Accounts.)
UpdateAccount(p) ==
  /\ On(p) = "update" /\ To(p, "end")
  /\ passkeys' =
       IF Type(p) = "registration"
       THEN [c \in DOMAIN passkeys \cup {Cred(p)} |-> IF c \in DOMAIN passkeys THEN passkeys[c] ELSE 0]
       ELSE [passkeys EXCEPT ![Cred(p)] = client[p].count]
  /\ UNCHANGED <<challenges, made, expired, signs, refusedRoom>>

\* challenges.delete, by key: whatever is there by now.
DropChallenge(p) ==
  /\ On(p) = "end" /\ Leaves(p)
  /\ challenges' = {c \in challenges : c.key # client[p].key}
  /\ UNCHANGED <<made, expired, passkeys, signs, refusedRoom>>

\* The user does not go on.
GiveUp(p) ==
  /\ On(p) = "page" /\ Leaves(p)
  /\ UNCHANGED <<challenges, made, expired, passkeys, signs, refusedRoom>>

\* A minute has passed; every minute the timer removes what is over.
Expires(n) ==
  /\ n \in (1..made) \ expired /\ expired' = expired \cup {n}
  /\ UNCHANGED <<challenges, made, passkeys, signs, client, refusedRoom>>
CleanUp ==
  /\ challenges # Live(challenges) /\ challenges' = Live(challenges)
  /\ UNCHANGED <<made, expired, passkeys, signs, client, refusedRoom>>

PasskeyNext ==
  \/ \E p \in Clients :
       \/ \E type \in {"registration", "authentication"}, cred \in Credentials, named \in BOOLEAN :
            Options(p, type, cred, named)
       \/ VerifyResponse(p) \/ ReadAccount(p) \/ UpdateAccount(p) \/ DropChallenge(p) \/ GiveUp(p)
  \/ (\E n \in Serials : Expires(n)) \/ CleanUp

PasskeySpec == PasskeyInit /\ [][PasskeyNext]_passkeyVars
-----------------------------------------------------------------------------
\* Whoever registers a passkey has its challenge until it is over, whatever the other
\* tabs of the same account do. (The challenges of a login by user name share a key:
\* the next one replaces them, and the success of one removes the other's.)
RegistrationUndisturbed ==
  \A p \in Clients :
    On(p) = "page" /\ Type(p) = "registration" /\ client[p].serial \notin expired => 
      \E c \in challenges : c.key = client[p].key /\ c.serial = client[p].serial

\* "Server busy" is said only while every challenge in the Map can still be answered:
\* those that are over keep nobody out, however late the timer runs.
NobodyKeptOut == ~ refusedRoom

\* Challenges neither run out nor get in each other's way.
PasskeySafe == PasskeyTypeOK /\ RegistrationUndisturbed /\ NobodyKeptOut
=============================================================================
