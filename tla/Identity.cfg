\* Accounts: three requests that share a name or an email, two at once, one crash or failed write. Registration: two
\* pods of which the names differ in capitals only, one invite with one use. Passkeys: two
\* browsers, one credential, room for two challenges. ActivityPub: two actors that share an
\* inbox, two deliveries, one note. OAuth: two clients, one code that lives one tick.
CONSTANTS
  ann = ann
  Ann = Ann
  bob = bob
  Tasks = {t1, t2, t3}
  FirstId = first
  NoId = none
  AccountForms <- FormsForTwo
  Passwords = {"secret"}
  Passkeys = {"key"}
  MaxMishaps = 1
  Signups = {s1, s2}
  PodNames = {ann, Ann}
  Lower <- LowerCase
  NoSignup = NoSignup
  MaxUses = 1
  MaxRestarts = 1
  Clients = {d1, d2}
  Credentials = {key1}
  MaxChallenges = 2
  MaxOptions = 3
  NoChallenge = NoChallenge
  Actors = {a1, a2}
  InboxOf <- SharedInbox
  Deliveries = {d1, d2}
  NoActor = NoActor
  Notes = {"note"}
  Apps = {d1, d2}
  CodeIds = {"code"}
  CodeLife = 1
  MaxStarts = 1
  MaxMinutes = 2
SYMMETRY Alike
SPECIFICATION PartsSpec
INVARIANTS  RegistrationSafe PasskeySafe FollowersTold CodeGivesOneToken
CHECK_DEADLOCK FALSE
