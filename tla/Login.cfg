\* Two tabs of one browser and two accounts; two interactions, two forms and one fault.
CONSTANTS
  Tabs = {t1, t2}
  Accounts = {ann, bob}
  bob = bob
  NoAccount = NoAccount
  MaxFlows = 2
  MaxForms = 2
  MaxFaults = 1
SPECIFICATION LoginSpecOneSide
INVARIANTS LoginSafe
PROPERTIES OwnAccount PagesAnswered
CHECK_DEADLOCK FALSE
