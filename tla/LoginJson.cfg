\* As Login.cfg, for programs that send the login form and ask for JSON.
CONSTANTS
  Tabs = {t1, t2}
  Accounts = {ann, bob}
  bob = bob
  NoAccount = NoAccount
  MaxFlows = 2
  MaxForms = 2
  MaxFaults = 1
SPECIFICATION LoginSpecOneSide
PROPERTIES ProgramsAnswered
CHECK_DEADLOCK FALSE
