\* Two requests at a time of two users, two chains, two outputs and two proofs that pay the
\* pod, ledgers as they may be after some use, one death or failure.
CONSTANTS
  ann = ann
  bob = bob
  A = A
  B = B
  o0 = o0
  o1 = o1
  o2 = o2
  p1 = p1
  p2 = p2
  PayTasks = {t1, t2}
  Users = {ann, bob}
  Chains = {A, B}
  Outputs <- ToThePod
  Proofs <- States
  Amounts = {1, 3}
  NoUser = NoUser
  Issuer = Issuer
  PayCost = 1
  PayRate = 2
  TxFee = 1
  Dust = 0
  FirstFiles <- UsedFiles
  MaxMishaps = 1
SPECIFICATION PaymentsSpec
INVARIANTS DepositsOnce BooksBalance FilesFollowChain PoolSound
CHECK_DEADLOCK FALSE
