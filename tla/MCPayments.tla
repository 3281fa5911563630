----------------------------- MODULE MCPayments -----------------------------
(* Instance for TLC of the payments, with the files as they may be after some use. *)
EXTENDS Payments, TLC

CONSTANTS ann, bob, A, B, o0, o1, o2, p1, p2

Output(i, c, n, w) == [id |-> i, chain |-> c, value |-> n, tweak |-> w]
ToThePod == {Output(o1, A, 2, ann), Output(o2, B, 2, NoUser)}
States == {[id |-> p1, amount |-> 2, ok |-> TRUE], [id |-> p2, amount |-> 2, ok |-> FALSE]}

Balances(sat, a, b) == "sat" :> sat @@ A :> a @@ B :> b
Pool(a, b, n) ==
  [reserves |-> A :> a @@ B :> b, shares |-> n, of |-> ann :> n @@ bob :> 0]

Files(balances, pool, offers) ==
  [ledger |-> [balance |-> ann :> balances @@ bob :> Balances(2, 0, 0), credited |-> {},
               scanned |-> [i \in {o1, o2} |-> 0], counted |-> [i \in {o1, o2, p1, p2} |-> 0]],
   utxos |-> {[id |-> o0, chain |-> A, value |-> 4, tweak |-> NoUser, spent |-> FALSE,
               deposit |-> TRUE]},
   offers |-> offers,
   pool |-> pool,
   trail |-> [balances |-> Issuer :> 2 @@ bob :> 2 @@ ann :> 0, at |-> 0, value |-> 3],
   replay |-> {}]

UsedFiles ==
  {Files(Balances(2, 3, 3), Pool(0, 0, 0), {[id |-> "first", seller |-> bob, tokens |-> 1, price |-> 2]}),
   Files(Balances(0, 3, 2), Pool(3, 2, 2), {}),
   Files(Balances(2, 0, 0), Pool(1, 5, 2), {})}
=============================================================================
