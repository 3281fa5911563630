------------------------------ MODULE Payments ------------------------------
(***************************************************************************)
(* Paid access, deposits, withdrawals, the token market and the pool of    *)
(* two currencies: src/handlers/pay.js with the ledger (src/webledger.js), *)
(* the token trail (src/token.js) and payment conditions                   *)
(* (src/wac/checker.js).                                                   *)
(*                                                                         *)
(* Everything is kept in JSON files that are read whole and written whole, *)
(* with no lock; a handler awaits each of them, and the network. It is     *)
(* written as a sequence of loads, saves and steps in the outside world.   *)
(* A check follows the load it is about and a change precedes the save,    *)
(* with no await between, so that they are one step.  A write empties the  *)
(* file before it fills it: whoever reads it meanwhile, or finds it so     *)
(* after a death or a failure, takes it for a file never written.          *)
(*                                                                         *)
(* A currency is satoshis, the amount that is a plain string, or a chain   *)
(* with a unit of its own: "btc", whose unit is "sat" too, is left out.    *)
(* The pod's key, another such file, is not modelled.                      *)
(***************************************************************************)
EXTENDS Integers, Sequences, FiniteSets, FiniteSetsExt, Functions

CONSTANTS
  PayTasks,      \* requests
  Users,
  Chains,        \* the two chains; the currency of a chain has its name
  Outputs,       \* outputs that others pay to the pod: [id, chain, value, tweak]
  Proofs,        \* MRC20 states that are presented: [id, amount, ok]
  Amounts,       \* amounts in requests
  NoUser,
  Issuer,        \* the holder of the tokens that are not sold
  PayCost,
  PayRate,       \* satoshis for a token
  TxFee, Dust,
  FirstFiles,    \* what the files may hold at the start
  MaxMishaps     \* bound: deaths of the server and writes that fail

Proved == {p.id : p \in Proofs}
OutputIds == {o.id : o \in Outputs}
Currencies == {"sat"} \cup Chains
Holders == Users \cup {Issuer}

ASSUME PaymentsAssumption ==
  /\ {PayCost, PayRate, TxFee, Dust} \subseteq Nat /\ PayRate > 0 /\ Amounts \subseteq Nat \ {0}
  /\ IsFiniteSet(Users) /\ Issuer \notin Users /\ NoUser \notin Users
  /\ \E a, b \in Chains : a # b /\ Chains = {a, b}
  /\ "sat" \notin Chains

\* What is paid in has an identity of its own.
ASSUME DepositsAssumption ==
  /\ Outputs \subseteq [id : OutputIds, chain : Chains, value : Nat, tweak : Users \cup {NoUser}]
  /\ IsFiniteSet(Outputs)
  /\ \A o, w \in Outputs : o.id = w.id => o = w
  /\ \A p \in Proofs : p.amount \in Nat
  /\ OutputIds \cap Proved = {} /\ OutputIds \cap PayTasks = {}

Ledgers == [balance : [Users -> [Currencies -> Nat]], credited : SUBSET OutputIds,
            scanned : [OutputIds -> Nat], counted : [OutputIds \cup Proved -> Nat]]
Pools == [reserves : [Chains -> Nat], shares : Nat, of : [Users -> Nat]]
Trails == [balances : [Holders -> Nat], at : Nat, value : Int]
OffersOf(ids) == [id : ids, seller : Users, tokens : Nat, price : Nat]
UtxosOf(ids) == [id : ids, chain : Chains, value : Nat, tweak : Users \cup {NoUser},
                 spent : BOOLEAN, deposit : BOOLEAN]
FileNames == {"ledger", "utxos", "offers", "pool", "trail", "replay"}

\* The shares add up, and there is something behind them in both currencies.
Sound(p) ==
  /\ SumFunction(p.of) = p.shares
  /\ p.shares > 0 => \A c \in Chains : p.reserves[c] > 0

\* Nothing of what is going to be paid in is in the files at the start.
ASSUME FilesAssumption ==
  \A f \in FirstFiles :
    /\ DOMAIN f = FileNames
    /\ f.ledger \in Ledgers /\ f.ledger.credited = {}
    /\ \A i \in OutputIds : f.ledger.scanned[i] = 0
    /\ \A i \in OutputIds \cup Proved : f.ledger.counted[i] = 0
    /\ f.utxos \subseteq UtxosOf({u.id : u \in f.utxos}) /\ IsFiniteSet(f.utxos)
    /\ \A u, v \in f.utxos : u.id = v.id => u = v
    /\ \A u \in f.utxos : u.id \notin PayTasks
    /\ f.offers \subseteq OffersOf({o.id : o \in f.offers})
    /\ f.pool \in Pools /\ Sound(f.pool)
    /\ f.trail \in Trails
    /\ f.replay = {}

VARIABLES
  files,     \* the ledger, the outputs, the offers, the pool, the trail, the proofs used
  chain,     \* the outside world: outputs to the pod, those of them not spent and those claimed,
             \* and the tip of the trail
  pay,       \* the requests
  due,       \* history: what the users are owed in each currency, outputs apart
  upset,     \* history: what has come in between.
             \* "lost": a file was written from a copy that it no longer was like, read while
             \* it was written, or cut off; "string": satoshis took the place of the currencies
             \* of the chains; "txo": a TXO URI was credited; "failed": an answer or a write
  mishaps    \* how many deaths and failed writes there were

payVars == <<files, chain, pay, due, upset, mishaps>>

NewTask == [op |-> "idle", todo |-> <<>>]

\* What a file that is missing, empty or cut off is taken for: readLedger, loadUtxos and the
\* like catch whatever JSON.parse throws. Without a pool there are no shares, and without a
\* trail no tokens.
Blank(f) ==
  CASE f = "ledger" -> [balance |-> [u \in Users |-> [c \in Currencies |-> 0]], credited |-> {},
                        scanned |-> [i \in OutputIds |-> 0],
                        counted |-> [i \in OutputIds \cup Proved |-> 0]]
    [] f = "pool" -> [reserves |-> [c \in Chains |-> 0], shares |-> 0, of |-> [u \in Users |-> 0]]
    [] f = "trail" -> [balances |-> [h \in Holders |-> 0], at |-> 0, value |-> 0]
    [] OTHER -> {}

\* What outputs are worth.
Value(us) == SumFunction([u \in us |-> u.value])

\* What the server owes in a currency, and the deposits that it knows.
Held(f, c) ==
  SumFunction([u \in Users |-> f.ledger.balance[u][c]])
  + (IF c \in Chains THEN f.pool.reserves[c] ELSE 0)
Settled(f, c) == Value({u \in f.utxos : u.chain = c /\ u.deposit})

PaymentsInit ==
  /\ files \in FirstFiles
  /\ chain = [unspent |-> {u.id : u \in {u \in files.utxos : ~ u.spent}}, tip |-> files.trail.at,
              claimed |-> {u.id : u \in files.utxos}, paid |-> {u.id : u \in files.utxos}]
  /\ pay = [t \in PayTasks |-> NewTask]
  /\ due = [c \in Currencies |-> Held(files, c) - Settled(files, c)]
  /\ upset = {}
  /\ mishaps = 0
-----------------------------------------------------------------------------
(* The ledger. The amount of a user is one string, of satoshis, or an array with an *)
(* amount for each currency; a string is the array with nothing but satoshis.       *)

\* setBalance: without a currency the whole amount becomes a string.
SetBalance(l, u, n, c) ==
  IF c = "sat"
  THEN [l EXCEPT !.balance[u] = [x \in Currencies |-> IF x = "sat" THEN n ELSE 0]]
  ELSE [l EXCEPT !.balance[u][c] = n]

\* Variant: nothing is added up.
CreditReplaces(l, u, n, c) == SetBalance(l, u, n, c)

Credit(l, u, n, c) == SetBalance(l, u, l.balance[u][c] + n, c)

Debit(l, u, n, c) ==
  IF l.balance[u][c] < n THEN l ELSE SetBalance(l, u, l.balance[u][c] - n, c)

\* creditOnce: the key is stored with the balance. `scanned`, like `counted`, is history:
\* how often this ledger has absorbed the output.
CreditOnce(l, o) ==
  IF o.id \in l.credited THEN l
  ELSE [Credit(l, o.tweak, o.value, o.chain) EXCEPT !.credited = @ \cup {o.id},
                                                    !.scanned[o.id] = @ + 1]

\* The record of an output.
Utxo(o) == [id |-> o.id, chain |-> o.chain, value |-> o.value, tweak |-> o.tweak,
            spent |-> FALSE, deposit |-> TRUE]
Recorded(us, o) == \E u \in us : u.id = o.id
-----------------------------------------------------------------------------
(* The handlers. *)

L(f) == <<"load", f>>
S(f) == <<"save", f>>
Do(what) == <<what, "">>

\* GET /pay/.balance: "Ledger first".
Scan == <<L("utxos"), L("ledger"), Do("scan"), S("ledger"), S("utxos")>>

\* Variant: the state is recorded last.
RecordLast == <<L("replay"), Do("verify"), L("ledger"), S("ledger"), S("replay")>>

\* POST /pay/.deposit: an output is claimed, an MRC20 state or a TXO URI presented. Of the
\* output that a URI names only the value is looked at, and no note is made of it: it need
\* not be the pod's, and may have been claimed or presented before.
Claim == <<Do("lookup"), L("utxos"), S("utxos"), L("ledger"), S("ledger")>>
DepositMrc20 == <<L("replay"), S("replay"), Do("verify"), L("ledger"), S("ledger")>>
DepositTxo == <<Do("verify"), L("ledger"), S("ledger")>>

\* Variant: the trail is not saved.
BuyForgets == <<L("ledger"), L("trail"), Do("anchor"), S("ledger")>>

\* POST /pay/.buy and /pay/.withdraw.
Buy == <<L("ledger"), L("trail"), Do("anchor"), S("trail"), S("ledger")>>

\* POST /pay/.withdraw-sats.
WithdrawSats == <<L("ledger"), L("utxos"), Do("broadcast"), S("ledger"), S("utxos")>>

\* POST /pay/.sell and /pay/.swap.
Sell == <<L("trail"), L("offers"), S("offers")>>
SwapOffer ==
  <<L("offers"), L("ledger"), L("trail"), Do("anchor"), S("trail"), S("ledger"), S("offers")>>

\* POST /pay/.pool.
AddLiquidity == <<L("ledger"), L("pool"), S("ledger"), S("pool")>>
RemoveLiquidity == <<L("pool"), L("ledger"), S("ledger"), S("pool")>>
PoolSwap == <<L("pool"), L("ledger"), S("ledger"), S("pool")>>

\* GET /pay/*, and a payment condition in an ACL.
Access == <<L("ledger"), S("ledger")>>

Request(op, todo, u, c, n, item) ==
  [op |-> op, todo |-> todo, user |-> u, cur |-> c, amount |-> n, item |-> item,
   copy |-> [f \in FileNames |-> {}], inputs |-> {}]

Requests(u) ==
  {Request("scan", Scan, u, "sat", 0, 0)}
  \cup {Request("claim", Claim, u, o.chain, o.value, o) : o \in Outputs}
  \cup {Request("mrc20", DepositMrc20, u, "sat", p.amount, p) : p \in Proofs}
  \cup {Request(op, Access, u, c, PayCost, 0) : op \in {"access", "condition"}, c \in Currencies}
  \cup {Request("sell", Sell, u, "sat", n, m) : n, m \in Amounts}
  \cup {Request("swap", SwapOffer, u, "sat", o.price, o) : o \in files.offers}
  \cup {Request("txo", DepositTxo, u, c, n, 0) : c \in Currencies, n \in Amounts}
  \cup UNION {
    {Request("poolSwap", PoolSwap, u, c, n, 0),
     Request("withdrawSats", WithdrawSats, u, c, n, 0), Request("remove", RemoveLiquidity, u, c, n, 0)}
    \cup {Request("add", AddLiquidity, u, c, n, m) : m \in Amounts}
    \cup {Request("buy", Buy, u, c, n, by) : by \in {"tokens", "sats", "all"}}
      : c \in Chains, n \in Amounts}
-----------------------------------------------------------------------------
Balance(r) == r.copy.ledger.balance[r.user][r.cur]
OtherChain(c) == CHOOSE d \in Chains : d # c

\* What a purchase or a withdrawal as tokens costs, and how many tokens that is.
Cost(r) == CASE r.item = "tokens" -> r.amount * PayRate
             [] r.item = "sats" -> r.amount
             [] OTHER -> Balance(r)
Tokens(r) == IF r.item = "tokens" THEN r.amount ELSE Cost(r) \div PayRate

\* The currencies that an access can be paid in: the one that is asked for, otherwise
\* satoshis and then any chain. A condition has its own; "sat" is the name of no amount
\* in an array, and a string has no name.
PaidIn(r) ==
  LET enough == {c \in Currencies : r.copy.ledger.balance[r.user][c] >= PayCost}
  IN IF r.op = "condition" THEN enough \cap ({r.cur} \ {"sat"})
     ELSE IF r.cur \in enough THEN {r.cur}
     ELSE IF r.cur = "sat" THEN enough ELSE {}

\* The selections of a withdrawal: enough outputs of one key, none too many, and those
\* that are not of a user if they suffice.
Selections(r) ==
  LET free == {u \in r.copy.utxos : u.chain = r.cur /\ ~ u.spent}
      needed == r.amount + TxFee
      Enough(us) == /\ us # {} /\ Value(us) >= needed
                    /\ \E u \in us : Value(us \ {u}) < needed
      plain == {u \in free : u.tweak = NoUser}
  IN {us \in SUBSET free :
        /\ Enough(us)
        /\ IF Value(plain) >= needed THEN us \subseteq plain
           ELSE \E w \in Users : \A u \in us : u.tweak = w}

Change(r) == Value(r.inputs) - r.amount - TxFee

\* floor(sqrt(n)).
Root(n) == CHOOSE s \in 0..n : s * s <= n /\ n < (s + 1) * (s + 1)

\* The shares for n of one currency and m of the other.
NewShares(p, n, m, c) ==
  IF p.shares = 0 THEN Root(n * m)
  ELSE Min({(n * p.shares) \div p.reserves[c], (m * p.shares) \div p.reserves[OtherChain(c)]})

\* Variant: rounded up.
WorthRoundedUp(p, k, c) == (p.reserves[c] * k + p.shares - 1) \div p.shares

\* What k shares are worth.
Worth(p, k, c) == (p.reserves[c] * k) \div p.shares

\* The constant product, with a fee of 0.3 %.
AmountOut(p, n, c) ==
  (p.reserves[OtherChain(c)] * n * 997) \div (p.reserves[c] * 1000 + n * 997)

\* How a request goes on after it has loaded a file: not at all if it is refused.
After(r, f) ==
  LET If(condition) == IF condition THEN {r} ELSE {}
  IN CASE r.op \in {"access", "condition"} -> {[r EXCEPT !.cur = c] : c \in PaidIn(r)}
       [] r.op = "claim" /\ f = "utxos" -> If(~ Recorded(r.copy.utxos, r.item))
       [] r.op = "mrc20" /\ f = "replay" -> If(r.item.id \notin r.copy.replay)
       [] r.op = "buy" /\ f = "ledger" -> If(Tokens(r) > 0 /\ Balance(r) >= Cost(r))
       [] r.op = "buy" /\ f = "trail" -> If(r.copy.trail.balances[Issuer] >= Tokens(r))
       [] r.op \in {"withdrawSats", "poolSwap"} /\ f = "ledger" ->
            If(Balance(r) >= r.amount
               /\ (r.op = "poolSwap" => AmountOut(r.copy.pool, r.amount, r.cur) > 0))
       [] r.op = "withdrawSats" /\ f = "utxos" -> {[r EXCEPT !.inputs = us] : us \in Selections(r)}
       [] r.op = "sell" /\ f = "trail" -> If(r.copy.trail.balances[r.user] >= r.amount)
       [] r.op = "swap" /\ f = "offers" -> If(r.item \in r.copy.offers /\ r.item.seller # r.user)
       [] r.op = "swap" /\ f = "ledger" -> If(Balance(r) >= r.item.price)
       [] r.op = "swap" /\ f = "trail" ->
            If(r.copy.trail.balances[r.item.seller] >= r.item.tokens)
       [] r.op = "add" /\ f = "ledger" ->
            If(Balance(r) >= r.amount /\ r.copy.ledger.balance[r.user][OtherChain(r.cur)] >= r.item)
       [] r.op = "add" /\ f = "pool" -> If(NewShares(r.copy.pool, r.amount, r.item, r.cur) > 0)
       [] r.op = "remove" /\ f = "pool" -> If(r.amount <= r.copy.pool.of[r.user])
       [] r.op = "poolSwap" /\ f = "pool" -> If(r.copy.pool.shares > 0)
       [] OTHER -> {r}

\* The ledger that a request saves.
NewLedger(r) ==
  LET l == r.copy.ledger
      d == OtherChain(r.cur)
      p == r.copy.pool
  IN CASE r.op = "scan" -> FoldSet(LAMBDA o, m : CreditOnce(m, o), l, r.inputs)
       [] r.op \in {"claim", "mrc20"} ->
            [Credit(l, r.user, r.amount, r.cur) EXCEPT !.counted[r.item.id] = @ + 1]
       [] r.op = "txo" -> Credit(l, r.user, r.amount, r.cur)
       [] r.op = "buy" -> Debit(l, r.user, Cost(r), r.cur)
       [] r.op = "swap" ->
            Credit(Debit(l, r.user, r.item.price, "sat"), r.item.seller, r.item.price, "sat")
       [] r.op = "add" -> Debit(Debit(l, r.user, r.amount, r.cur), r.user, r.item, d)
       [] r.op = "remove" ->
            Credit(Credit(l, r.user, Worth(p, r.amount, r.cur), r.cur), r.user, Worth(p, r.amount, d), d)
       [] r.op = "poolSwap" ->
            Credit(Debit(l, r.user, r.amount, r.cur), r.user, AmountOut(p, r.amount, r.cur), d)
       [] OTHER -> Debit(l, r.user, r.amount, r.cur)

\* The outputs: those that a scan or a claim has found, or spent ones and the change.
NewUtxos(r, t) ==
  CASE r.op = "scan" -> r.copy.utxos \cup {Utxo(o) : o \in r.inputs}
    [] r.op = "claim" ->
         r.copy.utxos \cup {[Utxo(r.item) EXCEPT !.tweak = IF @ = r.user THEN @ ELSE NoUser]}
    [] OTHER ->
         (r.copy.utxos \ r.inputs) \cup {[u EXCEPT !.spent = TRUE] : u \in r.inputs}
         \cup (IF Change(r) > Dust
               THEN {[id |-> t, chain |-> r.cur, value |-> Change(r), tweak |-> NoUser,
                      spent |-> FALSE, deposit |-> FALSE]}
               ELSE {})

\* transferToken: to the buyer, from the issuer or the seller.
NewTrail(r) ==
  LET from == IF r.op = "swap" THEN r.item.seller ELSE Issuer
      n == IF r.op = "swap" THEN r.item.tokens ELSE Tokens(r)
      old == r.copy.trail
  IN [balances |-> [h \in Holders |-> old.balances[h] - (IF h = from THEN n ELSE 0)
                                       + (IF h = r.user THEN n ELSE 0)],
      at |-> old.at + 1, value |-> old.value - TxFee]

NewOffers(r, t) ==
  IF r.op = "sell"
  THEN r.copy.offers \cup {[id |-> t, seller |-> r.user, tokens |-> r.amount, price |-> r.item]}
  ELSE r.copy.offers \ {r.item}

NewPool(r) ==
  LET p == r.copy.pool
      gone == [c \in Chains |-> Worth(p, r.amount, c)]
      shares == NewShares(p, r.amount, r.item, r.cur)
  IN CASE r.op = "add" ->
            [reserves |-> [c \in Chains |-> p.reserves[c] + IF c = r.cur THEN r.amount ELSE r.item],
             shares |-> p.shares + shares, of |-> [p.of EXCEPT ![r.user] = @ + shares]]
       [] r.op = "remove" ->
            [reserves |-> [c \in Chains |-> p.reserves[c] - gone[c]],
             shares |-> p.shares - r.amount, of |-> [p.of EXCEPT ![r.user] = @ - r.amount]]
       [] OTHER ->
            [p EXCEPT !.reserves = [c \in Chains |-> IF c = r.cur THEN @[c] + r.amount
                                                   ELSE @[c] - AmountOut(p, r.amount, r.cur)]]

Amended(r, f, t) ==
  CASE f = "ledger" -> NewLedger(r)
    [] f = "utxos" -> NewUtxos(r, t)
    [] f = "trail" -> NewTrail(r)
    [] f = "offers" -> NewOffers(r, t)
    [] f = "pool" -> NewPool(r)
    [] f = "replay" -> r.copy.replay \cup {r.item.id}
-----------------------------------------------------------------------------
Busy(t) == pay[t].todo # <<>>
Next1(t) == Head(pay[t].todo)
At(t, what) == Busy(t) /\ Next1(t)[1] = what
Continue(t, r) == pay' = [pay EXCEPT ![t] = [r EXCEPT !.todo = Tail(@)]]
Stop(t) == pay' = [pay EXCEPT ![t] = [NewTask EXCEPT !.op = "done"]]

Owe(c, n) == due' = [due EXCEPT ![c] = @ + n]

\* Somebody pays to an address of the pod.
Pays(o) ==
  /\ o.id \notin chain.paid
  /\ chain' = [chain EXCEPT !.unspent = @ \cup {o.id}, !.paid = @ \cup {o.id}]
  /\ UNCHANGED <<files, pay, due, upset, mishaps>>

Begin(t) ==
  /\ pay[t].op = "idle"
  /\ \E u \in Users : \E r \in Requests(u) : pay' = [pay EXCEPT ![t] = r]
  /\ UNCHANGED <<files, chain, due, upset, mishaps>>

\* Another request may be in the middle of writing it.
BeingSaved(f, t) == \E s \in PayTasks \ {t} : Busy(s) /\ Next1(s) = S(f)

Load(t) ==
  /\ At(t, "load")
  /\ LET f == Next1(t)[2]
     IN \E v \in {files[f]} \cup IF BeingSaved(f, t) THEN {Blank(f)} ELSE {} :
          LET next == After([pay[t] EXCEPT !.copy[f] = v], f)
          IN /\ upset' = upset \cup IF v = files[f] THEN {} ELSE {"lost"}
             /\ IF next = {} THEN Stop(t) ELSE \E r \in next : Continue(t, r)
  /\ UNCHANGED <<files, chain, due, mishaps>>

\* An access is given when it is paid. A file that has changed since it was loaded is
\* overwritten; satoshis written as a string take the place of every other currency.
Save(t) ==
  /\ At(t, "save")
  /\ LET f == Next1(t)[2]
         r == pay[t]
         new == Amended(r, f, t)
     IN /\ files' = [files EXCEPT ![f] = new]
        /\ upset' = upset \cup (IF files[f] # r.copy[f] THEN {"lost"} ELSE {})
             \cup (IF f = "ledger" /\ r.cur = "sat"
                      /\ \E u \in Users, c \in Chains : new.balance[u][c] < r.copy.ledger.balance[u][c]
                   THEN {"string"} ELSE {})
        /\ IF r.op \in {"access", "condition"} THEN Owe(r.cur, - r.amount) ELSE UNCHANGED due
  /\ Continue(t, pay[t])
  /\ UNCHANGED <<chain, mishaps>>

\* A write that fails leaves the file as it was or cut off. Nobody looks at what writeLedger
\* returns, and the request goes on; saveUtxos and the others throw.
SaveFails(t) ==
  /\ mishaps < MaxMishaps
  /\ mishaps' = mishaps + 1
  /\ At(t, "save")
  /\ LET f == Next1(t)[2]
     IN /\ \E v \in {files[f], Blank(f)} : files' = [files EXCEPT ![f] = v]
        /\ IF f = "ledger" THEN Continue(t, pay[t]) ELSE Stop(t)
  /\ upset' = upset \cup {"lost", "failed"}
  /\ UNCHANGED <<chain, due>>

\* The explorers that answer show the outputs of the user. A file is
\* saved if that changes it.
ScanChains(t) ==
  /\ At(t, "scan")
  /\ \E answered \in SUBSET Chains :
       LET r == pay[t]
           new == {o \in Outputs : o.chain \in answered /\ o.tweak = r.user
                                   /\ o.id \in chain.unspent /\ ~ Recorded(r.copy.utxos, o)}
           q == [r EXCEPT !.inputs = new]
       IN IF NewLedger(q) # r.copy.ledger THEN Continue(t, q)
          ELSE IF new # {} THEN Continue(t, [q EXCEPT !.todo = Tail(@)])
          ELSE Stop(t)
  /\ UNCHANGED <<files, chain, due, upset, mishaps>>

\* The transaction of a claim: it must pay the user's address or the pod's, whether or not
\* the output has been spent since.
Lookup(t) ==
  /\ At(t, "lookup")
  /\ IF pay[t].item.id \in chain.paid /\ pay[t].item.tweak \in {pay[t].user, NoUser}
     THEN /\ Continue(t, pay[t])
          /\ chain' = [chain EXCEPT !.claimed = @ \cup {pay[t].item.id}]
     ELSE Stop(t) /\ UNCHANGED chain
  /\ UNCHANGED <<files, due, upset, mishaps>>

\* verifyMrc20Deposit or verifyMrc20Anchor. The state was recorded as used before: it stays
\* so if it is not valid.
VerifyMrc20(t) ==
  /\ At(t, "verify") /\ pay[t].op = "mrc20"
  /\ IF pay[t].item.ok THEN Continue(t, pay[t]) /\ Owe(pay[t].cur, pay[t].amount)
     ELSE Stop(t) /\ UNCHANGED due
  /\ UNCHANGED <<files, chain, upset, mishaps>>

\* verifySatsDeposit: there is such an output, or not. Nothing is paid to the pod by it, so
\* that nothing is owed.
VerifyTxo(t) ==
  /\ At(t, "verify") /\ pay[t].op = "txo"
  /\ \/ Continue(t, pay[t]) /\ upset' = upset \cup {"txo"}
     \/ Stop(t) /\ UNCHANGED upset
  /\ UNCHANGED <<files, chain, due, mishaps>>

Verify(t) == VerifyMrc20(t) \/ VerifyTxo(t)

\* A transaction is sent: it is accepted if its inputs are not spent. The answer may be lost.
Send(t, ok, world, price) ==
  \/ /\ ok /\ chain' = world /\ Continue(t, pay[t]) /\ Owe(pay[t].cur, - price)
     /\ UNCHANGED upset
  \/ /\ ok /\ chain' = world /\ Stop(t)
     /\ upset' = upset \cup {"failed"} /\ UNCHANGED due
  \/ /\ ~ ok /\ Stop(t) /\ UNCHANGED <<chain, due, upset>>

\* transferToken anchors the new state in an output that spends that of the last one.
Anchor(t) ==
  /\ At(t, "anchor")
  /\ LET r == pay[t]
     IN Send(t, r.copy.trail.value - TxFee > Dust /\ r.copy.trail.at = chain.tip,
             [chain EXCEPT !.tip = @ + 1], IF r.op = "buy" THEN Cost(r) ELSE 0)
  /\ UNCHANGED <<files, mishaps>>

Broadcast(t) ==
  /\ At(t, "broadcast")
  /\ LET r == pay[t]
         ids == {u.id : u \in r.inputs}
     IN Send(t, ids \subseteq chain.unspent,
             [chain EXCEPT !.unspent = (@ \ ids) \cup IF Change(r) > Dust THEN {t} ELSE {}],
             r.amount)
  /\ UNCHANGED <<files, mishaps>>

\* The server dies and is started again: any file it was writing may be cut off.
Death ==
  /\ mishaps < MaxMishaps
  /\ mishaps' = mishaps + 1
  /\ \E t \in PayTasks : Busy(t)
  /\ pay' = [t \in PayTasks |-> IF Busy(t) THEN [NewTask EXCEPT !.op = "done"] ELSE pay[t]]
  /\ \E torn \in SUBSET {Next1(t)[2] : t \in {s \in PayTasks : At(s, "save")}} :
       /\ files' = [f \in FileNames |-> IF f \in torn THEN Blank(f) ELSE files[f]]
       /\ upset' = upset \cup {"death"} \cup IF torn = {} THEN {} ELSE {"lost"}
  /\ UNCHANGED <<chain, due>>

PaymentsNext ==
  \/ \E o \in Outputs : Pays(o)
  \/ \E t \in PayTasks :
       \/ Begin(t) \/ Load(t) \/ Save(t) \/ SaveFails(t) \/ ScanChains(t) \/ Lookup(t) \/ Verify(t)
       \/ Anchor(t) \/ Broadcast(t)
  \/ Death

PaymentsSpec == PaymentsInit /\ [][PaymentsNext]_payVars
-----------------------------------------------------------------------------
Quiet == \A t \in PayTasks : ~ Busy(t)

\* No balance, reserve or token is ever negative.
PaymentsTypeOK ==
  /\ files.ledger.balance \in [Users -> [Currencies -> Nat]]
  /\ files.ledger.credited \subseteq OutputIds
  /\ files.ledger.scanned \in [OutputIds -> Nat]
  /\ files.ledger.counted \in [OutputIds \cup Proved -> Nat]
  /\ files.trail.balances \in [Holders -> Nat]
  /\ files.pool.reserves \in [Chains -> Nat] /\ files.pool.of \in [Users -> Nat]
  /\ files.replay \subseteq Proved
  /\ upset \subseteq {"lost", "string", "txo", "failed", "death"}

\* "a crash before saveUtxos below can't double-credit on the next balance poll": in the
\* balances of a ledger the scans count an output once at most, whatever dies, fails or is
\* overwritten, because the mark is written, and lost, with them.
ScanCountsOnce == \A o \in OutputIds : files.ledger.scanned[o] <= 1

\* An output that was only ever scanned is in the ledger when it is recorded as seen, as
\* long as no file has lost anything: the other order would lose it in a crash.
SeenIsCounted ==
  "lost" \notin upset =>
    \A u \in files.utxos : u.deposit /\ u.id \notin chain.claimed => files.ledger.scanned[u.id] = 1

\* As long as no file has lost anything, no deposit that the server takes note of is
\* counted twice: a token state not even after a crash, and an output, be it scanned or
\* claimed, not between requests without a crash. (Of a TXO URI it takes no note: a URI is
\* credited as often as it is presented, beside a scan or a claim of the same output too.)
DepositsCountedOnce ==
  "lost" \notin upset =>
    /\ \A p \in Proved : files.ledger.counted[p] <= 1
    /\ Quiet /\ "death" \notin upset =>
         \A o \in OutputIds : files.ledger.counted[o] + files.ledger.scanned[o] <= 1

\* Between requests, when nothing has come in between, the ledger and the pool hold what
\* was paid in and not yet used: no request makes or loses money, but for the credit of a
\* TXO URI, which is not paid in and ends what is said here of the books.
BooksBalance ==
  Quiet /\ upset = {} => \A c \in Currencies : Held(files, c) = Settled(files, c) + due[c]

\* Between requests, when nothing has come in between, the outputs that are recorded as
\* not spent are those that are not.
OutputsAgree ==
  Quiet /\ upset \subseteq {"string", "txo"} =>
    \A u \in files.utxos : (~ u.spent) <=> u.id \in chain.unspent

\* Unless an answer is lost, a write fails or the server dies, the trail is at the tip of the chain
\* once it is saved, so that the next transfer is accepted: two transfers at a time
\* cannot overwrite each other.
TrailFollowsChain ==
  upset \cap {"failed", "death"} = {} /\ (\A t \in PayTasks : Busy(t) => Next1(t) # S("trail"))
  => files.trail.at = chain.tip

\* The shares add up, and there is something behind them in both currencies (a deposit
\* divides by it): in every state, because a pool is written whole, and is none at all if
\* it is cut off.
PoolSound == Sound(files.pool)

\* "Each chain's balance is tracked separately": what is paid or received in satoshis
\* leaves the balances in the currencies of the chains alone. (It does not: an
\* amount that is set without a currency becomes one string of satoshis.)
ChainsSeparate ==
  [][\A t \in PayTasks :
       At(t, "save") /\ pay'[t] # pay[t] /\ pay[t].cur = "sat" /\ pay[t].copy.ledger = files.ledger
       => \A u \in Users, c \in Chains :
            files'.ledger.balance[u][c] >= files.ledger.balance[u][c]]_payVars

\* No deposit that the server takes note of is credited twice, whether it is scanned, claimed
\* or proved.
DepositsOnce == PaymentsTypeOK /\ DepositsCountedOnce /\ ScanCountsOnce /\ SeenIsCounted

\* The files follow the chain: the outputs they list are unspent and the pod's own, and the
\* trail of the token ends where the chain does.
FilesFollowChain == OutputsAgree /\ TrailFollowsChain
=============================================================================
