--------------------------- MODULE PaymentsProofs ---------------------------
(***************************************************************************)
(* Payments (pay.js, webledger.js, token.js), for any number of requests,  *)
(* users, outputs and proofs, any amounts, fees and prices, any number of  *)
(* deaths and of writes that fail.                                         *)
(*                                                                         *)
(* A request is a program of loads, saves and steps outside, so the first  *)
(* part is about what has been done when a step comes (Order). The second  *)
(* is about each file by itself (FilesInv): what a request loads is good,  *)
(* what it makes of that is good, and so what it overwrites whatever with  *)
(* is good; and what is left of a file that is cut off is, too. Nothing is *)
(* assumed of races there. In the third, files agree with each other and   *)
(* with the requests that are under way, as long as no save has overwritten*)
(* another and no file was read or left half written (DepositsInv): what is*)
(* being counted is recorded, and what was credited is recorded or about to*)
(* be. The fourth                                                          *)
(* part is about the chain: one request at most is between an anchor and   *)
(* its save (TrailInv), and the outputs that are listed are unspent, spent *)
(* or about to be saved as spent (OutputsInv). The last is about money     *)
(* (BooksInv): what ledger and pool hold, with what requests have done by  *)
(* halves (Owing, summed by Tally), is what was deposited and is due,      *)
(* unless two scans record one output (Doomed), which lasts until the      *)
(* second save overwrites the first or one of the two dies. A TXO URI is   *)
(* the one credit that nobody has paid in: it ends what is said of money.  *)
(***************************************************************************)
EXTENDS Payments, SequenceTheorems, Sums

HIDE PaymentsAssumption
HIDE DepositsAssumption
HIDE FilesAssumption

Ops == {"scan", "claim", "mrc20", "txo", "access", "condition", "sell", "swap", "buy",
        "withdrawSats", "add", "remove", "poolSwap"}

Program(op) == CASE op = "scan" -> Scan
                 [] op = "claim" -> Claim
                 [] op = "mrc20" -> DepositMrc20
                 [] op = "txo" -> DepositTxo
                 [] op = "access" -> Access
                 [] op = "condition" -> Access
                 [] op = "sell" -> Sell
                 [] op = "swap" -> SwapOffer
                 [] op = "buy" -> Buy
                 [] op = "withdrawSats" -> WithdrawSats
                 [] op = "add" -> AddLiquidity
                 [] op = "remove" -> RemoveLiquidity
                 [] OTHER -> PoolSwap

\* The length of a program, and its step i.
Size(op) == Len(Program(op))
Step(op, i) == Program(op)[i]

Steps == {L(f) : f \in FileNames} \cup {S(f) : f \in FileNames}
         \cup {Do(x) : x \in {"scan", "verify", "lookup", "anchor", "broadcast"}}

LEMMA ListsOfSteps ==
  ASSUME NEW T, NEW a \in T, NEW b \in T, NEW c \in T, NEW d \in T, NEW e \in T, NEW f \in T, NEW g \in T
  PROVE  /\ <<a, b, c>> \in Seq(T) /\ <<a, b, c, d>> \in Seq(T)
         /\ <<a, b, c, d, e>> \in Seq(T) /\ <<a, b, c, d, e, f, g>> \in Seq(T)
OBVIOUS

LEMMA PairOfSteps == ASSUME NEW T, NEW a \in T, NEW b \in T PROVE <<a, b>> \in Seq(T)
OBVIOUS

Is(op, P) == /\ Program(op) \in Seq(Steps) /\ Size(op) = Len(P)
             /\ \A i \in 1 .. Len(P) : Step(op, i) = P[i]

LEMMA Programs ==
  /\ Is("scan", Scan) /\ Is("claim", Claim) /\ Is("mrc20", DepositMrc20) /\ Is("txo", DepositTxo)
  /\ Is("access", Access) /\ Is("condition", Access) /\ Is("sell", Sell) /\ Is("swap", SwapOffer)
  /\ Is("buy", Buy) /\ Is("withdrawSats", WithdrawSats) /\ Is("add", AddLiquidity)
  /\ Is("remove", RemoveLiquidity) /\ Is("poolSwap", PoolSwap)
<1>0. /\ \A f \in FileNames : L(f) \in Steps /\ S(f) \in Steps
      /\ \A x \in {"scan", "verify", "lookup", "anchor", "broadcast"} : Do(x) \in Steps
      /\ {"ledger", "utxos", "offers", "pool", "trail", "replay"} \subseteq FileNames
  BY DEF Steps, FileNames
<1>1. Is("scan", Scan)
  <2>1. Scan \in Seq(Steps)
    BY <1>0, ListsOfSteps DEF Scan
  <2>2. Program("scan") = Scan
    BY DEF Program
  <2>. QED
    BY <2>1, <2>2 DEF Is, Size, Step
<1>2. Is("claim", Claim)
  <2>1. Claim \in Seq(Steps)
    BY <1>0, ListsOfSteps DEF Claim
  <2>2. Program("claim") = Claim
    BY DEF Program
  <2>. QED
    BY <2>1, <2>2 DEF Is, Size, Step
<1>3. Is("mrc20", DepositMrc20)
  <2>1. DepositMrc20 \in Seq(Steps)
    BY <1>0, ListsOfSteps DEF DepositMrc20
  <2>2. Program("mrc20") = DepositMrc20
    BY DEF Program
  <2>. QED
    BY <2>1, <2>2 DEF Is, Size, Step
<1>4. Is("txo", DepositTxo)
  <2>1. DepositTxo \in Seq(Steps)
    BY <1>0, ListsOfSteps DEF DepositTxo
  <2>2. Program("txo") = DepositTxo
    BY DEF Program
  <2>. QED
    BY <2>1, <2>2 DEF Is, Size, Step
<1>5. Is("access", Access)
  <2>1. Access \in Seq(Steps)
    BY <1>0, PairOfSteps DEF Access
  <2>2. Program("access") = Access
    BY DEF Program
  <2>. QED
    BY <2>1, <2>2 DEF Is, Size, Step
<1>6. Is("condition", Access)
  <2>1. Access \in Seq(Steps)
    BY <1>0, PairOfSteps DEF Access
  <2>2. Program("condition") = Access
    BY DEF Program
  <2>. QED
    BY <2>1, <2>2 DEF Is, Size, Step
<1>7. Is("sell", Sell)
  <2>1. Sell \in Seq(Steps)
    BY <1>0, ListsOfSteps DEF Sell
  <2>2. Program("sell") = Sell
    BY DEF Program
  <2>. QED
    BY <2>1, <2>2 DEF Is, Size, Step
<1>8. Is("swap", SwapOffer)
  <2>1. SwapOffer \in Seq(Steps)
    BY <1>0, ListsOfSteps DEF SwapOffer
  <2>2. Program("swap") = SwapOffer
    BY DEF Program
  <2>. QED
    BY <2>1, <2>2 DEF Is, Size, Step
<1>9. Is("buy", Buy)
  <2>1. Buy \in Seq(Steps)
    BY <1>0, ListsOfSteps DEF Buy
  <2>2. Program("buy") = Buy
    BY DEF Program
  <2>. QED
    BY <2>1, <2>2 DEF Is, Size, Step
<1>10. Is("withdrawSats", WithdrawSats)
  <2>1. WithdrawSats \in Seq(Steps)
    BY <1>0, ListsOfSteps DEF WithdrawSats
  <2>2. Program("withdrawSats") = WithdrawSats
    BY DEF Program
  <2>. QED
    BY <2>1, <2>2 DEF Is, Size, Step
<1>11. Is("add", AddLiquidity)
  <2>1. AddLiquidity \in Seq(Steps)
    BY <1>0, ListsOfSteps DEF AddLiquidity
  <2>2. Program("add") = AddLiquidity
    BY DEF Program
  <2>. QED
    BY <2>1, <2>2 DEF Is, Size, Step
<1>12. Is("remove", RemoveLiquidity)
  <2>1. RemoveLiquidity \in Seq(Steps)
    BY <1>0, ListsOfSteps DEF RemoveLiquidity
  <2>2. Program("remove") = RemoveLiquidity
    BY DEF Program
  <2>. QED
    BY <2>1, <2>2 DEF Is, Size, Step
<1>13. Is("poolSwap", PoolSwap)
  <2>1. PoolSwap \in Seq(Steps)
    BY <1>0, ListsOfSteps DEF PoolSwap
  <2>2. Program("poolSwap") = PoolSwap
    BY DEF Program
  <2>. QED
    BY <2>1, <2>2 DEF Is, Size, Step
<1>. QED
  BY <1>1, <1>2, <1>3, <1>4, <1>5, <1>6, <1>7, <1>8, <1>9, <1>10, <1>11, <1>12, <1>13

\* Where a request that is at work is in its program.
At1(r) == Size(r.op) - Len(r.todo) + 1
Shaped(r) == /\ r.op \in Ops
             /\ \E k \in 1 .. Size(r.op) : r.todo = SubSeq(Program(r.op), k, Size(r.op))

\* It has taken the step s already.
Did(r, s) == \E i \in 1 .. Size(r.op) : i < At1(r) /\ Step(r.op, i) = s

LEMMA ShapedFacts ==
  ASSUME NEW r, Shaped(r)
  PROVE  /\ At1(r) \in 1 .. Size(r.op) /\ Size(r.op) \in Nat
         /\ r.todo = SubSeq(Program(r.op), At1(r), Size(r.op))
         /\ r.todo # <<>> /\ Head(r.todo) = Step(r.op, At1(r))
         /\ Tail(r.todo) = SubSeq(Program(r.op), At1(r) + 1, Size(r.op))
         /\ Len(Tail(r.todo)) = Len(r.todo) - 1 /\ Len(r.todo) \in Nat
         /\ Tail(r.todo) = <<>> <=> At1(r) = Size(r.op)
<1>. DEFINE P == Program(r.op)  n == Size(r.op)
<1>1. P \in Seq(Steps) /\ n = Len(P) /\ n \in Nat
  <2>1. P \in Seq(Steps)
    BY Programs DEF Shaped, Is, Ops
  <2>. QED
    BY <2>1, LenProperties DEF Size
<1>2. PICK k \in 1 .. n : r.todo = SubSeq(P, k, n)
  BY DEF Shaped
<1>3. /\ Len(r.todo) = n - k + 1 /\ r.todo \in Seq(Steps)
      /\ \A i \in 1 .. n - k + 1 : r.todo[i] = P[k + i - 1]
  <2>. HIDE DEF P, n
  <2>. QED
    BY <1>1, <1>2, SubSeqProperties
<1>. HIDE DEF P
<1>4. At1(r) = k
  BY <1>1, <1>3 DEF At1
<1>. HIDE DEF n
<1>5. r.todo # <<>> /\ Head(r.todo) = P[k]
  <2>1. r.todo # <<>>
    <3>1. Len(r.todo) # 0
      BY <1>3, <1>2, <1>1
    <3>. QED
      BY <3>1, EmptySeq
  <2>2. Head(r.todo) = r.todo[1]
    BY <2>1, <1>3
  <2>. QED
    BY <2>1, <2>2, <1>3, <1>2, <1>1
<1>6. Tail(r.todo) = SubSeq(P, k + 1, n) /\ Len(Tail(r.todo)) = n - k
  <2>1. Len(Tail(r.todo)) = n - k
    BY <1>3, <1>5, <1>1, <1>2, HeadTailProperties
  <2>2. Tail(r.todo) = SubSeq(P, k + 1, n)
    <3>1. n \in k .. Len(P) /\ k \in 1 .. Len(P)
      BY <1>1, <1>2
    <3>. QED
      BY <1>1, <1>2, <3>1, HeadTailOfSubSeq
  <2>. QED
    BY <2>1, <2>2
<1>7. Tail(r.todo) = <<>> <=> k = n
  <2>1. Tail(r.todo) \in Seq(Steps)
    BY <1>3, <1>5, HeadTailProperties
  <2>2. Len(Tail(r.todo)) = 0 <=> k = n
    BY <1>6, <1>1, <1>2
  <2>. QED
    BY <2>1, <2>2, EmptySeq
<1>8. Step(r.op, k) = P[k]
  BY DEF Step, P
<1>9. /\ At1(r) \in 1 .. n /\ n \in Nat
      /\ r.todo = SubSeq(P, At1(r), n)
      /\ r.todo # <<>> /\ Head(r.todo) = Step(r.op, At1(r))
      /\ Tail(r.todo) = SubSeq(P, At1(r) + 1, n)
      /\ Len(Tail(r.todo)) = Len(r.todo) - 1 /\ Len(r.todo) \in Nat
      /\ Tail(r.todo) = <<>> <=> At1(r) = n
  BY <1>1, <1>2, <1>3, <1>4, <1>5, <1>6, <1>7, <1>8
<1>. QED
  BY <1>9 DEF n, P

\* A step further.
LEMMA Advance ==
  ASSUME NEW r, Shaped(r), NEW q, q.op = r.op, q.todo = Tail(r.todo)
  PROVE  /\ q.todo # <<>> => Shaped(q)
         /\ \A s : Did(q, s) <=> Did(r, s) \/ s = Head(r.todo)
<1>. USE ShapedFacts
<1>1. q.todo # <<>> => Shaped(q)
  <2>. SUFFICES ASSUME q.todo # <<>> PROVE Shaped(q)
    OBVIOUS
  <2>1. At1(r) + 1 \in 1 .. Size(r.op)
    OBVIOUS
  <2>. QED
    BY <2>1 DEF Shaped
<1>2. At1(q) = At1(r) + 1
  BY DEF At1
<1>3. \A s : Did(q, s) <=> Did(r, s) \/ s = Head(r.todo)
  BY <1>2 DEF Did
<1>. QED
  BY <1>1, <1>3
-----------------------------------------------------------------------------
(* What has been done before each kind of step. *)

LEMMA StepsDiffer ==
  /\ \A f, g : L(f) # S(g) /\ (S(f) = S(g) => f = g) /\ (L(f) = L(g) => f = g)
  /\ \A x \in {"scan", "verify", "lookup", "anchor", "broadcast"} : \A g : L(g) # Do(x) /\ S(g) # Do(x)
  /\ \A x, y : Do(x) = Do(y) => x = y
BY DEF L, S, Do

PoolOps == {"add", "remove", "poolSwap"}
TrailOps == {"buy", "swap"}

\* A file is saved after it has been loaded, and with it the others that the change is made from.
BeforeSave(r, f) ==
  /\ f \in FileNames /\ Did(r, L(f))
  /\ f = "ledger" =>
       /\ r.op # "sell"
       /\ r.op \in PoolOps => Did(r, L("pool")) /\ Tail(r.todo) # <<>>
       /\ r.op \in TrailOps => Did(r, L("trail")) /\ Did(r, Do("anchor")) /\ Did(r, S("trail"))
       /\ r.op = "buy" => Tail(r.todo) = <<>>
       /\ r.op = "claim" => Did(r, S("utxos")) /\ Tail(r.todo) = <<>>
       /\ r.op = "mrc20" => Did(r, S("replay"))
       /\ r.op \in {"mrc20", "txo"} => Did(r, Do("verify")) /\ Tail(r.todo) = <<>>
       /\ r.op = "scan" => Did(r, Do("scan")) /\ Tail(r.todo) # <<>>
       /\ r.op = "withdrawSats" => Did(r, Do("broadcast")) /\ Tail(r.todo) # <<>>
  /\ f = "utxos" =>
       /\ r.op \in {"scan", "claim", "withdrawSats"}
       /\ r.op = "scan" => Did(r, Do("scan")) /\ Did(r, S("ledger")) /\ Tail(r.todo) = <<>>
       /\ r.op = "claim" => Did(r, Do("lookup")) /\ ~ Did(r, S("ledger")) /\ Tail(r.todo) # <<>>
       /\ r.op = "withdrawSats" =>
            Did(r, Do("broadcast")) /\ Did(r, S("ledger")) /\ Tail(r.todo) = <<>>
  /\ f = "trail" => /\ r.op \in TrailOps /\ Did(r, L("ledger")) /\ Did(r, Do("anchor"))
                    /\ r.op = "swap" => Did(r, L("offers"))
                    /\ Tail(r.todo) # <<>>
  /\ f = "offers" => r.op \in {"sell", "swap"}
  /\ f = "pool" => /\ r.op \in PoolOps /\ Did(r, L("ledger")) /\ Did(r, S("ledger"))
                   /\ Tail(r.todo) = <<>>
  /\ f = "replay" => r.op = "mrc20" /\ ~ Did(r, Do("verify"))

BeforeLoad(r, f) ==
  /\ f \in FileNames /\ Tail(r.todo) # <<>>
  /\ r.op = "scan" => ~ Did(r, S("ledger"))
  /\ f = "pool" => r.op \in PoolOps
  /\ f = "trail" => r.op \in TrailOps \cup {"sell"}
  /\ f = "trail" /\ r.op \in TrailOps => Did(r, L("ledger"))
  /\ f = "replay" => r.op = "mrc20"
  /\ f = "offers" => r.op \in {"sell", "swap"}
  /\ f = "utxos" => r.op \in {"scan", "claim", "withdrawSats"}
  /\ f = "utxos" /\ r.op = "withdrawSats" => Did(r, L("ledger"))
  /\ r.op = "withdrawSats" => ~ Did(r, Do("broadcast"))
  /\ r.op \in PoolOps => ~ Did(r, S("ledger"))
  /\ r.op \in TrailOps => ~ Did(r, Do("anchor"))
  /\ f = "ledger" /\ r.op \in {"remove", "poolSwap"} => Did(r, L("pool"))
  /\ f = "ledger" /\ r.op = "buy" => ~ Did(r, L("trail"))
  /\ f = "utxos" /\ r.op = "scan" => ~ Did(r, Do("scan"))
  /\ f = "ledger" /\ r.op = "scan" => ~ Did(r, Do("scan"))
  /\ f = "utxos" => ~ Did(r, S("utxos"))
  /\ f = "replay" => ~ Did(r, Do("verify"))

BeforeDo(r, x) ==
  /\ ~ Did(r, S("ledger"))
  /\ x = "scan" => /\ r.op = "scan" /\ Did(r, L("ledger")) /\ Did(r, L("utxos"))
                   /\ Tail(r.todo) # <<>> /\ Step(r.op, At1(r) + 1) = S("ledger")
  /\ x = "lookup" => r.op = "claim" /\ ~ Did(r, S("utxos"))
  /\ x = "verify" => r.op \in {"mrc20", "txo"} /\ Tail(r.todo) # <<>>
  /\ x = "anchor" => /\ r.op \in TrailOps /\ Did(r, L("ledger")) /\ Did(r, L("trail"))
                     /\ ~ Did(r, S("trail")) /\ Tail(r.todo) # <<>>
  /\ x = "broadcast" => /\ r.op = "withdrawSats" /\ Did(r, L("ledger")) /\ Did(r, L("utxos"))
                        /\ Tail(r.todo) # <<>>

Before(r) ==
  /\ ~ Did(r, Head(r.todo))
  /\ r.op \in TrailOps /\ Did(r, Do("anchor")) /\ ~ Did(r, S("trail")) => Head(r.todo) = S("trail")
  /\ r.op \in PoolOps /\ Did(r, S("ledger")) => Head(r.todo) = S("pool")
  /\ \/ \E f : Head(r.todo) = S(f) /\ BeforeSave(r, f)
     \/ \E f : Head(r.todo) = L(f) /\ BeforeLoad(r, f)
     \/ \E x \in {"scan", "verify", "lookup", "anchor", "broadcast"} :
           Head(r.todo) = Do(x) /\ BeforeDo(r, x)

LEMMA ScanOrder == ASSUME NEW r, Shaped(r), r.op = "scan" PROVE Before(r)
<1>1. Is("scan", Scan)
  BY Programs
<1>2. /\ Size(r.op) = 5
      /\ Step(r.op, 1) = L("utxos") /\ Step(r.op, 2) = L("ledger") /\ Step(r.op, 3) = Do("scan")
      /\ Step(r.op, 4) = S("ledger") /\ Step(r.op, 5) = S("utxos")
  BY <1>1 DEF Is, Scan
<1>3. /\ At1(r) \in 1 .. Size(r.op) /\ Head(r.todo) = Step(r.op, At1(r))
      /\ Tail(r.todo) = <<>> <=> At1(r) = Size(r.op)
  BY ShapedFacts
<1>4. /\ Did(r, L("utxos")) <=> At1(r) > 1
      /\ Did(r, L("ledger")) <=> At1(r) > 2
      /\ Did(r, Do("scan")) <=> At1(r) > 3
      /\ Did(r, S("ledger")) <=> At1(r) > 4
      /\ Did(r, S("utxos")) <=> At1(r) > 5
  BY <1>2, <1>3, StepsDiffer DEF Did
<1>5. CASE At1(r) = 1
  BY <1>2, <1>3, <1>4, <1>5, StepsDiffer DEF Before, BeforeLoad, PoolOps, TrailOps, FileNames
<1>6. CASE At1(r) = 2
  BY <1>2, <1>3, <1>4, <1>6, StepsDiffer DEF Before, BeforeLoad, PoolOps, TrailOps, FileNames
<1>7. CASE At1(r) = 3
  BY <1>2, <1>3, <1>4, <1>7, StepsDiffer DEF Before, BeforeDo, PoolOps, TrailOps, FileNames
<1>8. CASE At1(r) = 4
  BY <1>2, <1>3, <1>4, <1>8, StepsDiffer DEF Before, BeforeSave, PoolOps, TrailOps, FileNames
<1>9. CASE At1(r) = 5
  BY <1>2, <1>3, <1>4, <1>9, StepsDiffer DEF Before, BeforeSave, PoolOps, TrailOps, FileNames
<1>. QED
  BY <1>2, <1>3, <1>5, <1>6, <1>7, <1>8, <1>9

LEMMA ClaimOrder == ASSUME NEW r, Shaped(r), r.op = "claim" PROVE Before(r)
<1>1. Is("claim", Claim)
  BY Programs
<1>2. /\ Size(r.op) = 5
      /\ Step(r.op, 1) = Do("lookup") /\ Step(r.op, 2) = L("utxos") /\ Step(r.op, 3) = S("utxos")
      /\ Step(r.op, 4) = L("ledger") /\ Step(r.op, 5) = S("ledger")
  BY <1>1 DEF Is, Claim
<1>3. /\ At1(r) \in 1 .. Size(r.op) /\ Head(r.todo) = Step(r.op, At1(r))
      /\ Tail(r.todo) = <<>> <=> At1(r) = Size(r.op)
  BY ShapedFacts
<1>4. /\ Did(r, Do("lookup")) <=> At1(r) > 1
      /\ Did(r, L("utxos")) <=> At1(r) > 2
      /\ Did(r, S("utxos")) <=> At1(r) > 3
      /\ Did(r, L("ledger")) <=> At1(r) > 4
      /\ Did(r, S("ledger")) <=> At1(r) > 5
  BY <1>2, <1>3, StepsDiffer DEF Did
<1>5. CASE At1(r) = 1
  BY <1>2, <1>3, <1>4, <1>5, StepsDiffer DEF Before, BeforeDo, PoolOps, TrailOps, FileNames
<1>6. CASE At1(r) = 2
  BY <1>2, <1>3, <1>4, <1>6, StepsDiffer DEF Before, BeforeLoad, PoolOps, TrailOps, FileNames
<1>7. CASE At1(r) = 3
  BY <1>2, <1>3, <1>4, <1>7, StepsDiffer DEF Before, BeforeSave, PoolOps, TrailOps, FileNames
<1>8. CASE At1(r) = 4
  BY <1>2, <1>3, <1>4, <1>8, StepsDiffer DEF Before, BeforeLoad, PoolOps, TrailOps, FileNames
<1>9. CASE At1(r) = 5
  BY <1>2, <1>3, <1>4, <1>9, StepsDiffer DEF Before, BeforeSave, PoolOps, TrailOps, FileNames
<1>. QED
  BY <1>2, <1>3, <1>5, <1>6, <1>7, <1>8, <1>9

LEMMA Mrc20Order == ASSUME NEW r, Shaped(r), r.op = "mrc20" PROVE Before(r)
<1>1. Is("mrc20", DepositMrc20)
  BY Programs
<1>2. /\ Size(r.op) = 5
      /\ Step(r.op, 1) = L("replay") /\ Step(r.op, 2) = S("replay") /\ Step(r.op, 3) = Do("verify")
      /\ Step(r.op, 4) = L("ledger") /\ Step(r.op, 5) = S("ledger")
  BY <1>1 DEF Is, DepositMrc20
<1>3. /\ At1(r) \in 1 .. Size(r.op) /\ Head(r.todo) = Step(r.op, At1(r))
      /\ Tail(r.todo) = <<>> <=> At1(r) = Size(r.op)
  BY ShapedFacts
<1>4. /\ Did(r, L("replay")) <=> At1(r) > 1
      /\ Did(r, S("replay")) <=> At1(r) > 2
      /\ Did(r, Do("verify")) <=> At1(r) > 3
      /\ Did(r, L("ledger")) <=> At1(r) > 4
      /\ Did(r, S("ledger")) <=> At1(r) > 5
  BY <1>2, <1>3, StepsDiffer DEF Did
<1>5. CASE At1(r) = 1
  BY <1>2, <1>3, <1>4, <1>5, StepsDiffer DEF Before, BeforeLoad, PoolOps, TrailOps, FileNames
<1>6. CASE At1(r) = 2
  BY <1>2, <1>3, <1>4, <1>6, StepsDiffer DEF Before, BeforeSave, PoolOps, TrailOps, FileNames
<1>7. CASE At1(r) = 3
  BY <1>2, <1>3, <1>4, <1>7, StepsDiffer DEF Before, BeforeDo, PoolOps, TrailOps, FileNames
<1>8. CASE At1(r) = 4
  BY <1>2, <1>3, <1>4, <1>8, StepsDiffer DEF Before, BeforeLoad, PoolOps, TrailOps, FileNames
<1>9. CASE At1(r) = 5
  BY <1>2, <1>3, <1>4, <1>9, StepsDiffer DEF Before, BeforeSave, PoolOps, TrailOps, FileNames
<1>. QED
  BY <1>2, <1>3, <1>5, <1>6, <1>7, <1>8, <1>9

LEMMA TxoOrder == ASSUME NEW r, Shaped(r), r.op = "txo" PROVE Before(r)
<1>1. Is("txo", DepositTxo)
  BY Programs
<1>2. /\ Size(r.op) = 3
      /\ Step(r.op, 1) = Do("verify") /\ Step(r.op, 2) = L("ledger") /\ Step(r.op, 3) = S("ledger")
  BY <1>1 DEF Is, DepositTxo
<1>3. /\ At1(r) \in 1 .. Size(r.op) /\ Head(r.todo) = Step(r.op, At1(r))
      /\ Tail(r.todo) = <<>> <=> At1(r) = Size(r.op)
  BY ShapedFacts
<1>4. /\ Did(r, Do("verify")) <=> At1(r) > 1
      /\ Did(r, L("ledger")) <=> At1(r) > 2
      /\ Did(r, S("ledger")) <=> At1(r) > 3
  BY <1>2, <1>3, StepsDiffer DEF Did
<1>5. CASE At1(r) = 1
  BY <1>2, <1>3, <1>4, <1>5, StepsDiffer DEF Before, BeforeDo, PoolOps, TrailOps, FileNames
<1>6. CASE At1(r) = 2
  BY <1>2, <1>3, <1>4, <1>6, StepsDiffer DEF Before, BeforeLoad, PoolOps, TrailOps, FileNames
<1>7. CASE At1(r) = 3
  BY <1>2, <1>3, <1>4, <1>7, StepsDiffer DEF Before, BeforeSave, PoolOps, TrailOps, FileNames
<1>. QED
  BY <1>2, <1>3, <1>5, <1>6, <1>7

LEMMA AccessOrder == ASSUME NEW r, Shaped(r), r.op = "access" PROVE Before(r)
<1>1. Is("access", Access)
  BY Programs
<1>2. /\ Size(r.op) = 2
      /\ Step(r.op, 1) = L("ledger") /\ Step(r.op, 2) = S("ledger")
  BY <1>1 DEF Is, Access
<1>3. /\ At1(r) \in 1 .. Size(r.op) /\ Head(r.todo) = Step(r.op, At1(r))
      /\ Tail(r.todo) = <<>> <=> At1(r) = Size(r.op)
  BY ShapedFacts
<1>4. /\ Did(r, L("ledger")) <=> At1(r) > 1
      /\ Did(r, S("ledger")) <=> At1(r) > 2
  BY <1>2, <1>3, StepsDiffer DEF Did
<1>5. CASE At1(r) = 1
  BY <1>2, <1>3, <1>4, <1>5, StepsDiffer DEF Before, BeforeLoad, PoolOps, TrailOps, FileNames
<1>6. CASE At1(r) = 2
  BY <1>2, <1>3, <1>4, <1>6, StepsDiffer DEF Before, BeforeSave, PoolOps, TrailOps, FileNames
<1>. QED
  BY <1>2, <1>3, <1>5, <1>6

LEMMA ConditionOrder == ASSUME NEW r, Shaped(r), r.op = "condition" PROVE Before(r)
<1>1. Is("condition", Access)
  BY Programs
<1>2. /\ Size(r.op) = 2
      /\ Step(r.op, 1) = L("ledger") /\ Step(r.op, 2) = S("ledger")
  BY <1>1 DEF Is, Access
<1>3. /\ At1(r) \in 1 .. Size(r.op) /\ Head(r.todo) = Step(r.op, At1(r))
      /\ Tail(r.todo) = <<>> <=> At1(r) = Size(r.op)
  BY ShapedFacts
<1>4. /\ Did(r, L("ledger")) <=> At1(r) > 1
      /\ Did(r, S("ledger")) <=> At1(r) > 2
  BY <1>2, <1>3, StepsDiffer DEF Did
<1>5. CASE At1(r) = 1
  BY <1>2, <1>3, <1>4, <1>5, StepsDiffer DEF Before, BeforeLoad, PoolOps, TrailOps, FileNames
<1>6. CASE At1(r) = 2
  BY <1>2, <1>3, <1>4, <1>6, StepsDiffer DEF Before, BeforeSave, PoolOps, TrailOps, FileNames
<1>. QED
  BY <1>2, <1>3, <1>5, <1>6

LEMMA SellOrder == ASSUME NEW r, Shaped(r), r.op = "sell" PROVE Before(r)
<1>1. Is("sell", Sell)
  BY Programs
<1>2. /\ Size(r.op) = 3
      /\ Step(r.op, 1) = L("trail") /\ Step(r.op, 2) = L("offers") /\ Step(r.op, 3) = S("offers")
  BY <1>1 DEF Is, Sell
<1>3. /\ At1(r) \in 1 .. Size(r.op) /\ Head(r.todo) = Step(r.op, At1(r))
      /\ Tail(r.todo) = <<>> <=> At1(r) = Size(r.op)
  BY ShapedFacts
<1>4. /\ Did(r, L("trail")) <=> At1(r) > 1
      /\ Did(r, L("offers")) <=> At1(r) > 2
      /\ Did(r, S("offers")) <=> At1(r) > 3
  BY <1>2, <1>3, StepsDiffer DEF Did
<1>5. CASE At1(r) = 1
  BY <1>2, <1>3, <1>4, <1>5, StepsDiffer DEF Before, BeforeLoad, PoolOps, TrailOps, FileNames
<1>6. CASE At1(r) = 2
  BY <1>2, <1>3, <1>4, <1>6, StepsDiffer DEF Before, BeforeLoad, PoolOps, TrailOps, FileNames
<1>7. CASE At1(r) = 3
  BY <1>2, <1>3, <1>4, <1>7, StepsDiffer DEF Before, BeforeSave, PoolOps, TrailOps, FileNames
<1>. QED
  BY <1>2, <1>3, <1>5, <1>6, <1>7

LEMMA SwapOrder == ASSUME NEW r, Shaped(r), r.op = "swap" PROVE Before(r)
<1>1. Is("swap", SwapOffer)
  BY Programs
<1>2. /\ Size(r.op) = 7
      /\ Step(r.op, 1) = L("offers") /\ Step(r.op, 2) = L("ledger") /\ Step(r.op, 3) = L("trail")
      /\ Step(r.op, 4) = Do("anchor") /\ Step(r.op, 5) = S("trail") /\ Step(r.op, 6) = S("ledger")
      /\ Step(r.op, 7) = S("offers")
  BY <1>1 DEF Is, SwapOffer
<1>3. /\ At1(r) \in 1 .. Size(r.op) /\ Head(r.todo) = Step(r.op, At1(r))
      /\ Tail(r.todo) = <<>> <=> At1(r) = Size(r.op)
  BY ShapedFacts
<1>4. /\ Did(r, L("offers")) <=> At1(r) > 1
      /\ Did(r, L("ledger")) <=> At1(r) > 2
      /\ Did(r, L("trail")) <=> At1(r) > 3
      /\ Did(r, Do("anchor")) <=> At1(r) > 4
      /\ Did(r, S("trail")) <=> At1(r) > 5
      /\ Did(r, S("ledger")) <=> At1(r) > 6
      /\ Did(r, S("offers")) <=> At1(r) > 7
  BY <1>2, <1>3, StepsDiffer, SMTT(60) DEF Did
<1>5. CASE At1(r) = 1
  BY <1>2, <1>3, <1>4, <1>5, StepsDiffer DEF Before, BeforeLoad, PoolOps, TrailOps, FileNames
<1>6. CASE At1(r) = 2
  BY <1>2, <1>3, <1>4, <1>6, StepsDiffer DEF Before, BeforeLoad, PoolOps, TrailOps, FileNames
<1>7. CASE At1(r) = 3
  BY <1>2, <1>3, <1>4, <1>7, StepsDiffer DEF Before, BeforeLoad, PoolOps, TrailOps, FileNames
<1>8. CASE At1(r) = 4
  BY <1>2, <1>3, <1>4, <1>8, StepsDiffer DEF Before, BeforeDo, PoolOps, TrailOps, FileNames
<1>9. CASE At1(r) = 5
  BY <1>2, <1>3, <1>4, <1>9, StepsDiffer DEF Before, BeforeSave, PoolOps, TrailOps, FileNames
<1>10. CASE At1(r) = 6
  BY <1>2, <1>3, <1>4, <1>10, StepsDiffer DEF Before, BeforeSave, PoolOps, TrailOps, FileNames
<1>11. CASE At1(r) = 7
  BY <1>2, <1>3, <1>4, <1>11, StepsDiffer DEF Before, BeforeSave, PoolOps, TrailOps, FileNames
<1>. QED
  BY <1>2, <1>3, <1>5, <1>6, <1>7, <1>8, <1>9, <1>10, <1>11

LEMMA BuyOrder == ASSUME NEW r, Shaped(r), r.op = "buy" PROVE Before(r)
<1>1. Is("buy", Buy)
  BY Programs
<1>2. /\ Size(r.op) = 5
      /\ Step(r.op, 1) = L("ledger") /\ Step(r.op, 2) = L("trail") /\ Step(r.op, 3) = Do("anchor")
      /\ Step(r.op, 4) = S("trail") /\ Step(r.op, 5) = S("ledger")
  BY <1>1 DEF Is, Buy
<1>3. /\ At1(r) \in 1 .. Size(r.op) /\ Head(r.todo) = Step(r.op, At1(r))
      /\ Tail(r.todo) = <<>> <=> At1(r) = Size(r.op)
  BY ShapedFacts
<1>4. /\ Did(r, L("ledger")) <=> At1(r) > 1
      /\ Did(r, L("trail")) <=> At1(r) > 2
      /\ Did(r, Do("anchor")) <=> At1(r) > 3
      /\ Did(r, S("trail")) <=> At1(r) > 4
      /\ Did(r, S("ledger")) <=> At1(r) > 5
  BY <1>2, <1>3, StepsDiffer DEF Did
<1>5. CASE At1(r) = 1
  BY <1>2, <1>3, <1>4, <1>5, StepsDiffer DEF Before, BeforeLoad, PoolOps, TrailOps, FileNames
<1>6. CASE At1(r) = 2
  BY <1>2, <1>3, <1>4, <1>6, StepsDiffer DEF Before, BeforeLoad, PoolOps, TrailOps, FileNames
<1>7. CASE At1(r) = 3
  BY <1>2, <1>3, <1>4, <1>7, StepsDiffer DEF Before, BeforeDo, PoolOps, TrailOps, FileNames
<1>8. CASE At1(r) = 4
  BY <1>2, <1>3, <1>4, <1>8, StepsDiffer DEF Before, BeforeSave, PoolOps, TrailOps, FileNames
<1>9. CASE At1(r) = 5
  BY <1>2, <1>3, <1>4, <1>9, StepsDiffer DEF Before, BeforeSave, PoolOps, TrailOps, FileNames
<1>. QED
  BY <1>2, <1>3, <1>5, <1>6, <1>7, <1>8, <1>9

LEMMA WithdrawSatsOrder == ASSUME NEW r, Shaped(r), r.op = "withdrawSats" PROVE Before(r)
<1>1. Is("withdrawSats", WithdrawSats)
  BY Programs
<1>2. /\ Size(r.op) = 5
      /\ Step(r.op, 1) = L("ledger") /\ Step(r.op, 2) = L("utxos") /\ Step(r.op, 3) = Do("broadcast")
      /\ Step(r.op, 4) = S("ledger") /\ Step(r.op, 5) = S("utxos")
  BY <1>1 DEF Is, WithdrawSats
<1>3. /\ At1(r) \in 1 .. Size(r.op) /\ Head(r.todo) = Step(r.op, At1(r))
      /\ Tail(r.todo) = <<>> <=> At1(r) = Size(r.op)
  BY ShapedFacts
<1>4. /\ Did(r, L("ledger")) <=> At1(r) > 1
      /\ Did(r, L("utxos")) <=> At1(r) > 2
      /\ Did(r, Do("broadcast")) <=> At1(r) > 3
      /\ Did(r, S("ledger")) <=> At1(r) > 4
      /\ Did(r, S("utxos")) <=> At1(r) > 5
  BY <1>2, <1>3, StepsDiffer DEF Did
<1>5. CASE At1(r) = 1
  BY <1>2, <1>3, <1>4, <1>5, StepsDiffer DEF Before, BeforeLoad, PoolOps, TrailOps, FileNames
<1>6. CASE At1(r) = 2
  BY <1>2, <1>3, <1>4, <1>6, StepsDiffer DEF Before, BeforeLoad, PoolOps, TrailOps, FileNames
<1>7. CASE At1(r) = 3
  BY <1>2, <1>3, <1>4, <1>7, StepsDiffer DEF Before, BeforeDo, PoolOps, TrailOps, FileNames
<1>8. CASE At1(r) = 4
  BY <1>2, <1>3, <1>4, <1>8, StepsDiffer DEF Before, BeforeSave, PoolOps, TrailOps, FileNames
<1>9. CASE At1(r) = 5
  BY <1>2, <1>3, <1>4, <1>9, StepsDiffer DEF Before, BeforeSave, PoolOps, TrailOps, FileNames
<1>. QED
  BY <1>2, <1>3, <1>5, <1>6, <1>7, <1>8, <1>9

LEMMA AddOrder == ASSUME NEW r, Shaped(r), r.op = "add" PROVE Before(r)
<1>1. Is("add", AddLiquidity)
  BY Programs
<1>2. /\ Size(r.op) = 4
      /\ Step(r.op, 1) = L("ledger") /\ Step(r.op, 2) = L("pool") /\ Step(r.op, 3) = S("ledger")
      /\ Step(r.op, 4) = S("pool")
  BY <1>1 DEF Is, AddLiquidity
<1>3. /\ At1(r) \in 1 .. Size(r.op) /\ Head(r.todo) = Step(r.op, At1(r))
      /\ Tail(r.todo) = <<>> <=> At1(r) = Size(r.op)
  BY ShapedFacts
<1>4. /\ Did(r, L("ledger")) <=> At1(r) > 1
      /\ Did(r, L("pool")) <=> At1(r) > 2
      /\ Did(r, S("ledger")) <=> At1(r) > 3
      /\ Did(r, S("pool")) <=> At1(r) > 4
  BY <1>2, <1>3, StepsDiffer DEF Did
<1>5. CASE At1(r) = 1
  BY <1>2, <1>3, <1>4, <1>5, StepsDiffer DEF Before, BeforeLoad, PoolOps, TrailOps, FileNames
<1>6. CASE At1(r) = 2
  BY <1>2, <1>3, <1>4, <1>6, StepsDiffer DEF Before, BeforeLoad, PoolOps, TrailOps, FileNames
<1>7. CASE At1(r) = 3
  BY <1>2, <1>3, <1>4, <1>7, StepsDiffer DEF Before, BeforeSave, PoolOps, TrailOps, FileNames
<1>8. CASE At1(r) = 4
  BY <1>2, <1>3, <1>4, <1>8, StepsDiffer DEF Before, BeforeSave, PoolOps, TrailOps, FileNames
<1>. QED
  BY <1>2, <1>3, <1>5, <1>6, <1>7, <1>8

LEMMA RemoveOrder == ASSUME NEW r, Shaped(r), r.op = "remove" PROVE Before(r)
<1>1. Is("remove", RemoveLiquidity)
  BY Programs
<1>2. /\ Size(r.op) = 4
      /\ Step(r.op, 1) = L("pool") /\ Step(r.op, 2) = L("ledger") /\ Step(r.op, 3) = S("ledger")
      /\ Step(r.op, 4) = S("pool")
  BY <1>1 DEF Is, RemoveLiquidity
<1>3. /\ At1(r) \in 1 .. Size(r.op) /\ Head(r.todo) = Step(r.op, At1(r))
      /\ Tail(r.todo) = <<>> <=> At1(r) = Size(r.op)
  BY ShapedFacts
<1>4. /\ Did(r, L("pool")) <=> At1(r) > 1
      /\ Did(r, L("ledger")) <=> At1(r) > 2
      /\ Did(r, S("ledger")) <=> At1(r) > 3
      /\ Did(r, S("pool")) <=> At1(r) > 4
  BY <1>2, <1>3, StepsDiffer DEF Did
<1>5. CASE At1(r) = 1
  BY <1>2, <1>3, <1>4, <1>5, StepsDiffer DEF Before, BeforeLoad, PoolOps, TrailOps, FileNames
<1>6. CASE At1(r) = 2
  BY <1>2, <1>3, <1>4, <1>6, StepsDiffer DEF Before, BeforeLoad, PoolOps, TrailOps, FileNames
<1>7. CASE At1(r) = 3
  BY <1>2, <1>3, <1>4, <1>7, StepsDiffer DEF Before, BeforeSave, PoolOps, TrailOps, FileNames
<1>8. CASE At1(r) = 4
  BY <1>2, <1>3, <1>4, <1>8, StepsDiffer DEF Before, BeforeSave, PoolOps, TrailOps, FileNames
<1>. QED
  BY <1>2, <1>3, <1>5, <1>6, <1>7, <1>8

LEMMA PoolSwapOrder == ASSUME NEW r, Shaped(r), r.op = "poolSwap" PROVE Before(r)
<1>1. Is("poolSwap", PoolSwap)
  BY Programs
<1>2. /\ Size(r.op) = 4
      /\ Step(r.op, 1) = L("pool") /\ Step(r.op, 2) = L("ledger") /\ Step(r.op, 3) = S("ledger")
      /\ Step(r.op, 4) = S("pool")
  BY <1>1 DEF Is, PoolSwap
<1>3. /\ At1(r) \in 1 .. Size(r.op) /\ Head(r.todo) = Step(r.op, At1(r))
      /\ Tail(r.todo) = <<>> <=> At1(r) = Size(r.op)
  BY ShapedFacts
<1>4. /\ Did(r, L("pool")) <=> At1(r) > 1
      /\ Did(r, L("ledger")) <=> At1(r) > 2
      /\ Did(r, S("ledger")) <=> At1(r) > 3
      /\ Did(r, S("pool")) <=> At1(r) > 4
  BY <1>2, <1>3, StepsDiffer DEF Did
<1>5. CASE At1(r) = 1
  BY <1>2, <1>3, <1>4, <1>5, StepsDiffer DEF Before, BeforeLoad, PoolOps, TrailOps, FileNames
<1>6. CASE At1(r) = 2
  BY <1>2, <1>3, <1>4, <1>6, StepsDiffer DEF Before, BeforeLoad, PoolOps, TrailOps, FileNames
<1>7. CASE At1(r) = 3
  BY <1>2, <1>3, <1>4, <1>7, StepsDiffer DEF Before, BeforeSave, PoolOps, TrailOps, FileNames
<1>8. CASE At1(r) = 4
  BY <1>2, <1>3, <1>4, <1>8, StepsDiffer DEF Before, BeforeSave, PoolOps, TrailOps, FileNames
<1>. QED
  BY <1>2, <1>3, <1>5, <1>6, <1>7, <1>8

LEMMA Order == ASSUME NEW r, Shaped(r) PROVE Before(r)
BY ScanOrder, ClaimOrder, Mrc20Order, TxoOrder, AccessOrder, ConditionOrder, SellOrder,
   SwapOrder, BuyOrder, WithdrawSatsOrder, AddOrder, RemoveOrder, PoolSwapOrder
   DEF Shaped, Ops

-----------------------------------------------------------------------------
(* What the files and the requests are: types, and what is known of a file that was loaded. *)

GoodLedger(l) ==
  l \in Ledgers /\ \A i \in OutputIds : l.scanned[i] = IF i \in l.credited THEN 1 ELSE 0
GoodUtxos(us) == IsFiniteSet(us) /\ us \subseteq UtxosOf({u.id : u \in us})
GoodOffers(os) == \A o \in os : o.seller \in Users /\ o.tokens \in Nat /\ o.price \in Nat
GoodPool(p) == p \in Pools /\ Sound(p)
GoodTrail(t) == t \in Trails
GoodReplay(s) == s \subseteq Proved

Good(f, v) ==
  /\ f = "ledger" => GoodLedger(v)
  /\ f = "utxos" => GoodUtxos(v)
  /\ f = "offers" => GoodOffers(v)
  /\ f = "pool" => GoodPool(v)
  /\ f = "trail" => GoodTrail(v)
  /\ f = "replay" => GoodReplay(v)

Fields == {"op", "todo", "user", "cur", "amount", "item", "copy", "inputs"}

\* What a request asks for.
Asked(r) ==
  /\ DOMAIN r = Fields /\ DOMAIN r.copy = FileNames
  /\ r.user \in Users /\ r.cur \in Currencies /\ r.amount \in Nat
  /\ r.op = "claim" => r.item \in Outputs /\ r.amount = r.item.value /\ r.cur = r.item.chain
  /\ r.op = "mrc20" => r.item \in Proofs
  /\ r.op \in {"sell", "add"} => r.item \in Nat /\ r.item > 0
  /\ r.op = "swap" => r.item.seller \in Users /\ r.item.tokens \in Nat /\ r.item.price \in Nat
  /\ r.op \in PoolOps \cup {"withdrawSats", "buy"} => r.cur \in Chains /\ r.amount > 0
  /\ r.op \in {"access", "condition"} => r.amount = PayCost
  /\ r.op = "swap" => r.cur = "sat"

\* Outputs paid to a user.
Theirs == {o \in Outputs : o.tweak \in Users}

\* The balance that it has read is enough for it.
Affords(r) ==
  /\ r.op \in {"access", "condition", "withdrawSats", "poolSwap", "add"} => Balance(r) >= r.amount
  /\ r.op = "buy" => Balance(r) >= Cost(r)
  /\ r.op = "swap" => Balance(r) >= r.item.price
  /\ r.op = "add" => r.copy["ledger"].balance[r.user][OtherChain(r.cur)] >= r.item
  /\ r.op = "condition" => r.cur # "sat"

\* What the checks after the loads have left over.
Checked(r) ==
  /\ Did(r, L("ledger")) => Affords(r)
  /\ r.op = "scan" =>
       IF Did(r, Do("scan"))
       THEN r.inputs \subseteq {o \in Theirs : ~ Recorded(r.copy["utxos"], o)} ELSE r.inputs = {}
  /\ r.op = "claim" /\ Did(r, L("utxos")) => ~ Recorded(r.copy["utxos"], r.item)
  /\ r.op = "mrc20" /\ Did(r, L("replay")) => r.item.id \notin r.copy["replay"]
  /\ r.op = "withdrawSats" =>
       IF Did(r, L("utxos")) THEN r.inputs \subseteq {u \in r.copy["utxos"] : ~ u.spent}
       ELSE r.inputs = {}
  /\ r.op = "buy" /\ Did(r, L("trail")) => r.copy["trail"].balances[Issuer] >= Tokens(r)
  /\ r.op = "swap" /\ Did(r, L("offers")) => r.item.seller # r.user
  /\ r.op = "swap" /\ Did(r, L("trail")) =>
       r.copy["trail"].balances[r.item.seller] >= r.item.tokens
  /\ r.op = "remove" /\ Did(r, L("pool")) => r.amount <= r.copy["pool"].of[r.user]
  /\ r.op = "poolSwap" /\ Did(r, L("pool")) => r.copy["pool"].shares > 0

Task(r) ==
  /\ Shaped(r) /\ Asked(r) /\ Checked(r)
  /\ \A f \in FileNames : Did(r, L(f)) => Good(f, r.copy[f])

FilesInv ==
  /\ DOMAIN files = FileNames /\ DOMAIN pay = PayTasks
  /\ \A f \in FileNames : Good(f, files[f])
  /\ \A t \in PayTasks : Busy(t) => Task(pay[t])
  /\ upset \subseteq {"lost", "string", "txo", "failed", "death"}
-----------------------------------------------------------------------------
(* The ledger. *)

LEMMA Coins ==
  /\ Chains \subseteq Currencies /\ "sat" \in Currencies /\ "sat" \notin Chains
  /\ \A c \in Chains : OtherChain(c) \in Chains /\ OtherChain(c) # c
  /\ \A c \in Chains : Chains = {c, OtherChain(c)}
<1>1. PICK a, b \in Chains : a # b /\ Chains = {a, b}
  BY PaymentsAssumption
<1>2. \A c \in Chains : \E d \in Chains : d # c
  BY <1>1
<1>3. \A c \in Chains : OtherChain(c) \in Chains /\ OtherChain(c) # c
  BY <1>2 DEF OtherChain
<1>. QED
  BY <1>1, <1>3, PaymentsAssumption DEF Currencies

LEMMA SetBalanceGood ==
  ASSUME NEW l, GoodLedger(l), NEW u \in Users, NEW n \in Nat, NEW c \in Currencies, NEW m,
         m = SetBalance(l, u, n, c)
  PROVE  /\ GoodLedger(m) /\ m.credited = l.credited /\ m.scanned = l.scanned /\ m.counted = l.counted
         /\ m.balance[u][c] = n /\ \A v \in Users \ {u} : m.balance[v] = l.balance[v]
         /\ c # "sat" => \A d \in Currencies \ {c} : m.balance[u][d] = l.balance[u][d]
         /\ c = "sat" => \A d \in Currencies \ {c} : m.balance[u][d] = 0
<1>0. l.balance \in [Users -> [Currencies -> Nat]]
  BY DEF GoodLedger, Ledgers
<1>1. PICK x \in [Currencies -> Nat] :
        /\ m = [l EXCEPT !.balance = [l.balance EXCEPT ![u] = x]] /\ x[c] = n
        /\ c # "sat" => \A d \in Currencies \ {c} : x[d] = l.balance[u][d]
        /\ c = "sat" => \A d \in Currencies \ {c} : x[d] = 0
  <2>1. CASE c = "sat"
    <3>. DEFINE x == [d \in Currencies |-> IF d = "sat" THEN n ELSE 0]
    <3>1. x \in [Currencies -> Nat]
      OBVIOUS
    <3>. QED
      BY <3>1, <2>1 DEF SetBalance
  <2>2. CASE c # "sat"
    <3>. DEFINE x == [l.balance[u] EXCEPT ![c] = n]
    <3>1. x \in [Currencies -> Nat] /\ x[c] = n /\ \A d \in Currencies \ {c} : x[d] = l.balance[u][d]
      BY <1>0
    <3>2. m = [l EXCEPT !.balance = [l.balance EXCEPT ![u] = x]]
      BY <2>2, Zenon DEF SetBalance
    <3>. QED
      BY <3>1, <3>2, <2>2
  <2>. QED
    BY <2>1, <2>2
<1>2. PICK b : b = [l.balance EXCEPT ![u] = x]
  OBVIOUS
<1>3. /\ b \in [Users -> [Currencies -> Nat]] /\ b[u] = x /\ \A v \in Users \ {u} : b[v] = l.balance[v]
  BY <1>0, <1>2
<1>4. m = [l EXCEPT !.balance = b]
  BY <1>1, <1>2
<1>5. m \in Ledgers /\ m.balance = b /\ m.credited = l.credited /\ m.scanned = l.scanned
      /\ m.counted = l.counted
  BY <1>3, <1>4 DEF GoodLedger, Ledgers
<1>. QED
  BY <1>1, <1>3, <1>5 DEF GoodLedger

Same(l, m) == m.credited = l.credited /\ m.scanned = l.scanned /\ m.counted = l.counted

LEMMA CreditGood ==
  ASSUME NEW l, GoodLedger(l), NEW u \in Users, NEW n \in Nat, NEW c \in Currencies
  PROVE  GoodLedger(Credit(l, u, n, c)) /\ Same(l, Credit(l, u, n, c))
<1>1. l.balance[u][c] + n \in Nat
  BY DEF GoodLedger, Ledgers
<1>. QED
  BY <1>1, SetBalanceGood DEF Credit, Same

LEMMA DebitGood ==
  ASSUME NEW l, GoodLedger(l), NEW u \in Users, NEW n \in Nat, NEW c \in Currencies
  PROVE  GoodLedger(Debit(l, u, n, c)) /\ Same(l, Debit(l, u, n, c))
<1>1. l.balance[u][c] \in Nat
  BY DEF GoodLedger, Ledgers
<1>2. CASE l.balance[u][c] < n
  BY <1>2 DEF Debit, Same
<1>3. CASE ~ (l.balance[u][c] < n)
  <2>1. l.balance[u][c] - n \in Nat
    BY <1>1, <1>3
  <2>. QED
    BY <2>1, <1>3, SetBalanceGood DEF Debit, Same
<1>. QED
  BY <1>2, <1>3

\* A scan takes an output of a user into a ledger once.
LEMMA CreditOnceGood ==
  ASSUME NEW l, GoodLedger(l), NEW o \in Theirs
  PROVE  /\ GoodLedger(CreditOnce(l, o))
         /\ CreditOnce(l, o).credited = l.credited \cup {o.id}
         /\ CreditOnce(l, o).counted = l.counted
<1>1. CASE o.id \in l.credited
  BY <1>1 DEF CreditOnce, GoodLedger, Ledgers
<1>2. CASE o.id \notin l.credited
  <2>1. /\ o.tweak \in Users /\ o.value \in Nat /\ o.chain \in Currencies /\ o.id \in OutputIds
    BY DepositsAssumption, Coins DEF OutputIds, Theirs
  <2>2. PICK m : m = Credit(l, o.tweak, o.value, o.chain)
    OBVIOUS
  <2>3. GoodLedger(m) /\ m.credited = l.credited /\ m.counted = l.counted
    BY <2>1, <2>2, CreditGood DEF Same
  <2>4. CreditOnce(l, o) = [m EXCEPT !.credited = @ \cup {o.id}, !.scanned[o.id] = @ + 1]
    BY <1>2, <2>2, Zenon DEF CreditOnce
  <2>5. PICK n : n = CreditOnce(l, o)
    OBVIOUS
  <2>6. PICK x : x = [m.scanned EXCEPT ![o.id] = @ + 1]
    OBVIOUS
  <2>7. n = [m EXCEPT !.credited = m.credited \cup {o.id}, !.scanned = x]
    BY <2>4, <2>5, <2>6, Zenon
  <2>8. m.scanned \in [OutputIds -> Nat] /\ m \in Ledgers /\ m.credited \in SUBSET OutputIds
    BY <2>3 DEF GoodLedger, Ledgers
  <2>9. /\ x \in [OutputIds -> Nat] /\ x[o.id] = m.scanned[o.id] + 1
        /\ \A i \in OutputIds \ {o.id} : x[i] = m.scanned[i]
    BY <2>1, <2>6, <2>8
  <2>10. n \in Ledgers /\ n.credited = m.credited \cup {o.id} /\ n.scanned = x /\ n.counted = m.counted
    BY <2>1, <2>7, <2>8, <2>9 DEF Ledgers
  <2>11. GoodLedger(n)
    BY <1>2, <2>1, <2>3, <2>9, <2>10 DEF GoodLedger
  <2>. QED
    BY <2>3, <2>5, <2>10, <2>11
<1>. QED
  BY <1>1, <1>2

\* What a scan makes of a ledger: the recursion of FoldSet, and a function that satisfies it.
OneCredit(l, g, s) == IF s = {} THEN l ELSE CreditOnce(g[s \ {Pick(s)}], Pick(s))

LEMMA CreditsExist ==
  ASSUME NEW T, IsFiniteSet(T), NEW l
  PROVE  \E g : g = [s \in SUBSET T |-> OneCredit(l, g, s)]
<1>. DEFINE Upto(n) == {s \in SUBSET T : Cardinality(s) <= n}
            Fine == {n \in Nat : \E g : /\ g = [s \in SUBSET T |-> g[s]]
                                        /\ \A s \in Upto(n) : g[s] = OneCredit(l, g, s)}
<1>0. \A s \in SUBSET T : IsFiniteSet(s) /\ Cardinality(s) \in Nat
  BY FS_Subset, FS_CardinalityType
<1>1. 0 \in Fine
  <2>1. \A s \in Upto(0) : s = {}
    BY <1>0, FS_EmptySet
  <2>. DEFINE g == [s \in SUBSET T |-> l]
  <2>2. \A s \in Upto(0) : g[s] = OneCredit(l, g, s)
    BY <2>1 DEF OneCredit
  <2>. QED
    BY <2>2
<1>2. ASSUME NEW n \in Nat, n \in Fine PROVE n + 1 \in Fine
  <2>1. PICK g : /\ g = [s \in SUBSET T |-> g[s]]
                 /\ \A s \in Upto(n) : g[s] = OneCredit(l, g, s)
    BY <1>2
  <2>. DEFINE h == [s \in SUBSET T |-> OneCredit(l, g, s)]
  <2>2. ASSUME NEW s \in Upto(n + 1), s # {} PROVE h[s] = OneCredit(l, h, s)
    <3>1. Pick(s) \in s
      BY <2>2 DEF Pick
    <3>2. s \ {Pick(s)} \in Upto(n)
      <4>1. Cardinality(s \ {Pick(s)}) = Cardinality(s) - 1
        BY <1>0, <3>1, FS_RemoveElement
      <4>. QED
        BY <4>1, <1>0
    <3>3. h[s \ {Pick(s)}] = g[s \ {Pick(s)}]
      BY <2>1, <3>2
    <3>. QED
      BY <2>2, <3>3 DEF OneCredit
  <2>3. \A s \in Upto(n + 1) : h[s] = OneCredit(l, h, s)
    BY <2>2 DEF OneCredit
  <2>4. h = [s \in SUBSET T |-> h[s]]
    OBVIOUS
  <2>5. \E k : /\ k = [s \in SUBSET T |-> k[s]]
               /\ \A s \in Upto(n + 1) : k[s] = OneCredit(l, k, s)
    <3>. HIDE DEF h, Upto
    <3>. QED
      BY <2>3, <2>4
  <2>6. n + 1 \in Nat
    OBVIOUS
  <2>. HIDE DEF Upto
  <2>. QED
    BY <2>5, <2>6, Zenon
<1>3. Cardinality(T) \in Fine
  <2>1. Nat \subseteq Fine
    <3>1. \A n \in Nat : n \in Fine => n + 1 \in Fine
      BY <1>2
    <3>. HIDE DEF Fine
    <3>. QED
      BY <1>1, <3>1, NatSetInduction
  <2>. QED
    BY <2>1, <1>0
<1>4. PICK g : /\ g = [s \in SUBSET T |-> g[s]]
               /\ \A s \in Upto(Cardinality(T)) : g[s] = OneCredit(l, g, s)
  BY <1>3
<1>5. \A s \in SUBSET T : s \in Upto(Cardinality(T))
  BY FS_Subset
<1>6. g = [s \in SUBSET T |-> OneCredit(l, g, s)]
  BY <1>4, <1>5
<1>. QED
  BY <1>6

\* The ledger after a scan has taken in the outputs of a set.
Credits(l, T) == FoldSet(LAMBDA o, m : CreditOnce(m, o), l, T)

LEMMA CreditsUnfold ==
  ASSUME NEW T, IsFiniteSet(T), NEW l
  PROVE  \E g : Credits(l, T) = g[T] /\ \A s \in SUBSET T : g[s] = OneCredit(l, g, s)
<1>. DEFINE iter == CHOOSE g : g = [s \in SUBSET T |-> OneCredit(l, g, s)]
<1>1. iter = [s \in SUBSET T |-> OneCredit(l, iter, s)]
  BY CreditsExist
<1>2. Credits(l, T) = iter[T]
  BY DEF Credits, FoldSet, MapThenFoldSet, OneCredit, Pick
<1>. QED
  BY <1>1, <1>2

LEMMA CreditsGood ==
  ASSUME NEW l, GoodLedger(l), NEW T \in SUBSET Theirs
  PROVE  /\ GoodLedger(Credits(l, T)) /\ Credits(l, T).counted = l.counted
         /\ Credits(l, T).credited = l.credited \cup {o.id : o \in T}
<1>1. IsFiniteSet(T)
  BY DepositsAssumption, FS_Subset DEF Theirs
<1>2. PICK g : Credits(l, T) = g[T] /\ \A s \in SUBSET T : g[s] = OneCredit(l, g, s)
  BY <1>1, CreditsUnfold
<1>. DEFINE As(s) == /\ GoodLedger(g[s]) /\ g[s].counted = l.counted
                     /\ g[s].credited = l.credited \cup {o.id : o \in s}
            F == {s \in SUBSET T : ~ As(s)}
<1>3. SUFFICES ASSUME F # {} PROVE FALSE
  BY <1>2
<1>4. \A s \in F : IsFiniteSet(s)
  BY <1>1, FS_Subset
<1>5. PICK s \in F : \A t \in F : t \subseteq s => t = s
  <2>. HIDE DEF F
  <2>. QED
    BY <1>3, <1>4, SmallestSet
<1>6. s # {}
  <2>1. g[{}] = l
    BY <1>2 DEF OneCredit
  <2>. QED
    BY <2>1
<1>7. Pick(s) \in s /\ g[s] = CreditOnce(g[s \ {Pick(s)}], Pick(s))
  BY <1>2, <1>6 DEF Pick, OneCredit
<1>8. As(s \ {Pick(s)})
  <2>1. s \ {Pick(s)} \in SUBSET T /\ s \ {Pick(s)} # s /\ s \ {Pick(s)} \subseteq s
    BY <1>7
  <2>. QED
    BY <1>5, <2>1
<1>9. /\ GoodLedger(g[s]) /\ g[s].counted = l.counted
      /\ g[s].credited = g[s \ {Pick(s)}].credited \cup {Pick(s).id}
  <2>1. Pick(s) \in Theirs
    <3>1. s \in SUBSET T
      OBVIOUS
    <3>. HIDE DEF F, As
    <3>. QED
      BY <1>7, <3>1
  <2>2. PICK k : k = g[s \ {Pick(s)}]
    OBVIOUS
  <2>3. GoodLedger(k) /\ k.counted = l.counted /\ g[s] = CreditOnce(k, Pick(s))
    BY <1>7, <1>8, <2>2
  <2>. HIDE DEF F, As
  <2>4. PICK o \in Theirs : o = Pick(s)
    BY <2>1
  <2>5. /\ GoodLedger(CreditOnce(k, o)) /\ CreditOnce(k, o).credited = k.credited \cup {o.id}
        /\ CreditOnce(k, o).counted = k.counted
    BY <2>3, CreditOnceGood
  <2>. QED
    BY <2>2, <2>3, <2>4, <2>5
<1>10. g[s].credited = l.credited \cup {o.id : o \in s}
  BY <1>7, <1>8, <1>9
<1>. QED
  BY <1>5, <1>9, <1>10
-----------------------------------------------------------------------------
(* The pool. *)

\* A share of what is there is no more than it, and less if it is not the whole.
LEMMA PartOf ==
  ASSUME NEW a \in Nat, NEW k \in Nat, NEW n \in Nat, n > 0, k <= n
  PROVE  /\ (a * k) \div n \in Nat /\ (a * k) \div n <= a
         /\ a > 0 /\ k < n => (a * k) \div n < a
<1>. DEFINE q == (a * k) \div n
<1>1. a * k \in Nat
  OBVIOUS
<1>2. q \in Nat /\ q * n <= a * k
  BY <1>1
<1>3. a * k <= a * n
  OBVIOUS
<1>4. k < n /\ a > 0 => a * k < a * n
  OBVIOUS
<1>. HIDE DEF q
<1>5. q <= a
  <2>. SUFFICES ASSUME q >= a + 1 PROVE FALSE
    BY <1>2
  <2>1. q * n >= (a + 1) * n /\ (a + 1) * n = a * n + n
    BY <1>2
  <2>. QED
    BY <2>1, <1>2, <1>3
<1>6. ASSUME a > 0, k < n PROVE q < a
  <2>. SUFFICES ASSUME q >= a PROVE FALSE
    BY <1>2
  <2>1. q * n >= a * n
    BY <1>2
  <2>. QED
    BY <2>1, <1>2, <1>4, <1>6
<1>. QED
  BY <1>2, <1>5, <1>6 DEF q

LEMMA RootNat == ASSUME NEW n \in Nat PROVE Root(n) \in Nat
<1>. DEFINE Fits(m, s) == s * s <= m /\ m < (s + 1) * (s + 1)
            T == {m \in Nat : \E s \in 0 .. m : Fits(m, s)}
<1>1. 0 \in T
  OBVIOUS
<1>2. ASSUME NEW m \in Nat, m \in T PROVE m + 1 \in T
  <2>1. PICK s \in 0 .. m : Fits(m, s)
    BY <1>2
  <2>2. CASE m + 1 < (s + 1) * (s + 1)
    BY <2>1, <2>2
  <2>3. CASE ~ (m + 1 < (s + 1) * (s + 1))
    <3>. DEFINE z == s + 1
    <3>1. m + 1 = z * z /\ z \in Nat
      BY <2>1, <2>3
    <3>2. z * z < (z + 1) * (z + 1) /\ z \in 0 .. m + 1
      BY <2>1
    <3>3. Fits(m + 1, z)
      BY <3>1, <3>2
    <3>. HIDE DEF z, Fits
    <3>. QED
      BY <3>2, <3>3
  <2>. QED
    BY <2>2, <2>3
<1>3. n \in T
  <2>. HIDE DEF T
  <2>1. \A m \in Nat : m \in T => m + 1 \in T
    BY <1>2
  <2>. QED
    BY <1>1, <2>1, NatSetInduction
<1>4. \E s \in 0 .. n : Fits(n, s)
  BY <1>3
<1>5. Root(n) = CHOOSE s \in 0 .. n : Fits(n, s)
  BY Zenon DEF Root
<1>. HIDE DEF Fits
<1>6. Root(n) \in 0 .. n
  BY <1>4, <1>5, Zenon
<1>. QED
  BY <1>6

LEMMA NewSharesNat ==
  ASSUME NEW p, GoodPool(p), NEW n \in Nat, NEW m \in Nat, NEW c \in Chains
  PROVE  NewShares(p, n, m, c) \in Nat
<1>1. p.shares \in Nat /\ p.reserves \in [Chains -> Nat] /\ OtherChain(c) \in Chains
  BY Coins DEF GoodPool, Pools
<1>2. CASE p.shares = 0
  <2>1. n * m \in Nat
    OBVIOUS
  <2>. QED
    BY <1>2, <2>1, RootNat DEF NewShares
<1>3. CASE p.shares # 0
  <2>. DEFINE x == (n * p.shares) \div p.reserves[c]
              y == (m * p.shares) \div p.reserves[OtherChain(c)]
  <2>1. p.reserves[c] > 0 /\ p.reserves[OtherChain(c)] > 0
    BY <1>1, <1>3 DEF GoodPool, Sound
  <2>2. x \in Nat /\ y \in Nat
    <3>1. \A a, k \in Nat : \A d \in Nat : d > 0 => (a * k) \div d \in Nat
      OBVIOUS
    <3>2. p.reserves[c] \in Nat /\ p.reserves[OtherChain(c)] \in Nat
      BY <1>1
    <3>. QED
      BY <1>1, <2>1, <3>1, <3>2
  <2>3. NewShares(p, n, m, c) = Min({x, y})
    BY <1>3 DEF NewShares
  <2>. HIDE DEF x, y
  <2>4. Min({x, y}) \in {x, y}
    BY <2>2 DEF Min
  <2>. QED
    BY <2>2, <2>3, <2>4
<1>. QED
  BY <1>2, <1>3

\* What somebody has of the pool is a part of it.
LEMMA SharesOfOne ==
  ASSUME NEW p, GoodPool(p), NEW u \in Users
  PROVE  /\ p.of[u] \in Nat /\ p.of[u] <= p.shares
         /\ \A n \in Int : \A f : f = [p.of EXCEPT ![u] = n] => SumFunction(f) = p.shares - p.of[u] + n
<1>1. p.of \in [Users -> Nat] /\ SumFunction(p.of) = p.shares /\ IsFiniteSet(Users) /\ DOMAIN p.of = Users
  BY PaymentsAssumption DEF GoodPool, Pools, Sound
<1>2. SumFunctionOnSet(p.of, Users) = p.shares
  BY <1>1 DEF SumFunction
<1>3. p.of[u] <= p.shares
  BY <1>1, <1>2, SumNat
<1>4. ASSUME NEW n \in Int, NEW f, f = [p.of EXCEPT ![u] = n]
      PROVE  SumFunction(f) = p.shares - p.of[u] + n
  <2>1. /\ DOMAIN f = Users /\ f[u] = n /\ \A v \in Users \ {u} : f[v] = p.of[v]
        /\ \A v \in Users : f[v] \in Int /\ p.of[v] \in Int
    BY <1>1, <1>4
  <2>2. SumFunctionOnSet(f, Users) = SumFunctionOnSet(p.of, Users) - p.of[u] + f[u]
    BY <1>1, <2>1, SumChange
  <2>. QED
    BY <1>2, <2>1, <2>2 DEF SumFunction
<1>. QED
  BY <1>1, <1>3, <1>4
-----------------------------------------------------------------------------
(* What a request makes of a file. *)

\* A file of a request by its name.
LEMMA Copies ==
  ASSUME NEW r
  PROVE  /\ r.copy.ledger = r.copy["ledger"] /\ r.copy.utxos = r.copy["utxos"]
         /\ r.copy.offers = r.copy["offers"] /\ r.copy.pool = r.copy["pool"]
         /\ r.copy.trail = r.copy["trail"] /\ r.copy.replay = r.copy["replay"]
OBVIOUS

LEMMA WorthNat ==
  ASSUME NEW p, GoodPool(p), NEW k \in Nat, k <= p.shares, p.shares > 0, NEW c \in Chains
  PROVE  /\ Worth(p, k, c) \in Nat /\ Worth(p, k, c) <= p.reserves[c]
         /\ k < p.shares => Worth(p, k, c) < p.reserves[c]
<1>1. p.shares \in Nat /\ p.reserves[c] \in Nat /\ p.reserves[c] > 0
  BY DEF GoodPool, Pools, Sound
<1>2. \A a, n \in Nat : n > 0 /\ k <= n =>
        /\ (a * k) \div n \in Nat /\ (a * k) \div n <= a
        /\ a > 0 /\ k < n => (a * k) \div n < a
  BY PartOf
<1>. QED
  BY <1>1, <1>2 DEF Worth

LEMMA AmountOutNat ==
  ASSUME NEW p, GoodPool(p), NEW n \in Nat, p.shares > 0, NEW c \in Chains
  PROVE  AmountOut(p, n, c) \in Nat /\ AmountOut(p, n, c) < p.reserves[OtherChain(c)]
<1>. DEFINE d == OtherChain(c)
<1>1. p.shares \in Nat /\ p.reserves \in [Chains -> Nat] /\ d \in Chains
      /\ p.reserves[c] \in Nat /\ p.reserves[c] > 0 /\ p.reserves[d] \in Nat /\ p.reserves[d] > 0
  BY Coins DEF GoodPool, Pools, Sound
<1>. DEFINE a == p.reserves[d]
            k == n * 997
            w == p.reserves[c] * 1000 + n * 997
<1>2. k \in Nat /\ w \in Nat /\ w > 0 /\ k < w /\ a * n * 997 = a * k
  BY <1>1
<1>3. AmountOut(p, n, c) = (a * k) \div w
  BY <1>2 DEF AmountOut
<1>4. a \in Nat /\ a > 0
  BY <1>1
<1>. HIDE DEF a, k, w
<1>5. (a * k) \div w \in Nat /\ (a * k) \div w < a
  BY <1>2, <1>4, PartOf
<1>. QED
  BY <1>3, <1>5 DEF a

\* A purchase costs a number of coins.
LEMMA CostNat ==
  ASSUME NEW r, Asked(r), GoodLedger(r.copy["ledger"])
  PROVE  /\ Balance(r) \in Nat /\ Cost(r) \in Nat /\ Tokens(r) \in Nat
<1>1. Balance(r) \in Nat
  BY DEF Balance, GoodLedger, Ledgers, Asked
<1>2. PayRate \in Nat /\ PayRate > 0
  BY PaymentsAssumption
<1>3. r.amount \in Nat
  BY DEF Asked
<1>4. r.amount * PayRate \in Nat
  BY <1>2, <1>3
<1>5. Cost(r) \in Nat
  BY <1>1, <1>3, <1>4 DEF Cost
<1>6. \A x \in Nat : x \div PayRate \in Nat
  BY <1>2
<1>. QED
  BY <1>1, <1>3, <1>5, <1>6 DEF Tokens

\* What is known when a file is about to be saved.
LEMMA AtSave ==
  ASSUME NEW r, Task(r), NEW f, Head(r.todo) = S(f)
  PROVE  /\ BeforeSave(r, f) /\ f \in FileNames /\ Good(f, r.copy[f])
         /\ ~ Did(r, S(f)) /\ Asked(r) /\ Checked(r)
<1>1. Before(r)
  BY Order DEF Task
<1>2. BeforeSave(r, f)
  BY <1>1, StepsDiffer DEF Before
<1>3. f \in FileNames /\ Did(r, L(f))
  BY <1>2 DEF BeforeSave
<1>. QED
  BY <1>1, <1>2, <1>3 DEF Task, Before

Count(l, i) == [l EXCEPT !.counted[i] = @ + 1]
CountedOnce(l, m, i) == m.counted = [l.counted EXCEPT ![i] = @ + 1]

\* A deposit that is claimed or presented is added to the balance and counted.
LEMMA Counts ==
  ASSUME NEW l, GoodLedger(l), NEW u \in Users, NEW n \in Nat, NEW c \in Currencies,
         NEW i \in OutputIds \cup Proved,
         NEW m, m = Count(Credit(l, u, n, c), i)
  PROVE  /\ GoodLedger(m) /\ m.credited = l.credited /\ m.scanned = l.scanned
         /\ CountedOnce(l, m, i)
<1>1. PICK k : k = Credit(l, u, n, c)
  OBVIOUS
<1>2. GoodLedger(k) /\ Same(l, k)
  BY <1>1, CreditGood
<1>3. PICK x : x = [k.counted EXCEPT ![i] = @ + 1]
  OBVIOUS
<1>4. m = [k EXCEPT !.counted = x]
  BY <1>1, <1>3, Zenon DEF Count
<1>5. k \in Ledgers /\ x \in [OutputIds \cup Proved -> Nat]
  BY <1>2, <1>3 DEF GoodLedger, Ledgers
<1>6. m \in Ledgers /\ m.counted = x /\ m.credited = k.credited /\ m.scanned = k.scanned
  BY <1>4, <1>5 DEF Ledgers
<1>. QED
  BY <1>2, <1>3, <1>6 DEF GoodLedger, Same, CountedOnce

LEMMA LedgerSaved ==
  ASSUME NEW r, Task(r), Head(r.todo) = S("ledger"), NEW l, l = r.copy["ledger"],
         NEW m, m = NewLedger(r)
  PROVE  /\ GoodLedger(m)
         /\ r.op = "scan" => m.credited = l.credited \cup {o.id : o \in r.inputs} /\ m.counted = l.counted
         /\ r.op \in {"claim", "mrc20"} => /\ m.credited = l.credited /\ m.scanned = l.scanned
                                           /\ CountedOnce(l, m, r.item.id)
         /\ r.op \notin {"scan", "claim", "mrc20"} => Same(l, m)
<1>1. /\ BeforeSave(r, "ledger") /\ GoodLedger(l) /\ Asked(r) /\ Checked(r)
  BY AtSave DEF Good
<1>2. r.copy.ledger = l /\ r.copy.pool = r.copy["pool"]
  BY Copies
<1>3. r.user \in Users /\ r.cur \in Currencies /\ r.amount \in Nat
  BY <1>1 DEF Asked
<1>4. CASE r.op = "scan"
  <2>1. m = Credits(l, r.inputs)
    BY <1>2, <1>4 DEF NewLedger, Credits
  <2>2. r.inputs \in SUBSET Theirs
    BY <1>1, <1>4 DEF Checked
  <2>. QED
    BY <1>1, <1>4, <2>1, <2>2, CreditsGood
<1>5. CASE r.op \in {"claim", "mrc20"}
  <2>1. r.item.id \in OutputIds \cup Proved
    BY <1>1, <1>5 DEF Asked, OutputIds, Proved
  <2>2. m = Count(Credit(l, r.user, r.amount, r.cur), r.item.id)
    BY <1>2, <1>5 DEF NewLedger, Count
  <2>3. PICK i \in OutputIds \cup Proved : i = r.item.id
    BY <2>1
  <2>4. m = Count(Credit(l, r.user, r.amount, r.cur), i)
    BY <2>2, <2>3
  <2>5. /\ GoodLedger(m) /\ m.credited = l.credited /\ m.scanned = l.scanned
        /\ CountedOnce(l, m, i)
    BY <1>1, <1>3, <2>4, Counts
  <2>. QED
    BY <1>5, <2>3, <2>5
<1>6. CASE r.op \in {"txo", "access", "condition", "withdrawSats"}
  <2>1. m = Credit(l, r.user, r.amount, r.cur) \/ m = Debit(l, r.user, r.amount, r.cur)
    BY <1>2, <1>6 DEF NewLedger
  <2>. QED
    BY <1>1, <1>3, <1>6, <2>1, CreditGood, DebitGood
<1>7. CASE r.op = "buy"
  <2>1. Cost(r) \in Nat
    BY <1>1, CostNat
  <2>2. m = Debit(l, r.user, Cost(r), r.cur)
    BY <1>2, <1>7 DEF NewLedger
  <2>. QED
    BY <1>1, <1>3, <1>7, <2>1, <2>2, DebitGood
<1>8. CASE r.op = "swap"
  <2>1. r.item.seller \in Users /\ r.item.price \in Nat /\ "sat" \in Currencies
    BY <1>1, <1>8, Coins DEF Asked
  <2>2. PICK k : k = Debit(l, r.user, r.item.price, "sat")
    OBVIOUS
  <2>3. GoodLedger(k) /\ Same(l, k)
    BY <1>1, <1>3, <2>1, <2>2, DebitGood
  <2>4. m = Credit(k, r.item.seller, r.item.price, "sat")
    BY <1>2, <1>8, <2>2 DEF NewLedger
  <2>5. GoodLedger(m) /\ Same(k, m)
    BY <2>1, <2>3, <2>4, CreditGood
  <2>. QED
    BY <1>8, <2>3, <2>5 DEF Same
<1>9. CASE r.op \in PoolOps
  <2>. DEFINE p == r.copy["pool"]
              d == OtherChain(r.cur)
  <2>1. r.cur \in Chains /\ d \in Chains /\ d \in Currencies
    BY <1>1, <1>9, Coins DEF Asked
  <2>2. GoodPool(p) /\ Did(r, L("pool"))
    <3>1. Did(r, L("pool"))
      BY <1>1, <1>9 DEF BeforeSave
    <3>. QED
      BY <3>1 DEF Task, Good, FileNames
  <2>3. CASE r.op = "add"
    <3>1. r.item \in Nat
      BY <1>1, <2>3 DEF Asked
    <3>2. PICK k : k = Debit(l, r.user, r.amount, r.cur)
      OBVIOUS
    <3>3. GoodLedger(k) /\ Same(l, k)
      BY <1>1, <1>3, <3>2, DebitGood
    <3>4. m = Debit(k, r.user, r.item, d)
      BY <1>2, <2>3, <3>2 DEF NewLedger
    <3>5. GoodLedger(m) /\ Same(k, m)
      BY <1>3, <2>1, <3>1, <3>3, <3>4, DebitGood
    <3>. QED
      BY <2>3, <3>3, <3>5 DEF Same
  <2>4. CASE r.op = "remove"
    <3>1. r.amount > 0 /\ r.amount <= p.of[r.user] /\ r.amount <= p.shares /\ p.shares > 0
      <4>1. r.amount > 0 /\ r.amount <= p.of[r.user]
        BY <1>1, <2>2, <2>4 DEF Asked, Checked, PoolOps
      <4>2. p.of[r.user] \in Nat /\ p.of[r.user] <= p.shares /\ p.shares \in Nat
        BY <1>3, <2>2, SharesOfOne DEF GoodPool, Pools
      <4>. QED
        BY <1>3, <4>1, <4>2
    <3>2. Worth(p, r.amount, r.cur) \in Nat /\ Worth(p, r.amount, d) \in Nat
      BY <1>3, <2>1, <2>2, <3>1, WorthNat
    <3>3. PICK k : k = Credit(l, r.user, Worth(p, r.amount, r.cur), r.cur)
      OBVIOUS
    <3>4. GoodLedger(k) /\ Same(l, k)
      BY <1>1, <1>3, <3>2, <3>3, CreditGood
    <3>5. m = Credit(k, r.user, Worth(p, r.amount, d), d)
      BY <1>2, <2>4, <3>3 DEF NewLedger
    <3>6. GoodLedger(m) /\ Same(k, m)
      BY <1>3, <2>1, <3>2, <3>4, <3>5, CreditGood
    <3>. QED
      BY <2>4, <3>4, <3>6 DEF Same
  <2>5. CASE r.op = "poolSwap"
    <3>1. p.shares > 0
      BY <1>1, <2>2, <2>5 DEF Checked
    <3>2. AmountOut(p, r.amount, r.cur) \in Nat
      BY <1>3, <2>1, <2>2, <3>1, AmountOutNat
    <3>3. PICK k : k = Debit(l, r.user, r.amount, r.cur)
      OBVIOUS
    <3>4. GoodLedger(k) /\ Same(l, k)
      BY <1>1, <1>3, <3>3, DebitGood
    <3>5. m = Credit(k, r.user, AmountOut(p, r.amount, r.cur), d)
      BY <1>2, <2>5, <3>3 DEF NewLedger
    <3>6. GoodLedger(m) /\ Same(k, m)
      BY <1>3, <2>1, <3>2, <3>4, <3>5, CreditGood
    <3>. QED
      BY <2>5, <3>4, <3>6 DEF Same
  <2>. QED
    BY <1>9, <2>3, <2>4, <2>5 DEF PoolOps
<1>. QED
  <2>1. r.op \in Ops /\ r.op # "sell"
    BY <1>1 DEF BeforeSave, Task, Shaped
  <2>. QED
    BY <2>1, <1>4, <1>5, <1>6, <1>7, <1>8, <1>9 DEF Ops, PoolOps

\* The file that a request is about to save was loaded, as were those that it is made from.
LEMMA PoolSaved ==
  ASSUME NEW r, Task(r), Head(r.todo) = S("pool")
  PROVE  GoodPool(NewPool(r))
<1>. DEFINE p == r.copy["pool"]
            d == OtherChain(r.cur)
            u == r.user
<1>0. NewPool(r) = NewPool(r) /\ r.copy.pool = p
  BY Copies
<1>1. /\ BeforeSave(r, "pool") /\ GoodPool(p) /\ Asked(r) /\ Checked(r) /\ Did(r, L("pool"))
      /\ r.op \in PoolOps
  BY AtSave DEF Good, BeforeSave
<1>2. /\ u \in Users /\ r.amount \in Nat /\ r.amount > 0 /\ r.cur \in Chains
      /\ d \in Chains /\ d # r.cur /\ Chains = {r.cur, d}
  BY <1>1, Coins DEF Asked
<1>3. /\ p.shares \in Nat /\ p.reserves \in [Chains -> Nat] /\ p.of \in [Users -> Nat]
      /\ p = [reserves |-> p.reserves, shares |-> p.shares, of |-> p.of]
      /\ SumFunction(p.of) = p.shares
      /\ p.shares > 0 => \A c \in Chains : p.reserves[c] > 0
  BY <1>1 DEF GoodPool, Pools, Sound
<1>4. p.of[u] \in Nat /\ p.of[u] <= p.shares
  BY <1>1, <1>2, SharesOfOne
<1>5. CASE r.op = "add"
  <2>. DEFINE n == NewShares(p, r.amount, r.item, r.cur)
              f == [p.of EXCEPT ![u] = @ + n]
              z == [c \in Chains |-> p.reserves[c] + IF c = r.cur THEN r.amount ELSE r.item]
  <2>1. r.item \in Nat /\ r.item > 0
    BY <1>1, <1>5 DEF Asked
  <2>2. n \in Nat
    BY <1>1, <1>2, <2>1, NewSharesNat
  <2>3. NewPool(r) = [reserves |-> z, shares |-> p.shares + n, of |-> f]
    BY <1>0, <1>5, Zenon DEF NewPool
  <2>. HIDE DEF n
  <2>4. z \in [Chains -> Nat] /\ \A c \in Chains : z[c] > 0
    BY <1>2, <1>3, <2>1
  <2>5. f \in [Users -> Nat]
    BY <1>2, <1>3, <2>2
  <2>6. SumFunction(f) = p.shares + n
    <3>. DEFINE k == p.of[u] + n
    <3>1. k \in Int /\ f = [p.of EXCEPT ![u] = k]
      BY <1>3, <1>4, <2>2
    <3>2. SumFunction(f) = p.shares - p.of[u] + k
      <4>. HIDE DEF f, k
      <4>. QED
        BY <1>1, <1>2, <3>1, SharesOfOne
    <3>. QED
      BY <1>3, <1>4, <2>2, <3>2
  <2>7. PICK q : q = NewPool(r)
    OBVIOUS
  <2>. HIDE DEF f, z
  <2>8. q \in Pools /\ Sound(q)
    BY <1>3, <2>2, <2>3, <2>4, <2>5, <2>6, <2>7 DEF Pools, Sound
  <2>. QED
    BY <2>7, <2>8 DEF GoodPool
<1>6. CASE r.op = "remove"
  <2>. DEFINE n == r.amount
              f == [p.of EXCEPT ![u] = @ - n]
              z == [c \in Chains |-> p.reserves[c] - Worth(p, n, c)]
  <2>1. n <= p.of[u] /\ n <= p.shares /\ p.shares > 0
    <3>1. n <= p.of[u]
      BY <1>1, <1>6 DEF Checked
    <3>. QED
      BY <1>2, <1>3, <1>4, <3>1
  <2>2. NewPool(r) = [reserves |-> z, shares |-> p.shares - n, of |-> f]
    <3>1. /\ r.op # "add"
          /\ z = [c \in Chains |-> p.reserves[c] - [b \in Chains |-> Worth(p, n, b)][c]]
      BY <1>6
    <3>. QED
      BY <1>0, <1>6, <3>1, Zenon DEF NewPool
  <2>3. /\ z \in [Chains -> Nat]
        /\ n < p.shares => \A c \in Chains : z[c] > 0
    <3>1. \A c \in Chains : /\ Worth(p, n, c) \in Nat /\ Worth(p, n, c) <= p.reserves[c]
                            /\ n < p.shares => Worth(p, n, c) < p.reserves[c]
      BY <1>1, <1>2, <2>1, WorthNat
    <3>. QED
      BY <1>3, <3>1
  <2>4. f \in [Users -> Nat]
    BY <1>2, <1>3, <2>1
  <2>5. SumFunction(f) = p.shares - n
    <3>. DEFINE k == p.of[u] - n
    <3>1. k \in Int /\ f = [p.of EXCEPT ![u] = k]
      BY <1>2, <1>3, <1>4
    <3>2. SumFunction(f) = p.shares - p.of[u] + k
      <4>. HIDE DEF f, k
      <4>. QED
        BY <1>1, <1>2, <3>1, SharesOfOne
    <3>. QED
      BY <1>2, <1>3, <1>4, <3>2
  <2>6. PICK q : q = NewPool(r)
    OBVIOUS
  <2>7. p.shares - n \in Nat /\ (p.shares - n > 0 => n < p.shares)
    BY <1>2, <1>3, <2>1
  <2>. HIDE DEF f, z
  <2>8. q \in Pools /\ Sound(q)
    BY <2>2, <2>3, <2>4, <2>5, <2>6, <2>7 DEF Pools, Sound
  <2>. QED
    BY <2>6, <2>8 DEF GoodPool
<1>7. CASE r.op = "poolSwap"
  <2>. DEFINE n == r.amount
              z == [c \in Chains |-> IF c = r.cur THEN p.reserves[c] + n
                                     ELSE p.reserves[c] - AmountOut(p, n, r.cur)]
  <2>1. p.shares > 0
    BY <1>1, <1>7 DEF Checked
  <2>2. AmountOut(p, n, r.cur) \in Nat /\ AmountOut(p, n, r.cur) < p.reserves[d]
    BY <1>1, <1>2, <2>1, AmountOutNat
  <2>3. NewPool(r) = [p EXCEPT !.reserves = z]
    <3>1. r.op # "add" /\ r.op # "remove"
      BY <1>7
    <3>. QED
      BY <1>0, <3>1, Zenon DEF NewPool
  <2>4. z \in [Chains -> Nat] /\ \A c \in Chains : z[c] > 0
    BY <1>2, <1>3, <2>1, <2>2
  <2>5. PICK q : q = NewPool(r)
    OBVIOUS
  <2>. HIDE DEF z
  <2>6. q = [reserves |-> z, shares |-> p.shares, of |-> p.of]
    BY <1>3, <2>3, <2>5
  <2>7. q \in Pools /\ Sound(q)
    BY <1>3, <2>4, <2>6 DEF Pools, Sound
  <2>. QED
    BY <2>5, <2>7 DEF GoodPool
<1>. QED
  BY <1>1, <1>5, <1>6, <1>7 DEF PoolOps

\* Who the tokens of a transfer come from, and how many they are.
From(r) == IF r.op = "swap" THEN r.item.seller ELSE Issuer
Moved(r) == IF r.op = "swap" THEN r.item.tokens ELSE Tokens(r)

LEMMA TrailSaved ==
  ASSUME NEW r, Task(r), Head(r.todo) = S("trail")
  PROVE  GoodTrail(NewTrail(r)) /\ NewTrail(r).at = r.copy["trail"].at + 1
<1>. DEFINE p == r.copy["trail"]
            n == Moved(r)
            from == From(r)
<1>1. /\ BeforeSave(r, "trail") /\ GoodTrail(p) /\ Asked(r) /\ Checked(r)
      /\ r.op \in TrailOps /\ Did(r, L("trail")) /\ Did(r, L("ledger"))
  BY AtSave DEF Good, BeforeSave
<1>2. GoodLedger(r.copy["ledger"])
  BY <1>1 DEF Task, Good, FileNames
<1>3. /\ n \in Nat /\ from \in Holders /\ from # r.user /\ r.user \in Holders
      /\ p.balances[from] >= n
  <2>0. r.user \in Users /\ r.user \in Holders /\ Issuer \in Holders /\ Issuer # r.user
    BY <1>1, PaymentsAssumption DEF Asked, Holders
  <2>1. CASE r.op = "swap"
    <3>1. r.item.seller \in Users /\ r.item.tokens \in Nat
      BY <1>1, <2>1 DEF Asked
    <3>2. r.item.seller # r.user /\ p.balances[r.item.seller] >= r.item.tokens
      <4>1. Did(r, L("offers"))
        BY <1>1, <2>1 DEF BeforeSave
      <4>. QED
        BY <1>1, <2>1, <4>1 DEF Checked
    <3>. QED
      BY <2>0, <2>1, <3>1, <3>2 DEF From, Moved, Holders
  <2>2. CASE r.op = "buy"
    <3>1. Tokens(r) \in Nat
      BY <1>1, <1>2, CostNat
    <3>2. p.balances[Issuer] >= Tokens(r)
      BY <1>1, <2>2 DEF Checked
    <3>. QED
      BY <2>0, <2>2, <3>1, <3>2 DEF From, Moved
  <2>. QED
    BY <1>1, <2>1, <2>2 DEF TrailOps
<1>4. p.balances \in [Holders -> Nat] /\ p.at \in Nat /\ p.value \in Int /\ TxFee \in Nat
  BY <1>1, PaymentsAssumption DEF GoodTrail, Trails
<1>. DEFINE b == [h \in Holders |-> p.balances[h] - (IF h = from THEN n ELSE 0)
                                       + (IF h = r.user THEN n ELSE 0)]
<1>5. NewTrail(r) = [balances |-> b, at |-> p.at + 1, value |-> p.value - TxFee]
  <2>1. r.copy.trail = p
    BY Copies
  <2>. QED
    BY <2>1, Zenon DEF NewTrail, From, Moved
<1>. HIDE DEF n, from
<1>6. b \in [Holders -> Nat]
  BY <1>3, <1>4
<1>7. p.at + 1 \in Nat /\ p.value - TxFee \in Int
  BY <1>4
<1>. HIDE DEF b
<1>8. PICK q : q = NewTrail(r)
  OBVIOUS
<1>9. q \in Trails /\ q.at = p.at + 1
  BY <1>5, <1>6, <1>7, <1>8 DEF Trails
<1>. QED
  BY <1>8, <1>9 DEF GoodTrail

\* What outputs are worth.
LEMMA ValueInt ==
  ASSUME NEW us, GoodUtxos(us)
  PROVE  Value(us) \in Nat
<1>. DEFINE f == [u \in us |-> u.value]
<1>1. \A u \in us : f[u] \in Nat
  BY DEF GoodUtxos, UtxosOf
<1>2. IsFiniteSet(us) /\ DOMAIN f = us
  BY DEF GoodUtxos
<1>3. Value(us) = SumFunctionOnSet(f, us)
  BY <1>2, Zenon DEF Value, SumFunction
<1>. HIDE DEF f
<1>. QED
  BY <1>1, <1>2, <1>3, SumNat

LEMMA PartOfUtxos ==
  ASSUME NEW us, GoodUtxos(us), NEW vs \in SUBSET us
  PROVE  GoodUtxos(vs)
<1>1. IsFiniteSet(vs)
  BY FS_Subset DEF GoodUtxos
<1>. QED
  BY <1>1 DEF GoodUtxos, UtxosOf

LEMMA MoreUtxos ==
  ASSUME NEW us, GoodUtxos(us), NEW vs, GoodUtxos(vs)
  PROVE  GoodUtxos(us \cup vs)
<1>1. IsFiniteSet(us \cup vs)
  BY FS_Union DEF GoodUtxos
<1>. QED
  BY <1>1 DEF GoodUtxos, UtxosOf

\* A record of an output.
Record(i, c, n, w, s, d) ==
  [id |-> i, chain |-> c, value |-> n, tweak |-> w, spent |-> s, deposit |-> d]

LEMMA RecordGood ==
  ASSUME NEW i, NEW c \in Chains, NEW n \in Nat, NEW w \in Users \cup {NoUser},
         NEW s \in BOOLEAN, NEW d \in BOOLEAN
  PROVE  /\ Record(i, c, n, w, s, d) \in UtxosOf({i}) /\ Record(i, c, n, w, s, d).id = i
         /\ (Record(i, c, n, w, s, d).spent <=> s) /\ (Record(i, c, n, w, s, d).deposit <=> d)
BY DEF Record, UtxosOf

LEMMA UtxosMade ==
  ASSUME NEW us, IsFiniteSet(us), \A u \in us : u \in UtxosOf({u.id})
  PROVE  GoodUtxos(us)
BY DEF GoodUtxos, UtxosOf

\* The record of an output that is claimed.
Claimed(o, u) == [Utxo(o) EXCEPT !.tweak = IF @ = u THEN @ ELSE NoUser]

LEMMA Records ==
  ASSUME NEW o \in Outputs, NEW u \in Users
  PROVE  /\ Utxo(o) \in UtxosOf({o.id}) /\ Utxo(o).id = o.id /\ ~ Utxo(o).spent /\ Utxo(o).deposit
         /\ /\ Claimed(o, u) \in UtxosOf({o.id}) /\ Claimed(o, u).id = o.id /\ ~ Claimed(o, u).spent
            /\ Claimed(o, u).deposit
<1>1. o.chain \in Chains /\ o.value \in Nat /\ o.tweak \in Users \cup {NoUser}
  BY DepositsAssumption
<1>2. PICK no \in BOOLEAN : no = FALSE
  OBVIOUS
<1>3. PICK yes \in BOOLEAN : yes = TRUE
  OBVIOUS
<1>4. Utxo(o) = Record(o.id, o.chain, o.value, o.tweak, no, yes)
  BY <1>2, <1>3, Zenon DEF Utxo, Record
<1>. DEFINE w == IF o.tweak = u THEN o.tweak ELSE NoUser
<1>5. w \in Users \cup {NoUser}
  BY <1>1
<1>6. Claimed(o, u) = Record(o.id, o.chain, o.value, w, no, yes)
  <2>1. PICK v : v = Utxo(o)
    OBVIOUS
  <2>2. v = Record(o.id, o.chain, o.value, o.tweak, no, yes)
    BY <1>4, <2>1
  <2>3. Claimed(o, u) = [v EXCEPT !.tweak = IF v.tweak = u THEN v.tweak ELSE NoUser]
    BY <2>1, Zenon DEF Claimed
  <2>4. v.tweak = o.tweak
    BY <2>2 DEF Record
  <2>5. Claimed(o, u) = [v EXCEPT !.tweak = w]
    BY <2>3, <2>4
  <2>. HIDE DEF w
  <2>. QED
    BY <2>2, <2>5 DEF Record
<1>. HIDE DEF w
<1>7. PICK a : a = Record(o.id, o.chain, o.value, o.tweak, no, yes)
  OBVIOUS
<1>8. PICK b : b = Record(o.id, o.chain, o.value, w, no, yes)
  OBVIOUS
<1>9. a \in UtxosOf({o.id}) /\ a.id = o.id /\ (a.spent <=> no) /\ (a.deposit <=> yes)
  BY <1>1, <1>7, RecordGood
<1>10. b \in UtxosOf({o.id}) /\ b.id = o.id /\ (b.spent <=> no) /\ (b.deposit <=> yes)
  BY <1>5, <1>1, <1>8, RecordGood
<1>11. a = Utxo(o) /\ b = Claimed(o, u)
  BY <1>4, <1>6, <1>7, <1>8
<1>12. ~ no /\ yes
  BY <1>2, <1>3
<1>. QED
  BY <1>9, <1>10, <1>11, <1>12, Zenon

\* The record of an output that is spent.
Spent(u) == [u EXCEPT !.spent = TRUE]

LEMMA SpentGood ==
  ASSUME NEW us, GoodUtxos(us), NEW u \in us
  PROVE  /\ Spent(u) \in UtxosOf({u.id}) /\ Spent(u).id = u.id /\ Spent(u).spent
         /\ Spent(u).deposit = u.deposit
<1>1. u \in UtxosOf({u.id})
  BY DEF GoodUtxos, UtxosOf
<1>2. PICK yes \in BOOLEAN : yes = TRUE
  OBVIOUS
<1>3. Spent(u) = [u EXCEPT !.spent = yes]
  BY <1>2, Zenon DEF Spent
<1>4. PICK v : v = Spent(u)
  OBVIOUS
<1>5. v \in UtxosOf({u.id}) /\ v.id = u.id /\ (v.spent <=> yes) /\ v.deposit = u.deposit
  BY <1>1, <1>3, <1>4 DEF UtxosOf
<1>. QED
  BY <1>2, <1>4, <1>5, Zenon

\* The output that a withdrawal has left over.
Left(r, t) == Record(t, r.cur, Change(r), NoUser, FALSE, FALSE)
LeftOver(r, t) == IF Change(r) > Dust THEN {Left(r, t)} ELSE {}

LEMMA LeftGood ==
  ASSUME NEW r, r.cur \in Chains, Change(r) \in Int, NEW t
  PROVE  /\ IsFiniteSet(LeftOver(r, t))
         /\ \A v \in LeftOver(r, t) : v \in UtxosOf({v.id}) /\ v.id = t /\ ~ v.spent /\ ~ v.deposit
<1>1. PICK no \in BOOLEAN : no = FALSE
  OBVIOUS
<1>2. PICK v : v = Record(t, r.cur, Change(r), NoUser, no, no)
  OBVIOUS
<1>3. v = Left(r, t)
  BY <1>1, <1>2, Zenon DEF Left
<1>4. CASE Change(r) > Dust
  <2>1. Change(r) \in Nat
    BY <1>4, PaymentsAssumption
  <2>2. v \in UtxosOf({t}) /\ v.id = t /\ (v.spent <=> no) /\ (v.deposit <=> no)
    BY <1>2, <2>1, RecordGood
  <2>3. v \in UtxosOf({t}) /\ v.id = t /\ ~ v.spent /\ ~ v.deposit
    BY <1>1, <2>2, Zenon
  <2>4. LeftOver(r, t) = {v}
    BY <1>3, <1>4 DEF LeftOver
  <2>. QED
    BY <2>3, <2>4, FS_Singleton
<1>5. CASE ~ (Change(r) > Dust)
  BY <1>5, FS_EmptySet DEF LeftOver
<1>. QED
  BY <1>4, <1>5

LEMMA FiniteRange ==
  ASSUME NEW D, IsFiniteSet(D), NEW f, f = [x \in D |-> f[x]], NEW T, T = {f[x] : x \in D}
  PROVE  IsFiniteSet(T)
<1>1. f \in Surjection(D, T)
  BY DEF Surjection
<1>. QED
  BY <1>1, FS_Surjection

LEMMA FiniteRecords ==
  ASSUME NEW D, IsFiniteSet(D)
  PROVE  IsFiniteSet({Utxo(o) : o \in D}) /\ IsFiniteSet({Spent(u) : u \in D})
<1>1. IsFiniteSet({Utxo(o) : o \in D})
  <2>. DEFINE f == [o \in D |-> Utxo(o)]
  <2>1. f = [x \in D |-> f[x]] /\ {Utxo(o) : o \in D} = {f[x] : x \in D}
    OBVIOUS
  <2>. HIDE DEF f
  <2>. QED
    BY <2>1, FiniteRange
<1>2. IsFiniteSet({Spent(u) : u \in D})
  <2>. DEFINE f == [u \in D |-> Spent(u)]
  <2>1. f = [x \in D |-> f[x]] /\ {Spent(u) : u \in D} = {f[x] : x \in D}
    OBVIOUS
  <2>. HIDE DEF f
  <2>. QED
    BY <2>1, FiniteRange
<1>. QED
  BY <1>1, <1>2

LEMMA UtxosSaved ==
  ASSUME NEW r, Task(r), Head(r.todo) = S("utxos"), NEW t, NEW us, us = r.copy["utxos"]
  PROVE  /\ GoodUtxos(NewUtxos(r, t)) /\ r.op \in {"scan", "claim", "withdrawSats"}
         /\ r.op = "scan" => NewUtxos(r, t) = us \cup {Utxo(o) : o \in r.inputs}
         /\ r.op = "claim" => NewUtxos(r, t) = us \cup {Claimed(r.item, r.user)}
         /\ r.op = "withdrawSats" =>
              /\ r.inputs \subseteq us
              /\ NewUtxos(r, t) = (us \ r.inputs) \cup {Spent(u) : u \in r.inputs} \cup LeftOver(r, t)
<1>1. /\ BeforeSave(r, "utxos") /\ GoodUtxos(us) /\ Asked(r) /\ Checked(r) /\ Did(r, L("utxos"))
      /\ r.op \in {"scan", "claim", "withdrawSats"} /\ r.user \in Users
  BY AtSave DEF Good, BeforeSave, Asked
<1>2. r.copy.utxos = us
  BY Copies
<1>3. CASE r.op = "scan"
  <2>1. NewUtxos(r, t) = us \cup {Utxo(o) : o \in r.inputs}
    BY <1>2, <1>3 DEF NewUtxos
  <2>2. r.inputs \in SUBSET Outputs /\ IsFiniteSet(r.inputs)
    BY <1>1, <1>3, DepositsAssumption, FS_Subset DEF Checked, Theirs
  <2>3. IsFiniteSet({Utxo(o) : o \in r.inputs})
    BY <2>2, FiniteRecords
  <2>4. GoodUtxos({Utxo(o) : o \in r.inputs})
    <3>1. \A o \in r.inputs : Utxo(o) \in UtxosOf({Utxo(o).id})
      BY <1>1, <2>2, Records
    <3>. QED
      BY <2>3, <3>1, UtxosMade
  <2>. QED
    BY <1>1, <1>3, <2>1, <2>4, MoreUtxos
<1>4. CASE r.op = "claim"
  <2>1. NewUtxos(r, t) = us \cup {Claimed(r.item, r.user)}
    BY <1>2, <1>4, Zenon DEF NewUtxos, Claimed
  <2>2. r.item \in Outputs
    BY <1>1, <1>4 DEF Asked
  <2>3. GoodUtxos({Claimed(r.item, r.user)})
    <3>1. Claimed(r.item, r.user) \in UtxosOf({Claimed(r.item, r.user).id})
      BY <1>1, <2>2, Records
    <3>2. IsFiniteSet({Claimed(r.item, r.user)})
      BY FS_Singleton
    <3>. QED
      BY <3>1, <3>2, UtxosMade
  <2>. QED
    BY <1>1, <1>4, <2>1, <2>3, MoreUtxos
<1>5. CASE r.op = "withdrawSats"
  <2>1. r.inputs \subseteq us /\ r.cur \in Chains /\ r.amount \in Nat
    BY <1>1, <1>5 DEF Checked, Asked
  <2>2. NewUtxos(r, t) = (us \ r.inputs) \cup {Spent(u) : u \in r.inputs} \cup LeftOver(r, t)
    <3>1. r.op # "scan" /\ r.op # "claim"
      BY <1>5
    <3>. QED
      BY <1>2, <3>1, Zenon DEF NewUtxos, Spent, LeftOver, Left, Record
  <2>3. GoodUtxos(us \ r.inputs) /\ GoodUtxos(r.inputs)
    BY <1>1, <2>1, PartOfUtxos
  <2>4. Change(r) \in Int
    <3>1. Value(r.inputs) \in Nat
      BY <2>3, ValueInt
    <3>. QED
      BY <2>1, <3>1, PaymentsAssumption DEF Change
  <2>5. GoodUtxos({Spent(u) : u \in r.inputs})
    <3>1. IsFiniteSet({Spent(u) : u \in r.inputs})
      BY <2>3, FiniteRecords DEF GoodUtxos
    <3>2. \A u \in r.inputs : Spent(u) \in UtxosOf({Spent(u).id})
      BY <2>3, SpentGood
    <3>. QED
      BY <3>1, <3>2, UtxosMade
  <2>6. GoodUtxos(LeftOver(r, t))
    BY <2>1, <2>4, LeftGood, UtxosMade
  <2>7. GoodUtxos((us \ r.inputs) \cup {Spent(u) : u \in r.inputs})
    BY <2>3, <2>5, MoreUtxos
  <2>. QED
    BY <1>5, <2>1, <2>2, <2>6, <2>7, MoreUtxos
<1>. QED
  BY <1>1, <1>3, <1>4, <1>5

LEMMA Saved ==
  ASSUME NEW r, Task(r), NEW f, Head(r.todo) = S(f), NEW t
  PROVE  f \in FileNames /\ Good(f, Amended(r, f, t))
<1>1. BeforeSave(r, f) /\ f \in FileNames /\ Good(f, r.copy[f]) /\ Asked(r)
  BY AtSave
<1>2. CASE f = "ledger"
  BY <1>1, <1>2, LedgerSaved DEF Amended, Good
<1>3. CASE f = "utxos"
  BY <1>1, <1>3, UtxosSaved DEF Amended, Good
<1>4. CASE f = "trail"
  BY <1>1, <1>4, TrailSaved DEF Amended, Good
<1>5. CASE f = "pool"
  BY <1>1, <1>5, PoolSaved DEF Amended, Good
<1>6. CASE f = "offers"
  <2>1. r.copy.offers = r.copy["offers"]
    BY Copies
  <2>2. GoodOffers(r.copy.offers) /\ r.op \in {"sell", "swap"}
    BY <1>1, <1>6, <2>1 DEF Good, BeforeSave
  <2>3. r.op = "sell" => r.user \in Users /\ r.amount \in Nat /\ r.item \in Nat
    BY <1>1 DEF Asked
  <2>4. GoodOffers(NewOffers(r, t))
    BY <2>2, <2>3 DEF NewOffers, GoodOffers
  <2>. QED
    BY <1>1, <1>6, <2>4 DEF Amended, Good
<1>7. CASE f = "replay"
  <2>1. r.item.id \in Proved /\ r.copy.replay \subseteq Proved
    BY <1>1, <1>7, Copies DEF Good, GoodReplay, BeforeSave, Asked, Proved
  <2>. QED
    BY <1>1, <1>7, <2>1 DEF Amended, Good, GoodReplay
<1>. QED
  BY <1>1, <1>2, <1>3, <1>4, <1>5, <1>6, <1>7 DEF FileNames
-----------------------------------------------------------------------------
(* A request goes on. *)

\* A request that begins has its whole program before it.
LEMMA Fresh ==
  ASSUME NEW op \in Ops, NEW u, NEW c, NEW n, NEW item, NEW r, r = Request(op, Program(op), u, c, n, item)
  PROVE  /\ Shaped(r) /\ r.todo # <<>> /\ \A s : ~ Did(r, s)
         /\ DOMAIN r = Fields /\ DOMAIN r.copy = FileNames /\ r.inputs = {}
         /\ r.op = op /\ r.user = u /\ r.cur = c /\ r.amount = n /\ r.item = item
<1>1. /\ r.op = op /\ r.user = u /\ r.cur = c /\ r.amount = n /\ r.item = item
      /\ r.todo = Program(op) /\ DOMAIN r = Fields /\ DOMAIN r.copy = FileNames /\ r.inputs = {}
  BY DEF Request, Fields
<1>2. Program(op) \in Seq(Steps) /\ Size(op) \in Nat /\ Size(op) > 0
  <2>1. /\ Len(Scan) = 5 /\ Len(Claim) = 5 /\ Len(DepositMrc20) = 5 /\ Len(DepositTxo) = 3
        /\ Len(Access) = 2 /\ Len(Sell) = 3 /\ Len(SwapOffer) = 7 /\ Len(Buy) = 5
        /\ Len(WithdrawSats) = 5 /\ Len(AddLiquidity) = 4 /\ Len(RemoveLiquidity) = 4
        /\ Len(PoolSwap) = 4
    BY DEF Scan, Claim, DepositMrc20, DepositTxo, Access, Sell, SwapOffer, Buy,
           WithdrawSats, AddLiquidity, RemoveLiquidity, PoolSwap
  <2>2. Program(op) \in Seq(Steps)
    BY Programs DEF Is, Ops
  <2>3. Size(op) \in {2, 3, 4, 5, 7}
    <3>1. /\ Size("scan") = 5 /\ Size("claim") = 5 /\ Size("mrc20") = 5 /\ Size("txo") = 3
          /\ Size("access") = 2 /\ Size("condition") = 2 /\ Size("sell") = 3 /\ Size("swap") = 7
          /\ Size("buy") = 5 /\ Size("withdrawSats") = 5 /\ Size("add") = 4 /\ Size("remove") = 4
          /\ Size("poolSwap") = 4
      BY <2>1, Programs DEF Is
    <3>. QED
      BY <3>1 DEF Ops
  <2>. QED
    BY <2>2, <2>3
<1>3. SubSeq(Program(op), 1, Size(op)) = Program(op)
  BY <1>2, SubSeqFull DEF Size
<1>4. Shaped(r)
  BY <1>1, <1>2, <1>3 DEF Shaped
<1>5. At1(r) = 1
  BY <1>1, <1>2 DEF At1, Size
<1>6. \A s : ~ Did(r, s)
  BY <1>5 DEF Did
<1>. QED
  BY <1>1, <1>4, <1>6, ShapedFacts

\* What a request that begins asks for.
Begins(r, u, op, c, n, item) ==
  /\ r = Request(op, Program(op), u, c, n, item) /\ op \in Ops /\ c \in Currencies /\ n \in Nat
  /\ op = "claim" => item \in Outputs /\ n = item.value /\ c = item.chain
  /\ op = "mrc20" => item \in Proofs
  /\ op \in {"sell", "add"} => item \in Nat /\ item > 0
  /\ op = "swap" => item.seller \in Users /\ item.tokens \in Nat /\ item.price \in Nat
  /\ op \in PoolOps \cup {"withdrawSats", "buy"} => c \in Chains /\ n > 0
  /\ op \in {"access", "condition"} => n = PayCost
  /\ op = "swap" => c = "sat"

LEMMA BeginTask ==
  ASSUME GoodOffers(files.offers), NEW u \in Users, NEW r \in Requests(u)
  PROVE  Task(r) /\ \A s : ~ Did(r, s)
<1>0. /\ {"scan", "claim", "mrc20", "txo", "access", "condition", "sell", "swap", "buy",
          "withdrawSats", "add", "remove", "poolSwap"} = Ops
      /\ \A o \in Outputs : o.chain \in Currencies /\ o.value \in Nat
      /\ "sat" \in Currencies /\ Chains \subseteq Currencies
      /\ \A p \in Proofs : p.amount \in Nat
      /\ PayCost \in Nat /\ Amounts \subseteq Nat /\ \A n \in Amounts : n > 0
  BY DepositsAssumption, PaymentsAssumption, Coins DEF Ops
<1>1. SUFFICES \E op, c, n, item : Begins(r, u, op, c, n, item)
  <2>1. PICK op, c, n, item : Begins(r, u, op, c, n, item)
    BY <1>1
  <2>2. /\ Shaped(r) /\ r.todo # <<>> /\ \A s : ~ Did(r, s)
        /\ DOMAIN r = Fields /\ DOMAIN r.copy = FileNames /\ r.inputs = {}
        /\ r.op = op /\ r.user = u /\ r.cur = c /\ r.amount = n /\ r.item = item
    BY <2>1, Fresh DEF Begins
  <2>3. Asked(r)
    BY <2>1, <2>2 DEF Asked, Begins
  <2>4. Checked(r)
    BY <2>2 DEF Checked
  <2>. QED
    BY <2>2, <2>3, <2>4 DEF Task
<1>2. /\ Program("scan") = Scan /\ Program("claim") = Claim /\ Program("mrc20") = DepositMrc20
      /\ Program("txo") = DepositTxo /\ Program("access") = Access /\ Program("condition") = Access
      /\ Program("sell") = Sell /\ Program("swap") = SwapOffer /\ Program("buy") = Buy
      /\ Program("withdrawSats") = WithdrawSats /\ Program("add") = AddLiquidity
      /\ Program("remove") = RemoveLiquidity /\ Program("poolSwap") = PoolSwap
  BY DEF Program
<1>3. \/ r = Request("scan", Scan, u, "sat", 0, 0)
      \/ \E o \in Outputs : r = Request("claim", Claim, u, o.chain, o.value, o)
      \/ \E p \in Proofs : r = Request("mrc20", DepositMrc20, u, "sat", p.amount, p)
      \/ \E op \in {"access", "condition"}, c \in Currencies : r = Request(op, Access, u, c, PayCost, 0)
      \/ \E n, m \in Amounts : r = Request("sell", Sell, u, "sat", n, m)
      \/ \E o \in files.offers : r = Request("swap", SwapOffer, u, "sat", o.price, o)
      \/ \E c \in Currencies, n \in Amounts : r = Request("txo", DepositTxo, u, c, n, 0)
      \/ \E c \in Chains, n \in Amounts :
           \/ r = Request("poolSwap", PoolSwap, u, c, n, 0)
           \/ r = Request("withdrawSats", WithdrawSats, u, c, n, 0)
           \/ r = Request("remove", RemoveLiquidity, u, c, n, 0)
           \/ \E m \in Amounts : r = Request("add", AddLiquidity, u, c, n, m)
           \/ \E by \in {"tokens", "sats", "all"} : r = Request("buy", Buy, u, c, n, by)
  BY DEF Requests
<1>4. CASE r = Request("scan", Scan, u, "sat", 0, 0)
  <2>1. Begins(r, u, "scan", "sat", 0, 0)
    BY <1>0, <1>2, <1>4 DEF Begins, GoodOffers, PoolOps
  <2>. QED
    BY <2>1
<1>5. CASE \E o \in Outputs : r = Request("claim", Claim, u, o.chain, o.value, o)
  <2>1. PICK o \in Outputs : r = Request("claim", Claim, u, o.chain, o.value, o)
    BY <1>5
  <2>2. Begins(r, u, "claim", o.chain, o.value, o)
    BY <1>0, <1>2, <2>1 DEF Begins, GoodOffers, PoolOps
  <2>. QED
    BY <2>2
<1>6. CASE \E p \in Proofs : r = Request("mrc20", DepositMrc20, u, "sat", p.amount, p)
  <2>1. PICK p \in Proofs : r = Request("mrc20", DepositMrc20, u, "sat", p.amount, p)
    BY <1>6
  <2>2. Begins(r, u, "mrc20", "sat", p.amount, p)
    BY <1>0, <1>2, <2>1 DEF Begins, GoodOffers, PoolOps
  <2>. QED
    BY <2>2
<1>7. CASE \E op \in {"access", "condition"}, c \in Currencies : r = Request(op, Access, u, c, PayCost, 0)
  <2>1. PICK op \in {"access", "condition"}, c \in Currencies : r = Request(op, Access, u, c, PayCost, 0)
    BY <1>7
  <2>2. Begins(r, u, op, c, PayCost, 0)
    BY <1>0, <1>2, <2>1 DEF Begins, GoodOffers, PoolOps
  <2>. QED
    BY <2>2
<1>8. CASE \E n, m \in Amounts : r = Request("sell", Sell, u, "sat", n, m)
  <2>1. PICK n, m \in Amounts : r = Request("sell", Sell, u, "sat", n, m)
    BY <1>8
  <2>2. Begins(r, u, "sell", "sat", n, m)
    BY <1>0, <1>2, <2>1 DEF Begins, GoodOffers, PoolOps
  <2>. QED
    BY <2>2
<1>9. CASE \E o \in files.offers : r = Request("swap", SwapOffer, u, "sat", o.price, o)
  <2>1. PICK o \in files.offers : r = Request("swap", SwapOffer, u, "sat", o.price, o)
    BY <1>9
  <2>2. Begins(r, u, "swap", "sat", o.price, o)
    BY <1>0, <1>2, <2>1 DEF Begins, GoodOffers, PoolOps
  <2>. QED
    BY <2>2
<1>11. CASE \E c \in Currencies, n \in Amounts : r = Request("txo", DepositTxo, u, c, n, 0)
  <2>1. PICK c \in Currencies, n \in Amounts : r = Request("txo", DepositTxo, u, c, n, 0)
    BY <1>11
  <2>2. Begins(r, u, "txo", c, n, 0)
    BY <1>0, <1>2, <2>1 DEF Begins, PoolOps
  <2>. QED
    BY <2>2
<1>10. CASE \E c \in Chains, n \in Amounts :
           \/ r = Request("poolSwap", PoolSwap, u, c, n, 0)
           \/ r = Request("withdrawSats", WithdrawSats, u, c, n, 0)
           \/ r = Request("remove", RemoveLiquidity, u, c, n, 0)
           \/ \E m \in Amounts : r = Request("add", AddLiquidity, u, c, n, m)
           \/ \E by \in {"tokens", "sats", "all"} : r = Request("buy", Buy, u, c, n, by)
  <2>1. PICK c \in Chains, n \in Amounts :
           \/ r = Request("poolSwap", PoolSwap, u, c, n, 0)
           \/ r = Request("withdrawSats", WithdrawSats, u, c, n, 0)
           \/ r = Request("remove", RemoveLiquidity, u, c, n, 0)
           \/ \E m \in Amounts : r = Request("add", AddLiquidity, u, c, n, m)
           \/ \E by \in {"tokens", "sats", "all"} : r = Request("buy", Buy, u, c, n, by)
    BY <1>10
  <2>3. CASE r = Request("poolSwap", PoolSwap, u, c, n, 0)
    <3>1. Begins(r, u, "poolSwap", c, n, 0)
      BY <1>0, <1>2, <2>3 DEF Begins, PoolOps
    <3>. QED
      BY <3>1
  <2>4. CASE r = Request("withdrawSats", WithdrawSats, u, c, n, 0)
    <3>1. Begins(r, u, "withdrawSats", c, n, 0)
      BY <1>0, <1>2, <2>4 DEF Begins, PoolOps
    <3>. QED
      BY <3>1
  <2>5. CASE r = Request("remove", RemoveLiquidity, u, c, n, 0)
    <3>1. Begins(r, u, "remove", c, n, 0)
      BY <1>0, <1>2, <2>5 DEF Begins, PoolOps
    <3>. QED
      BY <3>1
  <2>6. CASE \E m \in Amounts : r = Request("add", AddLiquidity, u, c, n, m)
    <3>1. PICK m \in Amounts : r = Request("add", AddLiquidity, u, c, n, m)
      BY <2>6
    <3>2. Begins(r, u, "add", c, n, m)
      BY <1>0, <1>2, <3>1 DEF Begins, PoolOps
    <3>. QED
      BY <3>2
  <2>7. CASE \E by \in {"tokens", "sats", "all"} : r = Request("buy", Buy, u, c, n, by)
    <3>1. PICK by \in {"tokens", "sats", "all"} : r = Request("buy", Buy, u, c, n, by)
      BY <2>7
    <3>2. Begins(r, u, "buy", c, n, by)
      BY <1>0, <1>2, <3>1 DEF Begins, PoolOps
    <3>. QED
      BY <3>2
  <2>. QED
    BY <2>1, <2>3, <2>4, <2>5, <2>6, <2>7
<1>. QED
  BY <1>3, <1>4, <1>5, <1>6, <1>7, <1>8, <1>9, <1>10, <1>11

\* What a check has found when a request goes on after it has loaded a file.
Passed(r, f) ==
  /\ f = "ledger" \/ r.op \in {"access", "condition"} => Affords(r)
  /\ r.op = "claim" /\ f = "utxos" => ~ Recorded(r.copy["utxos"], r.item)
  /\ r.op = "mrc20" /\ f = "replay" => r.item.id \notin r.copy["replay"]
  /\ r.op = "buy" /\ f = "trail" => r.copy["trail"].balances[Issuer] >= Tokens(r)
  /\ r.op = "swap" /\ f = "offers" => r.item.seller # r.user
  /\ r.op = "swap" /\ f = "trail" => r.copy["trail"].balances[r.item.seller] >= r.item.tokens
  /\ r.op = "remove" /\ f = "pool" => r.amount <= r.copy["pool"].of[r.user]
  /\ r.op = "poolSwap" /\ f = "pool" => r.copy["pool"].shares > 0

PayIn(r, c) == [r EXCEPT !.cur = c]
Spend(r, us) == [r EXCEPT !.inputs = us]

LEMMA AfterCases ==
  ASSUME NEW r, NEW f, NEW q \in After(r, f)
  PROVE  \/ q = r /\ Passed(r, f) /\ ~ (r.op = "withdrawSats" /\ f = "utxos")
         \/ r.op \in {"access", "condition"} /\ \E c \in PaidIn(r) : q = PayIn(r, c)
         \/ r.op = "withdrawSats" /\ f = "utxos" /\ \E us \in Selections(r) : q = Spend(r, us)
<1>1. CASE r.op \in {"access", "condition"}
  <2>1. q \in {[r EXCEPT !.cur = c] : c \in PaidIn(r)}
    BY <1>1 DEF After
  <2>2. PICK c \in PaidIn(r) : q = PayIn(r, c)
    BY <2>1 DEF PayIn
  <2>. QED
    BY <1>1, <2>2
<1>2. CASE r.op = "withdrawSats" /\ f = "utxos"
  <2>1. q \in {[r EXCEPT !.inputs = us] : us \in Selections(r)}
    BY <1>2 DEF After
  <2>. QED
    BY <1>2, <2>1 DEF Spend
<1>3. CASE r.op = "claim" /\ f = "utxos"
  <2>1. ~ Recorded(r.copy.utxos, r.item) /\ q = r
    BY <1>3 DEF After
  <2>. QED
    BY <1>3, <2>1, Copies DEF Passed
<1>4. CASE r.op = "mrc20" /\ f = "replay"
  <2>1. r.item.id \notin r.copy.replay /\ q = r
    BY <1>4 DEF After
  <2>. QED
    BY <1>4, <2>1, Copies DEF Passed
<1>5. CASE r.op = "buy" /\ f = "trail"
  <2>1. r.copy.trail.balances[Issuer] >= Tokens(r) /\ q = r
    BY <1>5 DEF After
  <2>. QED
    BY <1>5, <2>1, Copies DEF Passed
<1>6. CASE r.op = "swap" /\ f = "offers"
  <2>1. r.item.seller # r.user /\ q = r
    BY <1>6 DEF After
  <2>. QED
    BY <1>6, <2>1, Copies DEF Passed
<1>7. CASE r.op = "swap" /\ f = "trail"
  <2>1. r.copy.trail.balances[r.item.seller] >= r.item.tokens /\ q = r
    BY <1>7 DEF After
  <2>. QED
    BY <1>7, <2>1, Copies DEF Passed
<1>8. CASE r.op = "remove" /\ f = "pool"
  <2>1. r.amount <= r.copy.pool.of[r.user] /\ q = r
    BY <1>8 DEF After
  <2>. QED
    BY <1>8, <2>1, Copies DEF Passed
<1>9. CASE r.op = "poolSwap" /\ f = "pool"
  <2>1. r.copy.pool.shares > 0 /\ q = r
    BY <1>9 DEF After
  <2>. QED
    BY <1>9, <2>1, Copies DEF Passed
<1>11. CASE r.op = "buy" /\ f = "ledger"
  <2>1. Balance(r) >= Cost(r) /\ q = r
    BY <1>11 DEF After
  <2>. QED
    BY <1>11, <2>1 DEF Passed, Affords
<1>12. CASE r.op \in {"withdrawSats", "poolSwap"} /\ f = "ledger"
  <2>1. Balance(r) >= r.amount /\ q = r
    BY <1>12 DEF After
  <2>. QED
    BY <1>12, <2>1 DEF Passed, Affords
<1>13. CASE r.op = "swap" /\ f = "ledger"
  <2>1. Balance(r) >= r.item.price /\ q = r
    BY <1>13 DEF After
  <2>. QED
    BY <1>13, <2>1 DEF Passed, Affords
<1>14. CASE r.op = "add" /\ f = "ledger"
  <2>1. Balance(r) >= r.amount /\ r.copy["ledger"].balance[r.user][OtherChain(r.cur)] >= r.item /\ q = r
    BY <1>14, Copies DEF After
  <2>. QED
    BY <1>14, <2>1 DEF Passed, Affords
<1>10. CASE /\ r.op \notin {"access", "condition"} /\ ~ (r.op = "withdrawSats" /\ f = "utxos")
            /\ ~ (r.op = "claim" /\ f = "utxos") /\ ~ (r.op = "mrc20" /\ f = "replay")
            /\ ~ (r.op = "buy" /\ f = "trail") /\ ~ (r.op = "swap" /\ f = "offers")
            /\ ~ (r.op = "swap" /\ f = "trail") /\ ~ (r.op = "remove" /\ f = "pool")
            /\ ~ (r.op = "poolSwap" /\ f = "pool") /\ ~ (r.op = "buy" /\ f = "ledger")
            /\ ~ (r.op \in {"withdrawSats", "poolSwap"} /\ f = "ledger")
            /\ ~ (r.op = "swap" /\ f = "ledger") /\ ~ (r.op = "add" /\ f = "ledger")
  <2>1. q = r
    BY <1>10 DEF After
  <2>2. Passed(r, f)
    BY <1>10 DEF Passed, Affords
  <2>. QED
    BY <1>10, <2>1, <2>2
<1>. QED
  BY <1>1, <1>2, <1>3, <1>4, <1>5, <1>6, <1>7, <1>8, <1>9, <1>10, <1>11, <1>12, <1>13,
     <1>14

\* What it affords depends on nothing else.
LEMMA AffordsSame ==
  ASSUME NEW r, NEW q, q.op = r.op, q.user = r.user, q.cur = r.cur, q.amount = r.amount,
         q.item = r.item, q.copy["ledger"] = r.copy["ledger"]
  PROVE  /\ Affords(q) <=> Affords(r)
         /\ Balance(q) = Balance(r) /\ Cost(q) = Cost(r) /\ Tokens(q) = Tokens(r)
<1>1. Balance(q) = Balance(r)
  BY Copies DEF Balance
<1>2. Cost(q) = Cost(r)
  BY <1>1 DEF Cost
<1>3. Tokens(q) = Tokens(r)
  BY <1>2 DEF Tokens
<1>. QED
  BY <1>1, <1>2, <1>3 DEF Affords

\* A request as it was, one step further, with a copy of a file.
Loaded(r, q, f, v) ==
  /\ DOMAIN q = Fields /\ q.op = r.op /\ q.todo = Tail(r.todo) /\ q.user = r.user
  /\ q.amount = r.amount /\ q.item = r.item
  /\ DOMAIN q.copy = FileNames /\ q.copy[f] = v /\ \A g \in FileNames \ {f} : q.copy[g] = r.copy[g]
  /\ q.cur = r.cur \/ (r.op \in {"access", "condition"} /\ q.cur \in Currencies)
  /\ \/ q.inputs = r.inputs /\ ~ (r.op = "withdrawSats" /\ f = "utxos")
     \/ r.op = "withdrawSats" /\ f = "utxos" /\ q.inputs \subseteq {u \in v : ~ u.spent}
  /\ Passed(q, f)

With(r, f, v) == [r EXCEPT !.copy[f] = v]
Further(r) == [r EXCEPT !.todo = Tail(@)]

LEMMA LoadStep ==
  ASSUME NEW r, Task(r), NEW f \in FileNames, Head(r.todo) = L(f), NEW v,
         NEW p, p = With(r, f, v), NEW s \in After(p, f), NEW q, q = Further(s)
  PROVE  Loaded(r, q, f, v)
<1>1. DOMAIN r = Fields /\ DOMAIN r.copy = FileNames
  BY DEF Task, Asked
<1>2. PICK c : c = [r.copy EXCEPT ![f] = v]
  OBVIOUS
<1>3. p = [r EXCEPT !.copy = c]
  BY <1>2, Zenon DEF With
<1>4. DOMAIN c = FileNames /\ c[f] = v /\ \A g \in FileNames \ {f} : c[g] = r.copy[g]
  BY <1>1, <1>2
<1>5. /\ DOMAIN p = Fields /\ p.op = r.op /\ p.todo = r.todo /\ p.user = r.user /\ p.cur = r.cur
      /\ p.amount = r.amount /\ p.item = r.item /\ p.inputs = r.inputs /\ p.copy = c
  BY <1>1, <1>3 DEF Fields
<1>6. \/ s = p /\ Passed(p, f) /\ ~ (p.op = "withdrawSats" /\ f = "utxos")
      \/ p.op \in {"access", "condition"} /\ \E x \in PaidIn(p) : s = PayIn(p, x)
      \/ p.op = "withdrawSats" /\ f = "utxos" /\ \E us \in Selections(p) : s = Spend(p, us)
  BY AfterCases
<1>7. /\ DOMAIN q = Fields /\ q.op = s.op /\ q.todo = Tail(s.todo) /\ q.user = s.user /\ q.cur = s.cur
      /\ q.amount = s.amount /\ q.item = s.item /\ q.inputs = s.inputs /\ q.copy = s.copy
      /\ DOMAIN s = Fields
  <2>1. DOMAIN s = Fields
    BY <1>5, <1>6 DEF PayIn, Spend
  <2>2. PICK k : k = Tail(s.todo)
    OBVIOUS
  <2>3. q = [s EXCEPT !.todo = k]
    BY <2>2 DEF Further
  <2>. QED
    BY <2>1, <2>2, <2>3 DEF Fields
<1>8. CASE s = p /\ Passed(p, f) /\ ~ (p.op = "withdrawSats" /\ f = "utxos")
  <2>1. ~ (r.op = "withdrawSats" /\ f = "utxos")
    BY <1>5, <1>8
  <2>2. Passed(q, f)
    <3>1. q.op = p.op /\ q.user = p.user /\ q.cur = p.cur /\ q.amount = p.amount /\ q.item = p.item /\ q.copy = p.copy
      BY <1>7, <1>8
    <3>. QED
      BY <1>8, <3>1, AffordsSame DEF Passed
  <2>3. /\ q.op = r.op /\ q.todo = Tail(r.todo) /\ q.user = r.user /\ q.amount = r.amount
        /\ q.item = r.item /\ q.copy = c /\ q.cur = r.cur /\ q.inputs = r.inputs
    BY <1>5, <1>7, <1>8
  <2>. QED
    BY <1>4, <1>7, <2>1, <2>2, <2>3 DEF Loaded
<1>9. CASE p.op \in {"access", "condition"} /\ \E x \in PaidIn(p) : s = PayIn(p, x)
  <2>1. PICK x \in PaidIn(p) : s = PayIn(p, x)
    BY <1>9
  <2>0. x \in Currencies
    BY <2>1 DEF PaidIn
  <2>2. /\ s.op = p.op /\ s.todo = p.todo /\ s.user = p.user /\ s.cur = x
        /\ s.amount = p.amount /\ s.item = p.item /\ s.inputs = p.inputs /\ s.copy = p.copy
    BY <1>5, <2>1 DEF Fields, PayIn, Spend
  <2>3. Passed(q, f)
    <3>1. p.copy.ledger.balance[p.user][x] >= PayCost /\ (p.op = "condition" => x # "sat")
      BY <2>1 DEF PaidIn
    <3>2. q.op = p.op /\ q.user = p.user /\ q.cur = x /\ q.copy = p.copy /\ q.amount = r.amount
      BY <1>5, <1>7, <2>2
    <3>3. r.amount = PayCost
      BY <1>5, <1>9 DEF Task, Asked
    <3>4. Affords(q)
      BY <1>9, <3>1, <3>2, <3>3 DEF Affords, Balance
    <3>. QED
      BY <1>9, <3>2, <3>4 DEF Passed
  <2>4. /\ q.op = r.op /\ q.todo = Tail(r.todo) /\ q.user = r.user /\ q.amount = r.amount
        /\ q.item = r.item /\ q.copy = c /\ q.cur = x /\ q.inputs = r.inputs
    BY <1>5, <1>7, <2>2
  <2>5. r.op \in {"access", "condition"} /\ ~ (r.op = "withdrawSats" /\ f = "utxos")
    BY <1>5, <1>9
  <2>. QED
    BY <1>4, <1>7, <2>0, <2>3, <2>4, <2>5 DEF Loaded
<1>10. CASE p.op = "withdrawSats" /\ f = "utxos" /\ \E us \in Selections(p) : s = Spend(p, us)
  <2>1. PICK us \in Selections(p) : s = Spend(p, us)
    BY <1>10
  <2>2. /\ s.op = p.op /\ s.todo = p.todo /\ s.user = p.user /\ s.cur = p.cur
        /\ s.amount = p.amount /\ s.item = p.item /\ s.inputs = us /\ s.copy = p.copy
    BY <1>5, <2>1 DEF Fields, PayIn, Spend
  <2>3. us \subseteq {u \in p.copy.utxos : ~ u.spent}
    BY DEF Selections
  <2>4. p.copy.utxos = v
    BY <1>4, <1>5, <1>10, Copies
  <2>5. Passed(q, f)
    BY <1>5, <1>7, <1>10, <2>2 DEF Passed
  <2>6. /\ q.op = r.op /\ q.todo = Tail(r.todo) /\ q.user = r.user /\ q.amount = r.amount
        /\ q.item = r.item /\ q.copy = c /\ q.cur = r.cur /\ q.inputs = us
        /\ r.op = "withdrawSats" /\ f = "utxos"
    BY <1>5, <1>7, <1>10, <2>2
  <2>. QED
    BY <1>4, <1>7, <2>3, <2>4, <2>5, <2>6 DEF Loaded
<1>. QED
  BY <1>8, <1>9, <1>10, <1>6

LEMMA LoadedTask ==
  ASSUME NEW r, Task(r), NEW f \in FileNames, Head(r.todo) = L(f), NEW v, Good(f, v),
         NEW q, Loaded(r, q, f, v), q.todo # <<>>
  PROVE  Task(q)
<1>1. Shaped(q) /\ \A s : Did(q, s) <=> Did(r, s) \/ s = L(f)
  BY Advance DEF Task, Loaded
<1>2. BeforeLoad(r, f) /\ ~ Did(r, L(f))
  BY Order, StepsDiffer DEF Task, Before
<1>3. /\ \A g \in FileNames : Did(q, L(g)) <=> (Did(r, L(g)) \/ g = f)
      /\ \A x \in {"scan", "verify", "lookup", "anchor", "broadcast"} : Did(q, Do(x)) <=> Did(r, Do(x))
  BY <1>1, StepsDiffer
<1>4. Asked(q)
  BY DEF Loaded, Task, Asked, PoolOps
<1>5. \A g \in FileNames : Did(q, L(g)) => Good(g, q.copy[g])
  BY <1>3 DEF Loaded, Task
<1>6. Checked(q)
  <2>0. /\ "ledger" \in FileNames /\ "utxos" \in FileNames /\ "offers" \in FileNames
        /\ "pool" \in FileNames /\ "trail" \in FileNames /\ "replay" \in FileNames
    BY DEF FileNames
  <2>1. q.op = "scan" =>
          IF Did(q, Do("scan"))
          THEN q.inputs \subseteq {o \in Theirs : ~ Recorded(q.copy["utxos"], o)} ELSE q.inputs = {}
    <3>. SUFFICES ASSUME q.op = "scan"
                  PROVE  IF Did(q, Do("scan"))
                         THEN q.inputs \subseteq {o \in Theirs : ~ Recorded(q.copy["utxos"], o)}
                         ELSE q.inputs = {}
      OBVIOUS
    <3>1. r.op = "scan" /\ q.inputs = r.inputs /\ (Did(q, Do("scan")) <=> Did(r, Do("scan")))
      BY <1>3 DEF Loaded
    <3>2. CASE Did(r, Do("scan"))
      <4>1. f # "utxos"
        BY <1>2, <3>1, <3>2 DEF BeforeLoad
      <4>2. q.copy["utxos"] = r.copy["utxos"]
        BY <2>0, <4>1 DEF Loaded
      <4>. QED
        BY <3>1, <3>2, <4>2 DEF Task, Checked
    <3>3. CASE ~ Did(r, Do("scan"))
      BY <3>1, <3>3 DEF Task, Checked
    <3>. QED
      BY <3>2, <3>3
  <2>2. q.op = "claim" /\ Did(q, L("utxos")) => ~ Recorded(q.copy["utxos"], q.item)
    BY <1>3, <2>0 DEF Loaded, Passed, Task, Checked
  <2>3. q.op = "mrc20" /\ Did(q, L("replay")) => q.item.id \notin q.copy["replay"]
    BY <1>3, <2>0 DEF Loaded, Passed, Task, Checked
  <2>4. q.op = "withdrawSats" =>
          IF Did(q, L("utxos")) THEN q.inputs \subseteq {u \in q.copy["utxos"] : ~ u.spent}
          ELSE q.inputs = {}
    BY <1>2, <1>3, <2>0 DEF Loaded, Task, Checked
  <2>5. q.op = "buy" /\ Did(q, L("trail")) => q.copy["trail"].balances[Issuer] >= Tokens(q)
    <3>. SUFFICES ASSUME q.op = "buy", Did(q, L("trail"))
                  PROVE  q.copy["trail"].balances[Issuer] >= Tokens(q)
      OBVIOUS
    <3>1. CASE f = "trail"
      BY <3>1 DEF Loaded, Passed
    <3>2. CASE f # "trail"
      <4>1. Did(r, L("trail")) /\ r.op = "buy" /\ q.copy["trail"] = r.copy["trail"]
        BY <1>3, <2>0, <3>2 DEF Loaded
      <4>2. f # "ledger"
        BY <1>2, <4>1 DEF BeforeLoad
      <4>3. /\ q.copy["ledger"] = r.copy["ledger"] /\ q.user = r.user /\ q.amount = r.amount
            /\ q.item = r.item /\ q.cur = r.cur
        BY <2>0, <4>1, <4>2 DEF Loaded
      <4>4. Tokens(q) = Tokens(r)
        BY <4>3, Copies DEF Tokens, Cost, Balance
      <4>5. r.copy["trail"].balances[Issuer] >= Tokens(r)
        BY <4>1 DEF Task, Checked
      <4>. QED
        BY <4>1, <4>4, <4>5
    <3>. QED
      BY <3>1, <3>2
  <2>6. q.op = "swap" /\ Did(q, L("offers")) => q.item.seller # q.user
    BY <1>3, <2>0 DEF Loaded, Passed, Task, Checked
  <2>7. q.op = "swap" /\ Did(q, L("trail")) =>
          q.copy["trail"].balances[q.item.seller] >= q.item.tokens
    BY <1>3, <2>0 DEF Loaded, Passed, Task, Checked
  <2>8. q.op = "remove" /\ Did(q, L("pool")) => q.amount <= q.copy["pool"].of[q.user]
    BY <1>3, <2>0 DEF Loaded, Passed, Task, Checked
  <2>9. q.op = "poolSwap" /\ Did(q, L("pool")) => q.copy["pool"].shares > 0
    BY <1>3, <2>0 DEF Loaded, Passed, Task, Checked
  <2>10. Did(q, L("ledger")) => Affords(q)
    <3>1. CASE f = "ledger" \/ q.op \in {"access", "condition"}
      BY <3>1 DEF Loaded, Passed
    <3>2. CASE f # "ledger" /\ q.op \notin {"access", "condition"}
      <4>1. /\ q.op = r.op /\ q.user = r.user /\ q.cur = r.cur /\ q.amount = r.amount
            /\ q.item = r.item /\ q.copy["ledger"] = r.copy["ledger"]
        BY <2>0, <3>2 DEF Loaded
      <4>2. Did(q, L("ledger")) => Affords(r)
        BY <1>3, <2>0, <3>2 DEF Task, Checked
      <4>. QED
        BY <4>1, <4>2, AffordsSame
    <3>. QED
      BY <3>1, <3>2
  <2>. QED
    BY <2>1, <2>2, <2>3, <2>4, <2>5, <2>6, <2>7, <2>8, <2>9, <2>10 DEF Checked
<1>. QED
  BY <1>1, <1>4, <1>5, <1>6 DEF Task

\* A request as it was, one step further.
Onward(r, q) ==
  /\ DOMAIN q = Fields /\ q.op = r.op /\ q.todo = Tail(r.todo) /\ q.user = r.user /\ q.cur = r.cur
  /\ q.amount = r.amount /\ q.item = r.item /\ q.copy = r.copy /\ q.inputs = r.inputs

LEMMA FurtherOnward ==
  ASSUME NEW r, DOMAIN r = Fields
  PROVE  Onward(r, Further(r))
<1>1. PICK k : k = Tail(r.todo)
  OBVIOUS
<1>2. PICK q : q = Further(r)
  OBVIOUS
<1>3. q = [r EXCEPT !.todo = k]
  BY <1>1, <1>2 DEF Further
<1>4. Onward(r, q)
  BY <1>1, <1>3 DEF Onward, Fields
<1>. QED
  BY <1>2, <1>4

LEMMA OnwardTask ==
  ASSUME NEW r, Task(r), NEW q, Onward(r, q), q.todo # <<>>,
         \A f : Head(r.todo) # L(f), Head(r.todo) # Do("scan")
  PROVE  Task(q)
<1>1. Shaped(q) /\ \A s : Did(q, s) <=> Did(r, s) \/ s = Head(r.todo)
  BY Advance DEF Task, Onward
<1>2. /\ \A g : Did(q, L(g)) <=> Did(r, L(g))
      /\ Did(q, Do("scan")) <=> Did(r, Do("scan"))
  BY <1>1
<1>3. Asked(q)
  BY DEF Onward, Task, Asked
<1>4. \A g \in FileNames : Did(q, L(g)) => Good(g, q.copy[g])
  BY <1>2 DEF Onward, Task
<1>5. Tokens(q) = Tokens(r) /\ (Affords(q) <=> Affords(r))
  BY AffordsSame DEF Onward
<1>6. Checked(q)
  BY <1>2, <1>5 DEF Onward, Task, Checked
<1>. QED
  BY <1>1, <1>3, <1>4, <1>6 DEF Task

\* A scan of the chains has found outputs: a request as it was with them.
Found(r, q, new) ==
  /\ DOMAIN q = Fields /\ q.op = r.op /\ q.todo = Tail(r.todo) /\ q.user = r.user /\ q.cur = r.cur
  /\ q.amount = r.amount /\ q.item = r.item /\ q.copy = r.copy /\ q.inputs = new

LEMMA SpendFound ==
  ASSUME NEW r, DOMAIN r = Fields, NEW new
  PROVE  /\ DOMAIN Spend(r, new) = Fields /\ Found(r, Further(Spend(r, new)), new)
         /\ Spend(r, new).todo = r.todo
<1>1. PICK q : q = Spend(r, new)
  OBVIOUS
<1>2. /\ DOMAIN q = Fields /\ q.op = r.op /\ q.todo = r.todo /\ q.user = r.user /\ q.cur = r.cur
      /\ q.amount = r.amount /\ q.item = r.item /\ q.copy = r.copy /\ q.inputs = new
  BY <1>1 DEF Spend, Fields
<1>3. Onward(q, Further(q))
  BY <1>2, FurtherOnward
<1>. QED
  BY <1>1, <1>2, <1>3 DEF Onward, Found

LEMMA FoundTask ==
  ASSUME NEW r, Task(r), Head(r.todo) = Do("scan"),
         NEW new, new \subseteq {o \in Theirs : ~ Recorded(r.copy["utxos"], o)},
         NEW q, Found(r, q, new)
  PROVE  q.todo # <<>> /\ Task(q) /\ Head(q.todo) = S("ledger")
<1>0. BeforeDo(r, "scan")
  BY Order, StepsDiffer DEF Task, Before
<1>1. Shaped(q) /\ (\A s : Did(q, s) <=> Did(r, s) \/ s = Head(r.todo)) /\ q.todo # <<>>
  BY <1>0, Advance DEF Task, Found, BeforeDo
<1>2. /\ \A g : Did(q, L(g)) <=> Did(r, L(g))
      /\ Did(q, Do("scan")) /\ r.op = "scan"
  BY <1>0, <1>1, StepsDiffer DEF BeforeDo
<1>3. Asked(q)
  BY DEF Found, Task, Asked
<1>4. \A g \in FileNames : Did(q, L(g)) => Good(g, q.copy[g])
  BY <1>2 DEF Found, Task
<1>5. Checked(q)
  <2>1. Affords(q) <=> Affords(r)
    BY AffordsSame DEF Found
  <2>. QED
    BY <1>2, <2>1 DEF Found, Task, Checked
<1>6. Task(q)
  BY <1>1, <1>3, <1>4, <1>5 DEF Task
<1>7. At1(q) = At1(r) + 1
  BY ShapedFacts DEF Found, At1, Task
<1>8. Head(q.todo) = S("ledger")
  BY <1>0, <1>1, <1>7, ShapedFacts DEF BeforeDo, Found
<1>. QED
  BY <1>1, <1>6, <1>8
-----------------------------------------------------------------------------
(* Every file is sound, and every request is what it asked for: each action keeps it so. *)

LEMMA FilesStart == PaymentsInit => FilesInv
<1>. SUFFICES ASSUME PaymentsInit PROVE FilesInv
  OBVIOUS
<1>1. files \in FirstFiles /\ pay = [t \in PayTasks |-> NewTask] /\ upset = {}
  BY DEF PaymentsInit
<1>2. /\ DOMAIN files = FileNames
      /\ files.ledger \in Ledgers /\ files.ledger.credited = {}
      /\ \A i \in OutputIds : files.ledger.scanned[i] = 0
      /\ files.utxos \subseteq UtxosOf({u.id : u \in files.utxos}) /\ IsFiniteSet(files.utxos)
      /\ files.offers \subseteq OffersOf({o.id : o \in files.offers})
      /\ files.pool \in Pools /\ Sound(files.pool) /\ files.trail \in Trails /\ files.replay = {}
  BY <1>1, FilesAssumption
<1>3. GoodLedger(files.ledger)
  BY <1>2 DEF GoodLedger
<1>4. GoodUtxos(files.utxos) /\ GoodPool(files.pool) /\ GoodTrail(files.trail) /\ GoodReplay(files.replay)
  BY <1>2 DEF GoodUtxos, GoodPool, GoodTrail, GoodReplay
<1>5. GoodOffers(files.offers)
  BY <1>2 DEF GoodOffers, OffersOf
<1>6. \A f \in FileNames : Good(f, files[f])
  <2>1. /\ files.ledger = files["ledger"] /\ files.utxos = files["utxos"]
        /\ files.offers = files["offers"] /\ files.pool = files["pool"]
        /\ files.trail = files["trail"] /\ files.replay = files["replay"]
    OBVIOUS
  <2>. QED
    BY <1>3, <1>4, <1>5, <2>1 DEF Good
<1>7. DOMAIN pay = PayTasks /\ \A t \in PayTasks : ~ Busy(t)
  BY <1>1 DEF Busy, NewTask
<1>. QED
  BY <1>1, <1>2, <1>6, <1>7 DEF FilesInv

\* A file that is cut off is taken for a good one.
LEMMA BlankGood == \A f \in FileNames : Good(f, Blank(f))
<1>1. GoodLedger(Blank("ledger"))
  <2>1. PICK b \in [Users -> [Currencies -> Nat]] : b = [u \in Users |-> [c \in Currencies |-> 0]]
    OBVIOUS
  <2>2. PICK s \in [OutputIds -> Nat] : s = [i \in OutputIds |-> 0]
    OBVIOUS
  <2>3. PICK k \in [OutputIds \cup Proved -> Nat] : k = [i \in OutputIds \cup Proved |-> 0]
    OBVIOUS
  <2>4. Blank("ledger") = [balance |-> b, credited |-> {}, scanned |-> s, counted |-> k]
    BY <2>1, <2>2, <2>3, Zenon DEF Blank
  <2>5. \A i \in OutputIds : s[i] = 0
    BY <2>2
  <2>. QED
    BY <2>1, <2>2, <2>3, <2>4, <2>5 DEF GoodLedger, Ledgers
<1>2. GoodPool(Blank("pool"))
  <2>1. PICK v \in [Chains -> Nat] : v = [c \in Chains |-> 0]
    OBVIOUS
  <2>2. PICK w \in [Users -> Nat] : w = [u \in Users |-> 0]
    OBVIOUS
  <2>3. Blank("pool") = [reserves |-> v, shares |-> 0, of |-> w]
    BY <2>1, <2>2, Zenon DEF Blank
  <2>4. DOMAIN w = Users /\ \A u \in Users : w[u] = 0
    BY <2>2
  <2>5. SumFunctionOnSet(w, Users) = 0
    BY <2>4, SumZero, PaymentsAssumption
  <2>6. SumFunction(w) = 0
    BY <2>4, <2>5, Zenon DEF SumFunction, SumFunctionOnSet
  <2>. QED
    BY <2>1, <2>2, <2>3, <2>6 DEF GoodPool, Pools, Sound
<1>3. GoodTrail(Blank("trail"))
  <2>1. PICK b \in [Holders -> Nat] : b = [h \in Holders |-> 0]
    OBVIOUS
  <2>2. Blank("trail") = [balances |-> b, at |-> 0, value |-> 0]
    BY <2>1, Zenon DEF Blank
  <2>. QED
    BY <2>1, <2>2 DEF GoodTrail, Trails
<1>4. Blank("utxos") = {} /\ Blank("offers") = {} /\ Blank("replay") = {}
  BY DEF Blank
<1>5. GoodUtxos({}) /\ GoodOffers({}) /\ GoodReplay({})
  BY FS_EmptySet DEF GoodUtxos, GoodOffers, GoodReplay
<1>. QED
  BY <1>1, <1>2, <1>3, <1>4, <1>5 DEF Good, FileNames

\* The steps that are a step of one request.
LEMMA OneTask ==
  ASSUME FilesInv, NEW t \in PayTasks, NEW q, pay' = [pay EXCEPT ![t] = q], q.todo # <<>> => Task(q),
         DOMAIN files' = FileNames, \A f \in FileNames : Good(f, files'[f]),
         upset' \subseteq {"lost", "string", "txo", "failed", "death"}
  PROVE  FilesInv'
<1>1. DOMAIN pay' = PayTasks /\ pay'[t] = q /\ \A s \in PayTasks \ {t} : pay'[s] = pay[s]
  BY DEF FilesInv
<1>2. \A s \in PayTasks : Busy(s)' => Task(pay'[s])
  BY <1>1 DEF FilesInv, Busy
<1>. QED
  BY <1>1, <1>2 DEF FilesInv

\* A request is over.
LEMMA StopTask ==
  ASSUME FilesInv, NEW t \in PayTasks, Stop(t), files' = files,
         upset' \subseteq {"lost", "string", "txo", "failed", "death"}
  PROVE  FilesInv' /\ ~ Busy(t)'
<1>1. PICK q : q = [NewTask EXCEPT !.op = "done"]
  OBVIOUS
<1>2. q.todo = <<>> /\ pay' = [pay EXCEPT ![t] = q]
  BY <1>1 DEF NewTask, Stop
<1>3. FilesInv'
  BY <1>2, OneTask DEF FilesInv
<1>. QED
  BY <1>2, <1>3 DEF Busy, FilesInv

\* A request goes a step further.
LEMMA ContinueIs ==
  ASSUME NEW t, NEW r, Continue(t, r)
  PROVE  pay' = [pay EXCEPT ![t] = Further(r)]
BY Zenon DEF Continue, Further

LEMMA ContinueTask ==
  ASSUME FilesInv, NEW t \in PayTasks, Busy(t), Continue(t, pay[t]),
         \A f : Head(pay[t].todo) # L(f), Head(pay[t].todo) # Do("scan"),
         DOMAIN files' = FileNames, \A f \in FileNames : Good(f, files'[f]),
         upset' \subseteq {"lost", "string", "txo", "failed", "death"}
  PROVE  FilesInv' /\ Onward(pay[t], pay'[t])
<1>1. Task(pay[t]) /\ DOMAIN pay[t] = Fields
  BY DEF FilesInv, Task, Asked
<1>2. PICK q : q = Further(pay[t])
  OBVIOUS
<1>3. Onward(pay[t], q) /\ pay' = [pay EXCEPT ![t] = q]
  BY <1>1, <1>2, FurtherOnward, ContinueIs
<1>4. q.todo # <<>> => Task(q)
  BY <1>1, <1>3, OnwardTask
<1>5. FilesInv'
  BY <1>3, <1>4, OneTask
<1>. QED
  BY <1>3, <1>5 DEF FilesInv

\* Which step a request is about to take.
LEMMA StepAt ==
  ASSUME FilesInv, NEW t \in PayTasks
  PROVE  /\ At(t, "load") => Busy(t) /\ Task(pay[t]) /\ Next1(t)[2] \in FileNames /\ Head(pay[t].todo) = L(Next1(t)[2])
         /\ At(t, "save") => Busy(t) /\ Task(pay[t]) /\ Next1(t)[2] \in FileNames /\ Head(pay[t].todo) = S(Next1(t)[2])
         /\ \A x \in {"scan", "verify", "lookup", "anchor", "broadcast"} :
              At(t, x) => Busy(t) /\ Task(pay[t]) /\ Head(pay[t].todo) = Do(x) /\ BeforeDo(pay[t], x)
<1>. DEFINE h == Head(pay[t].todo)
<1>1. SUFFICES ASSUME Busy(t)
               PROVE  /\ h[1] = "load" => h[2] \in FileNames /\ h = L(h[2])
                      /\ h[1] = "save" => h[2] \in FileNames /\ h = S(h[2])
                      /\ \A x \in {"scan", "verify", "lookup", "anchor", "broadcast"} :
                           h[1] = x => h = Do(x) /\ BeforeDo(pay[t], x)
  BY DEF FilesInv, At, Next1
<1>2. Before(pay[t])
  BY <1>1, Order DEF FilesInv, Task
<1>3. /\ \A f : L(f)[1] = "load" /\ L(f)[2] = f
      /\ \A f : S(f)[1] = "save" /\ S(f)[2] = f
      /\ \A x : Do(x)[1] = x
  BY DEF L, S, Do
<1>4. CASE \E f : h = S(f) /\ BeforeSave(pay[t], f)
  BY <1>3, <1>4 DEF BeforeSave
<1>5. CASE \E f : h = L(f) /\ BeforeLoad(pay[t], f)
  BY <1>3, <1>5 DEF BeforeLoad
<1>6. CASE \E x \in {"scan", "verify", "lookup", "anchor", "broadcast"} : h = Do(x) /\ BeforeDo(pay[t], x)
  BY <1>3, <1>6
<1>. QED
  BY <1>2, <1>4, <1>5, <1>6 DEF Before

LEMMA LoadIs ==
  ASSUME FilesInv, NEW t \in PayTasks, Load(t)
  PROVE  \E f \in FileNames : \E v :
           /\ Task(pay[t]) /\ Head(pay[t].todo) = L(f) /\ Good(f, v)
           /\ \/ v = files[f] /\ upset' = upset
              \/ v = Blank(f) /\ upset' = upset \cup {"lost"}
           /\ \/ Stop(t) /\ ~ (f = "ledger" /\ pay[t].op \in {"claim", "mrc20", "txo"})
              \/ \E q : pay' = [pay EXCEPT ![t] = q] /\ Loaded(pay[t], q, f, v)
<1>1. /\ Busy(t) /\ Task(pay[t]) /\ Next1(t)[2] \in FileNames /\ Head(pay[t].todo) = L(Next1(t)[2])
  BY StepAt DEF Load
<1>2. PICK f \in FileNames : f = Next1(t)[2]
  BY <1>1
<1>6. PICK vs : vs = {files[f]} \cup IF BeingSaved(f, t) THEN {Blank(f)} ELSE {}
  OBVIOUS
<1>7. \E v \in vs :
        /\ upset' = upset \cup IF v = files[f] THEN {} ELSE {"lost"}
        /\ IF After(With(pay[t], f, v), f) = {} THEN Stop(t)
           ELSE \E r \in After(With(pay[t], f, v), f) : Continue(t, r)
  BY <1>2, <1>6, Zenon DEF Load, With
<1>8. PICK v \in vs :
        /\ upset' = upset \cup IF v = files[f] THEN {} ELSE {"lost"}
        /\ IF After(With(pay[t], f, v), f) = {} THEN Stop(t)
           ELSE \E r \in After(With(pay[t], f, v), f) : Continue(t, r)
  BY <1>7
<1>9. /\ \/ v = files[f] /\ upset' = upset
         \/ v = Blank(f) /\ upset' = upset \cup {"lost"}
      /\ Good(f, v)
  BY <1>6, <1>8, BlankGood DEF FilesInv
<1>3. IF After(With(pay[t], f, v), f) = {} THEN Stop(t)
      ELSE \E r \in After(With(pay[t], f, v), f) : Continue(t, r)
  BY <1>8
<1>4. ASSUME NEW r \in After(With(pay[t], f, v), f), Continue(t, r)
      PROVE  \E q : pay' = [pay EXCEPT ![t] = q] /\ Loaded(pay[t], q, f, v)
  <2>1. PICK q : q = Further(r)
    OBVIOUS
  <2>2. pay' = [pay EXCEPT ![t] = q]
    BY <1>4, <2>1, ContinueIs
  <2>3. Loaded(pay[t], q, f, v)
    BY <1>1, <1>2, <2>1, LoadStep
  <2>. QED
    BY <2>2, <2>3
<1>5. f = "ledger" /\ pay[t].op \in {"claim", "mrc20", "txo"} => After(With(pay[t], f, v), f) # {}
  <2>1. PICK p : p = With(pay[t], f, v)
    OBVIOUS
  <2>2. p.op = pay[t].op
    <3>1. PICK c : c = [pay[t].copy EXCEPT ![f] = v]
      OBVIOUS
    <3>2. p = [pay[t] EXCEPT !.copy = c]
      BY <2>1, <3>1, Zenon DEF With
    <3>. QED
      BY <1>1, <3>2 DEF Task, Asked, Fields
  <2>3. f = "ledger" /\ p.op \in {"claim", "mrc20", "txo"} => After(p, f) = {p}
    BY DEF After
  <2>. QED
    BY <2>1, <2>2, <2>3
<1>. QED
  BY <1>1, <1>2, <1>3, <1>4, <1>5, <1>9

\* A file that is loaded whole.
LEMMA LoadWhole ==
  ASSUME FilesInv, NEW t \in PayTasks, Load(t), "lost" \notin upset'
  PROVE  /\ files' = files /\ upset' = upset /\ chain' = chain
         /\ \E f \in FileNames :
              /\ Task(pay[t]) /\ Head(pay[t].todo) = L(f)
              /\ \/ Stop(t) /\ ~ (f = "ledger" /\ pay[t].op \in {"claim", "mrc20", "txo"})
                 \/ \E q : pay' = [pay EXCEPT ![t] = q] /\ Loaded(pay[t], q, f, files[f])
<1>1. PICK f, v :
        /\ f \in FileNames /\ Task(pay[t]) /\ Head(pay[t].todo) = L(f)
        /\ \/ v = files[f] /\ upset' = upset
           \/ v = Blank(f) /\ upset' = upset \cup {"lost"}
        /\ \/ Stop(t) /\ ~ (f = "ledger" /\ pay[t].op \in {"claim", "mrc20", "txo"})
           \/ \E q : pay' = [pay EXCEPT ![t] = q] /\ Loaded(pay[t], q, f, v)
  BY LoadIs
<1>2. v = files[f] /\ upset' = upset
  BY <1>1
<1>3. files' = files /\ chain' = chain
  BY DEF Load
<1>. QED
  BY <1>1, <1>2, <1>3

LEMMA LoadKeeps ==
  ASSUME FilesInv, NEW t \in PayTasks, Load(t)
  PROVE  FilesInv'
<1>0. files' = files
  BY DEF Load
<1>1. PICK f, v :
        /\ f \in FileNames /\ Task(pay[t]) /\ Head(pay[t].todo) = L(f) /\ Good(f, v)
        /\ \/ v = files[f] /\ upset' = upset
           \/ v = Blank(f) /\ upset' = upset \cup {"lost"}
        /\ \/ Stop(t)
           \/ \E q : pay' = [pay EXCEPT ![t] = q] /\ Loaded(pay[t], q, f, v)
  BY LoadIs
<1>4. upset' \subseteq {"lost", "string", "txo", "failed", "death"}
  BY <1>1 DEF FilesInv
<1>2. CASE Stop(t)
  BY <1>0, <1>2, <1>4, StopTask
<1>3. ASSUME NEW q, pay' = [pay EXCEPT ![t] = q], Loaded(pay[t], q, f, v)
      PROVE  FilesInv'
  <2>1. q.todo # <<>> => Task(q)
    BY <1>1, <1>3, LoadedTask
  <2>. QED
    BY <1>0, <1>3, <1>4, <2>1, OneTask DEF FilesInv
<1>. QED
  BY <1>1, <1>2, <1>3

LEMMA BeginIs ==
  ASSUME FilesInv, NEW t \in PayTasks, Begin(t)
  PROVE  \E q : pay' = [pay EXCEPT ![t] = q] /\ Task(q) /\ \A s : ~ Did(q, s)
<1>0. PICK u \in Users : \E q \in Requests(u) : pay' = [pay EXCEPT ![t] = q]
  BY DEF Begin
<1>1. PICK q \in Requests(u) : pay' = [pay EXCEPT ![t] = q]
  BY <1>0
<1>2. GoodOffers(files.offers)
  <2>1. files.offers = files["offers"]
    OBVIOUS
  <2>. QED
    BY <2>1 DEF FilesInv, Good, FileNames
<1>. QED
  BY <1>1, <1>2, BeginTask

LEMMA BeginKeeps ==
  ASSUME FilesInv, NEW t \in PayTasks, Begin(t)
  PROVE  FilesInv'
<1>0. files' = files /\ upset' = upset
  BY DEF Begin
<1>1. PICK q : pay' = [pay EXCEPT ![t] = q] /\ Task(q)
  BY BeginIs
<1>. QED
  BY <1>0, <1>1, OneTask DEF FilesInv

\* What a save does to the files.
LEMMA SaveIs ==
  ASSUME FilesInv, NEW t \in PayTasks, Save(t)
  PROVE  \E f \in FileNames :
           /\ Busy(t) /\ Task(pay[t]) /\ Head(pay[t].todo) = S(f) /\ Continue(t, pay[t])
           /\ DOMAIN files' = FileNames /\ files'[f] = Amended(pay[t], f, t) /\ Good(f, files'[f])
           /\ \A g \in FileNames \ {f} : files'[g] = files[g]
           /\ upset \subseteq upset' /\ upset' \subseteq upset \cup {"lost", "string"}
           /\ "lost" \notin upset' => files[f] = pay[t].copy[f]
<1>1. /\ Busy(t) /\ Task(pay[t]) /\ Next1(t)[2] \in FileNames /\ Head(pay[t].todo) = S(Next1(t)[2])
  BY StepAt DEF Save
<1>2. PICK f \in FileNames : f = Next1(t)[2]
  BY <1>1
<1>3. PICK new : new = Amended(pay[t], f, t)
  OBVIOUS
<1>4. PICK more : more = IF f = "ledger" /\ pay[t].cur = "sat"
                            /\ \E u \in Users, c \in Chains :
                                  new.balance[u][c] < pay[t].copy.ledger.balance[u][c]
                         THEN {"string"} ELSE {}
  OBVIOUS
<1>5. /\ files' = [files EXCEPT ![f] = new]
      /\ upset' = upset \cup (IF files[f] # pay[t].copy[f] THEN {"lost"} ELSE {}) \cup more
      /\ Continue(t, pay[t])
  BY <1>2, <1>3, <1>4, Zenon DEF Save
<1>6. more \subseteq {"string"}
  BY <1>4
<1>7. /\ DOMAIN files' = FileNames /\ files'[f] = new
      /\ \A g \in FileNames \ {f} : files'[g] = files[g]
  BY <1>5 DEF FilesInv
<1>8. Good(f, new)
  BY <1>1, <1>2, <1>3, Saved
<1>. QED
  BY <1>1, <1>2, <1>3, <1>5, <1>6, <1>7, <1>8

LEMMA SaveKeeps ==
  ASSUME FilesInv, NEW t \in PayTasks, Save(t)
  PROVE  FilesInv' /\ Onward(pay[t], pay'[t])
<1>1. PICK f \in FileNames :
           /\ Busy(t) /\ Task(pay[t]) /\ Head(pay[t].todo) = S(f) /\ Continue(t, pay[t])
           /\ DOMAIN files' = FileNames /\ files'[f] = Amended(pay[t], f, t) /\ Good(f, files'[f])
           /\ \A g \in FileNames \ {f} : files'[g] = files[g]
           /\ upset \subseteq upset' /\ upset' \subseteq upset \cup {"lost", "string"}
  BY SaveIs
<1>2. \A g : S(f) # L(g) /\ S(f) # Do("scan")
  BY StepsDiffer
<1>3. \A g \in FileNames : Good(g, files'[g])
  BY <1>1 DEF FilesInv
<1>4. upset' \subseteq {"lost", "string", "txo", "failed", "death"}
  BY <1>1 DEF FilesInv
<1>. QED
  BY <1>1, <1>2, <1>3, <1>4, ContinueTask

\* A write that fails.
LEMMA SaveFailsIs ==
  ASSUME FilesInv, NEW t \in PayTasks, SaveFails(t)
  PROVE  /\ FilesInv' /\ upset' = upset \cup {"lost", "failed"} /\ chain' = chain /\ due' = due
         /\ Continue(t, pay[t]) \/ Stop(t)
<1>1. /\ Busy(t) /\ Task(pay[t]) /\ Next1(t)[2] \in FileNames /\ Head(pay[t].todo) = S(Next1(t)[2])
  BY StepAt DEF SaveFails
<1>2. PICK f \in FileNames : f = Next1(t)[2]
  BY <1>1
<1>3. /\ \E v \in {files[f], Blank(f)} : files' = [files EXCEPT ![f] = v]
      /\ IF f = "ledger" THEN Continue(t, pay[t]) ELSE Stop(t)
  BY <1>2, Zenon DEF SaveFails
<1>4. PICK v \in {files[f], Blank(f)} : files' = [files EXCEPT ![f] = v]
  BY <1>3
<1>5. upset' = upset \cup {"lost", "failed"} /\ chain' = chain /\ due' = due
  BY DEF SaveFails
<1>6. DOMAIN files' = FileNames /\ \A g \in FileNames : Good(g, files'[g])
  BY <1>4, BlankGood DEF FilesInv
<1>7. upset' \subseteq {"lost", "string", "txo", "failed", "death"}
  BY <1>5 DEF FilesInv
<1>8. CASE Continue(t, pay[t])
  <2>1. \A g : S(f) # L(g) /\ S(f) # Do("scan")
    BY StepsDiffer
  <2>2. FilesInv'
    BY <1>1, <1>2, <1>6, <1>7, <1>8, <2>1, ContinueTask
  <2>. QED
    BY <1>5, <1>8, <2>2
<1>9. CASE Stop(t)
  <2>1. PICK q : q = [NewTask EXCEPT !.op = "done"]
    OBVIOUS
  <2>2. q.todo = <<>> /\ pay' = [pay EXCEPT ![t] = q]
    BY <1>9, <2>1 DEF NewTask, Stop
  <2>3. FilesInv'
    BY <1>6, <1>7, <2>2, OneTask
  <2>. QED
    BY <1>5, <1>9, <2>3
<1>. QED
  BY <1>3, <1>8, <1>9

\* What a scan of the chains finds.
New(r, answered) ==
  {o \in Outputs : o.chain \in answered /\ o.tweak = r.user
                   /\ o.id \in chain.unspent /\ ~ Recorded(r.copy.utxos, o)}

LEMMA ScanIs ==
  ASSUME FilesInv, NEW t \in PayTasks, ScanChains(t)
  PROVE  /\ Busy(t) /\ Task(pay[t]) /\ Head(pay[t].todo) = Do("scan") /\ BeforeDo(pay[t], "scan")
         /\ \/ Stop(t)
            \/ \E answered \in SUBSET Chains : \E q :
                 LET new == New(pay[t], answered)
                 IN /\ Found(pay[t], q, new)
                    /\ \/ pay' = [pay EXCEPT ![t] = q]
                       \/ /\ pay' = [pay EXCEPT ![t] = Further(q)]
                          /\ NewLedger(Spend(pay[t], new)) = pay[t].copy.ledger
<1>1. Busy(t) /\ Task(pay[t]) /\ Head(pay[t].todo) = Do("scan") /\ BeforeDo(pay[t], "scan")
  BY StepAt DEF ScanChains
<1>2. PICK answered \in SUBSET Chains :
        LET new == New(pay[t], answered)
            q == Spend(pay[t], new)
        IN IF NewLedger(q) # pay[t].copy.ledger THEN Continue(t, q)
           ELSE IF new # {} THEN Continue(t, Further(q))
           ELSE Stop(t)
  BY Zenon DEF ScanChains, New, Spend, Further
<1>3. PICK new : new = New(pay[t], answered)
  OBVIOUS
<1>4. PICK q : q = Further(Spend(pay[t], new))
  OBVIOUS
<1>5. Found(pay[t], q, new)
  BY <1>1, <1>4, SpendFound DEF Task, Asked
<1>6. \/ Stop(t)
      \/ pay' = [pay EXCEPT ![t] = q]
      \/ /\ pay' = [pay EXCEPT ![t] = Further(q)]
         /\ NewLedger(Spend(pay[t], new)) = pay[t].copy.ledger
  BY <1>2, <1>3, <1>4, ContinueIs
<1>. QED
  BY <1>1, <1>3, <1>5, <1>6

LEMMA ScanKeeps ==
  ASSUME FilesInv, NEW t \in PayTasks, ScanChains(t)
  PROVE  FilesInv'
<1>0. files' = files /\ upset' = upset
  BY DEF ScanChains
<1>1. /\ Busy(t) /\ Task(pay[t]) /\ Head(pay[t].todo) = Do("scan") /\ BeforeDo(pay[t], "scan")
      /\ \/ Stop(t)
         \/ \E answered \in SUBSET Chains : \E q :
                 LET new == New(pay[t], answered)
                 IN /\ Found(pay[t], q, new)
                    /\ \/ pay' = [pay EXCEPT ![t] = q]
                       \/ pay' = [pay EXCEPT ![t] = Further(q)]
  BY ScanIs
<1>2. CASE Stop(t)
  BY <1>0, <1>2, StopTask DEF FilesInv
<1>3. ASSUME NEW answered \in SUBSET Chains, NEW q, Found(pay[t], q, New(pay[t], answered)),
             \/ pay' = [pay EXCEPT ![t] = q]
             \/ pay' = [pay EXCEPT ![t] = Further(q)]
      PROVE  FilesInv'
  <2>1. New(pay[t], answered) \subseteq {o \in Theirs : ~ Recorded(pay[t].copy["utxos"], o)}
    BY <1>1, Copies DEF New, Theirs, Task, Asked
  <2>2. q.todo # <<>> /\ Task(q) /\ Head(q.todo) = S("ledger")
    BY <1>1, <1>3, <2>1, FoundTask
  <2>3. PICK q2 : q2 = Further(q)
    OBVIOUS
  <2>4. Onward(q, q2)
    BY <2>2, <2>3, FurtherOnward DEF Task, Asked
  <2>5. q2.todo # <<>> => Task(q2)
    BY <2>2, <2>4, OnwardTask, StepsDiffer
  <2>6. CASE pay' = [pay EXCEPT ![t] = q]
    BY <1>0, <2>2, <2>6, OneTask DEF FilesInv
  <2>7. CASE pay' = [pay EXCEPT ![t] = q2]
    BY <1>0, <2>5, <2>7, OneTask DEF FilesInv
  <2>. QED
    BY <1>3, <2>3, <2>6, <2>7
<1>. QED
  BY <1>1, <1>2, <1>3

\* The steps in the outside world leave the files alone.
LEMMA WorldKeeps ==
  ASSUME FilesInv, NEW t \in PayTasks, Lookup(t) \/ Verify(t) \/ Anchor(t) \/ Broadcast(t)
  PROVE  /\ FilesInv' /\ files' = files /\ upset \subseteq upset' /\ Busy(t) /\ Task(pay[t])
         /\ \/ Stop(t)
            \/ /\ Continue(t, pay[t]) /\ Onward(pay[t], pay'[t])
               /\ (upset' = upset \/ (Verify(t) /\ upset' = upset \cup {"txo"}))
<1>1. PICK x \in {"verify", "lookup", "anchor", "broadcast"} : At(t, x)
  BY DEF Lookup, Verify, VerifyMrc20, VerifyTxo, Anchor, Broadcast
<1>2. Busy(t) /\ Task(pay[t]) /\ Head(pay[t].todo) = Do(x)
  BY <1>1, StepAt
<1>3. /\ files' = files
      /\ \/ Stop(t) /\ upset' \subseteq upset \cup {"failed"} /\ upset \subseteq upset'
         \/ /\ Continue(t, pay[t])
            /\ (upset' = upset \/ (Verify(t) /\ upset' = upset \cup {"txo"}))
  BY DEF Lookup, Verify, VerifyMrc20, VerifyTxo, Anchor, Broadcast, Send
<1>4. CASE Stop(t) /\ upset' \subseteq upset \cup {"failed"} /\ upset \subseteq upset'
  <2>1. upset' \subseteq {"lost", "string", "txo", "failed", "death"}
    BY <1>4 DEF FilesInv
  <2>. QED
    BY <1>2, <1>3, <1>4, <2>1, StopTask
<1>5. CASE Continue(t, pay[t]) /\ (upset' = upset \/ (Verify(t) /\ upset' = upset \cup {"txo"}))
  <2>1. \A f : Do(x) # L(f) /\ Do(x) # Do("scan")
    BY StepsDiffer
  <2>2. DOMAIN files' = FileNames /\ (\A f \in FileNames : Good(f, files'[f]))
        /\ upset' \subseteq {"lost", "string", "txo", "failed", "death"}
    BY <1>3, <1>5 DEF FilesInv
  <2>3. FilesInv' /\ Onward(pay[t], pay'[t])
    BY <1>2, <1>5, <2>1, <2>2, ContinueTask
  <2>. QED
    BY <1>2, <1>3, <1>5, <2>3
<1>. QED
  BY <1>3, <1>4, <1>5

\* Everything that was at work is over after a death.
LEMMA DeathIs ==
  ASSUME FilesInv, Death
  PROVE  /\ FilesInv' /\ chain' = chain /\ "death" \in upset' /\ upset \subseteq upset'
         /\ "lost" \notin upset' => \A f \in FileNames : files'[f] = files[f]
         /\ DOMAIN pay' = PayTasks /\ \A t \in PayTasks : ~ Busy(t)'
<1>1. PICK q : q = [NewTask EXCEPT !.op = "done"]
  OBVIOUS
<1>2. q.todo = <<>>
  BY <1>1 DEF NewTask
<1>3. pay' = [t \in PayTasks |-> IF Busy(t) THEN q ELSE pay[t]]
  BY <1>1 DEF Death
<1>4. DOMAIN pay' = PayTasks /\ \A t \in PayTasks : ~ Busy(t)'
  BY <1>2, <1>3 DEF Busy
<1>5. PICK torn :
        /\ files' = [f \in FileNames |-> IF f \in torn THEN Blank(f) ELSE files[f]]
        /\ upset' = upset \cup {"death"} \cup IF torn = {} THEN {} ELSE {"lost"}
  BY DEF Death
<1>6. /\ DOMAIN files' = FileNames /\ \A f \in FileNames : files'[f] = Blank(f) \/ files'[f] = files[f]
      /\ torn = {} => \A f \in FileNames : files'[f] = files[f]
  BY <1>5
<1>7. /\ \A f \in FileNames : Good(f, files'[f])
      /\ upset' \subseteq {"lost", "string", "txo", "failed", "death"}
  BY <1>5, <1>6, BlankGood DEF FilesInv
<1>8. FilesInv'
  BY <1>4, <1>6, <1>7 DEF FilesInv
<1>9. chain' = chain
  BY DEF Death
<1>. QED
  BY <1>4, <1>5, <1>6, <1>8, <1>9

LEMMA PaysKeeps ==
  ASSUME FilesInv, NEW o \in Outputs, Pays(o)
  PROVE  FilesInv'
BY DEF Pays, FilesInv, Busy

LEMMA StutterKeeps == FilesInv /\ UNCHANGED payVars => FilesInv'
BY DEF FilesInv, Busy, payVars

LEMMA FilesStep == FilesInv /\ [PaymentsNext]_payVars => FilesInv'
<1>. SUFFICES ASSUME FilesInv, [PaymentsNext]_payVars PROVE FilesInv'
  OBVIOUS
<1>1. ASSUME NEW o \in Outputs, Pays(o) PROVE FilesInv'
  BY <1>1, PaysKeeps
<1>2. ASSUME NEW t \in PayTasks, Begin(t) PROVE FilesInv'
  BY <1>2, BeginKeeps
<1>3. ASSUME NEW t \in PayTasks, Load(t) PROVE FilesInv'
  BY <1>3, LoadKeeps
<1>4. ASSUME NEW t \in PayTasks, Save(t) PROVE FilesInv'
  BY <1>4, SaveKeeps
<1>5. ASSUME NEW t \in PayTasks, ScanChains(t) PROVE FilesInv'
  BY <1>5, ScanKeeps
<1>6. ASSUME NEW t \in PayTasks, Lookup(t) \/ Verify(t) \/ Anchor(t) \/ Broadcast(t) PROVE FilesInv'
  BY <1>6, WorldKeeps
<1>7. CASE Death
  BY <1>7, DeathIs
<1>8. CASE UNCHANGED payVars
  BY <1>8, StutterKeeps
<1>9. ASSUME NEW t \in PayTasks, SaveFails(t) PROVE FilesInv'
  BY <1>9, SaveFailsIs
<1>. QED
  BY <1>1, <1>2, <1>3, <1>4, <1>5, <1>6, <1>7, <1>8, <1>9 DEF PaymentsNext

LEMMA FilesAlways == PaymentsSpec => []FilesInv
<1>. QED
  BY FilesStart, FilesStep, PTL DEF PaymentsSpec

\* Every file on its own is what it should be: what is in it has its type, no output was
\* scanned into the ledger twice, and the shares of the pool add up, with something behind them.
LEMMA FilesSound ==
  FilesInv => PaymentsTypeOK /\ ScanCountsOnce /\ PoolSound
<1>. SUFFICES ASSUME FilesInv PROVE PaymentsTypeOK /\ ScanCountsOnce /\ PoolSound
  OBVIOUS
<1>1. /\ files.ledger = files["ledger"] /\ files.pool = files["pool"]
      /\ files.trail = files["trail"] /\ files.replay = files["replay"]
  OBVIOUS
<1>2. GoodLedger(files.ledger) /\ GoodPool(files.pool) /\ GoodTrail(files.trail) /\ GoodReplay(files.replay)
  BY <1>1 DEF FilesInv, Good, FileNames
<1>3. PaymentsTypeOK
  BY <1>2 DEF PaymentsTypeOK, FilesInv, GoodLedger, GoodPool, GoodTrail, GoodReplay, Ledgers, Pools, Trails
<1>4. ScanCountsOnce
  <2>1. \A o \in OutputIds : files.ledger.scanned[o] = 0 \/ files.ledger.scanned[o] = 1
    BY <1>2 DEF GoodLedger
  <2>. QED
    BY <2>1 DEF ScanCountsOnce
<1>5. PoolSound
  BY <1>2 DEF PoolSound, GoodPool
<1>. QED
  BY <1>3, <1>4, <1>5

\* The shares of the pool (loadPool, savePool) add up, and none is out while a reserve is
\* empty: adding, removing and swapping keep it so whatever they overwrite, because a pool is
\* written whole, NewShares is at least 1 and Worth and AmountOut leave something.
THEOREM PoolSoundTheorem == PaymentsSpec => []PoolSound
<1>1. FilesInv => PoolSound
  BY FilesSound
<1>. QED
  BY <1>1, FilesAlways, PTL

-----------------------------------------------------------------------------
(* Deposits are counted once. *)

\* It has recorded what it is about to count.
Past(r) ==
  \/ r.op = "mrc20" /\ Did(r, S("replay"))
  \/ r.op = "claim" /\ Did(r, S("utxos"))

\* It has credited what it is about to record.
Watching(r) == r.op = "scan" /\ Did(r, S("ledger"))

\* What was recorded as used, or seen.
Known(i) == IF i \in Proved THEN i \in files["replay"] ELSE \E u \in files["utxos"] : u.id = i
Counted(i) == files["ledger"].counted[i]
Credited == files["ledger"].credited

Watched(i) ==
  \E t \in PayTasks : Busy(t) /\ Watching(pay[t]) /\ \E o \in pay[t].inputs : o.id = i
Claimant(i) == \E t \in PayTasks : Busy(t) /\ Past(pay[t]) /\ pay[t].item.id = i

\* A request agrees with the files.
Fits(r) ==
  /\ Did(r, L("ledger")) => r.copy["ledger"].credited \subseteq Credited
  /\ Past(r) => Known(r.item.id) /\ Counted(r.item.id) = 0
  /\ r.op = "claim" /\ Did(r, Do("lookup")) => r.item.id \in chain.claimed
  /\ Watching(r) => \A o \in r.inputs : o.id \in Credited

Ids == OutputIds \cup Proved

DepositsInv ==
  "lost" \notin upset =>
    /\ \A t \in PayTasks : Busy(t) => Fits(pay[t])
    /\ \A t, s \in PayTasks : t # s /\ Busy(t) /\ Busy(s) /\ Past(pay[t]) /\ Past(pay[s])
                              => pay[t].item.id # pay[s].item.id
    /\ \A i \in Ids : Counted(i) \in {0, 1} /\ (Counted(i) = 1 => Known(i))
    /\ \A u \in files["utxos"] : u.deposit /\ u.id \notin chain.claimed => u.id \in Credited
    /\ "death" \notin upset =>
         \A i \in Credited : /\ Known(i) \/ Watched(i)
                             /\ Counted(i) = 1 \/ Claimant(i) => Watched(i)

LEMMA DepositsStart == PaymentsInit => DepositsInv
<1>. SUFFICES ASSUME PaymentsInit PROVE DepositsInv
  OBVIOUS
<1>1. /\ files \in FirstFiles /\ pay = [t \in PayTasks |-> NewTask]
      /\ chain.claimed = {u.id : u \in files.utxos}
  BY DEF PaymentsInit
<1>2. files.ledger.credited = {} /\ \A i \in Ids : files.ledger.counted[i] = 0
  BY <1>1, FilesAssumption DEF Ids
<1>3. files.ledger = files["ledger"] /\ files.utxos = files["utxos"]
  OBVIOUS
<1>4. \A t \in PayTasks : ~ Busy(t)
  BY <1>1 DEF Busy, NewTask
<1>5. Credited = {} /\ \A i \in Ids : Counted(i) = 0
  BY <1>2, <1>3 DEF Credited, Counted
<1>6. \A u \in files["utxos"] : u.id \in chain.claimed
  BY <1>1, <1>3
<1>. QED
  BY <1>4, <1>5, <1>6 DEF DepositsInv

\* A step that leaves the ledger, the outputs and what was used alone.
LEMMA CalmStep ==
  ASSUME FilesInv, DepositsInv, "lost" \notin upset', upset \subseteq upset',
         files'["ledger"].credited = Credited, files'["ledger"].counted = files["ledger"].counted,
         files'["utxos"] = files["utxos"],
         files'["replay"] = files["replay"], chain.claimed \subseteq chain'.claimed,
         \A s \in PayTasks : Busy(s)' => Fits(pay[s])',
         \A s \in PayTasks : Busy(s)' /\ Past(pay'[s]) =>
            Busy(s) /\ Past(pay[s]) /\ pay'[s].item = pay[s].item,
         "death" \notin upset' => \A s \in PayTasks : Busy(s) /\ Watching(pay[s]) =>
            Busy(s)' /\ Watching(pay'[s]) /\ pay'[s].inputs = pay[s].inputs
  PROVE  DepositsInv'
<1>0. "lost" \notin upset
  OBVIOUS
<1>1. Credited' = Credited /\ \A i : (Counted(i)' = Counted(i)) /\ (Known(i)' <=> Known(i))
  BY DEF Credited, Counted, Known
<1>2. \A t, s \in PayTasks : t # s /\ Busy(t)' /\ Busy(s)' /\ Past(pay'[t]) /\ Past(pay'[s])
                              => pay'[t].item.id # pay'[s].item.id
  BY <1>0 DEF DepositsInv
<1>3. \A i \in Ids : Counted(i)' \in {0, 1} /\ (Counted(i)' = 1 => Known(i)')
  BY <1>0, <1>1 DEF DepositsInv
<1>4. \A u \in files'["utxos"] : u.deposit /\ u.id \notin chain'.claimed => u.id \in Credited'
  BY <1>0, <1>1 DEF DepositsInv
<1>5. ASSUME "death" \notin upset', NEW i \in Credited'
      PROVE  /\ Known(i)' \/ Watched(i)'
             /\ Counted(i)' = 1 \/ Claimant(i)' => Watched(i)'
  <2>1. "death" \notin upset /\ i \in Credited
    BY <1>1, <1>5
  <2>2. Watched(i) => Watched(i)'
    BY <1>5 DEF Watched
  <2>3. Claimant(i)' => Claimant(i)
    BY DEF Claimant
  <2>. QED
    BY <1>0, <1>1, <2>1, <2>2, <2>3 DEF DepositsInv
<1>. QED
  BY <1>2, <1>3, <1>4, <1>5 DEF DepositsInv

\* A step of one request that counts and records nothing.
Calm(r, q) ==
  /\ q.op = r.op /\ q.item = r.item
  /\ Did(q, L("ledger")) =>
       \/ q.copy["ledger"] = files["ledger"]
       \/ Did(r, L("ledger")) /\ q.copy["ledger"] = r.copy["ledger"]
  /\ Past(q) <=> Past(r)
  /\ Watching(r) => Watching(q) /\ q.inputs = r.inputs
  /\ Watching(q) => Watching(r) \/ \A o \in q.inputs : o.id \in Credited

LEMMA CalmTask ==
  ASSUME FilesInv, DepositsInv, "lost" \notin upset', upset \subseteq upset',
         files'["ledger"].credited = Credited, files'["ledger"].counted = files["ledger"].counted,
         files'["utxos"] = files["utxos"],
         files'["replay"] = files["replay"], chain.claimed \subseteq chain'.claimed,
         NEW t \in PayTasks, NEW q, pay' = [pay EXCEPT ![t] = q],
         \/ q.todo = <<>>
         \/ \A x : ~ Did(q, x)
         \/ /\ Busy(t) /\ Calm(pay[t], q)
            /\ q.op = "claim" /\ Did(q, Do("lookup")) =>
                 Did(pay[t], Do("lookup")) \/ q.item.id \in chain'.claimed,
         Busy(t) /\ Watching(pay[t]) => q.todo # <<>> /\ Calm(pay[t], q)
  PROVE  DepositsInv'
<1>0. "lost" \notin upset
  OBVIOUS
<1>1. pay'[t] = q /\ \A s \in PayTasks \ {t} : pay'[s] = pay[s]
  BY DEF FilesInv
<1>2. Credited' = Credited /\ \A i : (Counted(i)' = Counted(i)) /\ (Known(i)' <=> Known(i))
  BY DEF Credited, Counted, Known
<1>3. \A s \in PayTasks : Busy(s) => Fits(pay[s])
  BY <1>0 DEF DepositsInv
<1>4. ASSUME NEW s \in PayTasks \ {t}, Busy(s)' PROVE Fits(pay[s])'
  <2>1. Fits(pay[s]) /\ pay'[s] = pay[s]
    BY <1>1, <1>3, <1>4 DEF Busy
  <2>. QED
    BY <1>2, <2>1 DEF Fits
<1>5. ASSUME Busy(t)' PROVE Fits(pay[t])'
  <2>0. q.todo # <<>>
    BY <1>1, <1>5 DEF Busy
  <2>1. CASE \A x : ~ Did(q, x)
    <3>1. ~ Past(q) /\ ~ Watching(q)
      BY <2>1 DEF Past, Watching
    <3>. QED
      BY <1>1, <2>1, <3>1 DEF Fits
  <2>2. CASE /\ Busy(t) /\ Calm(pay[t], q)
             /\ q.op = "claim" /\ Did(q, Do("lookup")) =>
                  Did(pay[t], Do("lookup")) \/ q.item.id \in chain'.claimed
    <3>1. Fits(pay[t])
      BY <1>3, <2>2
    <3>2. Did(q, L("ledger")) => q.copy["ledger"].credited \subseteq Credited
      BY <2>2, <3>1 DEF Calm, Fits, Credited
    <3>3. Past(q) => Known(q.item.id) /\ Counted(q.item.id) = 0
      BY <2>2, <3>1 DEF Calm, Fits
    <3>4. q.op = "claim" /\ Did(q, Do("lookup")) => q.item.id \in chain'.claimed
      BY <2>2, <3>1 DEF Calm, Fits
    <3>5. Watching(q) => \A o \in q.inputs : o.id \in Credited
      BY <2>2, <3>1 DEF Calm, Fits
    <3>. QED
      BY <1>1, <1>2, <3>2, <3>3, <3>4, <3>5 DEF Fits
  <2>. QED
    BY <2>0, <2>1, <2>2
<1>6. \A s \in PayTasks : Busy(s)' => Fits(pay[s])'
  BY <1>4, <1>5
<1>7. ASSUME NEW s \in PayTasks, Busy(s)', Past(pay'[s])
      PROVE  Busy(s) /\ Past(pay[s]) /\ pay'[s].item = pay[s].item
  <2>1. CASE s # t
    BY <1>1, <1>7, <2>1 DEF Busy
  <2>2. CASE s = t
    <3>1. q.todo # <<>> /\ Past(q)
      BY <1>1, <1>7, <2>2 DEF Busy
    <3>2. \E x : Did(q, x)
      BY <3>1 DEF Past
    <3>. QED
      BY <1>1, <2>2, <3>1, <3>2 DEF Calm
  <2>. QED
    BY <2>1, <2>2
<1>8. ASSUME NEW s \in PayTasks, Busy(s), Watching(pay[s])
      PROVE  Busy(s)' /\ Watching(pay'[s]) /\ pay'[s].inputs = pay[s].inputs
  <2>1. CASE s # t
    BY <1>1, <1>8, <2>1 DEF Busy
  <2>2. CASE s = t
    BY <1>1, <1>8, <2>2 DEF Busy, Calm
  <2>. QED
    BY <2>1, <2>2
<1>. QED
  BY <1>6, <1>7, <1>8, CalmStep

\* What has been done when a request has gone a step further.
LEMMA DidOnward ==
  ASSUME NEW r, Task(r), NEW q, q.op = r.op, q.todo = Tail(r.todo)
  PROVE  /\ \A x : Did(q, x) <=> Did(r, x) \/ x = Head(r.todo)
         /\ (\A f : Head(r.todo) # S(f)) => (Past(q) <=> Past(r)) /\ (Watching(q) <=> Watching(r))
<1>1. \A x : Did(q, x) <=> Did(r, x) \/ x = Head(r.todo)
  BY Advance DEF Task
<1>. QED
  BY <1>1 DEF Past, Watching

LEMMA LoadCalm ==
  ASSUME FilesInv, DepositsInv, NEW t \in PayTasks, Load(t), "lost" \notin upset'
  PROVE  DepositsInv'
<1>0. files' = files /\ upset' = upset /\ chain' = chain
  BY LoadWhole
<1>1. PICK f \in FileNames :
        /\ Task(pay[t]) /\ Head(pay[t].todo) = L(f)
        /\ \/ Stop(t)
           \/ \E q : pay' = [pay EXCEPT ![t] = q] /\ Loaded(pay[t], q, f, files[f])
  BY LoadWhole
<1>2. ~ Watching(pay[t]) /\ Busy(t)
  <2>1. BeforeLoad(pay[t], f)
    BY <1>1, Order, StepsDiffer DEF Task, Before
  <2>. QED
    BY <1>1, <2>1, StepAt DEF BeforeLoad, Watching, Load
<1>3. CASE Stop(t)
  <2>1. PICK q : q = [NewTask EXCEPT !.op = "done"]
    OBVIOUS
  <2>2. q.todo = <<>> /\ pay' = [pay EXCEPT ![t] = q]
    BY <1>3, <2>1 DEF NewTask, Stop
  <2>. QED
    BY <1>0, <1>2, <2>2, CalmTask DEF Credited
<1>4. ASSUME NEW q, pay' = [pay EXCEPT ![t] = q], Loaded(pay[t], q, f, files[f])
      PROVE  DepositsInv'
  <2>1. /\ \A x : Did(q, x) <=> Did(pay[t], x) \/ x = L(f)
        /\ (Past(q) <=> Past(pay[t])) /\ (Watching(q) <=> Watching(pay[t]))
    BY <1>1, <1>4, DidOnward, StepsDiffer DEF Loaded
  <2>2. Did(q, L("ledger")) =>
          \/ q.copy["ledger"] = files["ledger"]
          \/ Did(pay[t], L("ledger")) /\ q.copy["ledger"] = pay[t].copy["ledger"]
    BY <1>4, <2>1, StepsDiffer DEF Loaded, FileNames
  <2>3. Calm(pay[t], q)
    BY <1>2, <1>4, <2>1, <2>2 DEF Calm, Loaded
  <2>4. Did(q, Do("lookup")) => Did(pay[t], Do("lookup"))
    BY <2>1, StepsDiffer
  <2>. QED
    BY <1>0, <1>2, <1>4, <2>3, <2>4, CalmTask DEF Credited
<1>. QED
  BY <1>1, <1>3, <1>4

LEMMA BeginCalm ==
  ASSUME FilesInv, DepositsInv, NEW t \in PayTasks, Begin(t), "lost" \notin upset'
  PROVE  DepositsInv'
<1>0. files' = files /\ upset' = upset /\ chain' = chain /\ pay[t].op = "idle"
  BY DEF Begin
<1>1. PICK q : pay' = [pay EXCEPT ![t] = q] /\ \A x : ~ Did(q, x)
  BY BeginIs
<1>2. ~ Busy(t)
  BY <1>0 DEF FilesInv, Task, Shaped, Ops
<1>. QED
  BY <1>0, <1>1, <1>2, CalmTask DEF Credited

\* The outside world.
WorldShape == DOMAIN chain = {"unspent", "tip", "claimed", "paid"}

LEMMA WorldStart == PaymentsInit => WorldShape
BY DEF PaymentsInit, WorldShape

LEMMA WorldStep == WorldShape /\ [PaymentsNext]_payVars => WorldShape'
<1>. SUFFICES ASSUME WorldShape, [PaymentsNext]_payVars PROVE DOMAIN chain' = DOMAIN chain
  BY DEF WorldShape
<1>1. ASSUME NEW o \in Outputs, Pays(o) PROVE DOMAIN chain' = DOMAIN chain
  BY <1>1 DEF Pays
<1>2. ASSUME NEW t \in PayTasks, Begin(t) \/ Load(t) \/ ScanChains(t) \/ Verify(t)
      PROVE  DOMAIN chain' = DOMAIN chain
  BY <1>2 DEF Begin, Load, ScanChains, Verify, VerifyMrc20, VerifyTxo
<1>3. ASSUME NEW t \in PayTasks, Save(t) PROVE DOMAIN chain' = DOMAIN chain
  BY <1>3, Zenon DEF Save
<1>7. ASSUME NEW t \in PayTasks, SaveFails(t) PROVE DOMAIN chain' = DOMAIN chain
  BY <1>7, Zenon DEF SaveFails
<1>4. ASSUME NEW t \in PayTasks, Lookup(t) PROVE DOMAIN chain' = DOMAIN chain
  BY <1>4 DEF Lookup
<1>5. ASSUME NEW t \in PayTasks, Anchor(t) PROVE DOMAIN chain' = DOMAIN chain
  BY <1>5 DEF Anchor, Send
<1>6. ASSUME NEW t \in PayTasks, Broadcast(t) PROVE DOMAIN chain' = DOMAIN chain
  BY <1>6 DEF Broadcast, Send
<1>. QED
  BY <1>1, <1>2, <1>3, <1>4, <1>5, <1>6, <1>7 DEF PaymentsNext, Death, payVars

\* What was claimed stays so.
LEMMA ClaimedGrows ==
  ASSUME WorldShape, NEW t \in PayTasks, Lookup(t) \/ Verify(t) \/ Anchor(t) \/ Broadcast(t)
  PROVE  chain.claimed \subseteq chain'.claimed
<1>1. CASE Lookup(t)
  BY <1>1 DEF Lookup, WorldShape
<1>2. CASE Verify(t)
  BY <1>2 DEF Verify, VerifyMrc20, VerifyTxo
<1>3. CASE Anchor(t)
  BY <1>3 DEF Anchor, Send, WorldShape
<1>4. CASE Broadcast(t)
  BY <1>4 DEF Broadcast, Send, WorldShape
<1>. QED
  BY <1>1, <1>2, <1>3, <1>4

LEMMA WorldCalm ==
  ASSUME FilesInv, WorldShape, DepositsInv, NEW t \in PayTasks, "lost" \notin upset',
         Lookup(t) \/ Verify(t) \/ Anchor(t) \/ Broadcast(t)
  PROVE  DepositsInv'
<1>1. /\ files' = files /\ upset \subseteq upset' /\ Busy(t) /\ Task(pay[t])
      /\ \/ Stop(t)
         \/ Continue(t, pay[t]) /\ Onward(pay[t], pay'[t])
  BY WorldKeeps
<1>2. PICK x \in {"verify", "lookup", "anchor", "broadcast"} : At(t, x)
  BY DEF Lookup, Verify, VerifyMrc20, VerifyTxo, Anchor, Broadcast
<1>3. Head(pay[t].todo) = Do(x) /\ BeforeDo(pay[t], x)
  BY <1>2, StepAt
<1>4. ~ Watching(pay[t])
  BY <1>3 DEF BeforeDo, Watching
<1>5. chain.claimed \subseteq chain'.claimed
  BY ClaimedGrows
<1>6. CASE Stop(t)
  <2>1. PICK q : q = [NewTask EXCEPT !.op = "done"]
    OBVIOUS
  <2>2. q.todo = <<>> /\ pay' = [pay EXCEPT ![t] = q]
    BY <1>6, <2>1 DEF NewTask, Stop
  <2>. QED
    BY <1>1, <1>4, <1>5, <2>2, CalmTask DEF Credited
<1>7. CASE Continue(t, pay[t]) /\ Onward(pay[t], pay'[t])
  <2>1. PICK q : q = Further(pay[t])
    OBVIOUS
  <2>2. pay' = [pay EXCEPT ![t] = q] /\ pay'[t] = q /\ Onward(pay[t], q)
    BY <1>7, <2>1, ContinueIs DEF FilesInv
  <2>3. /\ \A y : Did(q, y) <=> Did(pay[t], y) \/ y = Do(x)
        /\ (Past(q) <=> Past(pay[t])) /\ (Watching(q) <=> Watching(pay[t]))
    BY <1>1, <1>3, <2>2, DidOnward, StepsDiffer DEF Onward
  <2>4. Did(q, L("ledger")) => Did(pay[t], L("ledger"))
    BY <2>3, StepsDiffer
  <2>5. Calm(pay[t], q)
    BY <1>4, <2>2, <2>3, <2>4 DEF Calm, Onward
  <2>6. q.op = "claim" /\ Did(q, Do("lookup")) =>
          Did(pay[t], Do("lookup")) \/ q.item.id \in chain'.claimed
    <3>. SUFFICES ASSUME q.op = "claim", Did(q, Do("lookup")), ~ Did(pay[t], Do("lookup"))
                  PROVE  q.item.id \in chain'.claimed
      OBVIOUS
    <3>1. x = "lookup"
      BY <2>3, StepsDiffer
    <3>2. Lookup(t)
      <4>1. Head(pay[t].todo)[1] = x
        BY <1>2 DEF At, Next1
      <4>. QED
        BY <3>1, <4>1 DEF Lookup, Verify, VerifyMrc20, VerifyTxo, Anchor, Broadcast, At, Next1
    <3>3. ~ Stop(t)
      <4>1. q.todo # <<>> \/ q.op # "done"
        OBVIOUS
      <4>2. Stop(t) => pay'[t].op = "done"
        BY DEF Stop, FilesInv, NewTask
      <4>. QED
        BY <2>2, <4>2
    <3>4. chain' = [chain EXCEPT !.claimed = @ \cup {pay[t].item.id}]
      BY <3>2, <3>3 DEF Lookup
    <3>. QED
      BY <2>2, <3>4 DEF WorldShape, Onward
  <2>. QED
    BY <1>1, <1>4, <1>5, <2>2, <2>5, <2>6, CalmTask DEF Credited
<1>. QED
  BY <1>1, <1>6, <1>7

LEMMA ScanCalm ==
  ASSUME FilesInv, DepositsInv, NEW t \in PayTasks, ScanChains(t), "lost" \notin upset'
  PROVE  DepositsInv'
<1>0. files' = files /\ upset' = upset /\ chain' = chain
  BY DEF ScanChains
<1>1. /\ Busy(t) /\ Task(pay[t]) /\ Head(pay[t].todo) = Do("scan") /\ BeforeDo(pay[t], "scan")
      /\ \/ Stop(t)
         \/ \E answered \in SUBSET Chains : \E q :
                 LET new == New(pay[t], answered)
                 IN /\ Found(pay[t], q, new)
                    /\ \/ pay' = [pay EXCEPT ![t] = q]
                       \/ /\ pay' = [pay EXCEPT ![t] = Further(q)]
                          /\ NewLedger(Spend(pay[t], new)) = pay[t].copy.ledger
  BY ScanIs
<1>2. ~ Watching(pay[t]) /\ pay[t].op = "scan" /\ Did(pay[t], L("ledger"))
  BY <1>1 DEF BeforeDo, Watching
<1>3. CASE Stop(t)
  <2>1. PICK q : q = [NewTask EXCEPT !.op = "done"]
    OBVIOUS
  <2>2. q.todo = <<>> /\ pay' = [pay EXCEPT ![t] = q]
    BY <1>3, <2>1 DEF NewTask, Stop
  <2>. QED
    BY <1>0, <1>2, <2>2, CalmTask DEF Credited
<1>4. ASSUME NEW answered \in SUBSET Chains, NEW q, NEW new, new = New(pay[t], answered),
             Found(pay[t], q, new),
             \/ pay' = [pay EXCEPT ![t] = q]
             \/ /\ pay' = [pay EXCEPT ![t] = Further(q)]
                /\ NewLedger(Spend(pay[t], new)) = pay[t].copy.ledger
      PROVE  DepositsInv'
  <2>1. new \subseteq {o \in Theirs : ~ Recorded(pay[t].copy["utxos"], o)}
    BY <1>1, <1>4, Copies DEF New, Theirs, Task, Asked
  <2>2. q.todo # <<>> /\ Task(q) /\ Head(q.todo) = S("ledger")
    BY <1>1, <1>4, <2>1, FoundTask
  <2>3. /\ \A x : Did(q, x) <=> Did(pay[t], x) \/ x = Do("scan")
        /\ q.op = "scan" /\ ~ Past(q) /\ ~ Past(pay[t]) /\ ~ Watching(q)
    <3>1. \A x : Did(q, x) <=> Did(pay[t], x) \/ x = Do("scan")
      BY <1>1, <1>4, DidOnward DEF Found
    <3>. QED
      BY <1>2, <1>4, <3>1, StepsDiffer DEF Found, Past, Watching
  <2>4. CASE pay' = [pay EXCEPT ![t] = q]
    <3>1. Calm(pay[t], q)
      BY <1>2, <1>4, <2>3 DEF Calm, Found
    <3>. QED
      BY <1>0, <1>1, <1>2, <2>3, <2>4, <3>1, CalmTask DEF Credited
  <2>5. CASE /\ pay' = [pay EXCEPT ![t] = Further(q)]
             /\ NewLedger(Spend(pay[t], new)) = pay[t].copy.ledger
    <3>1. PICK z : z = Further(q)
      OBVIOUS
    <3>2. Onward(q, z)
      BY <2>2, <3>1, FurtherOnward DEF Task, Asked
    <3>3. /\ \A x : Did(z, x) <=> Did(q, x) \/ x = S("ledger")
          /\ z.op = "scan" /\ ~ Past(z) /\ z.inputs = new /\ z.item = pay[t].item
          /\ z.copy = pay[t].copy
      <4>1. \A x : Did(z, x) <=> Did(q, x) \/ x = S("ledger")
        BY <2>2, <3>2, DidOnward DEF Onward
      <4>. QED
        BY <1>4, <2>3, <3>2, <4>1 DEF Onward, Found, Past
    <3>4. \A o \in new : o.id \in Credited
      <4>. DEFINE l == pay[t].copy["ledger"]
      <4>1. GoodLedger(l)
        BY <1>1, <1>2 DEF Task, Good, FileNames
      <4>2. NewLedger(Spend(pay[t], new)) = Credits(l, new)
        <5>1. PICK k : k = Spend(pay[t], new)
          OBVIOUS
        <5>2. k.op = "scan" /\ k.inputs = new /\ k.copy = pay[t].copy
          BY <1>1, <1>2, <5>1 DEF Spend, Task, Asked, Fields
        <5>3. NewLedger(k) = Credits(l, new)
          BY <5>2, Copies DEF NewLedger, Credits
        <5>. QED
          BY <5>1, <5>3
      <4>3. Credits(l, new).credited = l.credited \cup {o.id : o \in new}
        BY <2>1, <4>1, CreditsGood
      <4>4. l = pay[t].copy.ledger
        BY Copies
      <4>5. \A o \in new : o.id \in l.credited
        BY <2>5, <4>2, <4>3, <4>4
      <4>6. l.credited \subseteq Credited
        <5>1. Fits(pay[t])
          BY <1>0, <1>1 DEF DepositsInv
        <5>. QED
          BY <1>2, <5>1 DEF Fits
      <4>. QED
        BY <4>5, <4>6
    <3>5. Calm(pay[t], z)
      BY <1>2, <2>3, <3>3, <3>4 DEF Calm
    <3>. QED
      BY <1>0, <1>1, <1>2, <2>5, <3>1, <3>3, <3>5, CalmTask DEF Credited
  <2>. QED
    BY <1>4, <2>4, <2>5
<1>. QED
  BY <1>1, <1>3, <1>4

LEMMA OthersCalm ==
  ASSUME FilesInv, WorldShape, DepositsInv, "lost" \notin upset',
         (\E o \in Outputs : Pays(o)) \/ Death \/ UNCHANGED payVars
  PROVE  DepositsInv'
<1>1. CASE Death
  <2>1. /\ files'["ledger"] = files["ledger"] /\ files'["utxos"] = files["utxos"]
        /\ files'["replay"] = files["replay"] /\ chain' = chain
        /\ "death" \in upset' /\ upset \subseteq upset' /\ \A t \in PayTasks : ~ Busy(t)'
    BY <1>1, DeathIs DEF FileNames
  <2>. QED
    BY <2>1, CalmStep DEF Credited
<1>2. CASE (\E o \in Outputs : Pays(o)) \/ UNCHANGED payVars
  <2>1. files' = files /\ pay' = pay /\ upset' = upset /\ chain'.claimed = chain.claimed
    BY <1>2 DEF Pays, payVars, WorldShape
  <2>2. \A t \in PayTasks : Busy(t)' <=> Busy(t)
    BY <2>1 DEF Busy
  <2>3. ASSUME NEW t \in PayTasks, Busy(t)' PROVE Fits(pay[t])'
    <3>1. Fits(pay[t])
      BY <2>1, <2>2, <2>3 DEF DepositsInv
    <3>. QED
      BY <2>1, <3>1 DEF Fits, Credited, Known, Counted
  <2>. QED
    BY <2>1, <2>2, <2>3, CalmStep DEF Credited
<1>. QED
  BY <1>1, <1>2

\* A save of a file that deposits have nothing to do with.
LEMMA SaveElsewhere ==
  ASSUME FilesInv, DepositsInv, NEW t \in PayTasks, Save(t), "lost" \notin upset',
         NEW f \in {"trail", "offers", "pool"}, Head(pay[t].todo) = S(f)
  PROVE  DepositsInv'
<1>0. chain' = chain
  BY Zenon DEF Save
<1>1. /\ Busy(t) /\ Task(pay[t]) /\ Continue(t, pay[t])
      /\ \A g \in FileNames \ {f} : files'[g] = files[g]
      /\ upset \subseteq upset'
  BY SaveIs, StepsDiffer
<1>2. files'["ledger"] = files["ledger"] /\ files'["utxos"] = files["utxos"]
      /\ files'["replay"] = files["replay"]
  BY <1>1 DEF FileNames
<1>3. PICK q : q = Further(pay[t])
  OBVIOUS
<1>4. pay' = [pay EXCEPT ![t] = q] /\ Onward(pay[t], q)
  BY <1>1, <1>3, ContinueIs, FurtherOnward DEF Task, Asked
<1>5. \A x : Did(q, x) <=> Did(pay[t], x) \/ x = S(f)
  BY <1>1, <1>4, DidOnward DEF Onward
<1>6. /\ Past(q) <=> Past(pay[t])
      /\ Watching(q) <=> Watching(pay[t])
      /\ Did(q, L("ledger")) => Did(pay[t], L("ledger"))
      /\ Did(q, Do("lookup")) => Did(pay[t], Do("lookup"))
  BY <1>4, <1>5, StepsDiffer DEF Past, Watching, Onward
<1>7. pay[t].op # "scan"
  <2>1. BeforeSave(pay[t], f)
    BY <1>1, AtSave
  <2>. QED
    BY <2>1 DEF BeforeSave, TrailOps, PoolOps
<1>8. Calm(pay[t], q)
  BY <1>4, <1>6 DEF Calm, Onward
<1>9. ~ Watching(pay[t])
  BY <1>7 DEF Watching
<1>. QED
  BY <1>0, <1>1, <1>2, <1>4, <1>6, <1>8, <1>9, CalmTask DEF Credited

\* A save: the file as it was read is the file as it is.
LEMMA SaveFacts ==
  ASSUME FilesInv, DepositsInv, NEW t \in PayTasks, Save(t), "lost" \notin upset',
         NEW f, Head(pay[t].todo) = S(f)
  PROVE  /\ Busy(t) /\ Task(pay[t]) /\ BeforeSave(pay[t], f) /\ f \in FileNames /\ Checked(pay[t])
         /\ Asked(pay[t]) /\ Good(f, files[f])
         /\ files[f] = pay[t].copy[f] /\ files'[f] = Amended(pay[t], f, t)
         /\ \A g \in FileNames \ {f} : files'[g] = files[g]
         /\ "lost" \notin upset /\ upset \subseteq upset' /\ chain' = chain /\ Fits(pay[t])
         /\ \E q : /\ pay' = [pay EXCEPT ![t] = q] /\ pay'[t] = q /\ Onward(pay[t], q)
                   /\ \A x : Did(q, x) <=> Did(pay[t], x) \/ x = S(f)
                   /\ \A s \in PayTasks \ {t} : pay'[s] = pay[s] /\ (Busy(s)' <=> Busy(s))
<1>0. chain' = chain
  BY Zenon DEF Save
<1>1. /\ Busy(t) /\ Task(pay[t]) /\ Continue(t, pay[t]) /\ f \in FileNames
      /\ files'[f] = Amended(pay[t], f, t)
      /\ \A g \in FileNames \ {f} : files'[g] = files[g]
      /\ upset \subseteq upset' /\ files[f] = pay[t].copy[f]
  BY SaveIs, StepsDiffer
<1>2. PICK q : q = Further(pay[t])
  OBVIOUS
<1>3. pay' = [pay EXCEPT ![t] = q] /\ Onward(pay[t], q)
  BY <1>1, <1>2, ContinueIs, FurtherOnward DEF Task, Asked
<1>4. \A x : Did(q, x) <=> Did(pay[t], x) \/ x = S(f)
  BY <1>1, <1>3, DidOnward DEF Onward
<1>5. pay'[t] = q /\ \A s \in PayTasks \ {t} : pay'[s] = pay[s] /\ (Busy(s)' <=> Busy(s))
  BY <1>3 DEF FilesInv, Busy
<1>6. BeforeSave(pay[t], f) /\ Checked(pay[t]) /\ Asked(pay[t])
  BY <1>1, AtSave
<1>7. Fits(pay[t]) /\ Good(f, files[f]) /\ "lost" \notin upset
  BY <1>1 DEF DepositsInv, FilesInv
<1>. QED
  BY <1>0, <1>1, <1>3, <1>4, <1>5, <1>6, <1>7

\* A token state is recorded as used.
LEMMA SaveReplay ==
  ASSUME FilesInv, DepositsInv, NEW t \in PayTasks, Save(t), "lost" \notin upset',
         Head(pay[t].todo) = S("replay")
  PROVE  DepositsInv'
<1>0. PICK i : i = pay[t].item.id
  OBVIOUS
<1>1. /\ Busy(t) /\ Task(pay[t]) /\ BeforeSave(pay[t], "replay") /\ "replay" \in FileNames
      /\ Checked(pay[t]) /\ Asked(pay[t])
      /\ files["replay"] = pay[t].copy["replay"] /\ files'["replay"] = Amended(pay[t], "replay", t)
      /\ \A g \in FileNames \ {"replay"} : files'[g] = files[g]
      /\ "lost" \notin upset /\ upset \subseteq upset' /\ chain' = chain /\ Fits(pay[t])
  BY SaveFacts
<1>2. PICK q : /\ pay' = [pay EXCEPT ![t] = q] /\ pay'[t] = q /\ Onward(pay[t], q)
               /\ \A x : Did(q, x) <=> Did(pay[t], x) \/ x = S("replay")
               /\ \A s \in PayTasks \ {t} : pay'[s] = pay[s] /\ (Busy(s)' <=> Busy(s))
  BY SaveFacts
<1>3. files'["ledger"] = files["ledger"] /\ files'["utxos"] = files["utxos"]
  BY <1>1 DEF FileNames
<1>4. /\ pay[t].op = "mrc20" /\ i \in Proved /\ i \notin files["replay"]
      /\ files'["replay"] = files["replay"] \cup {i}
  BY <1>0, <1>1, Copies DEF BeforeSave, Asked, Checked, Proved, Amended
<1>5. /\ Credited' = Credited /\ \A j : (Counted(j)' = Counted(j)) /\ (Known(j) => Known(j)')
      /\ ~ Known(i) /\ Known(i)'
  BY <1>3, <1>4 DEF Credited, Counted, Known
<1>6. /\ \A s \in PayTasks : Busy(s) => Fits(pay[s])
      /\ \A r, s \in PayTasks : r # s /\ Busy(r) /\ Busy(s) /\ Past(pay[r]) /\ Past(pay[s])
                              => pay[r].item.id # pay[s].item.id
      /\ \A j \in Ids : Counted(j) \in {0, 1} /\ (Counted(j) = 1 => Known(j))
      /\ \A u \in files["utxos"] : u.deposit /\ u.id \notin chain.claimed => u.id \in Credited
      /\ "death" \notin upset =>
         \A j \in Credited : /\ Known(j) \/ Watched(j)
                             /\ Counted(j) = 1 \/ Claimant(j) => Watched(j)
  BY <1>1 DEF DepositsInv
<1>7. Counted(i) = 0
  BY <1>4, <1>5, <1>6 DEF Ids
<1>8. \A s \in PayTasks : Busy(s) /\ Past(pay[s]) => pay[s].item.id # i
  BY <1>5, <1>6 DEF Fits
<1>9. ~ Watching(q) /\ ~ Watching(pay[t]) /\ q.item = pay[t].item /\ q.op = "mrc20"
  BY <1>2, <1>4 DEF Watching, Onward
<1>10. ASSUME NEW s \in PayTasks, Busy(s)' PROVE Fits(pay[s])'
  <2>1. CASE s # t
    <3>1. Fits(pay[s]) /\ pay'[s] = pay[s]
      BY <1>2, <1>6, <1>10, <2>1
    <3>. QED
      BY <1>1, <1>5, <3>1 DEF Fits
  <2>2. CASE s = t
    <3>1. Did(q, L("ledger")) => q.copy["ledger"].credited \subseteq Credited
      <4>1. Did(q, L("ledger")) => Did(pay[t], L("ledger"))
        BY <1>2, StepsDiffer
      <4>. QED
        BY <1>1, <1>2, <4>1 DEF Fits, Onward
    <3>2. q.item.id = i
      BY <1>0, <1>9
    <3>. QED
      BY <1>2, <1>5, <1>7, <1>9, <2>2, <3>1, <3>2 DEF Fits
  <2>. QED
    BY <2>1, <2>2
<1>11. \A r, s \in PayTasks : r # s /\ Busy(r)' /\ Busy(s)' /\ Past(pay'[r]) /\ Past(pay'[s])
                              => pay'[r].item.id # pay'[s].item.id
  BY <1>0, <1>2, <1>6, <1>8, <1>9
<1>12. \A j \in Ids : Counted(j)' \in {0, 1} /\ (Counted(j)' = 1 => Known(j)')
  BY <1>5, <1>6
<1>13. \A u \in files'["utxos"] : u.deposit /\ u.id \notin chain'.claimed => u.id \in Credited'
  BY <1>1, <1>3, <1>5, <1>6
<1>14. ASSUME "death" \notin upset', NEW j \in Credited'
       PROVE  /\ Known(j)' \/ Watched(j)'
              /\ Counted(j)' = 1 \/ Claimant(j)' => Watched(j)'
  <2>1. "death" \notin upset /\ j \in Credited /\ j # i
    <3>1. Credited \subseteq OutputIds
      <4>1. GoodLedger(files["ledger"])
        BY DEF FilesInv, Good, FileNames
      <4>. QED
        BY <4>1 DEF GoodLedger, Ledgers, Credited
    <3>. QED
      BY <1>1, <1>4, <1>5, <1>14, <3>1, DepositsAssumption
  <2>2. Watched(j) => Watched(j)'
    BY <1>2, <1>9 DEF Watched
  <2>3. Claimant(j)' => Claimant(j)
    BY <1>0, <1>2, <1>9, <2>1 DEF Claimant
  <2>. QED
    BY <1>5, <1>6, <2>1, <2>2, <2>3
<1>. QED
  BY <1>10, <1>11, <1>12, <1>13, <1>14 DEF DepositsInv

\* The ledger is saved by a request that brings no deposit.
LEMMA SaveOther ==
  ASSUME FilesInv, DepositsInv, NEW t \in PayTasks, Save(t), "lost" \notin upset',
         Head(pay[t].todo) = S("ledger"), pay[t].op \notin {"scan", "claim", "mrc20"}
  PROVE  DepositsInv'
<1>1. /\ Busy(t) /\ Task(pay[t]) /\ "ledger" \in FileNames
      /\ files["ledger"] = pay[t].copy["ledger"] /\ files'["ledger"] = Amended(pay[t], "ledger", t)
      /\ \A g \in FileNames \ {"ledger"} : files'[g] = files[g]
      /\ "lost" \notin upset /\ upset \subseteq upset' /\ chain' = chain
  BY SaveFacts
<1>2. PICK q : /\ pay' = [pay EXCEPT ![t] = q] /\ pay'[t] = q /\ Onward(pay[t], q)
               /\ \A x : Did(q, x) <=> Did(pay[t], x) \/ x = S("ledger")
  BY SaveFacts
<1>3. files'["replay"] = files["replay"] /\ files'["utxos"] = files["utxos"]
  BY <1>1 DEF FileNames
<1>4. Same(files["ledger"], files'["ledger"])
  BY <1>1, LedgerSaved DEF Amended
<1>5. /\ ~ Past(q) /\ ~ Past(pay[t]) /\ ~ Watching(q) /\ ~ Watching(pay[t])
      /\ q.op # "claim" /\ q.item = pay[t].item /\ q.op = pay[t].op
  BY <1>2 DEF Past, Watching, Onward
<1>6. Did(q, L("ledger")) => Did(pay[t], L("ledger"))
  BY <1>2, StepsDiffer
<1>7. Calm(pay[t], q)
  BY <1>2, <1>5, <1>6 DEF Calm, Onward
<1>8. files'["ledger"].credited = Credited /\ files'["ledger"].counted = files["ledger"].counted
  BY <1>4 DEF Same, Credited
<1>. QED
  BY <1>1, <1>2, <1>3, <1>5, <1>7, <1>8, CalmTask

\* A scan has its outputs credited.
LEMMA SaveCredits ==
  ASSUME FilesInv, DepositsInv, NEW t \in PayTasks, Save(t), "lost" \notin upset',
         Head(pay[t].todo) = S("ledger"), pay[t].op = "scan"
  PROVE  DepositsInv'
<1>1. /\ Busy(t) /\ Task(pay[t]) /\ BeforeSave(pay[t], "ledger") /\ "ledger" \in FileNames
      /\ files["ledger"] = pay[t].copy["ledger"] /\ files'["ledger"] = Amended(pay[t], "ledger", t)
      /\ \A g \in FileNames \ {"ledger"} : files'[g] = files[g]
      /\ "lost" \notin upset /\ upset \subseteq upset' /\ chain' = chain /\ Fits(pay[t])
  BY SaveFacts
<1>2. PICK q : /\ pay' = [pay EXCEPT ![t] = q] /\ pay'[t] = q /\ Onward(pay[t], q)
               /\ \A x : Did(q, x) <=> Did(pay[t], x) \/ x = S("ledger")
               /\ \A s \in PayTasks \ {t} : pay'[s] = pay[s] /\ (Busy(s)' <=> Busy(s))
  BY SaveFacts
<1>3. files'["replay"] = files["replay"] /\ files'["utxos"] = files["utxos"]
  BY <1>1 DEF FileNames
<1>4. PICK T : T = {o.id : o \in pay[t].inputs}
  OBVIOUS
<1>5. /\ files'["ledger"].credited = files["ledger"].credited \cup T
      /\ files'["ledger"].counted = files["ledger"].counted
  BY <1>1, <1>4, LedgerSaved DEF Amended
<1>6. /\ Credited' = Credited \cup T
      /\ \A j : (Counted(j)' = Counted(j)) /\ (Known(j)' <=> Known(j))
  BY <1>3, <1>5 DEF Credited, Counted, Known
<1>7. /\ \A s \in PayTasks : Busy(s) => Fits(pay[s])
      /\ \A r, s \in PayTasks : r # s /\ Busy(r) /\ Busy(s) /\ Past(pay[r]) /\ Past(pay[s])
                              => pay[r].item.id # pay[s].item.id
      /\ \A j \in Ids : Counted(j) \in {0, 1} /\ (Counted(j) = 1 => Known(j))
      /\ \A u \in files["utxos"] : u.deposit /\ u.id \notin chain.claimed => u.id \in Credited
      /\ "death" \notin upset =>
         \A j \in Credited : /\ Known(j) \/ Watched(j)
                             /\ Counted(j) = 1 \/ Claimant(j) => Watched(j)
  BY <1>1 DEF DepositsInv
<1>8. /\ Watching(q) /\ ~ Past(q) /\ ~ Past(pay[t]) /\ q.inputs = pay[t].inputs /\ q.op = "scan"
      /\ q.todo # <<>> /\ Busy(t)'
  BY <1>1, <1>2 DEF Watching, Onward, Past, BeforeSave, Busy
<1>9. ASSUME NEW s \in PayTasks, Busy(s)' PROVE Fits(pay[s])'
  <2>1. CASE s # t
    <3>1. Fits(pay[s]) /\ pay'[s] = pay[s]
      BY <1>2, <1>7, <1>9, <2>1
    <3>. QED
      BY <1>1, <1>6, <3>1 DEF Fits
  <2>2. CASE s = t
    <3>1. Did(q, L("ledger")) => q.copy["ledger"].credited \subseteq Credited
      <4>1. Did(q, L("ledger")) => Did(pay[t], L("ledger"))
        BY <1>2, StepsDiffer
      <4>. QED
        BY <1>1, <1>2, <4>1 DEF Fits, Onward
    <3>2. \A o \in q.inputs : o.id \in Credited'
      BY <1>4, <1>6, <1>8
    <3>. QED
      BY <1>2, <1>6, <1>8, <2>2, <3>1, <3>2 DEF Fits
  <2>. QED
    BY <2>1, <2>2
<1>10. \A r, s \in PayTasks : r # s /\ Busy(r)' /\ Busy(s)' /\ Past(pay'[r]) /\ Past(pay'[s])
                              => pay'[r].item.id # pay'[s].item.id
  BY <1>2, <1>7, <1>8
<1>11. \A j \in Ids : Counted(j)' \in {0, 1} /\ (Counted(j)' = 1 => Known(j)')
  BY <1>6, <1>7
<1>12. \A u \in files'["utxos"] : u.deposit /\ u.id \notin chain'.claimed => u.id \in Credited'
  BY <1>1, <1>3, <1>6, <1>7
<1>13. ASSUME "death" \notin upset', NEW j \in Credited'
       PROVE  /\ Known(j)' \/ Watched(j)'
              /\ Counted(j)' = 1 \/ Claimant(j)' => Watched(j)'
  <2>1. CASE j \in T
    <3>1. PICK o \in q.inputs : o.id = j
      BY <1>4, <1>8, <2>1
    <3>2. Watched(j)'
      BY <1>2, <1>8, <3>1 DEF Watched
    <3>. QED
      BY <3>2
  <2>2. CASE j \notin T
    <3>1. "death" \notin upset /\ j \in Credited
      BY <1>1, <1>6, <1>13, <2>2
    <3>2. Watched(j) => Watched(j)'
      BY <1>2, <1>8 DEF Watched
    <3>3. Claimant(j)' => Claimant(j)
      BY <1>2, <1>8 DEF Claimant
    <3>. QED
      BY <1>6, <1>7, <3>1, <3>2, <3>3
  <2>. QED
    BY <2>1, <2>2
<1>. QED
  BY <1>9, <1>10, <1>11, <1>12, <1>13 DEF DepositsInv

\* A deposit that was claimed or presented is counted.
LEMMA SaveCounts ==
  ASSUME FilesInv, DepositsInv, NEW t \in PayTasks, Save(t), "lost" \notin upset',
         Head(pay[t].todo) = S("ledger"), pay[t].op \in {"claim", "mrc20"}
  PROVE  DepositsInv'
<1>0. PICK i : i = pay[t].item.id
  OBVIOUS
<1>1. /\ Busy(t) /\ Task(pay[t]) /\ BeforeSave(pay[t], "ledger") /\ "ledger" \in FileNames /\ Asked(pay[t])
      /\ files["ledger"] = pay[t].copy["ledger"] /\ files'["ledger"] = Amended(pay[t], "ledger", t)
      /\ \A g \in FileNames \ {"ledger"} : files'[g] = files[g]
      /\ "lost" \notin upset /\ upset \subseteq upset' /\ chain' = chain /\ Fits(pay[t])
      /\ Good("ledger", files["ledger"])
  BY SaveFacts
<1>2. PICK q : /\ pay' = [pay EXCEPT ![t] = q] /\ pay'[t] = q /\ Onward(pay[t], q)
               /\ \A s \in PayTasks \ {t} : pay'[s] = pay[s] /\ (Busy(s)' <=> Busy(s))
  BY SaveFacts
<1>3. files'["replay"] = files["replay"] /\ files'["utxos"] = files["utxos"]
  BY <1>1 DEF FileNames
<1>4. Past(pay[t]) /\ ~ Busy(t)' /\ ~ Watching(pay[t])
  BY <1>1, <1>2 DEF BeforeSave, Past, Onward, Busy, Watching
<1>5. i \in Ids
  BY <1>0, <1>1 DEF Asked, Ids, OutputIds, Proved
<1>6. /\ files'["ledger"].credited = files["ledger"].credited
      /\ CountedOnce(files["ledger"], files'["ledger"], i)
  BY <1>0, <1>1, LedgerSaved DEF Amended
<1>7. files["ledger"].counted \in [Ids -> Nat]
  BY <1>1 DEF Good, GoodLedger, Ledgers, Ids
<1>8. /\ Counted(i)' = Counted(i) + 1 /\ \A j \in Ids \ {i} : Counted(j)' = Counted(j)
  BY <1>5, <1>6, <1>7 DEF Counted, CountedOnce
<1>9. Credited' = Credited /\ \A j : Known(j)' <=> Known(j)
  BY <1>3, <1>6 DEF Credited, Known
<1>10. Known(i) /\ Counted(i) = 0
  BY <1>0, <1>1, <1>4 DEF Fits
<1>11. /\ \A s \in PayTasks : Busy(s) => Fits(pay[s])
       /\ \A r, s \in PayTasks : r # s /\ Busy(r) /\ Busy(s) /\ Past(pay[r]) /\ Past(pay[s])
                               => pay[r].item.id # pay[s].item.id
       /\ \A j \in Ids : Counted(j) \in {0, 1} /\ (Counted(j) = 1 => Known(j))
       /\ \A u \in files["utxos"] : u.deposit /\ u.id \notin chain.claimed => u.id \in Credited
       /\ "death" \notin upset =>
          \A j \in Credited : /\ Known(j) \/ Watched(j)
                              /\ Counted(j) = 1 \/ Claimant(j) => Watched(j)
  BY <1>1 DEF DepositsInv
<1>12. ASSUME NEW s \in PayTasks, Busy(s)' PROVE Fits(pay[s])'
  <2>1. s # t /\ Busy(s) /\ pay'[s] = pay[s] /\ Fits(pay[s]) /\ Task(pay[s])
    BY <1>2, <1>4, <1>11, <1>12 DEF FilesInv
  <2>2. Past(pay[s]) => pay[s].item.id \in Ids \ {i}
    <3>1. Past(pay[s]) => pay[s].item.id # i
      BY <1>0, <1>1, <1>4, <1>11, <2>1
    <3>2. Past(pay[s]) => pay[s].item.id \in Ids
      BY <2>1 DEF Past, Task, Asked, Ids, OutputIds, Proved
    <3>. QED
      BY <3>1, <3>2
  <2>. QED
    BY <1>1, <1>8, <1>9, <2>1, <2>2 DEF Fits
<1>13. \A r, s \in PayTasks : r # s /\ Busy(r)' /\ Busy(s)' /\ Past(pay'[r]) /\ Past(pay'[s])
                              => pay'[r].item.id # pay'[s].item.id
  BY <1>2, <1>4, <1>11
<1>14. \A j \in Ids : Counted(j)' \in {0, 1} /\ (Counted(j)' = 1 => Known(j)')
  BY <1>8, <1>9, <1>10, <1>11
<1>15. \A u \in files'["utxos"] : u.deposit /\ u.id \notin chain'.claimed => u.id \in Credited'
  BY <1>1, <1>3, <1>9, <1>11
<1>16. ASSUME "death" \notin upset', NEW j \in Credited'
       PROVE  /\ Known(j)' \/ Watched(j)'
              /\ Counted(j)' = 1 \/ Claimant(j)' => Watched(j)'
  <2>1. "death" \notin upset /\ j \in Credited /\ j \in Ids
    <3>1. Credited \subseteq Ids
      BY <1>1 DEF Good, GoodLedger, Ledgers, Credited, Ids
    <3>. QED
      BY <1>1, <1>9, <1>16, <3>1
  <2>2. Watched(j) => Watched(j)'
    BY <1>2, <1>4 DEF Watched
  <2>3. Claimant(j)' => Claimant(j)
    BY <1>2, <1>4 DEF Claimant
  <2>4. j = i => Claimant(j)
    BY <1>0, <1>1, <1>4 DEF Claimant
  <2>. QED
    BY <1>8, <1>9, <1>11, <2>1, <2>2, <2>3, <2>4
<1>. QED
  BY <1>12, <1>13, <1>14, <1>15, <1>16 DEF DepositsInv

\* The outputs are saved: the ledger and what was used stay.
LEMMA UtxosFacts ==
  ASSUME FilesInv, DepositsInv, NEW t \in PayTasks, Save(t), "lost" \notin upset',
         Head(pay[t].todo) = S("utxos")
  PROVE  /\ Credited' = Credited /\ \A j : Counted(j)' = Counted(j)
         /\ files'["utxos"] = NewUtxos(pay[t], t) /\ files["utxos"] = pay[t].copy["utxos"]
         /\ files'["replay"] = files["replay"]
         /\ \A j \in Credited : j \in Ids /\ j \notin Proved
         /\ GoodUtxos(files["utxos"])
<1>1. /\ "utxos" \in FileNames /\ files["utxos"] = pay[t].copy["utxos"]
      /\ files'["utxos"] = Amended(pay[t], "utxos", t)
      /\ \A g \in FileNames \ {"utxos"} : files'[g] = files[g]
      /\ Good("utxos", files["utxos"])
  BY SaveFacts
<1>2. files'["replay"] = files["replay"] /\ files'["ledger"] = files["ledger"]
  BY <1>1 DEF FileNames
<1>3. Credited \subseteq OutputIds
  <2>1. GoodLedger(files["ledger"])
    BY DEF FilesInv, Good, FileNames
  <2>. QED
    BY <2>1 DEF GoodLedger, Ledgers, Credited
<1>. QED
  BY <1>1, <1>2, <1>3, DepositsAssumption DEF Credited, Counted, Ids, Amended, Good

\* What the requests know when more is known and the one that saves is done or agrees.
LEMMA MoreKnown ==
  ASSUME FilesInv, DepositsInv, "lost" \notin upset, Credited' = Credited, chain' = chain,
         \A j : (Counted(j)' = Counted(j)) /\ (Known(j) => Known(j)'),
         NEW t \in PayTasks, \A s \in PayTasks \ {t} : pay'[s] = pay[s] /\ (Busy(s)' <=> Busy(s)),
         Busy(t)' => Fits(pay[t])',
         Busy(t)' /\ Past(pay'[t]) =>
            \A s \in PayTasks \ {t} : Busy(s) /\ Past(pay[s]) => pay[s].item.id # pay'[t].item.id,
         \A u \in files'["utxos"] :
            u.deposit /\ u.id \notin chain.claimed => u.id \in Credited,
         "death" \notin upset' =>
            \A i \in Credited : /\ Known(i)' \/ Watched(i)'
                                /\ Counted(i) = 1 \/ Claimant(i)' => Watched(i)'
  PROVE  DepositsInv'
<1>1. /\ \A s \in PayTasks : Busy(s) => Fits(pay[s])
      /\ \A r, s \in PayTasks : r # s /\ Busy(r) /\ Busy(s) /\ Past(pay[r]) /\ Past(pay[s])
                              => pay[r].item.id # pay[s].item.id
      /\ \A j \in Ids : Counted(j) \in {0, 1} /\ (Counted(j) = 1 => Known(j))
  BY DEF DepositsInv
<1>2. ASSUME NEW s \in PayTasks, Busy(s)' PROVE Fits(pay[s])'
  <2>1. CASE s # t
    <3>1. Fits(pay[s]) /\ pay'[s] = pay[s]
      BY <1>1, <1>2, <2>1
    <3>. QED
      BY <3>1 DEF Fits
  <2>2. CASE s = t
    BY <1>2, <2>2
  <2>. QED
    BY <2>1, <2>2
<1>3. \A r, s \in PayTasks : r # s /\ Busy(r)' /\ Busy(s)' /\ Past(pay'[r]) /\ Past(pay'[s])
                              => pay'[r].item.id # pay'[s].item.id
  BY <1>1
<1>4. \A j \in Ids : Counted(j)' \in {0, 1} /\ (Counted(j)' = 1 => Known(j)')
  BY <1>1
<1>5. \A u \in files'["utxos"] : u.deposit /\ u.id \notin chain'.claimed => u.id \in Credited'
  OBVIOUS
<1>6. "death" \notin upset' =>
         \A i \in Credited' : /\ Known(i)' \/ Watched(i)'
                              /\ Counted(i)' = 1 \/ Claimant(i)' => Watched(i)'
  OBVIOUS
<1>. QED
  BY <1>2, <1>3, <1>4, <1>5, <1>6 DEF DepositsInv

\* The outputs that a scan has credited are recorded.
LEMMA SaveSeen ==
  ASSUME FilesInv, DepositsInv, NEW t \in PayTasks, Save(t), "lost" \notin upset',
         Head(pay[t].todo) = S("utxos"), pay[t].op = "scan"
  PROVE  DepositsInv'
<1>1. /\ Busy(t) /\ Task(pay[t]) /\ BeforeSave(pay[t], "utxos") /\ Checked(pay[t])
      /\ "lost" \notin upset /\ upset \subseteq upset' /\ chain' = chain /\ Fits(pay[t])
  BY SaveFacts
<1>2. PICK q : /\ pay' = [pay EXCEPT ![t] = q] /\ pay'[t] = q /\ Onward(pay[t], q)
               /\ \A s \in PayTasks \ {t} : pay'[s] = pay[s] /\ (Busy(s)' <=> Busy(s))
  BY SaveFacts
<1>3. /\ Credited' = Credited /\ \A j : Counted(j)' = Counted(j)
      /\ files'["replay"] = files["replay"]
      /\ files["utxos"] = pay[t].copy["utxos"]
      /\ files'["utxos"] = files["utxos"] \cup {Utxo(o) : o \in pay[t].inputs}
      /\ \A j \in Credited : j \in Ids /\ j \notin Proved
  BY <1>1, UtxosFacts, UtxosSaved
<1>4. ~ Busy(t)' /\ Watching(pay[t]) /\ ~ Past(pay[t])
  BY <1>1, <1>2 DEF BeforeSave, Busy, Onward, Watching, Past
<1>5. pay[t].inputs \subseteq {o \in Theirs : ~ Recorded(files["utxos"], o)}
  BY <1>1, <1>3 DEF BeforeSave, Checked
<1>6. \A o \in pay[t].inputs : Utxo(o).id = o.id /\ o.id \in Credited
  <2>1. \A o \in pay[t].inputs : o \in Outputs /\ Utxo(o).id = o.id
    BY <1>1, <1>5, Records DEF Theirs, Task, Asked
  <2>. QED
    BY <1>1, <1>4, <2>1 DEF Fits
<1>7. /\ \A j : Known(j) => Known(j)'
      /\ \A o \in pay[t].inputs : Known(o.id)' /\ ~ Known(o.id)
  BY <1>3, <1>5, <1>6 DEF Known, Recorded
<1>8. /\ \A s \in PayTasks : Busy(s) => Fits(pay[s])
      /\ \A j \in Ids : Counted(j) \in {0, 1} /\ (Counted(j) = 1 => Known(j))
      /\ \A u \in files["utxos"] : u.deposit /\ u.id \notin chain.claimed => u.id \in Credited
      /\ "death" \notin upset =>
         \A j \in Credited : /\ Known(j) \/ Watched(j)
                             /\ Counted(j) = 1 \/ Claimant(j) => Watched(j)
  BY <1>1 DEF DepositsInv
<1>9. \A u \in files'["utxos"] : u.deposit /\ u.id \notin chain.claimed => u.id \in Credited
  BY <1>3, <1>6, <1>8
<1>10. ASSUME "death" \notin upset', NEW j \in Credited
       PROVE  /\ Known(j)' \/ Watched(j)'
              /\ Counted(j) = 1 \/ Claimant(j)' => Watched(j)'
  <2>1. "death" \notin upset /\ j \in Ids
    BY <1>1, <1>3, <1>10
  <2>2. Claimant(j)' => Claimant(j)
    BY <1>2, <1>4 DEF Claimant
  <2>3. Counted(j) = 1 \/ Claimant(j) => Known(j)
    BY <1>8, <2>1 DEF Claimant, Fits
  <2>4. Watched(j) => Watched(j)' \/ \E o \in pay[t].inputs : o.id = j
    BY <1>2 DEF Watched
  <2>. QED
    BY <1>7, <1>8, <1>10, <2>1, <2>2, <2>3, <2>4
<1>. QED
  BY <1>1, <1>2, <1>3, <1>4, <1>7, <1>9, <1>10, MoreKnown

\* An output that is claimed is recorded before it is counted.
LEMMA SaveClaim ==
  ASSUME FilesInv, DepositsInv, NEW t \in PayTasks, Save(t), "lost" \notin upset',
         Head(pay[t].todo) = S("utxos"), pay[t].op = "claim"
  PROVE  DepositsInv'
<1>0. PICK i : i = pay[t].item.id
  OBVIOUS
<1>1. /\ Busy(t) /\ Task(pay[t]) /\ BeforeSave(pay[t], "utxos") /\ Checked(pay[t]) /\ Asked(pay[t])
      /\ "lost" \notin upset /\ upset \subseteq upset' /\ chain' = chain /\ Fits(pay[t])
  BY SaveFacts
<1>2. PICK q : /\ pay' = [pay EXCEPT ![t] = q] /\ pay'[t] = q /\ Onward(pay[t], q)
               /\ \A x : Did(q, x) <=> Did(pay[t], x) \/ x = S("utxos")
               /\ \A s \in PayTasks \ {t} : pay'[s] = pay[s] /\ (Busy(s)' <=> Busy(s))
  BY SaveFacts
<1>3. /\ Credited' = Credited /\ \A j : Counted(j)' = Counted(j)
      /\ files'["replay"] = files["replay"]
      /\ files["utxos"] = pay[t].copy["utxos"]
      /\ files'["utxos"] = files["utxos"] \cup {Claimed(pay[t].item, pay[t].user)}
      /\ \A j \in Credited : j \in Ids /\ j \notin Proved
  BY <1>1, UtxosFacts, UtxosSaved
<1>4. /\ pay[t].item \in Outputs /\ i \in Ids /\ i \notin Proved
      /\ Claimed(pay[t].item, pay[t].user).id = i /\ ~ Recorded(files["utxos"], pay[t].item)
      /\ i \in chain.claimed
  <2>1. pay[t].item \in Outputs /\ pay[t].user \in Users
    BY <1>1 DEF Asked
  <2>2. i \in OutputIds
    BY <1>0, <2>1 DEF OutputIds
  <2>3. ~ Recorded(files["utxos"], pay[t].item)
    BY <1>1, <1>3 DEF BeforeSave, Checked
  <2>4. i \in chain.claimed
    BY <1>0, <1>1 DEF BeforeSave, Fits
  <2>. QED
    BY <1>0, <2>1, <2>2, <2>3, <2>4, Records, DepositsAssumption DEF Ids
<1>5. (\A j : Known(j) => Known(j)') /\ Known(i)' /\ ~ Known(i)
  BY <1>0, <1>3, <1>4 DEF Known, Recorded
<1>6. /\ \A s \in PayTasks : Busy(s) => Fits(pay[s])
      /\ \A j \in Ids : Counted(j) \in {0, 1} /\ (Counted(j) = 1 => Known(j))
      /\ \A u \in files["utxos"] : u.deposit /\ u.id \notin chain.claimed => u.id \in Credited
      /\ "death" \notin upset =>
         \A j \in Credited : /\ Known(j) \/ Watched(j)
                             /\ Counted(j) = 1 \/ Claimant(j) => Watched(j)
  BY <1>1 DEF DepositsInv
<1>7. ~ Watching(q) /\ ~ Watching(pay[t]) /\ q.item = pay[t].item /\ q.op = "claim"
  BY <1>2 DEF Watching, Onward
<1>8. Counted(i) = 0 /\ \A s \in PayTasks : Busy(s) /\ Past(pay[s]) => pay[s].item.id # i
  BY <1>4, <1>5, <1>6 DEF Fits
<1>9. Busy(t)' => Fits(pay[t])'
  <2>1. Did(q, L("ledger")) => q.copy["ledger"].credited \subseteq Credited
    <3>1. Did(q, L("ledger")) => Did(pay[t], L("ledger"))
      BY <1>2, StepsDiffer
    <3>. QED
      BY <1>1, <1>2, <3>1 DEF Fits, Onward
  <2>2. q.item.id = i
    BY <1>0, <1>7
  <2>. QED
    BY <1>1, <1>2, <1>3, <1>4, <1>5, <1>7, <1>8, <2>1, <2>2 DEF Fits
<1>10. \A u \in files'["utxos"] : u.deposit /\ u.id \notin chain.claimed => u.id \in Credited
  BY <1>3, <1>4, <1>6
<1>11. ASSUME "death" \notin upset', NEW j \in Credited
       PROVE  /\ Known(j)' \/ Watched(j)'
              /\ Counted(j) = 1 \/ Claimant(j)' => Watched(j)'
  <2>1. "death" \notin upset
    BY <1>1, <1>11
  <2>2. Claimant(j)' => Claimant(j) \/ j = i
    BY <1>0, <1>2, <1>7 DEF Claimant
  <2>3. Watched(j) => Watched(j)'
    BY <1>2, <1>7 DEF Watched
  <2>. QED
    BY <1>5, <1>6, <1>11, <2>1, <2>2, <2>3
<1>12. \A s \in PayTasks \ {t} : Busy(s) /\ Past(pay[s]) => pay[s].item.id # pay'[t].item.id
  BY <1>0, <1>2, <1>7, <1>8
<1>. QED
  BY <1>1, <1>2, <1>3, <1>5, <1>9, <1>10, <1>11, <1>12, MoreKnown

\* Outputs are spent: they are the same deposits, and the change is none.
LEMMA SaveSpent ==
  ASSUME FilesInv, DepositsInv, NEW t \in PayTasks, Save(t), "lost" \notin upset',
         Head(pay[t].todo) = S("utxos"), pay[t].op = "withdrawSats"
  PROVE  DepositsInv'
<1>1. /\ Busy(t) /\ Task(pay[t]) /\ BeforeSave(pay[t], "utxos") /\ Asked(pay[t])
      /\ "lost" \notin upset /\ upset \subseteq upset' /\ chain' = chain
  BY SaveFacts
<1>2. PICK q : /\ pay' = [pay EXCEPT ![t] = q] /\ pay'[t] = q /\ Onward(pay[t], q)
               /\ \A s \in PayTasks \ {t} : pay'[s] = pay[s] /\ (Busy(s)' <=> Busy(s))
  BY SaveFacts
<1>. DEFINE us == files["utxos"]
            in == pay[t].inputs
<1>3. /\ Credited' = Credited /\ \A j : Counted(j)' = Counted(j)
      /\ files'["replay"] = files["replay"] /\ in \subseteq us
      /\ files'["utxos"] = (us \ in) \cup {Spent(u) : u \in in} \cup LeftOver(pay[t], t)
      /\ GoodUtxos(us)
  BY <1>1, UtxosFacts, UtxosSaved
<1>4. ~ Busy(t)' /\ ~ Watching(pay[t]) /\ ~ Past(pay[t])
  BY <1>1, <1>2 DEF BeforeSave, Busy, Onward, Watching, Past
<1>5. \A u \in us : Spent(u).id = u.id /\ Spent(u).deposit = u.deposit
  BY <1>3, SpentGood
<1>6. \A u \in LeftOver(pay[t], t) : ~ u.deposit
  <2>1. pay[t].cur \in Chains /\ pay[t].amount \in Nat
    BY <1>1 DEF Asked
  <2>2. Value(in) \in Nat
    BY <1>3, PartOfUtxos, ValueInt
  <2>3. Change(pay[t]) \in Int
    BY <2>1, <2>2, PaymentsAssumption DEF Change
  <2>. QED
    BY <2>1, <2>3, LeftGood
<1>7. \A j : Known(j) => Known(j)'
  <2>1. \A u \in us : \E v \in files'["utxos"] : v.id = u.id
    BY <1>3, <1>5
  <2>. QED
    BY <1>3, <2>1 DEF Known
<1>8. /\ \A u \in us : u.deposit /\ u.id \notin chain.claimed => u.id \in Credited
      /\ "death" \notin upset =>
         \A j \in Credited : /\ Known(j) \/ Watched(j)
                             /\ Counted(j) = 1 \/ Claimant(j) => Watched(j)
  BY <1>1 DEF DepositsInv
<1>9. \A u \in files'["utxos"] : u.deposit /\ u.id \notin chain.claimed => u.id \in Credited
  BY <1>3, <1>5, <1>6, <1>8
<1>10. \A j : (Claimant(j)' => Claimant(j)) /\ (Watched(j) => Watched(j)')
  BY <1>2, <1>4 DEF Claimant, Watched
<1>11. "death" \notin upset' =>
         \A j \in Credited : /\ Known(j)' \/ Watched(j)'
                             /\ Counted(j) = 1 \/ Claimant(j)' => Watched(j)'
  BY <1>1, <1>7, <1>8, <1>10
<1>. QED
  BY <1>1, <1>2, <1>3, <1>4, <1>7, <1>9, <1>11, MoreKnown

LEMMA SaveCalm ==
  ASSUME FilesInv, DepositsInv, NEW t \in PayTasks, Save(t), "lost" \notin upset'
  PROVE  DepositsInv'
<1>1. PICK f : Head(pay[t].todo) = S(f) /\ f \in FileNames /\ Task(pay[t])
  <2>1. PICK f : Head(pay[t].todo) = S(f)
    BY SaveIs
  <2>. QED
    BY <2>1, SaveFacts
<1>2. CASE f = "ledger"
  BY <1>1, <1>2, SaveOther, SaveCredits, SaveCounts
<1>3. CASE f = "utxos"
  BY <1>1, <1>3, UtxosSaved, SaveSeen, SaveClaim, SaveSpent
<1>4. CASE f = "replay"
  BY <1>1, <1>4, SaveReplay
<1>5. CASE f \in {"trail", "offers", "pool"}
  BY <1>1, <1>5, SaveElsewhere
<1>. QED
  BY <1>1, <1>2, <1>3, <1>4, <1>5 DEF FileNames

LEMMA DepositsStep == FilesInv /\ WorldShape /\ DepositsInv /\ [PaymentsNext]_payVars => DepositsInv'
<1>1. SUFFICES ASSUME FilesInv, WorldShape, DepositsInv, [PaymentsNext]_payVars, "lost" \notin upset'
               PROVE  DepositsInv'
  BY DEF DepositsInv
<1>2. CASE (\E o \in Outputs : Pays(o)) \/ Death \/ UNCHANGED payVars
  BY <1>1, <1>2, OthersCalm
<1>3. ASSUME NEW t \in PayTasks, Begin(t) PROVE DepositsInv'
  BY <1>1, <1>3, BeginCalm
<1>4. ASSUME NEW t \in PayTasks, Load(t) PROVE DepositsInv'
  BY <1>1, <1>4, LoadCalm
<1>5. ASSUME NEW t \in PayTasks, Save(t) PROVE DepositsInv'
  BY <1>1, <1>5, SaveCalm
<1>6. ASSUME NEW t \in PayTasks, ScanChains(t) PROVE DepositsInv'
  BY <1>1, <1>6, ScanCalm
<1>7. ASSUME NEW t \in PayTasks, Lookup(t) \/ Verify(t) \/ Anchor(t) \/ Broadcast(t) PROVE DepositsInv'
  BY <1>1, <1>7, WorldCalm
<1>8. ASSUME NEW t \in PayTasks, SaveFails(t) PROVE DepositsInv'
  BY <1>1, <1>8, SaveFailsIs
<1>. QED
  BY <1>1, <1>2, <1>3, <1>4, <1>5, <1>6, <1>7, <1>8 DEF PaymentsNext

LEMMA DepositsAlways == PaymentsSpec => [](FilesInv /\ DepositsInv)
<1>1. PaymentsInit => FilesInv /\ WorldShape /\ DepositsInv
  BY FilesStart, WorldStart, DepositsStart
<1>2. FilesInv /\ WorldShape /\ DepositsInv /\ [PaymentsNext]_payVars
        => (FilesInv /\ WorldShape /\ DepositsInv)'
  BY FilesStep, WorldStep, DepositsStep
<1>. QED
  BY <1>1, <1>2, PTL DEF PaymentsSpec

LEMMA DepositsSound == FilesInv /\ DepositsInv => DepositsOnce
<1>. SUFFICES ASSUME FilesInv, DepositsInv PROVE DepositsOnce
  OBVIOUS
<1>1. PaymentsTypeOK /\ ScanCountsOnce
  BY FilesSound
<1>2. /\ files.ledger = files["ledger"] /\ files.utxos = files["utxos"]
      /\ GoodLedger(files.ledger)
  BY DEF FilesInv, Good, FileNames
<1>3. /\ Credited = files.ledger.credited /\ Credited \subseteq OutputIds
      /\ \A i \in OutputIds : files.ledger.scanned[i] = IF i \in Credited THEN 1 ELSE 0
      /\ \A i \in Ids : Counted(i) = files.ledger.counted[i]
  BY <1>2 DEF Credited, Counted, GoodLedger, Ledgers
<1>4. SeenIsCounted
  BY <1>2, <1>3 DEF SeenIsCounted, DepositsInv
<1>5. DepositsCountedOnce
  <2>. SUFFICES ASSUME "lost" \notin upset
                PROVE  /\ \A p \in Proved : files.ledger.counted[p] <= 1
                       /\ Quiet /\ "death" \notin upset =>
                          \A o \in OutputIds : files.ledger.counted[o] + files.ledger.scanned[o] <= 1
    BY DEF DepositsCountedOnce
  <2>1. \A i \in Ids : Counted(i) = 0 \/ Counted(i) = 1
    BY DEF DepositsInv
  <2>2. \A p \in Proved : files.ledger.counted[p] <= 1
    BY <1>3, <2>1 DEF Ids
  <2>3. ASSUME Quiet, "death" \notin upset, NEW o \in OutputIds
        PROVE  files.ledger.counted[o] + files.ledger.scanned[o] <= 1
    <3>1. o \in Credited => ~ (Counted(o) = 1)
      BY <2>3 DEF DepositsInv, Quiet, Watched
    <3>. QED
      BY <1>3, <2>1, <3>1 DEF Ids
  <2>. QED
    BY <2>2, <2>3
<1>. QED
  BY <1>1, <1>4, <1>5 DEF DepositsOnce

\* No deposit that the server takes note of is credited twice (creditOnce, a claim that is
\* recorded in the outputs, checkAndRecordState; of a TXO URI it takes no note), and no
\* output is recorded as seen that was neither credited nor claimed. That the balances of a
\* ledger count an output once by scans needs no further condition; the rest holds until a
\* file has lost something (another save, a reader half way through a write, a write that
\* fails or is cut off), and of an output that is both claimed and scanned until the server
\* dies.
THEOREM DepositsOnceTheorem == PaymentsSpec => []DepositsOnce
BY DepositsAlways, DepositsSound, PTL

-----------------------------------------------------------------------------
(* The trail follows the chain. *)

\* It has spent the output of the trail and not yet saved the trail.
Anchored(r) == r.op \in TrailOps /\ Did(r, Do("anchor")) /\ ~ Did(r, S("trail"))
Anchoring(t) == Busy(t) /\ Anchored(pay[t])

TrailInv ==
  /\ files["trail"].at \in Nat
  /\ upset \cap {"failed", "death"} = {} =>
       /\ chain.tip \in Nat /\ files["trail"].at <= chain.tip
       /\ \A t \in PayTasks : Busy(t) /\ Did(pay[t], L("trail")) =>
            pay[t].copy["trail"].at \in Nat /\ pay[t].copy["trail"].at <= files["trail"].at
       /\ \A t \in PayTasks : Anchoring(t) =>
            /\ pay[t].copy["trail"].at + 1 = chain.tip /\ files["trail"].at + 1 = chain.tip
            /\ \A s \in PayTasks \ {t} : ~ Anchoring(s)
       /\ (\A t \in PayTasks : ~ Anchoring(t)) => files["trail"].at = chain.tip

LEMMA TrailStart == PaymentsInit => TrailInv
<1>. SUFFICES ASSUME PaymentsInit PROVE TrailInv
  OBVIOUS
<1>1. /\ files \in FirstFiles /\ pay = [t \in PayTasks |-> NewTask] /\ chain.tip = files.trail.at
      /\ files.trail = files["trail"]
  BY DEF PaymentsInit
<1>2. files["trail"].at \in Nat
  BY <1>1, FilesAssumption DEF Trails
<1>3. \A t \in PayTasks : ~ Busy(t)
  BY <1>1 DEF Busy, NewTask
<1>. QED
  BY <1>1, <1>2, <1>3 DEF TrailInv, Anchoring

\* A request between the broadcast and the save has nothing else to do.
LEMMA AnchoredSaves ==
  ASSUME NEW r, Task(r), Anchored(r)
  PROVE  Head(r.todo) = S("trail")
BY Order DEF Task, Before, Anchored

\* A step of one request that leaves the trail and its tip alone.
LEMMA TrailTask ==
  ASSUME FilesInv, TrailInv, upset \subseteq upset', files'["trail"] = files["trail"],
         chain'.tip = chain.tip, NEW t \in PayTasks, NEW q, pay' = [pay EXCEPT ![t] = q],
         ~ Anchoring(t), q.todo # <<>> => ~ Anchored(q),
         q.todo # <<>> /\ Did(q, L("trail")) =>
            \/ q.copy["trail"] = files["trail"] \/ q.copy["trail"].at = 0
            \/ Busy(t) /\ Did(pay[t], L("trail")) /\ q.copy["trail"] = pay[t].copy["trail"]
  PROVE  TrailInv'
<1>1. SUFFICES ASSUME upset' \cap {"failed", "death"} = {} PROVE TrailInv'
  BY DEF TrailInv
<1>2. pay'[t] = q /\ \A s \in PayTasks \ {t} : pay'[s] = pay[s]
  BY DEF FilesInv
<1>3. \A s \in PayTasks : Anchoring(s)' <=> Anchoring(s)
  BY <1>2 DEF Anchoring, Busy, Anchored, Did, At1
<1>4. upset \cap {"failed", "death"} = {}
  BY <1>1
<1>5. \A s \in PayTasks : Busy(s)' /\ Did(pay'[s], L("trail")) =>
            pay'[s].copy["trail"].at \in Nat /\ pay'[s].copy["trail"].at <= files["trail"].at
  <2>1. ASSUME q.todo # <<>>, Did(q, L("trail"))
        PROVE  q.copy["trail"].at \in Nat /\ q.copy["trail"].at <= files["trail"].at
    <3>1. files["trail"].at \in Nat /\ 0 <= files["trail"].at /\ files["trail"].at <= files["trail"].at
      BY DEF TrailInv
    <3>2. CASE q.copy["trail"].at = 0
      BY <3>1, <3>2
    <3>3. CASE q.copy["trail"] = files["trail"]
      BY <3>1, <3>3
    <3>4. CASE Busy(t) /\ Did(pay[t], L("trail")) /\ q.copy["trail"] = pay[t].copy["trail"]
      BY <1>4, <3>4 DEF TrailInv
    <3>. QED
      BY <2>1, <3>2, <3>3, <3>4
  <2>. QED
    BY <1>2, <1>4, <2>1 DEF TrailInv, Busy
<1>6. \A s \in PayTasks : Anchoring(s) => pay'[s] = pay[s]
  BY <1>2
<1>. QED
  BY <1>3, <1>4, <1>5, <1>6 DEF TrailInv

\* A request that stops.
LEMMA TrailStop ==
  ASSUME FilesInv, TrailInv, upset \subseteq upset', files' = files,
         chain'.tip = chain.tip, NEW t \in PayTasks, Stop(t), ~ Anchoring(t)
  PROVE  TrailInv'
<1>1. PICK q : q = [NewTask EXCEPT !.op = "done"]
  OBVIOUS
<1>2. q.todo = <<>> /\ pay' = [pay EXCEPT ![t] = q]
  BY <1>1 DEF NewTask, Stop
<1>. QED
  BY <1>2, TrailTask

LEMMA TrailLoad ==
  ASSUME FilesInv, TrailInv, NEW t \in PayTasks, Load(t)
  PROVE  TrailInv'
<1>1. PICK f, v :
        /\ f \in FileNames /\ Task(pay[t]) /\ Head(pay[t].todo) = L(f)
        /\ \/ v = files[f] /\ upset' = upset
           \/ v = Blank(f) /\ upset' = upset \cup {"lost"}
        /\ \/ Stop(t)
           \/ \E q : pay' = [pay EXCEPT ![t] = q] /\ Loaded(pay[t], q, f, v)
  BY LoadIs
<1>0. files' = files /\ upset \subseteq upset' /\ chain' = chain
  BY <1>1 DEF Load
<1>4. Blank("trail").at = 0
  BY DEF Blank
<1>2. Busy(t) /\ ~ Anchored(pay[t])
  <2>1. ~ Anchored(pay[t])
    BY <1>1, AnchoredSaves, StepsDiffer
  <2>. QED
    BY <2>1, StepAt DEF Load
<1>3. ASSUME NEW q, pay' = [pay EXCEPT ![t] = q], Loaded(pay[t], q, f, v)
      PROVE  TrailInv'
  <2>1. \A x : Did(q, x) <=> Did(pay[t], x) \/ x = L(f)
    BY <1>1, <1>3, DidOnward DEF Loaded
  <2>2. ~ Anchored(q)
    BY <1>2, <1>3, <2>1, StepsDiffer DEF Anchored, Loaded
  <2>3. Did(q, L("trail")) =>
          \/ q.copy["trail"] = files["trail"] \/ q.copy["trail"].at = 0
          \/ Did(pay[t], L("trail")) /\ q.copy["trail"] = pay[t].copy["trail"]
    BY <1>1, <1>3, <1>4, <2>1, StepsDiffer DEF Loaded, FileNames
  <2>. QED
    BY <1>0, <1>2, <1>3, <2>2, <2>3, TrailTask DEF Anchoring
<1>. QED
  BY <1>0, <1>1, <1>2, <1>3, TrailStop DEF Anchoring

LEMMA TrailBegin ==
  ASSUME FilesInv, TrailInv, NEW t \in PayTasks, Begin(t)
  PROVE  TrailInv'
<1>0. files' = files /\ upset' = upset /\ chain' = chain /\ pay[t].op = "idle"
  BY DEF Begin
<1>1. PICK q : pay' = [pay EXCEPT ![t] = q] /\ \A x : ~ Did(q, x)
  BY BeginIs
<1>2. ~ Busy(t)
  BY <1>0 DEF FilesInv, Task, Shaped, Ops
<1>. QED
  BY <1>0, <1>1, <1>2, TrailTask DEF Anchoring, Anchored

\* What a scan leads to: its outputs are unspent and unknown to the copy.
LEMMA ScanGoes ==
  ASSUME FilesInv, NEW t \in PayTasks, ScanChains(t)
  PROVE  /\ files' = files /\ upset' = upset /\ chain' = chain /\ Busy(t) /\ Task(pay[t])
         /\ pay[t].op = "scan" /\ Head(pay[t].todo) = Do("scan")
         /\ \/ Stop(t)
            \/ \E q : /\ pay' = [pay EXCEPT ![t] = q] /\ q.op = "scan" /\ q.copy = pay[t].copy
                      /\ q.inputs \subseteq Theirs
                      /\ \A o \in q.inputs : o.id \in chain.unspent
                      /\ \A x : Did(q, x) => Did(pay[t], x) \/ x \in {Do("scan"), S("ledger")}
<1>0. files' = files /\ upset' = upset /\ chain' = chain
  BY DEF ScanChains
<1>1. /\ Busy(t) /\ Task(pay[t]) /\ Head(pay[t].todo) = Do("scan") /\ BeforeDo(pay[t], "scan")
      /\ \/ Stop(t)
         \/ \E answered \in SUBSET Chains : \E q :
                 LET new == New(pay[t], answered)
                 IN /\ Found(pay[t], q, new)
                    /\ \/ pay' = [pay EXCEPT ![t] = q]
                       \/ /\ pay' = [pay EXCEPT ![t] = Further(q)]
                          /\ NewLedger(Spend(pay[t], new)) = pay[t].copy.ledger
  BY ScanIs
<1>2. pay[t].op = "scan"
  BY <1>1 DEF BeforeDo
<1>3. ASSUME NEW answered \in SUBSET Chains, NEW q, NEW new, new = New(pay[t], answered),
             Found(pay[t], q, new),
             \/ pay' = [pay EXCEPT ![t] = q]
             \/ pay' = [pay EXCEPT ![t] = Further(q)]
      PROVE  \E z : /\ pay' = [pay EXCEPT ![t] = z] /\ z.op = "scan" /\ z.copy = pay[t].copy
                    /\ z.inputs \subseteq Theirs
                    /\ \A o \in z.inputs : o.id \in chain.unspent
                    /\ \A x : Did(z, x) => Did(pay[t], x) \/ x \in {Do("scan"), S("ledger")}
  <2>1. /\ new \subseteq {o \in Theirs : ~ Recorded(pay[t].copy["utxos"], o)}
        /\ \A o \in new : o.id \in chain.unspent
    BY <1>1, <1>3, Copies DEF New, Theirs, Task, Asked
  <2>2. q.todo # <<>> /\ Task(q) /\ Head(q.todo) = S("ledger")
    BY <1>1, <1>3, <2>1, FoundTask
  <2>3. \A x : Did(q, x) <=> Did(pay[t], x) \/ x = Do("scan")
    BY <1>1, <1>3, DidOnward DEF Found
  <2>4. PICK z : z = Further(q)
    OBVIOUS
  <2>5. Onward(q, z)
    BY <2>2, <2>4, FurtherOnward DEF Task, Asked
  <2>6. \A x : Did(z, x) <=> Did(q, x) \/ x = S("ledger")
    BY <2>2, <2>5, DidOnward DEF Onward
  <2>7. CASE pay' = [pay EXCEPT ![t] = q]
    BY <1>2, <1>3, <2>1, <2>3, <2>7 DEF Found
  <2>8. CASE pay' = [pay EXCEPT ![t] = z]
    BY <1>2, <1>3, <2>1, <2>3, <2>5, <2>6, <2>8 DEF Found, Onward
  <2>. QED
    BY <1>3, <2>4, <2>7, <2>8
<1>. QED
  BY <1>0, <1>1, <1>2, <1>3

LEMMA TrailScan ==
  ASSUME FilesInv, TrailInv, NEW t \in PayTasks, ScanChains(t)
  PROVE  TrailInv'
<1>1. /\ files' = files /\ upset' = upset /\ chain' = chain /\ Busy(t) /\ pay[t].op = "scan"
      /\ \/ Stop(t)
         \/ \E q : /\ pay' = [pay EXCEPT ![t] = q] /\ q.op = "scan" /\ q.copy = pay[t].copy
                   /\ \A x : Did(q, x) => Did(pay[t], x) \/ x \in {Do("scan"), S("ledger")}
  BY ScanGoes
<1>2. ~ Anchoring(t)
  BY <1>1 DEF Anchoring, Anchored, TrailOps
<1>3. ASSUME NEW q, pay' = [pay EXCEPT ![t] = q], q.op = "scan", q.copy = pay[t].copy,
             \A x : Did(q, x) => Did(pay[t], x) \/ x \in {Do("scan"), S("ledger")}
      PROVE  TrailInv'
  <2>1. ~ Anchored(q)
    BY <1>3 DEF Anchored, TrailOps
  <2>2. Did(q, L("trail")) => Did(pay[t], L("trail"))
    BY <1>3, StepsDiffer
  <2>. QED
    BY <1>1, <1>2, <1>3, <2>1, <2>2, TrailTask
<1>. QED
  BY <1>1, <1>2, <1>3, TrailStop

\* A step in the outside world that does not move the trail's tip.
LEMMA TrailWorld ==
  ASSUME FilesInv, WorldShape, TrailInv, NEW t \in PayTasks, Lookup(t) \/ Verify(t) \/ Broadcast(t)
  PROVE  TrailInv'
<1>1. /\ files' = files /\ upset \subseteq upset' /\ Busy(t) /\ Task(pay[t])
      /\ \/ Stop(t)
         \/ Continue(t, pay[t]) /\ Onward(pay[t], pay'[t])
  BY WorldKeeps
<1>2. PICK x \in {"verify", "lookup", "broadcast"} : At(t, x)
  BY DEF Lookup, Verify, VerifyMrc20, VerifyTxo, Broadcast
<1>3. Head(pay[t].todo) = Do(x)
  BY <1>2, StepAt
<1>4. chain'.tip = chain.tip
  BY DEF Lookup, Verify, VerifyMrc20, VerifyTxo, Broadcast, Send, WorldShape
<1>5. ~ Anchored(pay[t])
  BY <1>1, <1>3, AnchoredSaves, StepsDiffer
<1>6. CASE Continue(t, pay[t]) /\ Onward(pay[t], pay'[t])
  <2>1. PICK q : q = Further(pay[t])
    OBVIOUS
  <2>2. pay' = [pay EXCEPT ![t] = q] /\ pay'[t] = q /\ Onward(pay[t], q)
    BY <1>6, <2>1, ContinueIs DEF FilesInv
  <2>3. \A y : Did(q, y) <=> Did(pay[t], y) \/ y = Do(x)
    BY <1>1, <1>3, <2>2, DidOnward DEF Onward
  <2>4. ~ Anchored(q)
    BY <1>2, <1>5, <2>2, <2>3, StepsDiffer DEF Anchored, Onward
  <2>5. Did(q, L("trail")) => Did(pay[t], L("trail")) /\ q.copy["trail"] = pay[t].copy["trail"]
    BY <2>2, <2>3, StepsDiffer DEF Onward
  <2>. QED
    BY <1>1, <1>4, <1>5, <2>2, <2>4, <2>5, TrailTask DEF Anchoring
<1>. QED
  BY <1>1, <1>4, <1>5, <1>6, TrailStop DEF Anchoring

\* A transfer is accepted if it spends the output at the tip, and so nobody else is between
\* the broadcast and the save.
LEMMA TrailAnchor ==
  ASSUME FilesInv, WorldShape, TrailInv, NEW t \in PayTasks, Anchor(t)
  PROVE  TrailInv'
<1>1. /\ files' = files /\ upset \subseteq upset' /\ Busy(t) /\ Task(pay[t])
      /\ \/ Stop(t)
         \/ Continue(t, pay[t]) /\ Onward(pay[t], pay'[t])
  BY WorldKeeps
<1>2. Head(pay[t].todo) = Do("anchor") /\ BeforeDo(pay[t], "anchor")
  BY StepAt DEF Anchor
<1>3. ~ Anchored(pay[t])
  BY <1>1, <1>2, AnchoredSaves, StepsDiffer
<1>4. \/ Continue(t, pay[t]) /\ pay[t].copy["trail"].at = chain.tip
         /\ chain' = [chain EXCEPT !.tip = @ + 1]
      \/ Stop(t) /\ "failed" \in upset'
      \/ Stop(t) /\ chain' = chain
  BY Copies DEF Anchor, Send
<1>5. CASE Stop(t) /\ "failed" \in upset'
  BY <1>1, <1>5 DEF TrailInv
<1>6. CASE Stop(t) /\ chain' = chain
  BY <1>1, <1>3, <1>6, TrailStop DEF Anchoring
<1>7. CASE Continue(t, pay[t]) /\ pay[t].copy["trail"].at = chain.tip
           /\ chain' = [chain EXCEPT !.tip = @ + 1]
  <2>1. SUFFICES ASSUME upset' \cap {"failed", "death"} = {} PROVE TrailInv'
    BY <1>1 DEF TrailInv
  <2>2. PICK q : q = Further(pay[t])
    OBVIOUS
  <2>3. /\ pay' = [pay EXCEPT ![t] = q] /\ pay'[t] = q /\ Onward(pay[t], q)
        /\ \A s \in PayTasks \ {t} : pay'[s] = pay[s]
    <3>1. pay' = [pay EXCEPT ![t] = q]
      BY <1>7, <2>2, ContinueIs
    <3>2. Onward(pay[t], q)
      BY <1>1, <2>2, FurtherOnward DEF Task, Asked
    <3>. QED
      BY <3>1, <3>2 DEF FilesInv
  <2>4. chain'.tip = chain.tip + 1
    BY <1>7 DEF WorldShape
  <2>5. /\ chain.tip \in Nat /\ files["trail"].at \in Nat /\ files["trail"].at <= chain.tip
        /\ \A s \in PayTasks : Busy(s) /\ Did(pay[s], L("trail")) =>
             pay[s].copy["trail"].at \in Nat /\ pay[s].copy["trail"].at <= files["trail"].at
        /\ \A s \in PayTasks : Anchoring(s) => files["trail"].at + 1 = chain.tip
        /\ (\A s \in PayTasks : ~ Anchoring(s)) => files["trail"].at = chain.tip
    BY <1>1, <2>1 DEF TrailInv
  <2>6. pay[t].copy["trail"].at <= files["trail"].at
    BY <1>1, <1>2, <2>5 DEF BeforeDo
  <2>7. \A s \in PayTasks : ~ Anchoring(s)
    BY <1>7, <2>5, <2>6
  <2>8. /\ q.todo # <<>> /\ Anchored(q) /\ q.copy = pay[t].copy
        /\ \A x : Did(q, x) <=> Did(pay[t], x) \/ x = Do("anchor")
    <3>1. \A x : Did(q, x) <=> Did(pay[t], x) \/ x = Do("anchor")
      BY <1>1, <1>2, <2>3, DidOnward DEF Onward
    <3>. QED
      BY <1>2, <2>3, <3>1, StepsDiffer DEF BeforeDo, Anchored, Onward
  <2>9. Anchoring(t)' /\ \A s \in PayTasks \ {t} : ~ Anchoring(s)'
    <3>1. \A s \in PayTasks \ {t} : Anchoring(s)' <=> Anchoring(s)
      BY <2>3 DEF Anchoring, Busy, Anchored, Did, At1
    <3>2. Anchored(pay[t])'
      BY <2>3, <2>8 DEF Anchored, Did, At1
    <3>. QED
      BY <2>3, <2>7, <2>8, <3>1, <3>2 DEF Anchoring, Busy
  <2>10. \A s \in PayTasks : Busy(s)' /\ Did(pay'[s], L("trail")) =>
             pay'[s].copy["trail"].at \in Nat /\ pay'[s].copy["trail"].at <= files["trail"].at
    <3>1. CASE Did(q, L("trail"))
      <4>1. Did(pay[t], L("trail"))
        BY <2>8, <3>1, StepsDiffer
      <4>. QED
        BY <1>1, <2>3, <2>5, <2>8, <4>1 DEF Busy
    <3>2. CASE ~ Did(q, L("trail"))
      BY <2>3, <2>5, <3>2 DEF Busy
    <3>. QED
      BY <3>1, <3>2
  <2>11. /\ files'["trail"].at = chain.tip /\ pay'[t].copy["trail"].at = chain.tip
    BY <1>1, <1>7, <2>3, <2>5, <2>7, <2>8
  <2>12. chain'.tip \in Nat /\ files'["trail"].at \in Nat /\ files'["trail"].at <= chain'.tip
    BY <2>4, <2>5, <2>11
  <2>13. \A s \in PayTasks : Anchoring(s)' =>
            /\ pay'[s].copy["trail"].at + 1 = chain'.tip /\ files'["trail"].at + 1 = chain'.tip
            /\ \A r \in PayTasks \ {s} : ~ Anchoring(r)'
    BY <2>4, <2>9, <2>11
  <2>. QED
    BY <1>1, <2>9, <2>10, <2>12, <2>13 DEF TrailInv
<1>. QED
  BY <1>4, <1>5, <1>6, <1>7

\* A save of another file.
LEMMA TrailElsewhere ==
  ASSUME FilesInv, TrailInv, NEW t \in PayTasks, Save(t), NEW f, f # "trail",
         Head(pay[t].todo) = S(f)
  PROVE  TrailInv'
<1>0. chain' = chain
  BY Zenon DEF Save
<1>1. /\ Busy(t) /\ Task(pay[t]) /\ Continue(t, pay[t])
      /\ \A g \in FileNames \ {f} : files'[g] = files[g]
      /\ upset \subseteq upset'
  BY SaveIs, StepsDiffer
<1>2. files'["trail"] = files["trail"]
  BY <1>1 DEF FileNames
<1>3. PICK q : q = Further(pay[t])
  OBVIOUS
<1>4. pay' = [pay EXCEPT ![t] = q] /\ Onward(pay[t], q)
  BY <1>1, <1>3, ContinueIs, FurtherOnward DEF Task, Asked
<1>5. \A x : Did(q, x) <=> Did(pay[t], x) \/ x = S(f)
  BY <1>1, <1>4, DidOnward DEF Onward
<1>6. ~ Anchored(pay[t])
  BY <1>1, AnchoredSaves, StepsDiffer
<1>7. ~ Anchored(q)
  BY <1>4, <1>5, <1>6, StepsDiffer DEF Anchored, Onward
<1>8. Did(q, L("trail")) => Did(pay[t], L("trail")) /\ q.copy["trail"] = pay[t].copy["trail"]
  BY <1>4, <1>5, StepsDiffer DEF Onward
<1>. QED
  BY <1>0, <1>1, <1>2, <1>4, <1>6, <1>7, <1>8, TrailTask DEF Anchoring

\* The trail is saved: it is at the tip.
LEMMA TrailSave ==
  ASSUME FilesInv, TrailInv, NEW t \in PayTasks, Save(t), Head(pay[t].todo) = S("trail")
  PROVE  TrailInv'
<1>0. chain' = chain
  BY Zenon DEF Save
<1>1. /\ Busy(t) /\ Task(pay[t]) /\ Continue(t, pay[t])
      /\ files'["trail"] = Amended(pay[t], "trail", t)
      /\ upset \subseteq upset'
  BY SaveIs, StepsDiffer
<1>2. PICK q : q = Further(pay[t])
  OBVIOUS
<1>3. /\ pay' = [pay EXCEPT ![t] = q] /\ Onward(pay[t], q) /\ pay'[t] = q
      /\ \A s \in PayTasks \ {t} : pay'[s] = pay[s]
  BY <1>1, <1>2, ContinueIs, FurtherOnward DEF Task, Asked, FilesInv
<1>4. \A x : Did(q, x) <=> Did(pay[t], x) \/ x = S("trail")
  BY <1>1, <1>3, DidOnward DEF Onward
<1>5. Anchoring(t) /\ ~ Anchored(q) /\ Did(pay[t], L("trail"))
  <2>1. BeforeSave(pay[t], "trail") /\ ~ Did(pay[t], S("trail"))
    BY <1>1, AtSave
  <2>. QED
    BY <1>1, <1>4, <2>1 DEF BeforeSave, Anchoring, Anchored
<1>6. files'["trail"].at = pay[t].copy["trail"].at + 1
  BY <1>1, Copies DEF Amended, NewTrail
<1>7. pay[t].copy["trail"].at \in Nat
  <2>1. GoodTrail(pay[t].copy["trail"])
    BY <1>1, <1>5 DEF Task, Good, FileNames
  <2>. QED
    BY <2>1 DEF GoodTrail, Trails
<1>8. files'["trail"].at \in Nat
  BY <1>6, <1>7
<1>9. SUFFICES ASSUME upset' \cap {"failed", "death"} = {} PROVE TrailInv'
  BY <1>8 DEF TrailInv
<1>10. /\ chain.tip \in Nat /\ files["trail"].at \in Nat /\ files["trail"].at + 1 = chain.tip
       /\ pay[t].copy["trail"].at + 1 = chain.tip
       /\ \A s \in PayTasks : Busy(s) /\ Did(pay[s], L("trail")) =>
            pay[s].copy["trail"].at \in Nat /\ pay[s].copy["trail"].at <= files["trail"].at
       /\ \A s \in PayTasks \ {t} : ~ Anchoring(s)
  BY <1>1, <1>5, <1>9 DEF TrailInv
<1>11. files'["trail"].at = chain.tip
  BY <1>6, <1>10
<1>12. \A s \in PayTasks : ~ Anchoring(s)'
  <2>1. \A s \in PayTasks \ {t} : Anchoring(s)' <=> Anchoring(s)
    BY <1>3 DEF Anchoring, Busy, Anchored, Did, At1
  <2>2. Anchored(pay[t])' <=> Anchored(q)
    BY <1>3 DEF Anchored, Did, At1
  <2>. QED
    BY <1>5, <1>10, <2>1, <2>2 DEF Anchoring
<1>13. \A s \in PayTasks : Busy(s)' /\ Did(pay'[s], L("trail")) =>
            pay'[s].copy["trail"].at \in Nat /\ pay'[s].copy["trail"].at <= files'["trail"].at
  <2>1. \A s \in PayTasks : Busy(s) /\ Did(pay[s], L("trail")) =>
            pay[s].copy["trail"].at \in Nat /\ pay[s].copy["trail"].at <= files'["trail"].at
    BY <1>10, <1>11
  <2>2. q.copy["trail"] = pay[t].copy["trail"]
    BY <1>3 DEF Onward
  <2>. QED
    BY <1>1, <1>3, <1>5, <2>1, <2>2 DEF Busy
<1>. QED
  BY <1>0, <1>8, <1>10, <1>11, <1>12, <1>13 DEF TrailInv

LEMMA TrailOthers ==
  ASSUME FilesInv, WorldShape, TrailInv, (\E o \in Outputs : Pays(o)) \/ Death \/ UNCHANGED payVars
  PROVE  TrailInv'
<1>1. CASE Death
  <2>1. FilesInv' /\ "death" \in upset'
    BY <1>1, DeathIs
  <2>2. GoodTrail(files'["trail"])
    BY <2>1 DEF FilesInv, Good, FileNames
  <2>. QED
    BY <2>1, <2>2 DEF TrailInv, GoodTrail, Trails
<1>2. CASE (\E o \in Outputs : Pays(o)) \/ UNCHANGED payVars
  <2>1. files' = files /\ pay' = pay /\ upset' = upset /\ chain'.tip = chain.tip
    BY <1>2 DEF Pays, payVars, WorldShape
  <2>. QED
    BY <2>1 DEF TrailInv, Anchoring, Busy
<1>. QED
  BY <1>1, <1>2

LEMMA TrailStep == FilesInv /\ WorldShape /\ TrailInv /\ [PaymentsNext]_payVars => TrailInv'
<1>1. SUFFICES ASSUME FilesInv, WorldShape, TrailInv, [PaymentsNext]_payVars PROVE TrailInv'
  OBVIOUS
<1>2. CASE (\E o \in Outputs : Pays(o)) \/ Death \/ UNCHANGED payVars
  BY <1>1, <1>2, TrailOthers
<1>3. ASSUME NEW t \in PayTasks, Begin(t) PROVE TrailInv'
  BY <1>1, <1>3, TrailBegin
<1>4. ASSUME NEW t \in PayTasks, Load(t) PROVE TrailInv'
  BY <1>1, <1>4, TrailLoad
<1>5. ASSUME NEW t \in PayTasks, Save(t) PROVE TrailInv'
  <2>1. PICK f : Head(pay[t].todo) = S(f)
    BY <1>1, <1>5, SaveIs
  <2>. QED
    BY <1>1, <1>5, <2>1, TrailSave, TrailElsewhere
<1>6. ASSUME NEW t \in PayTasks, ScanChains(t) PROVE TrailInv'
  BY <1>1, <1>6, TrailScan
<1>7. ASSUME NEW t \in PayTasks, Lookup(t) \/ Verify(t) \/ Broadcast(t) PROVE TrailInv'
  BY <1>1, <1>7, TrailWorld
<1>8. ASSUME NEW t \in PayTasks, Anchor(t) PROVE TrailInv'
  BY <1>1, <1>8, TrailAnchor
<1>9. ASSUME NEW t \in PayTasks, SaveFails(t) PROVE TrailInv'
  <2>1. FilesInv' /\ "failed" \in upset'
    BY <1>1, <1>9, SaveFailsIs
  <2>2. GoodTrail(files'["trail"])
    BY <2>1 DEF FilesInv, Good, FileNames
  <2>. QED
    BY <2>1, <2>2 DEF TrailInv, GoodTrail, Trails
<1>. QED
  BY <1>1, <1>2, <1>3, <1>4, <1>5, <1>6, <1>7, <1>8, <1>9 DEF PaymentsNext

LEMMA TrailSound == FilesInv /\ TrailInv => TrailFollowsChain
<1>. SUFFICES ASSUME FilesInv, TrailInv, upset \cap {"failed", "death"} = {},
                     \A t \in PayTasks : Busy(t) => Next1(t) # S("trail")
              PROVE  files["trail"].at = chain.tip
  BY DEF TrailFollowsChain
<1>1. \A t \in PayTasks : ~ Anchoring(t)
  BY AnchoredSaves DEF Anchoring, FilesInv, Next1
<1>. QED
  BY <1>1 DEF TrailInv

-----------------------------------------------------------------------------
(* The outputs that are listed follow the chain. *)

IdsOf(us) == {u.id : u \in us}
Listed == IdsOf(files["utxos"])

\* It has spent outputs and not yet saved them.
Sent(r) == r.op = "withdrawSats" /\ Did(r, L("utxos")) /\ Did(r, Do("broadcast"))
Sending(t) == Busy(t) /\ Sent(pay[t])

\* The outputs that a request is going to record.
Brings(r) == CASE r.op = "scan" -> r.inputs
               [] r.op = "claim" /\ Did(r, Do("lookup")) -> {r.item}
               [] OTHER -> {}

\* What a request has read is still listed, and what it brings is unspent unless it is listed.
Stands(r) ==
  /\ Did(r, L("utxos")) => IdsOf(r.copy["utxos"]) \subseteq Listed
  /\ \A o \in Brings(r) : o.id \in chain.unspent \cup Listed

\* The requests that are sending a transaction, and the outputs that they spend.
Settles(t) ==
  /\ IdsOf(pay[t].inputs) \subseteq Listed /\ IdsOf(pay[t].inputs) \cap chain.unspent = {}
  /\ Change(pay[t]) > Dust => t \in chain.unspent

\* What was ever paid is unspent or listed, and nothing else is.
PaidAgree == \A i \in OutputIds : i \in chain.paid <=> i \in chain.unspent \cup Listed

OutputsInv ==
  upset \subseteq {"string", "txo"} =>
    /\ PaidAgree
    /\ \A u, v \in files["utxos"] : u.id = v.id => u = v
    /\ \A t \in PayTasks : t \in Listed => ~ Busy(t) /\ pay[t].op # "idle"
    /\ \A t \in PayTasks : Busy(t) => Stands(pay[t])
    /\ \A t \in PayTasks : Sending(t) => Settles(t)
    /\ \A u \in files["utxos"] :
         IF u.id \in chain.unspent THEN ~ u.spent
         ELSE u.spent \/ \E t \in PayTasks : Sending(t) /\ u.id \in IdsOf(pay[t].inputs)

LEMMA OutputsStart == PaymentsInit => OutputsInv
<1>. SUFFICES ASSUME PaymentsInit PROVE OutputsInv
  OBVIOUS
<1>1. /\ files \in FirstFiles /\ pay = [t \in PayTasks |-> NewTask] /\ files.utxos = files["utxos"]
      /\ chain.unspent = {u.id : u \in {u \in files["utxos"] : ~ u.spent}}
      /\ chain.paid = {u.id : u \in files["utxos"]}
  BY DEF PaymentsInit
<1>2. /\ \A u, v \in files["utxos"] : u.id = v.id => u = v
      /\ \A u \in files["utxos"] : u.id \notin PayTasks
  BY <1>1, FilesAssumption
<1>3. \A t \in PayTasks : ~ Busy(t) /\ t \notin Listed
  BY <1>1, <1>2 DEF Busy, NewTask, Listed, IdsOf
<1>4. \A u \in files["utxos"] : u.id \in chain.unspent <=> ~ u.spent
  BY <1>1, <1>2
<1>5. PaidAgree
  BY <1>1 DEF PaidAgree, Listed, IdsOf
<1>. QED
  BY <1>2, <1>3, <1>4, <1>5 DEF OutputsInv, Sending

\* A step of one request that leaves the outputs alone.
LEMMA OutputsTask ==
  ASSUME FilesInv, OutputsInv, upset \subseteq upset', upset' \subseteq {"string", "txo"},
         files'["utxos"] = files["utxos"], chain'.unspent = chain.unspent,
         chain'.paid = chain.paid,
         NEW t \in PayTasks, NEW q, pay' = [pay EXCEPT ![t] = q], Busy(t) \/ pay[t].op = "idle",
         Sending(t) <=> q.todo # <<>> /\ Sent(q),
         Sending(t) => q.inputs = pay[t].inputs /\ Change(q) = Change(pay[t]),
         q.todo # <<>> => Stands(q)
  PROVE  OutputsInv'
<1>0. upset \subseteq {"string", "txo"}
  OBVIOUS
<1>1. pay'[t] = q /\ \A s \in PayTasks \ {t} : pay'[s] = pay[s]
  BY DEF FilesInv
<1>2. Listed' = Listed
  BY DEF Listed
<1>3. \A s \in PayTasks : Sending(s)' <=> Sending(s)
  BY <1>1 DEF Sending, Busy, Sent, Did, At1
<1>4. \A s \in PayTasks : Sending(s) =>
         pay'[s].inputs = pay[s].inputs /\ Change(pay[s])' = Change(pay[s])
  BY <1>1 DEF Change
<1>5. \A s \in PayTasks : s \in Listed' => ~ Busy(s)' /\ pay'[s].op # "idle"
  BY <1>0, <1>1, <1>2 DEF OutputsInv, Busy
<1>6. ASSUME NEW s \in PayTasks, Busy(s)' PROVE Stands(pay[s])'
  <2>1. Stands(pay'[s])
    BY <1>0, <1>1, <1>6 DEF OutputsInv, Busy
  <2>. QED
    BY <1>2, <2>1 DEF Stands, Brings, Did, At1
<1>7. \A s \in PayTasks : Sending(s)' => Settles(s)'
  BY <1>0, <1>2, <1>3, <1>4 DEF OutputsInv, Settles
<1>8. \A u \in files'["utxos"] :
         IF u.id \in chain'.unspent THEN ~ u.spent
         ELSE u.spent \/ \E s \in PayTasks : Sending(s)' /\ u.id \in IdsOf(pay'[s].inputs)
  BY <1>0, <1>3, <1>4 DEF OutputsInv
<1>9. \A u, v \in files'["utxos"] : u.id = v.id => u = v
  BY <1>0 DEF OutputsInv
<1>10. PaidAgree'
  BY <1>0, <1>2 DEF OutputsInv, PaidAgree
<1>. QED
  BY <1>5, <1>6, <1>7, <1>8, <1>9, <1>10 DEF OutputsInv

LEMMA OutputsStop ==
  ASSUME FilesInv, OutputsInv, upset \subseteq upset', upset' \subseteq {"string", "txo"}, files' = files,
         chain'.unspent = chain.unspent, chain'.paid = chain.paid, NEW t \in PayTasks, Stop(t), Busy(t), ~ Sent(pay[t])
  PROVE  OutputsInv'
<1>1. PICK q : q = [NewTask EXCEPT !.op = "done"]
  OBVIOUS
<1>2. q.todo = <<>> /\ pay' = [pay EXCEPT ![t] = q]
  BY <1>1 DEF NewTask, Stop
<1>. QED
  BY <1>2, OutputsTask DEF Sending

\* A step within a request, other than a load.
LEMMA OutputsOnward ==
  ASSUME FilesInv, OutputsInv, upset \subseteq upset', upset' \subseteq {"string", "txo"},
         files'["utxos"] = files["utxos"], chain'.unspent = chain.unspent,
         chain'.paid = chain.paid,
         NEW t \in PayTasks, Busy(t), Task(pay[t]), Continue(t, pay[t]),
         \A f : Head(pay[t].todo) # L(f), Head(pay[t].todo) # Do("broadcast"),
         Sent(pay[t]) => Tail(pay[t].todo) # <<>>,
         Head(pay[t].todo) = Do("lookup") => pay[t].item.id \in chain.unspent \cup Listed
  PROVE  OutputsInv'
<1>1. PICK q : q = Further(pay[t])
  OBVIOUS
<1>2. pay' = [pay EXCEPT ![t] = q] /\ Onward(pay[t], q)
  BY <1>1, ContinueIs, FurtherOnward DEF Task, Asked
<1>3. \A x : Did(q, x) <=> Did(pay[t], x) \/ x = Head(pay[t].todo)
  BY <1>2, DidOnward DEF Onward
<1>4. Sent(q) <=> Sent(pay[t])
  BY <1>2, <1>3, StepsDiffer DEF Sent, Onward
<1>5. Change(q) = Change(pay[t]) /\ q.inputs = pay[t].inputs
  BY <1>2 DEF Onward, Change
<1>6. Stands(pay[t])
  BY DEF OutputsInv
<1>7. Stands(q)
  <2>1. Did(q, L("utxos")) => IdsOf(q.copy["utxos"]) \subseteq Listed
    BY <1>2, <1>3, <1>6 DEF Stands, Onward
  <2>2. ASSUME NEW o \in Brings(q) PROVE o.id \in chain.unspent \cup Listed
    <3>1. CASE o \in Brings(pay[t])
      BY <1>6, <3>1 DEF Stands
    <3>2. CASE o \notin Brings(pay[t])
      <4>1. Head(pay[t].todo) = Do("lookup") /\ o = pay[t].item
        BY <1>2, <1>3, <2>2, <3>2 DEF Brings, Onward
      <4>. QED
        BY <4>1
    <3>. QED
      BY <3>1, <3>2
  <2>. QED
    BY <2>1, <2>2 DEF Stands
<1>8. Sending(t) <=> q.todo # <<>> /\ Sent(q)
  BY <1>2, <1>4 DEF Sending, Onward
<1>. QED
  BY <1>2, <1>5, <1>7, <1>8, OutputsTask

LEMMA OutputsLoad ==
  ASSUME FilesInv, OutputsInv, NEW t \in PayTasks, Load(t), upset' \subseteq {"string", "txo"}
  PROVE  OutputsInv'
<1>0. files' = files /\ upset' = upset /\ chain' = chain
  BY LoadWhole
<1>1. PICK f \in FileNames :
        /\ Task(pay[t]) /\ Head(pay[t].todo) = L(f)
        /\ \/ Stop(t)
           \/ \E q : pay' = [pay EXCEPT ![t] = q] /\ Loaded(pay[t], q, f, files[f])
  BY LoadWhole
<1>2. Busy(t)
  BY StepAt DEF Load
<1>3. ~ Did(pay[t], L(f)) /\ BeforeLoad(pay[t], f)
  BY <1>1, Order, StepsDiffer DEF Task, Before
<1>4. ~ Sent(pay[t])
  BY <1>3 DEF BeforeLoad, Sent
<1>5. ASSUME NEW q, pay' = [pay EXCEPT ![t] = q], Loaded(pay[t], q, f, files[f])
      PROVE  OutputsInv'
  <2>1. \A x : Did(q, x) <=> Did(pay[t], x) \/ x = L(f)
    BY <1>1, <1>5, DidOnward DEF Loaded
  <2>2. ~ Sent(q)
    BY <1>3, <1>5, <2>1, StepsDiffer DEF Sent, Loaded, BeforeLoad
  <2>3. Stands(pay[t])
    BY <1>0, <1>2 DEF OutputsInv
  <2>4. Brings(q) = Brings(pay[t])
    <3>1. Did(q, Do("lookup")) <=> Did(pay[t], Do("lookup"))
      BY <2>1, StepsDiffer
    <3>2. pay[t].op = "scan" => q.inputs = pay[t].inputs
      BY <1>5 DEF Loaded
    <3>. QED
      BY <1>5, <3>1, <3>2 DEF Brings, Loaded
  <2>5. Did(q, L("utxos")) => IdsOf(q.copy["utxos"]) \subseteq Listed
    <3>1. CASE f = "utxos"
      BY <1>5, <3>1 DEF Loaded, Listed
    <3>2. CASE f # "utxos"
      <4>1. q.copy["utxos"] = pay[t].copy["utxos"]
        BY <1>5, <3>2 DEF Loaded, FileNames
      <4>2. Did(q, L("utxos")) => Did(pay[t], L("utxos"))
        BY <2>1, <3>2, StepsDiffer
      <4>. QED
        BY <2>3, <4>1, <4>2 DEF Stands
    <3>. QED
      BY <3>1, <3>2
  <2>6. Stands(q)
    BY <2>3, <2>4, <2>5 DEF Stands
  <2>. QED
    BY <1>0, <1>2, <1>4, <1>5, <2>2, <2>6, OutputsTask DEF Sending
<1>. QED
  BY <1>0, <1>1, <1>2, <1>4, <1>5, OutputsStop

LEMMA OutputsBegin ==
  ASSUME FilesInv, OutputsInv, NEW t \in PayTasks, Begin(t), upset' \subseteq {"string", "txo"}
  PROVE  OutputsInv'
<1>0. files' = files /\ upset' = upset /\ chain' = chain /\ pay[t].op = "idle"
  BY DEF Begin
<1>1. PICK q : pay' = [pay EXCEPT ![t] = q] /\ Task(q) /\ \A x : ~ Did(q, x)
  BY BeginIs
<1>2. ~ Sending(t) /\ ~ Sent(q)
  BY <1>0, <1>1 DEF Sending, Sent
<1>3. Stands(q)
  BY <1>1 DEF Stands, Brings, Task, Checked
<1>. QED
  BY <1>0, <1>1, <1>2, <1>3, OutputsTask

LEMMA OutputsScan ==
  ASSUME FilesInv, OutputsInv, NEW t \in PayTasks, ScanChains(t), upset' \subseteq {"string", "txo"}
  PROVE  OutputsInv'
<1>1. /\ files' = files /\ upset' = upset /\ chain' = chain /\ Busy(t) /\ pay[t].op = "scan"
      /\ \/ Stop(t)
         \/ \E q : /\ pay' = [pay EXCEPT ![t] = q] /\ q.op = "scan" /\ q.copy = pay[t].copy
                   /\ \A o \in q.inputs : o.id \in chain.unspent
                   /\ \A x : Did(q, x) => Did(pay[t], x) \/ x \in {Do("scan"), S("ledger")}
  BY ScanGoes
<1>2. ~ Sent(pay[t])
  BY <1>1 DEF Sent
<1>3. ASSUME NEW q, pay' = [pay EXCEPT ![t] = q], q.op = "scan", q.copy = pay[t].copy,
             \A o \in q.inputs : o.id \in chain.unspent,
             \A x : Did(q, x) => Did(pay[t], x) \/ x \in {Do("scan"), S("ledger")}
      PROVE  OutputsInv'
  <2>1. ~ Sent(q)
    BY <1>3 DEF Sent
  <2>2. Did(q, L("utxos")) => Did(pay[t], L("utxos"))
    BY <1>3, StepsDiffer
  <2>3. Stands(pay[t])
    BY <1>1 DEF OutputsInv
  <2>4. Stands(q)
    BY <1>3, <2>2, <2>3 DEF Stands, Brings
  <2>. QED
    BY <1>1, <1>2, <1>3, <2>1, <2>4, OutputsTask DEF Sending
<1>. QED
  BY <1>1, <1>2, <1>3, OutputsStop

\* A step in the outside world that spends no output.
LEMMA OutputsWorld ==
  ASSUME FilesInv, WorldShape, OutputsInv, NEW t \in PayTasks,
         Lookup(t) \/ Verify(t) \/ Anchor(t), upset' \subseteq {"string", "txo"}
  PROVE  OutputsInv'
<1>1. /\ files' = files /\ upset \subseteq upset' /\ Busy(t) /\ Task(pay[t])
      /\ \/ Stop(t)
         \/ Continue(t, pay[t]) /\ Onward(pay[t], pay'[t])
  BY WorldKeeps
<1>2. PICK x \in {"verify", "lookup", "anchor"} : At(t, x)
  BY DEF Lookup, Verify, VerifyMrc20, VerifyTxo, Anchor
<1>3. Head(pay[t].todo) = Do(x) /\ BeforeDo(pay[t], x)
  BY <1>2, StepAt
<1>4. chain'.unspent = chain.unspent /\ chain'.paid = chain.paid
  BY DEF Lookup, Verify, VerifyMrc20, VerifyTxo, Anchor, Send, WorldShape
<1>5. ~ Sent(pay[t])
  BY <1>2, <1>3 DEF BeforeDo, Sent, TrailOps
<1>6. \/ Stop(t)
      \/ /\ Continue(t, pay[t])
         /\ Head(pay[t].todo) = Do("lookup") => pay[t].item.id \in chain.unspent \cup Listed
  <2>1. CASE Lookup(t)
    <3>1. Stop(t) \/ (Continue(t, pay[t]) /\ pay[t].item.id \in chain.paid)
      BY <2>1 DEF Lookup
    <3>2. pay[t].item.id \in OutputIds
      <4>1. Head(pay[t].todo) = Do("lookup") /\ BeforeDo(pay[t], "lookup")
        BY <2>1, StepAt DEF Lookup
      <4>. QED
        BY <1>1, <4>1 DEF BeforeDo, Task, Asked, OutputIds
    <3>. QED
      BY <1>1, <3>1, <3>2 DEF OutputsInv, PaidAgree
  <2>2. CASE Verify(t) \/ Anchor(t)
    <3>1. PICK y \in {"verify", "anchor"} : At(t, y)
      BY <2>2 DEF Verify, VerifyMrc20, VerifyTxo, Anchor
    <3>2. Head(pay[t].todo) = Do(y)
      BY <3>1, StepAt
    <3>. QED
      BY <1>1, <3>1, <3>2, StepsDiffer
  <2>. QED
    BY <2>1, <2>2
<1>7. CASE /\ Continue(t, pay[t])
           /\ Head(pay[t].todo) = Do("lookup") => pay[t].item.id \in chain.unspent \cup Listed
  <2>1. \A f : Head(pay[t].todo) # L(f)
    BY <1>2, <1>3, StepsDiffer
  <2>2. Head(pay[t].todo) # Do("broadcast")
    BY <1>2, <1>3, StepsDiffer
  <2>. QED
    BY <1>1, <1>4, <1>5, <1>7, <2>1, <2>2, OutputsOnward
<1>. QED
  BY <1>1, <1>4, <1>5, <1>6, <1>7, OutputsStop

\* A withdrawal is accepted: its inputs are listed, and from now on it is sending.
LEMMA OutputsSent ==
  ASSUME FilesInv, OutputsInv, NEW t \in PayTasks, Busy(t), Task(pay[t]),
         Head(pay[t].todo) = Do("broadcast"), BeforeDo(pay[t], "broadcast"),
         Continue(t, pay[t]), files' = files, upset' = upset, upset' \subseteq {"string", "txo"},
         NEW ids, ids = IdsOf(pay[t].inputs), ids \subseteq chain.unspent,
         chain'.unspent = (chain.unspent \ ids) \cup IF Change(pay[t]) > Dust THEN {t} ELSE {},
         chain'.paid = chain.paid
  PROVE  OutputsInv'
<1>1. PICK q : q = Further(pay[t])
  OBVIOUS
<1>2. /\ pay' = [pay EXCEPT ![t] = q] /\ Onward(pay[t], q) /\ pay'[t] = q
      /\ \A s \in PayTasks \ {t} : pay'[s] = pay[s]
  BY <1>1, ContinueIs, FurtherOnward DEF Task, Asked, FilesInv
<1>3. \A x : Did(q, x) <=> Did(pay[t], x) \/ x = Do("broadcast")
  BY <1>2, DidOnward DEF Onward
<1>4. Sent(q) /\ ~ Sent(pay[t]) /\ q.todo # <<>> /\ Did(pay[t], L("utxos"))
  <2>1. ~ Did(pay[t], Do("broadcast"))
    BY Order DEF Task, Before
  <2>. QED
    BY <1>2, <1>3, <2>1 DEF Sent, BeforeDo, Onward
<1>5. /\ PaidAgree
      /\ \A u, v \in files["utxos"] : u.id = v.id => u = v
      /\ \A s \in PayTasks : s \in Listed => ~ Busy(s) /\ pay[s].op # "idle"
      /\ \A s \in PayTasks : Busy(s) => Stands(pay[s])
      /\ \A s \in PayTasks : Sending(s) => Settles(s)
      /\ \A u \in files["utxos"] :
           IF u.id \in chain.unspent THEN ~ u.spent
           ELSE u.spent \/ \E s \in PayTasks : Sending(s) /\ u.id \in IdsOf(pay[s].inputs)
  BY DEF OutputsInv
<1>6. ids \subseteq Listed
  <2>1. pay[t].inputs \subseteq pay[t].copy["utxos"]
    BY <1>4 DEF Task, Checked, BeforeDo
  <2>. QED
    BY <1>4, <1>5, <2>1 DEF Stands, IdsOf
<1>7. t \notin Listed /\ Listed' = Listed
  BY <1>5 DEF Listed
<1>8. \A s \in PayTasks \ {t} : (Sending(s)' <=> Sending(s)) /\ (Busy(s)' <=> Busy(s))
  BY <1>2 DEF Sending, Busy, Sent, Did, At1
<1>9. Sending(t)' /\ Busy(t)'
  <2>1. Sent(pay[t])'
    BY <1>2, <1>4 DEF Sent, Did, At1
  <2>. QED
    BY <1>2, <1>4, <2>1 DEF Sending, Busy
<1>10. chain'.unspent \subseteq chain.unspent \cup {t} /\ chain.unspent \subseteq chain'.unspent \cup ids
  OBVIOUS
<1>11. \A s \in PayTasks : s \in Listed' => ~ Busy(s)' /\ pay'[s].op # "idle"
  BY <1>2, <1>5, <1>7, <1>8
<1>12. ASSUME NEW s \in PayTasks, Busy(s)' PROVE Stands(pay[s])'
  <2>1. Did(pay'[s], L("utxos")) => IdsOf(pay'[s].copy["utxos"]) \subseteq Listed
    <3>1. CASE s = t
      BY <1>2, <1>4, <1>5, <3>1 DEF Stands, Onward
    <3>2. CASE s # t
      BY <1>2, <1>5, <1>8, <1>12, <3>2 DEF Stands
    <3>. QED
      BY <3>1, <3>2
  <2>2. \A o \in Brings(pay'[s]) : o.id \in chain'.unspent \cup Listed
    <3>1. CASE s = t
      BY <1>2, <1>4, <3>1 DEF Brings, Sent
    <3>2. CASE s # t
      BY <1>2, <1>5, <1>6, <1>8, <1>10, <1>12, <3>2 DEF Stands
    <3>. QED
      BY <3>1, <3>2
  <2>. QED
    BY <1>7, <2>1, <2>2 DEF Stands, Brings, Did, At1
<1>13. ASSUME NEW s \in PayTasks, Sending(s)' PROVE Settles(s)'
  <2>1. CASE s = t
    <3>1. IdsOf(pay'[t].inputs) = ids /\ Change(pay[t])' = Change(pay[t])
      BY <1>2 DEF Onward, Change
    <3>2. ids \cap chain'.unspent = {}
      BY <1>6, <1>7
    <3>. QED
      BY <1>6, <1>7, <2>1, <3>1, <3>2 DEF Settles, IdsOf
  <2>2. CASE s # t
    <3>1. Settles(s) /\ s \notin ids
      BY <1>5, <1>6, <1>8, <1>13, <2>2 DEF Sending
    <3>2. IdsOf(pay'[s].inputs) = IdsOf(pay[s].inputs) /\ Change(pay[s])' = Change(pay[s])
      BY <1>2, <2>2 DEF Change
    <3>. QED
      BY <1>6, <1>7, <1>10, <3>1, <3>2 DEF Settles, IdsOf
  <2>. QED
    BY <2>1, <2>2
<1>14. ASSUME NEW u \in files'["utxos"]
       PROVE  IF u.id \in chain'.unspent THEN ~ u.spent
              ELSE u.spent \/ \E s \in PayTasks : Sending(s)' /\ u.id \in IdsOf(pay'[s].inputs)
  <2>1. u.id \in Listed
    BY DEF Listed, IdsOf
  <2>2. CASE u.id \in chain'.unspent
    BY <1>5, <1>7, <1>10, <2>1, <2>2
  <2>3. CASE u.id \notin chain'.unspent /\ u.id \in ids
    BY <1>2, <1>9, <2>3 DEF Onward
  <2>4. CASE u.id \notin chain'.unspent /\ u.id \notin ids
    <3>1. u.spent \/ \E s \in PayTasks : Sending(s) /\ u.id \in IdsOf(pay[s].inputs)
      BY <1>5, <1>10, <2>4
    <3>2. ~ Sending(t)
      BY <1>4 DEF Sending
    <3>. QED
      BY <1>2, <1>8, <2>4, <3>1, <3>2
  <2>. QED
    BY <2>2, <2>3, <2>4
<1>15. PaidAgree'
  <2>1. t \notin OutputIds
    BY DepositsAssumption
  <2>. QED
    BY <1>5, <1>6, <1>7, <1>10, <2>1 DEF PaidAgree
<1>. QED
  BY <1>5, <1>11, <1>12, <1>13, <1>14, <1>15 DEF OutputsInv

LEMMA OutputsBroadcast ==
  ASSUME FilesInv, WorldShape, OutputsInv, NEW t \in PayTasks, Broadcast(t), upset' \subseteq {"string", "txo"}
  PROVE  OutputsInv'
<1>1. Busy(t) /\ Task(pay[t]) /\ files' = files /\ upset \subseteq upset'
  BY WorldKeeps
<1>2. Head(pay[t].todo) = Do("broadcast") /\ BeforeDo(pay[t], "broadcast")
  BY StepAt DEF Broadcast
<1>3. ~ Sent(pay[t])
  BY <1>1, <1>2, Order DEF Task, Before, Sent
<1>4. PICK ids : ids = IdsOf(pay[t].inputs)
  OBVIOUS
<1>5. \/ /\ Continue(t, pay[t]) /\ upset' = upset /\ ids \subseteq chain.unspent
         /\ chain'.unspent = (chain.unspent \ ids) \cup IF Change(pay[t]) > Dust THEN {t} ELSE {}
         /\ chain'.paid = chain.paid
      \/ "failed" \in upset'
      \/ Stop(t) /\ chain' = chain
  BY <1>4 DEF Broadcast, Send, WorldShape, IdsOf
<1>6. "failed" \notin upset'
  OBVIOUS
<1>. QED
  BY <1>1, <1>2, <1>3, <1>4, <1>5, <1>6, OutputsSent, OutputsStop

\* Somebody pays: what is listed was paid before.
LEMMA OutputsPays ==
  ASSUME FilesInv, WorldShape, OutputsInv, NEW o \in Outputs, Pays(o), upset' \subseteq {"string", "txo"}
  PROVE  OutputsInv'
<1>0. /\ files' = files /\ pay' = pay /\ upset' = upset /\ o.id \notin chain.paid
      /\ chain'.unspent = chain.unspent \cup {o.id} /\ chain'.paid = chain.paid \cup {o.id}
  BY DEF Pays, WorldShape
<1>9. PaidAgree /\ o.id \in OutputIds
  BY <1>0 DEF OutputsInv, OutputIds
<1>1. /\ files' = files /\ pay' = pay /\ upset' = upset /\ o.id \notin Listed
      /\ chain'.unspent = chain.unspent \cup {o.id}
  BY <1>0, <1>9 DEF PaidAgree
<1>2. Listed' = Listed
  BY <1>1 DEF Listed
<1>3. \A s \in PayTasks : (Sending(s)' <=> Sending(s)) /\ (Busy(s)' <=> Busy(s))
  BY <1>1 DEF Sending, Busy, Sent, Did, At1
<1>4. ASSUME NEW s \in PayTasks, Busy(s)' PROVE Stands(pay[s])'
  BY <1>1, <1>2, <1>3, <1>4 DEF OutputsInv, Stands, Brings, Did, At1
<1>5. ASSUME NEW s \in PayTasks, Sending(s)' PROVE Settles(s)'
  <2>1. Settles(s) /\ Change(pay[s])' = Change(pay[s])
    BY <1>1, <1>3, <1>5 DEF OutputsInv, Change
  <2>. QED
    BY <1>1, <1>2, <2>1 DEF Settles
<1>6. \A u \in files["utxos"] : u.id # o.id
  BY <1>1 DEF Listed, IdsOf
<1>7. \A u \in files'["utxos"] :
         IF u.id \in chain'.unspent THEN ~ u.spent
         ELSE u.spent \/ \E s \in PayTasks : Sending(s)' /\ u.id \in IdsOf(pay'[s].inputs)
  BY <1>1, <1>3, <1>6 DEF OutputsInv
<1>8. /\ \A u, v \in files'["utxos"] : u.id = v.id => u = v
      /\ \A s \in PayTasks : s \in Listed' => ~ Busy(s)' /\ pay'[s].op # "idle"
  BY <1>1, <1>2, <1>3 DEF OutputsInv
<1>10. PaidAgree'
  BY <1>0, <1>2, <1>9 DEF PaidAgree
<1>. QED
  BY <1>4, <1>5, <1>7, <1>8, <1>10 DEF OutputsInv

\* A save of another file.
LEMMA OutputsElsewhere ==
  ASSUME FilesInv, OutputsInv, NEW t \in PayTasks, Save(t), upset' \subseteq {"string", "txo"},
         NEW f, f # "utxos", Head(pay[t].todo) = S(f)
  PROVE  OutputsInv'
<1>0. chain' = chain
  BY Zenon DEF Save
<1>1. /\ Busy(t) /\ Task(pay[t]) /\ Continue(t, pay[t])
      /\ \A g \in FileNames \ {f} : files'[g] = files[g]
      /\ upset \subseteq upset'
  BY SaveIs, StepsDiffer
<1>2. files'["utxos"] = files["utxos"]
  BY <1>1 DEF FileNames
<1>3. Sent(pay[t]) => Tail(pay[t].todo) # <<>>
  <2>1. BeforeSave(pay[t], f)
    BY <1>1, AtSave
  <2>. QED
    BY <2>1 DEF BeforeSave, Sent, FileNames, TrailOps, PoolOps
<1>4. /\ \A g : Head(pay[t].todo) # L(g)
      /\ Head(pay[t].todo) # Do("broadcast") /\ Head(pay[t].todo) # Do("lookup")
  BY StepsDiffer
<1>. QED
  BY <1>0, <1>1, <1>2, <1>3, <1>4, OutputsOnward

\* A save of the outputs: they are as they were read.
LEMMA SaveOutputs ==
  ASSUME FilesInv, OutputsInv, NEW t \in PayTasks, Save(t), upset' \subseteq {"string", "txo"},
         Head(pay[t].todo) = S("utxos")
  PROVE  /\ Busy(t) /\ Task(pay[t]) /\ BeforeSave(pay[t], "utxos") /\ Asked(pay[t]) /\ Checked(pay[t])
         /\ chain' = chain /\ upset \subseteq upset' /\ GoodUtxos(files["utxos"])
         /\ files["utxos"] = pay[t].copy["utxos"] /\ files'["utxos"] = NewUtxos(pay[t], t)
         /\ \E q : /\ pay' = [pay EXCEPT ![t] = q] /\ pay'[t] = q /\ Onward(pay[t], q)
                   /\ \A x : Did(q, x) <=> Did(pay[t], x) \/ x = S("utxos")
                   /\ \A s \in PayTasks \ {t} : pay'[s] = pay[s] /\ (Busy(s)' <=> Busy(s))
<1>0. chain' = chain
  BY Zenon DEF Save
<1>1. /\ Busy(t) /\ Task(pay[t]) /\ Continue(t, pay[t])
      /\ files'["utxos"] = Amended(pay[t], "utxos", t)
      /\ upset \subseteq upset' /\ files["utxos"] = pay[t].copy["utxos"]
  BY SaveIs, StepsDiffer
<1>2. BeforeSave(pay[t], "utxos") /\ Asked(pay[t]) /\ Checked(pay[t]) /\ GoodUtxos(files["utxos"])
  <2>1. BeforeSave(pay[t], "utxos") /\ Asked(pay[t]) /\ Checked(pay[t])
    BY <1>1, AtSave
  <2>. QED
    BY <2>1 DEF FilesInv, Good, FileNames
<1>3. files'["utxos"] = NewUtxos(pay[t], t)
  BY <1>1 DEF Amended
<1>4. PICK q : q = Further(pay[t])
  OBVIOUS
<1>5. pay' = [pay EXCEPT ![t] = q] /\ Onward(pay[t], q)
  BY <1>1, <1>4, ContinueIs, FurtherOnward DEF Task, Asked
<1>6. \A x : Did(q, x) <=> Did(pay[t], x) \/ x = S("utxos")
  BY <1>1, <1>5, DidOnward DEF Onward
<1>7. pay'[t] = q /\ \A s \in PayTasks \ {t} : pay'[s] = pay[s] /\ (Busy(s)' <=> Busy(s))
  BY <1>5 DEF FilesInv, Busy
<1>. QED
  BY <1>0, <1>1, <1>2, <1>3, <1>5, <1>6, <1>7

\* Outputs that are not spent are listed.
LEMMA OutputsMore ==
  ASSUME FilesInv, OutputsInv, upset \subseteq upset', upset' \subseteq {"string", "txo"}, chain' = chain,
         NEW t \in PayTasks, NEW q, pay' = [pay EXCEPT ![t] = q], Busy(t), ~ Sent(pay[t]), ~ Sent(q),
         q.todo # <<>> => Stands(q),
         NEW more, files'["utxos"] = files["utxos"] \cup more,
         \A v \in more : ~ v.spent /\ v.id \in chain.unspent /\ v.id \notin Listed /\ v.id \notin PayTasks,
         \A v, w \in more : v.id = w.id => v = w
  PROVE  OutputsInv'
<1>1. pay'[t] = q /\ \A s \in PayTasks \ {t} : pay'[s] = pay[s]
  BY DEF FilesInv
<1>2. /\ PaidAgree
      /\ \A u, v \in files["utxos"] : u.id = v.id => u = v
      /\ \A s \in PayTasks : s \in Listed => ~ Busy(s) /\ pay[s].op # "idle"
      /\ \A s \in PayTasks : Busy(s) => Stands(pay[s])
      /\ \A s \in PayTasks : Sending(s) => Settles(s)
      /\ \A u \in files["utxos"] :
           IF u.id \in chain.unspent THEN ~ u.spent
           ELSE u.spent \/ \E s \in PayTasks : Sending(s) /\ u.id \in IdsOf(pay[s].inputs)
  BY DEF OutputsInv
<1>3. Listed \subseteq Listed' /\ Listed' = Listed \cup IdsOf(more)
  BY DEF Listed, IdsOf
<1>4. \A s \in PayTasks : (Sending(s)' <=> Sending(s)) /\ (Sending(s) => s # t)
  <2>1. \A s \in PayTasks \ {t} : Sending(s)' <=> Sending(s)
    BY <1>1 DEF Sending, Busy, Sent, Did, At1
  <2>2. Sent(pay[t])' <=> Sent(q)
    BY <1>1 DEF Sent, Did, At1
  <2>. QED
    BY <2>1, <2>2 DEF Sending
<1>5. \A s \in PayTasks : s \in Listed' => ~ Busy(s)' /\ pay'[s].op # "idle"
  <2>1. \A s \in PayTasks : s \in Listed' => s \in Listed
    BY <1>3 DEF IdsOf
  <2>. QED
    BY <1>1, <1>2, <2>1 DEF Busy
<1>6. ASSUME NEW s \in PayTasks, Busy(s)' PROVE Stands(pay[s])'
  <2>1. Stands(pay'[s])
    BY <1>1, <1>2, <1>6 DEF Busy
  <2>. QED
    BY <1>3, <2>1 DEF Stands, Brings, Did, At1
<1>7. ASSUME NEW s \in PayTasks, Sending(s)' PROVE Settles(s)'
  <2>1. Settles(s) /\ pay'[s] = pay[s]
    BY <1>1, <1>2, <1>4, <1>7
  <2>. QED
    BY <1>3, <2>1 DEF Settles, Change
<1>8. \A u \in files'["utxos"] :
         IF u.id \in chain'.unspent THEN ~ u.spent
         ELSE u.spent \/ \E s \in PayTasks : Sending(s)' /\ u.id \in IdsOf(pay'[s].inputs)
  BY <1>1, <1>2, <1>4
<1>9. \A u, v \in files'["utxos"] : u.id = v.id => u = v
  <2>1. \A u \in files["utxos"] : u.id \in Listed
    BY DEF Listed, IdsOf
  <2>. QED
    BY <1>2, <2>1
<1>10. PaidAgree'
  <2>1. IdsOf(more) \subseteq chain.unspent
    BY DEF IdsOf
  <2>. QED
    BY <1>2, <1>3, <2>1 DEF PaidAgree
<1>. QED
  BY <1>5, <1>6, <1>7, <1>8, <1>9, <1>10 DEF OutputsInv

\* The outputs that a scan has found, or the one that is claimed, are listed.
LEMMA OutputsFound ==
  ASSUME FilesInv, OutputsInv, NEW t \in PayTasks, Save(t), upset' \subseteq {"string", "txo"},
         Head(pay[t].todo) = S("utxos"), pay[t].op \in {"scan", "claim"}
  PROVE  OutputsInv'
<1>1. /\ Busy(t) /\ Task(pay[t]) /\ BeforeSave(pay[t], "utxos") /\ Asked(pay[t]) /\ Checked(pay[t])
      /\ chain' = chain /\ upset \subseteq upset' /\ GoodUtxos(files["utxos"])
      /\ files["utxos"] = pay[t].copy["utxos"] /\ files'["utxos"] = NewUtxos(pay[t], t)
  BY SaveOutputs
<1>2. PICK q : /\ pay' = [pay EXCEPT ![t] = q] /\ pay'[t] = q /\ Onward(pay[t], q)
               /\ \A x : Did(q, x) <=> Did(pay[t], x) \/ x = S("utxos")
  BY SaveOutputs
<1>3. ~ Sent(pay[t]) /\ ~ Sent(q)
  BY <1>2 DEF Sent, Onward
<1>4. Stands(pay[t])
  BY <1>1 DEF OutputsInv
<1>5. Stands(q)
  <2>1. /\ Did(q, L("utxos")) <=> Did(pay[t], L("utxos"))
        /\ Did(q, Do("lookup")) <=> Did(pay[t], Do("lookup"))
    BY <1>2, StepsDiffer
  <2>. QED
    BY <1>2, <1>4, <2>1 DEF Stands, Brings, Onward
<1>6. PICK found : found = Brings(pay[t])
  OBVIOUS
<1>7. found \subseteq Outputs /\ \A o \in found : o.id \notin Listed
  <2>1. CASE pay[t].op = "scan"
    <3>1. found \subseteq {o \in Theirs : ~ Recorded(files["utxos"], o)}
      BY <1>1, <1>6, <2>1 DEF Brings, BeforeSave, Checked
    <3>. QED
      BY <3>1 DEF Theirs, Recorded, Listed, IdsOf
  <2>2. CASE pay[t].op = "claim"
    <3>1. found = {pay[t].item} /\ pay[t].item \in Outputs /\ ~ Recorded(files["utxos"], pay[t].item)
      BY <1>1, <1>6, <2>2 DEF Brings, BeforeSave, Checked, Asked
    <3>. QED
      BY <3>1 DEF Recorded, Listed, IdsOf
  <2>. QED
    BY <2>1, <2>2
<1>8. \A o \in found : o.id \in chain.unspent /\ o.id \notin PayTasks
  <2>1. \A o \in found : o.id \in OutputIds
    BY <1>7 DEF OutputIds
  <2>. QED
    BY <1>4, <1>6, <1>7, <2>1, DepositsAssumption DEF Stands
<1>9. \A o, w \in found : o.id = w.id => o = w
  BY <1>7, DepositsAssumption
<1>10. \E more : /\ files'["utxos"] = files["utxos"] \cup more
                 /\ \A v \in more : ~ v.spent /\ \E o \in found : v.id = o.id
                 /\ \A v, w \in more : v.id = w.id => v = w
  <2>1. CASE pay[t].op = "scan"
    <3>1. files'["utxos"] = files["utxos"] \cup {Utxo(o) : o \in found}
      BY <1>1, <1>6, <2>1, UtxosSaved DEF Brings
    <3>2. \A o \in found : Utxo(o).id = o.id /\ ~ Utxo(o).spent
      BY <1>1, <1>7, Records DEF Asked
    <3>3. PICK m : m = {Utxo(o) : o \in found}
      OBVIOUS
    <3>4. \A v \in m : ~ v.spent /\ \E o \in found : v.id = o.id
      BY <3>2, <3>3
    <3>5. \A v, w \in m : v.id = w.id => v = w
      BY <1>9, <3>2, <3>3
    <3>. QED
      BY <3>1, <3>3, <3>4, <3>5
  <2>2. CASE pay[t].op = "claim"
    <3>1. /\ files'["utxos"] = files["utxos"] \cup {Claimed(pay[t].item, pay[t].user)}
          /\ pay[t].item \in found
      BY <1>1, <1>6, <2>2, UtxosSaved DEF Brings, BeforeSave
    <3>2. /\ Claimed(pay[t].item, pay[t].user).id = pay[t].item.id
          /\ ~ Claimed(pay[t].item, pay[t].user).spent
      BY <1>1, <1>7, <3>1, Records DEF Asked
    <3>3. PICK m : m = {Claimed(pay[t].item, pay[t].user)}
      OBVIOUS
    <3>4. \A v \in m : ~ v.spent /\ \E o \in found : v.id = o.id
      BY <3>1, <3>2, <3>3
    <3>5. \A v, w \in m : v.id = w.id => v = w
      BY <3>3
    <3>. QED
      BY <3>1, <3>3, <3>4, <3>5
  <2>. QED
    BY <2>1, <2>2
<1>11. PICK more : /\ files'["utxos"] = files["utxos"] \cup more
                   /\ \A v \in more : ~ v.spent /\ \E o \in found : v.id = o.id
                   /\ \A v, w \in more : v.id = w.id => v = w
  BY <1>10
<1>12. \A v \in more : ~ v.spent /\ v.id \in chain.unspent /\ v.id \notin Listed /\ v.id \notin PayTasks
  BY <1>7, <1>8, <1>11
<1>. QED
  BY <1>1, <1>2, <1>3, <1>5, <1>11, <1>12, OutputsMore

\* A withdrawal that was sent is recorded: its inputs are spent, the change is listed.
LEMMA OutputsSpent ==
  ASSUME FilesInv, OutputsInv, NEW t \in PayTasks, Save(t), upset' \subseteq {"string", "txo"},
         Head(pay[t].todo) = S("utxos"), pay[t].op = "withdrawSats"
  PROVE  OutputsInv'
<1>1. /\ Busy(t) /\ Task(pay[t]) /\ BeforeSave(pay[t], "utxos") /\ Asked(pay[t]) /\ Checked(pay[t])
      /\ chain' = chain /\ upset \subseteq upset' /\ GoodUtxos(files["utxos"])
      /\ files["utxos"] = pay[t].copy["utxos"] /\ files'["utxos"] = NewUtxos(pay[t], t)
  BY SaveOutputs
<1>2. PICK q : /\ pay' = [pay EXCEPT ![t] = q] /\ pay'[t] = q /\ Onward(pay[t], q)
               /\ \A s \in PayTasks \ {t} : pay'[s] = pay[s] /\ (Busy(s)' <=> Busy(s))
  BY SaveOutputs
<1>. DEFINE us == files["utxos"]
            in == pay[t].inputs
            over == LeftOver(pay[t], t)
<1>3. in \subseteq us /\ files'["utxos"] = (us \ in) \cup {Spent(u) : u \in in} \cup over
  BY <1>1, UtxosSaved
<1>4. Sending(t) /\ ~ Busy(t)' /\ pay'[t].op = "withdrawSats"
  BY <1>1, <1>2 DEF BeforeSave, Sending, Sent, Busy, Onward
<1>5. /\ PaidAgree
      /\ \A u, v \in us : u.id = v.id => u = v
      /\ \A s \in PayTasks : s \in Listed => ~ Busy(s) /\ pay[s].op # "idle"
      /\ \A s \in PayTasks : Busy(s) => Stands(pay[s])
      /\ \A s \in PayTasks : Sending(s) => Settles(s)
      /\ \A u \in us :
           IF u.id \in chain.unspent THEN ~ u.spent
           ELSE u.spent \/ \E s \in PayTasks : Sending(s) /\ u.id \in IdsOf(pay[s].inputs)
  BY <1>1 DEF OutputsInv
<1>6. \A u \in us : Spent(u).id = u.id /\ Spent(u).spent
  BY <1>1, SpentGood
<1>7. \A v \in over : v.id = t /\ ~ v.spent /\ v.id \in chain.unspent /\ over = {v}
  <2>1. pay[t].cur \in Chains /\ pay[t].amount \in Nat
    BY <1>1 DEF Asked
  <2>2. Value(in) \in Nat
    BY <1>1, <1>3, PartOfUtxos, ValueInt
  <2>3. Change(pay[t]) \in Int
    BY <2>1, <2>2, PaymentsAssumption DEF Change
  <2>4. \A v \in over : v.id = t /\ ~ v.spent
    BY <2>1, <2>3, LeftGood
  <2>5. over # {} => Change(pay[t]) > Dust
    BY DEF LeftOver
  <2>6. \A v \in over : over = {v}
    BY DEF LeftOver
  <2>7. Settles(t)
    BY <1>4, <1>5
  <2>. QED
    BY <2>4, <2>5, <2>6, <2>7 DEF Settles
<1>8. t \notin Listed /\ \A u \in us : u.id \in Listed
  BY <1>1, <1>5 DEF Listed, IdsOf
<1>9. Listed \subseteq Listed' /\ Listed' \subseteq Listed \cup {t}
  <2>1. \A u \in us : \E v \in files'["utxos"] : v.id = u.id
    BY <1>3, <1>6
  <2>2. \A v \in files'["utxos"] : v.id \in Listed \cup {t}
    BY <1>3, <1>6, <1>7, <1>8
  <2>. QED
    BY <2>1, <2>2 DEF Listed, IdsOf
<1>10. \A s \in PayTasks : Sending(s)' <=> s # t /\ Sending(s)
  <2>1. \A s \in PayTasks \ {t} : Sending(s)' <=> Sending(s)
    BY <1>2 DEF Sending, Busy, Sent, Did, At1
  <2>. QED
    BY <1>4, <2>1 DEF Sending
<1>11. \A s \in PayTasks : s \in Listed' => ~ Busy(s)' /\ pay'[s].op # "idle"
  BY <1>2, <1>4, <1>5, <1>9
<1>12. ASSUME NEW s \in PayTasks, Busy(s)' PROVE Stands(pay[s])'
  <2>1. Stands(pay'[s])
    BY <1>2, <1>4, <1>5, <1>12
  <2>. QED
    BY <1>1, <1>9, <2>1 DEF Stands, Brings, Did, At1
<1>13. ASSUME NEW s \in PayTasks, Sending(s)' PROVE Settles(s)'
  <2>1. Settles(s) /\ pay'[s] = pay[s]
    BY <1>2, <1>5, <1>10, <1>13
  <2>. QED
    BY <1>1, <1>9, <2>1 DEF Settles, Change
<1>14. \A u, v \in files'["utxos"] : u.id = v.id => u = v
  BY <1>3, <1>5, <1>6, <1>7, <1>8
<1>15. ASSUME NEW u \in files'["utxos"]
       PROVE  IF u.id \in chain.unspent THEN ~ u.spent
              ELSE u.spent \/ \E s \in PayTasks : Sending(s)' /\ u.id \in IdsOf(pay'[s].inputs)
  <2>1. CASE u \in us \ in
    <3>1. \A w \in in : w.id # u.id
      BY <1>3, <1>5, <2>1
    <3>2. u.id \notin IdsOf(in)
      BY <3>1 DEF IdsOf
    <3>. QED
      BY <1>2, <1>5, <1>10, <2>1, <3>2
  <2>2. CASE u \in {Spent(w) : w \in in}
    <3>1. u.spent /\ u.id \in IdsOf(in)
      BY <1>3, <1>6, <2>2 DEF IdsOf
    <3>. QED
      BY <1>4, <1>5, <3>1 DEF Settles
  <2>3. CASE u \in over
    BY <1>7, <2>3
  <2>. QED
    BY <1>3, <2>1, <2>2, <2>3
<1>16. PaidAgree'
  <2>1. t \notin OutputIds
    BY DepositsAssumption
  <2>. QED
    BY <1>1, <1>5, <1>9, <2>1 DEF PaidAgree
<1>. QED
  BY <1>1, <1>11, <1>12, <1>13, <1>14, <1>15, <1>16 DEF OutputsInv

LEMMA OutputsStep == FilesInv /\ WorldShape /\ OutputsInv /\ [PaymentsNext]_payVars => OutputsInv'
<1>1. SUFFICES ASSUME FilesInv, WorldShape, OutputsInv, [PaymentsNext]_payVars,
                      upset' \subseteq {"string", "txo"}
               PROVE  OutputsInv'
  BY DEF OutputsInv
<1>2. ASSUME NEW o \in Outputs, Pays(o) PROVE OutputsInv'
  BY <1>1, <1>2, OutputsPays
<1>3. ~ Death
  BY <1>1, DeathIs
<1>4. CASE UNCHANGED payVars
  <2>1. files' = files /\ pay' = pay /\ upset' = upset /\ chain' = chain
    BY <1>4 DEF payVars
  <2>. QED
    BY <1>1, <2>1 DEF OutputsInv, PaidAgree, Listed, Sending, Busy, Sent, Did, At1, Stands, Brings, Settles, Change
<1>5. ASSUME NEW t \in PayTasks, Begin(t) PROVE OutputsInv'
  BY <1>1, <1>5, OutputsBegin
<1>6. ASSUME NEW t \in PayTasks, Load(t) PROVE OutputsInv'
  BY <1>1, <1>6, OutputsLoad
<1>7. ASSUME NEW t \in PayTasks, Save(t) PROVE OutputsInv'
  <2>1. PICK f : Task(pay[t]) /\ Head(pay[t].todo) = S(f)
    BY <1>1, <1>7, SaveIs
  <2>2. CASE f = "utxos"
    <3>1. pay[t].op \in {"scan", "claim", "withdrawSats"}
      BY <2>1, <2>2, AtSave DEF BeforeSave
    <3>. QED
      BY <1>1, <1>7, <2>1, <2>2, <3>1, OutputsFound, OutputsSpent
  <2>. QED
    BY <1>1, <1>7, <2>1, <2>2, OutputsElsewhere
<1>8. ASSUME NEW t \in PayTasks, ScanChains(t) PROVE OutputsInv'
  BY <1>1, <1>8, OutputsScan
<1>9. ASSUME NEW t \in PayTasks, Lookup(t) \/ Verify(t) \/ Anchor(t) PROVE OutputsInv'
  BY <1>1, <1>9, OutputsWorld
<1>10. ASSUME NEW t \in PayTasks, Broadcast(t) PROVE OutputsInv'
  BY <1>1, <1>10, OutputsBroadcast
<1>11. ASSUME NEW t \in PayTasks PROVE ~ SaveFails(t)
  BY <1>1, SaveFailsIs
<1>. QED
  BY <1>1, <1>2, <1>3, <1>4, <1>5, <1>6, <1>7, <1>8, <1>9, <1>10, <1>11 DEF PaymentsNext

LEMMA OutputsSound == OutputsInv => OutputsAgree
<1>. SUFFICES ASSUME OutputsInv, Quiet, upset \subseteq {"string", "txo"}, NEW u \in files["utxos"]
              PROVE  (~ u.spent) <=> u.id \in chain.unspent
  BY DEF OutputsAgree
<1>1. \A t \in PayTasks : ~ Sending(t)
  BY DEF Quiet, Sending
<1>. QED
  BY <1>1 DEF OutputsInv

\* The files follow the chain, as long as no answer is lost, no write fails and nobody dies.
\* Between requests, and until a file has lost something, the outputs listed as not spent
\* (saveUtxos) are those that are not: what a scan or a claim lists was paid, and a withdrawal
\* lists as spent what it has spent, with its change. The trail of the token (transferToken)
\* is at the tip when no request is about to save it: a transfer from an older state is refused.
THEOREM FilesFollowChainTheorem == PaymentsSpec => []FilesFollowChain
<1>. DEFINE Inv == FilesInv /\ WorldShape /\ TrailInv /\ OutputsInv
<1>1. PaymentsInit => Inv
  BY FilesStart, WorldStart, TrailStart, OutputsStart
<1>2. Inv /\ [PaymentsNext]_payVars => Inv'
  BY FilesStep, WorldStep, TrailStep, OutputsStep
<1>3. Inv => FilesFollowChain
  BY TrailSound, OutputsSound DEF FilesFollowChain
<1>. QED
  BY <1>1, <1>2, <1>3, PTL DEF PaymentsSpec
-----------------------------------------------------------------------------
(* Money: what a save of the ledger makes of what all the users have together. *)

\* What the users have in a currency.
Total(l, c) == SumFunction([u \in Users |-> l.balance[u][c]])

LEMMA TotalIs ==
  ASSUME NEW l, GoodLedger(l), NEW c \in Currencies
  PROVE  /\ Total(l, c) = SumFunctionOnSet([u \in Users |-> l.balance[u][c]], Users)
         /\ Total(l, c) \in Nat /\ \A u \in Users : l.balance[u][c] \in Nat
<1>. DEFINE f == [u \in Users |-> l.balance[u][c]]
<1>1. DOMAIN f = Users /\ IsFiniteSet(Users) /\ \A u \in Users : f[u] \in Nat
  BY PaymentsAssumption DEF GoodLedger, Ledgers
<1>2. \A u \in Users : l.balance[u][c] \in Nat
  BY DEF GoodLedger, Ledgers
<1>3. Total(l, c) = SumFunctionOnSet(f, Users)
  BY <1>1, Zenon DEF Total, SumFunction
<1>4. SumFunctionOnSet(f, Users) \in Nat
  <2>. HIDE DEF f
  <2>. QED
    BY <1>1, SumNat
<1>. QED
  BY <1>2, <1>3, <1>4

\* A ledger differs from another in what one user has in one currency.
Moves(l, m, u, n, c) ==
  /\ m.balance[u][c] = l.balance[u][c] + n
  /\ \A v \in Users, d \in Currencies : v # u \/ d # c => m.balance[v][d] = l.balance[v][d]

LEMMA TotalMoves ==
  ASSUME NEW l, GoodLedger(l), NEW m, GoodLedger(m), NEW u \in Users, NEW n \in Int,
         NEW c \in Currencies, Moves(l, m, u, n, c), NEW d \in Currencies
  PROVE  Total(m, d) = Total(l, d) + IF d = c THEN n ELSE 0
<1>. DEFINE f == [v \in Users |-> l.balance[v][d]]
            g == [v \in Users |-> m.balance[v][d]]
<1>1. /\ Total(l, d) = SumFunctionOnSet(f, Users) /\ Total(m, d) = SumFunctionOnSet(g, Users)
      /\ Total(l, d) \in Nat /\ Total(m, d) \in Nat
  BY TotalIs
<1>2. \A v \in Users : f[v] \in Int /\ g[v] \in Int
  <2>1. \A v \in Users : l.balance[v][d] \in Nat /\ m.balance[v][d] \in Nat
    BY TotalIs
  <2>. QED
    BY <2>1
<1>3. /\ \A v \in Users \ {u} : g[v] = f[v]
      /\ g[u] = f[u] + IF d = c THEN n ELSE 0
  <2>1. m.balance[u][d] = l.balance[u][d] + IF d = c THEN n ELSE 0
    <3>1. m.balance[u][c] = l.balance[u][c] + n /\ (d # c => m.balance[u][d] = l.balance[u][d])
      BY DEF Moves
    <3>2. l.balance[u][d] \in Nat
      BY TotalIs
    <3>. QED
      BY <3>1, <3>2
  <2>2. \A v \in Users \ {u} : m.balance[v][d] = l.balance[v][d]
    BY DEF Moves
  <2>. QED
    BY <2>1, <2>2
<1>4. IsFiniteSet(Users)
  BY PaymentsAssumption
<1>. HIDE DEF f, g
<1>5. SumFunctionOnSet(g, Users) = SumFunctionOnSet(f, Users) - f[u] + g[u]
  BY <1>2, <1>3, <1>4, SumChange
<1>. QED
  BY <1>1, <1>2, <1>3, <1>5

\* A balance that is set without a currency stands for no other one if there is none.
Alone(l, u, c) == c = "sat" => \A d \in Chains : l.balance[u][d] = 0

LEMMA CreditMoves ==
  ASSUME NEW l, GoodLedger(l), NEW u \in Users, NEW n \in Nat, NEW c \in Currencies,
         Alone(l, u, c), NEW m, m = Credit(l, u, n, c)
  PROVE  GoodLedger(m) /\ Moves(l, m, u, n, c)
<1>1. l.balance[u][c] \in Nat /\ Chains \cup {"sat"} = Currencies
  BY TotalIs DEF Currencies
<1>2. PICK k \in Nat : k = l.balance[u][c] + n
  BY <1>1
<1>3. m = SetBalance(l, u, k, c)
  BY <1>2 DEF Credit
<1>4. /\ GoodLedger(m) /\ m.balance[u][c] = k /\ \A v \in Users \ {u} : m.balance[v] = l.balance[v]
      /\ c # "sat" => \A d \in Currencies \ {c} : m.balance[u][d] = l.balance[u][d]
      /\ c = "sat" => \A d \in Currencies \ {c} : m.balance[u][d] = 0
  BY <1>3, SetBalanceGood
<1>5. \A d \in Currencies \ {c} : m.balance[u][d] = l.balance[u][d]
  BY <1>1, <1>4 DEF Alone
<1>. QED
  BY <1>2, <1>4, <1>5 DEF Moves

LEMMA DebitMoves ==
  ASSUME NEW l, GoodLedger(l), NEW u \in Users, NEW n \in Nat, NEW c \in Currencies,
         Alone(l, u, c), l.balance[u][c] >= n, NEW m, m = Debit(l, u, n, c)
  PROVE  GoodLedger(m) /\ Moves(l, m, u, - n, c)
<1>1. l.balance[u][c] \in Nat /\ Chains \cup {"sat"} = Currencies
  BY TotalIs DEF Currencies
<1>2. PICK k \in Nat : k = l.balance[u][c] - n
  BY <1>1
<1>3. m = SetBalance(l, u, k, c)
  BY <1>1, <1>2 DEF Debit
<1>4. /\ GoodLedger(m) /\ m.balance[u][c] = k /\ \A v \in Users \ {u} : m.balance[v] = l.balance[v]
      /\ c # "sat" => \A d \in Currencies \ {c} : m.balance[u][d] = l.balance[u][d]
      /\ c = "sat" => \A d \in Currencies \ {c} : m.balance[u][d] = 0
  BY <1>3, SetBalanceGood
<1>5. \A d \in Currencies \ {c} : m.balance[u][d] = l.balance[u][d]
  BY <1>1, <1>4 DEF Alone
<1>6. m.balance[u][c] = l.balance[u][c] + (- n)
  BY <1>1, <1>2, <1>4
<1>. QED
  BY <1>4, <1>5, <1>6 DEF Moves

\* What outputs bring in a currency.
Brought(os, c) == SumFunctionOnSet([o \in os |-> IF o.chain = c THEN o.value ELSE 0], os)

LEMMA BroughtIs ==
  ASSUME NEW os \in SUBSET Outputs, NEW c
  PROVE  /\ IsFiniteSet(os) /\ Brought(os, c) \in Nat
         /\ \A o \in os : Brought(os, c) = Brought(os \ {o}, c) + IF o.chain = c THEN o.value ELSE 0
         /\ Brought({}, c) = 0
<1>. DEFINE f == [o \in os |-> IF o.chain = c THEN o.value ELSE 0]
<1>1. IsFiniteSet(os)
  BY DepositsAssumption, FS_Subset
<1>2. \A o \in os : o.value \in Nat /\ f[o] \in Nat /\ f[o] = IF o.chain = c THEN o.value ELSE 0
  BY DepositsAssumption
<1>3. Brought(os, c) = SumFunctionOnSet(f, os)
  BY DEF Brought
<1>4. ASSUME NEW o \in os
      PROVE  Brought(os, c) = Brought(os \ {o}, c) + f[o] /\ Brought(os \ {o}, c) \in Nat
  <2>. DEFINE g == [w \in os \ {o} |-> IF w.chain = c THEN w.value ELSE 0]
  <2>1. \A w \in os \ {o} : f[w] \in Int /\ g[w] \in Nat /\ g[w] = f[w]
    BY <1>2
  <2>2. Brought(os \ {o}, c) = SumFunctionOnSet(g, os \ {o})
    BY DEF Brought
  <2>3. IsFiniteSet(os \ {o})
    BY <1>1, FS_Subset
  <2>. HIDE DEF f, g
  <2>4. SumFunctionOnSet(f, os \ {o}) = SumFunctionOnSet(g, os \ {o})
    BY <2>1, <2>3, SumSame
  <2>5. SumFunctionOnSet(f, os) = f[o] + SumFunctionOnSet(f, os \ {o})
    <3>1. \A w \in os : f[w] \in Int
      BY <1>2
    <3>. QED
      BY <1>1, <3>1, SumRemove
  <2>6. SumFunctionOnSet(g, os \ {o}) \in Nat
    BY <2>1, <2>3, SumNat
  <2>7. f[o] \in Nat
    BY <1>2
  <2>. QED
    BY <1>3, <2>2, <2>4, <2>5, <2>6, <2>7
<1>5. Brought({}, c) = 0
  BY SumEmpty DEF Brought
<1>6. Brought(os, c) \in Nat
  <2>. HIDE DEF f
  <2>. QED
    BY <1>1, <1>2, <1>3, SumNat
<1>. QED
  BY <1>1, <1>2, <1>4, <1>5, <1>6

\* An output that a scan credits and that was not credited before adds its value.
LEMMA CreditOnceMoves ==
  ASSUME NEW l, GoodLedger(l), NEW o \in Theirs, o.id \notin l.credited, NEW m, m = CreditOnce(l, o)
  PROVE  GoodLedger(m) /\ Moves(l, m, o.tweak, o.value, o.chain)
<1>1. o.tweak \in Users /\ o.value \in Nat /\ o.chain \in Chains /\ o.chain \in Currencies
  BY DepositsAssumption, Coins DEF Theirs
<1>2. PICK k : k = Credit(l, o.tweak, o.value, o.chain)
  OBVIOUS
<1>3. GoodLedger(k) /\ Moves(l, k, o.tweak, o.value, o.chain)
  BY <1>1, <1>2, Coins, CreditMoves DEF Alone
<1>4. m = [k EXCEPT !.credited = @ \cup {o.id}, !.scanned[o.id] = @ + 1]
  BY <1>2, Zenon DEF CreditOnce
<1>5. m.balance = k.balance
  <2>1. PICK a, b : a = k.credited \cup {o.id} /\ b = [k.scanned EXCEPT ![o.id] = @ + 1]
    OBVIOUS
  <2>2. k = [balance |-> k.balance, credited |-> k.credited, scanned |-> k.scanned, counted |-> k.counted]
    BY <1>3 DEF GoodLedger, Ledgers
  <2>3. DOMAIN k = {"balance", "credited", "scanned", "counted"}
    BY <2>2
  <2>. QED
    BY <1>4, <2>3
<1>. QED
  BY <1>3, <1>5, CreditOnceGood DEF Moves

LEMMA CreditsBook ==
  ASSUME NEW l, GoodLedger(l), NEW T \in SUBSET Theirs, \A o \in T : o.id \notin l.credited,
         NEW c \in Currencies
  PROVE  Total(Credits(l, T), c) = Total(l, c) + Brought(T, c)
<1>1. IsFiniteSet(T) /\ \A s \in SUBSET T : s \in SUBSET Outputs
  BY DepositsAssumption, FS_Subset DEF Theirs
<1>2. PICK g : Credits(l, T) = g[T] /\ \A s \in SUBSET T : g[s] = OneCredit(l, g, s)
  BY <1>1, CreditsUnfold
<1>. DEFINE As(s) == /\ GoodLedger(g[s]) /\ g[s].credited = l.credited \cup {o.id : o \in s}
                     /\ Total(g[s], c) = Total(l, c) + Brought(s, c)
            F == {s \in SUBSET T : ~ As(s)}
<1>3. SUFFICES ASSUME F # {} PROVE FALSE
  BY <1>2
<1>4. \A s \in F : IsFiniteSet(s)
  BY <1>1, FS_Subset
<1>5. PICK s \in F : \A t \in F : t \subseteq s => t = s
  <2>. HIDE DEF F
  <2>. QED
    BY <1>3, <1>4, SmallestSet
<1>6. s # {}
  <2>1. g[{}] = l
    BY <1>2 DEF OneCredit
  <2>2. Total(l, c) \in Nat /\ Brought({}, c) = 0
    BY TotalIs, BroughtIs
  <2>. QED
    BY <2>1, <2>2
<1>7. PICK o : o \in s /\ g[s] = CreditOnce(g[s \ {o}], o)
  BY <1>2, <1>6 DEF Pick, OneCredit
<1>8. PICK b : b = s \ {o}
  OBVIOUS
<1>9. As(b)
  <2>1. b \in SUBSET T /\ b # s /\ b \subseteq s
    BY <1>7, <1>8
  <2>. QED
    BY <1>5, <2>1
<1>10. s \in SUBSET T /\ b \in SUBSET T /\ o \in T /\ o \in Theirs /\ o \notin b
  BY <1>7, <1>8
<1>11. s \in F
  OBVIOUS
<1>12. /\ GoodLedger(g[b]) /\ g[b].credited = l.credited \cup {w.id : w \in b}
       /\ Total(g[b], c) = Total(l, c) + Brought(b, c)
  BY <1>9
<1>. HIDE DEF F
<1>13. o.id \notin g[b].credited
  <2>1. \A w \in b : w.id # o.id
    BY <1>1, <1>10, DepositsAssumption DEF Theirs
  <2>. QED
    BY <1>10, <1>12, <2>1
<1>14. GoodLedger(g[s]) /\ Moves(g[b], g[s], o.tweak, o.value, o.chain)
  BY <1>7, <1>8, <1>10, <1>12, <1>13, CreditOnceMoves
<1>15. g[s].credited = l.credited \cup {w.id : w \in s}
  <2>1. g[s].credited = g[b].credited \cup {o.id}
    BY <1>7, <1>8, <1>10, <1>12, CreditOnceGood
  <2>. QED
    BY <1>7, <1>8, <1>12, <2>1
<1>16. Total(g[s], c) = Total(g[b], c) + IF c = o.chain THEN o.value ELSE 0
  <2>1. o.tweak \in Users /\ o.value \in Int /\ o.chain \in Currencies
    BY <1>10, DepositsAssumption, Coins DEF Theirs
  <2>2. PICK k, m : k = g[b] /\ m = g[s]
    OBVIOUS
  <2>3. GoodLedger(k) /\ GoodLedger(m) /\ Moves(k, m, o.tweak, o.value, o.chain)
    BY <1>12, <1>14, <2>2
  <2>4. PICK u \in Users, n \in Int, d \in Currencies : u = o.tweak /\ n = o.value /\ d = o.chain
    BY <2>1
  <2>5. Total(m, c) = Total(k, c) + IF c = d THEN n ELSE 0
    BY <2>3, <2>4, TotalMoves
  <2>. QED
    BY <2>2, <2>4, <2>5
<1>17. Brought(s, c) = Brought(b, c) + (IF o.chain = c THEN o.value ELSE 0) /\ Brought(b, c) \in Nat
  <2>1. s \in SUBSET Outputs /\ b \in SUBSET Outputs
    BY <1>1, <1>10
  <2>2. Brought(s, c) = Brought(s \ {o}, c) + IF o.chain = c THEN o.value ELSE 0
    BY <1>7, <2>1, BroughtIs
  <2>3. Brought(b, c) \in Nat
    BY <2>1, BroughtIs
  <2>. QED
    BY <1>8, <2>2, <2>3
<1>18. Total(l, c) \in Nat /\ o.value \in Nat
  BY <1>10, TotalIs, DepositsAssumption DEF Theirs
<1>19. Total(g[s], c) = Total(l, c) + Brought(s, c)
  BY <1>12, <1>16, <1>17, <1>18
<1>. QED
  BY <1>11, <1>14, <1>15, <1>19 DEF F

\* What a request takes out of the pool, and what its reserves are then.
LEMMA PoolTakes ==
  ASSUME NEW r, Task(r), r.op \in PoolOps, Did(r, L("pool")), NEW p, p = r.copy["pool"]
  PROVE  /\ GoodPool(p) /\ r.cur \in Chains /\ r.amount \in Nat
         /\ \A c \in Chains : p.reserves[c] \in Nat
         /\ r.op = "add" => /\ r.item \in Nat
                            /\ \A c \in Chains : NewPool(r).reserves[c] =
                                 p.reserves[c] + IF c = r.cur THEN r.amount ELSE r.item
         /\ r.op = "remove" => \A c \in Chains :
              Worth(p, r.amount, c) \in Nat /\ NewPool(r).reserves[c] = p.reserves[c] - Worth(p, r.amount, c)
         /\ r.op = "poolSwap" =>
              /\ AmountOut(p, r.amount, r.cur) \in Nat
              /\ \A c \in Chains : NewPool(r).reserves[c] =
                   IF c = r.cur THEN p.reserves[c] + r.amount ELSE p.reserves[c] - AmountOut(p, r.amount, r.cur)
<1>1. /\ GoodPool(p) /\ Asked(r) /\ Checked(r) /\ r.copy.pool = p
      /\ r.amount \in Nat /\ r.amount > 0 /\ r.user \in Users /\ r.cur \in Chains
  <2>1. GoodPool(p) /\ Asked(r) /\ Checked(r) /\ r.copy.pool = p
    BY Copies DEF Task, Good, FileNames
  <2>. QED
    BY <2>1 DEF Asked
<1>2. /\ p.shares \in Nat /\ p.reserves \in [Chains -> Nat] /\ p.of \in [Users -> Nat]
      /\ p = [reserves |-> p.reserves, shares |-> p.shares, of |-> p.of]
  BY <1>1 DEF GoodPool, Pools
<1>3. CASE r.op = "add"
  <2>1. PICK k, f : NewPool(r) = [reserves |-> [c \in Chains |-> p.reserves[c] + IF c = r.cur THEN r.amount ELSE r.item],
                               shares |-> k, of |-> f]
    BY <1>1, <1>3, Zenon DEF NewPool
  <2>2. r.item \in Nat
    BY <1>1, <1>3 DEF Asked
  <2>. QED
    BY <1>1, <1>2, <1>3, <2>1, <2>2
<1>4. CASE r.op = "remove"
  <2>1. r.op # "add"
    BY <1>4
  <2>2. PICK k, f : NewPool(r) = [reserves |-> [c \in Chains |-> p.reserves[c] - [b \in Chains |-> Worth(p, r.amount, b)][c]],
                               shares |-> k, of |-> f]
    BY <1>1, <1>4, <2>1, Zenon DEF NewPool
  <2>3. r.amount <= p.of[r.user] /\ p.of[r.user] \in Nat /\ p.of[r.user] <= p.shares
    BY <1>1, <1>4, SharesOfOne DEF Checked
  <2>4. r.amount <= p.shares /\ p.shares > 0
    BY <1>1, <1>2, <2>3
  <2>5. \A c \in Chains : Worth(p, r.amount, c) \in Nat
    BY <1>1, <2>4, WorthNat
  <2>6. \A c \in Chains : NewPool(r).reserves[c] = p.reserves[c] - Worth(p, r.amount, c)
    BY <2>2
  <2>. QED
    BY <1>1, <1>2, <1>4, <2>5, <2>6
<1>5. CASE r.op = "poolSwap"
  <2>1. r.op # "add" /\ r.op # "remove"
    BY <1>5
  <2>2. PICK z : z = [c \in Chains |-> IF c = r.cur THEN p.reserves[c] + r.amount
                                     ELSE p.reserves[c] - AmountOut(p, r.amount, r.cur)]
    OBVIOUS
  <2>3. NewPool(r) = [p EXCEPT !.reserves = z]
    BY <1>1, <2>1, <2>2, Zenon DEF NewPool
  <2>4. NewPool(r).reserves = z
    BY <1>2, <2>3
  <2>5. p.shares > 0
    BY <1>1, <1>5 DEF Checked
  <2>6. AmountOut(p, r.amount, r.cur) \in Nat
    BY <1>1, <2>5, AmountOutNat
  <2>. QED
    BY <1>1, <1>2, <1>5, <2>2, <2>4, <2>6
<1>. QED
  BY <1>3, <1>4, <1>5 DEF PoolOps

\* A string of satoshis that takes nobody anything took the place of nothing.
LEMMA NothingLost ==
  ASSUME NEW l, GoodLedger(l), NEW u \in Users, NEW n \in Nat, NEW c \in Currencies, NEW m,
         m = Credit(l, u, n, c) \/ (m = Debit(l, u, n, c) /\ l.balance[u][c] >= n)
  PROVE  /\ GoodLedger(m) /\ \A v \in Users \ {u} : m.balance[v] = l.balance[v]
         /\ c = "sat" => \A d \in Chains : m.balance[u][d] = 0
         /\ (c = "sat" => \A d \in Chains : m.balance[u][d] >= l.balance[u][d]) => Alone(l, u, c)
<1>1. l.balance[u][c] \in Nat
  BY TotalIs
<1>2. \E k \in Nat : m = SetBalance(l, u, k, c)
  <2>1. CASE m = Credit(l, u, n, c)
    <3>1. l.balance[u][c] + n \in Nat
      BY <1>1
    <3>. QED
      BY <2>1, <3>1 DEF Credit
  <2>2. CASE m = Debit(l, u, n, c) /\ l.balance[u][c] >= n
    <3>1. l.balance[u][c] - n \in Nat /\ ~ (l.balance[u][c] < n)
      BY <1>1, <2>2
    <3>. QED
      BY <2>2, <3>1 DEF Debit
  <2>. QED
    BY <2>1, <2>2
<1>3. PICK k \in Nat : m = SetBalance(l, u, k, c)
  BY <1>2
<1>4. /\ GoodLedger(m) /\ \A v \in Users \ {u} : m.balance[v] = l.balance[v]
      /\ c = "sat" => \A d \in Currencies \ {c} : m.balance[u][d] = 0
  BY <1>3, SetBalanceGood
<1>5. c = "sat" => \A d \in Chains : m.balance[u][d] = 0
  BY <1>4, Coins
<1>6. \A d \in Chains : l.balance[u][d] \in Nat
  BY TotalIs, Coins
<1>. QED
  BY <1>4, <1>5, <1>6 DEF Alone

\* What a request adds to the ledger when it saves it.
Booked(r, c) ==
  CASE r.op = "scan" -> Brought(r.inputs, c)
    [] r.op \in {"claim", "mrc20", "txo"} -> IF c = r.cur THEN r.amount ELSE 0
    [] r.op = "buy" -> IF c = r.cur THEN - Cost(r) ELSE 0
    [] r.op = "swap" -> 0
    [] r.op \in PoolOps -> IF c \in Chains THEN r.copy["pool"].reserves[c] - NewPool(r).reserves[c] ELSE 0
    [] OTHER -> IF c = r.cur THEN - r.amount ELSE 0

LEMMA BookedIs ==
  ASSUME NEW r, NEW c
  PROVE  /\ r.op = "scan" => Booked(r, c) = Brought(r.inputs, c)
         /\ r.op \in {"claim", "mrc20", "txo"} => Booked(r, c) = IF c = r.cur THEN r.amount ELSE 0
         /\ r.op = "swap" => Booked(r, c) = 0
         /\ r.op \in PoolOps => Booked(r, c) =
              IF c \in Chains THEN r.copy["pool"].reserves[c] - NewPool(r).reserves[c] ELSE 0
<1>1. CASE r.op = "scan"
  BY <1>1, Zenon DEF Booked, PoolOps
<1>2. CASE r.op = "claim"
  BY <1>2, Zenon DEF Booked, PoolOps
<1>3. CASE r.op = "mrc20"
  BY <1>3, Zenon DEF Booked, PoolOps
<1>4. CASE r.op = "txo"
  BY <1>4, Zenon DEF Booked, PoolOps
<1>5. CASE r.op = "swap"
  BY <1>5, Zenon DEF Booked, PoolOps
<1>6. CASE r.op = "add"
  BY <1>6, Zenon DEF Booked, PoolOps
<1>7. CASE r.op = "remove"
  BY <1>7, Zenon DEF Booked, PoolOps
<1>8. CASE r.op = "poolSwap"
  BY <1>8, Zenon DEF Booked, PoolOps
<1>. QED
  BY <1>1, <1>2, <1>3, <1>4, <1>5, <1>6, <1>7, <1>8, Zenon DEF PoolOps

\* The moves of a request that pays or is paid.
LEMMA OneMove ==
  ASSUME NEW r, Task(r), Head(r.todo) = S("ledger"), NEW l, l = r.copy["ledger"], NEW m, m = NewLedger(r),
         r.cur = "sat" => \A u \in Users, c \in Chains : m.balance[u][c] >= l.balance[u][c],
         r.op \in {"claim", "mrc20", "txo", "access", "condition", "withdrawSats", "buy"},
         NEW c \in Currencies
  PROVE  Total(m, c) = Total(l, c) + Booked(r, c)
<1>1. /\ BeforeSave(r, "ledger") /\ GoodLedger(l) /\ Asked(r) /\ Affords(r)
      /\ r.user \in Users /\ r.amount \in Nat /\ r.cur \in Currencies /\ Balance(r) = l.balance[r.user][r.cur]
  <2>1. BeforeSave(r, "ledger") /\ GoodLedger(l) /\ Asked(r) /\ Checked(r)
    BY AtSave DEF Good
  <2>. QED
    BY <2>1, Copies DEF BeforeSave, Checked, Asked, Balance
<1>2. r.copy.ledger = l
  BY Copies
<1>3. CASE r.op \in {"claim", "mrc20", "txo"}
  <2>1. PICK k : k = Credit(l, r.user, r.amount, r.cur)
    OBVIOUS
  <2>2. GoodLedger(k)
    BY <1>1, <2>1, CreditGood
  <2>3. m.balance = k.balance
    <3>1. CASE r.op = "txo"
      BY <1>2, <2>1, <3>1 DEF NewLedger
    <3>2. CASE r.op \in {"claim", "mrc20"}
      <4>1. m = Count(k, r.item.id)
        BY <1>2, <2>1, <3>2 DEF NewLedger, Count
      <4>2. DOMAIN k = {"balance", "credited", "scanned", "counted"}
        BY <2>2 DEF GoodLedger, Ledgers
      <4>. QED
        BY <4>1, <4>2 DEF Count
    <3>. QED
      BY <1>3, <3>1, <3>2
  <2>4. Moves(l, k, r.user, r.amount, r.cur)
    <3>1. Alone(l, r.user, r.cur)
      BY <1>1, <2>1, <2>3, NothingLost
    <3>. QED
      BY <1>1, <2>1, <3>1, CreditMoves
  <2>5. Total(k, c) = Total(l, c) + IF c = r.cur THEN r.amount ELSE 0
    BY <1>1, <2>2, <2>4, TotalMoves
  <2>6. Total(m, c) = Total(k, c)
    BY <2>3 DEF Total
  <2>7. Booked(r, c) = IF c = r.cur THEN r.amount ELSE 0
    BY <1>3, BookedIs
  <2>. QED
    BY <2>5, <2>6, <2>7
<1>4. CASE r.op \in {"access", "condition", "withdrawSats", "buy"}
  <2>1. PICK n : n = IF r.op = "buy" THEN Cost(r) ELSE r.amount
    OBVIOUS
  <2>2. n \in Nat /\ l.balance[r.user][r.cur] >= n
    BY <1>1, <1>4, <2>1, CostNat DEF Affords
  <2>3. m = Debit(l, r.user, n, r.cur)
    BY <1>2, <1>4, <2>1 DEF NewLedger
  <2>4. GoodLedger(m) /\ Moves(l, m, r.user, - n, r.cur)
    <3>1. Alone(l, r.user, r.cur)
      BY <1>1, <2>2, <2>3, NothingLost
    <3>. QED
      BY <1>1, <2>2, <2>3, <3>1, DebitMoves
  <2>5. PICK k \in Int : k = - n
    BY <2>2
  <2>6. Total(m, c) = Total(l, c) + IF c = r.cur THEN k ELSE 0
    BY <1>1, <2>4, <2>5, TotalMoves
  <2>7. Booked(r, c) = IF c = r.cur THEN k ELSE 0
    BY <1>4, <2>1, <2>5 DEF Booked, PoolOps
  <2>. QED
    BY <2>6, <2>7
<1>. QED
  BY <1>3, <1>4

\* An offer is paid from one user to another.
LEMMA SwapMoves ==
  ASSUME NEW r, Task(r), Head(r.todo) = S("ledger"), NEW l, l = r.copy["ledger"], NEW m, m = NewLedger(r),
         r.cur = "sat" => \A u \in Users, c \in Chains : m.balance[u][c] >= l.balance[u][c],
         r.op = "swap", NEW c \in Currencies
  PROVE  Total(m, c) = Total(l, c) + Booked(r, c)
<1>1. /\ GoodLedger(l) /\ r.user \in Users /\ r.cur = "sat" /\ "sat" \in Currencies
      /\ r.item.seller \in Users /\ r.item.price \in Nat /\ l.balance[r.user]["sat"] >= r.item.price
  <2>1. BeforeSave(r, "ledger") /\ GoodLedger(l) /\ Asked(r) /\ Checked(r)
    BY AtSave DEF Good
  <2>2. Affords(r) /\ r.cur = "sat" /\ r.user \in Users /\ r.item.seller \in Users /\ r.item.price \in Nat
    BY <2>1 DEF BeforeSave, Checked, Asked
  <2>. QED
    BY <2>1, <2>2, Copies, Coins DEF Affords, Balance
<1>2. PICK u \in Users, w \in Users, n \in Nat : u = r.user /\ w = r.item.seller /\ n = r.item.price
  BY <1>1
<1>3. PICK k : k = Debit(l, u, n, "sat")
  OBVIOUS
<1>4. m = Credit(k, w, n, "sat")
  <2>1. r.copy.ledger = l
    BY Copies
  <2>. QED
    BY <1>2, <1>3, <2>1 DEF NewLedger
<1>5. /\ GoodLedger(k) /\ (\A v \in Users \ {u} : k.balance[v] = l.balance[v])
      /\ \A d \in Chains : k.balance[u][d] = 0
  BY <1>1, <1>2, <1>3, NothingLost
<1>6. /\ GoodLedger(m) /\ (\A v \in Users \ {w} : m.balance[v] = k.balance[v])
      /\ \A d \in Chains : m.balance[w][d] = 0
  BY <1>1, <1>4, <1>5, NothingLost
<1>7. \A v \in Users, d \in Chains : l.balance[v][d] \in Nat /\ m.balance[v][d] >= l.balance[v][d]
  BY <1>1, TotalIs, Coins
<1>8. Alone(l, u, "sat")
  <2>1. \A d \in Chains : m.balance[u][d] = 0
    BY <1>5, <1>6
  <2>2. \A d \in Chains : l.balance[u][d] = 0
    BY <1>7, <2>1
  <2>. QED
    BY <2>2 DEF Alone
<1>9. Alone(k, w, "sat")
  <2>1. \A d \in Chains : l.balance[w][d] = 0
    BY <1>6, <1>7
  <2>2. \A d \in Chains : k.balance[w][d] = 0
    BY <1>5, <2>1
  <2>. QED
    BY <2>2 DEF Alone
<1>10. Moves(l, k, u, - n, "sat") /\ Moves(k, m, w, n, "sat")
  <2>1. Moves(l, k, u, - n, "sat")
    BY <1>1, <1>2, <1>3, <1>8, DebitMoves
  <2>2. Moves(k, m, w, n, "sat")
    BY <1>1, <1>4, <1>5, <1>9, CreditMoves
  <2>. QED
    BY <2>1, <2>2
<1>11. PICK z \in Int : z = - n
  OBVIOUS
<1>12. Total(k, c) = Total(l, c) + IF c = "sat" THEN z ELSE 0
  BY <1>1, <1>5, <1>10, <1>11, TotalMoves
<1>13. Total(m, c) = Total(k, c) + IF c = "sat" THEN n ELSE 0
  BY <1>1, <1>5, <1>6, <1>10, TotalMoves
<1>14. Booked(r, c) = 0 /\ Total(l, c) \in Nat
  BY <1>1, TotalIs, BookedIs
<1>. QED
  BY <1>11, <1>12, <1>13, <1>14

\* Liquidity comes from the ledger or goes to it.
LEMMA PoolMoves ==
  ASSUME NEW r, Task(r), Head(r.todo) = S("ledger"), NEW l, l = r.copy["ledger"], NEW m, m = NewLedger(r),
         r.op \in PoolOps, NEW c \in Currencies
  PROVE  Total(m, c) = Total(l, c) + Booked(r, c)
<1>. DEFINE p == r.copy["pool"]
            d == OtherChain(r.cur)
<1>1. /\ GoodLedger(l) /\ Affords(r) /\ Did(r, L("pool")) /\ r.user \in Users /\ Balance(r) = l.balance[r.user][r.cur]
  <2>1. BeforeSave(r, "ledger") /\ GoodLedger(l) /\ Asked(r) /\ Checked(r)
    BY AtSave DEF Good
  <2>. QED
    BY <2>1, Copies DEF BeforeSave, Checked, Asked, Balance
<1>2. /\ GoodPool(p) /\ r.cur \in Chains /\ r.amount \in Nat
      /\ \A b \in Chains : p.reserves[b] \in Nat
      /\ r.op = "add" => /\ r.item \in Nat
                         /\ \A b \in Chains : NewPool(r).reserves[b] =
                              p.reserves[b] + IF b = r.cur THEN r.amount ELSE r.item
      /\ r.op = "remove" => \A b \in Chains :
           Worth(p, r.amount, b) \in Nat /\ NewPool(r).reserves[b] = p.reserves[b] - Worth(p, r.amount, b)
      /\ r.op = "poolSwap" =>
           /\ AmountOut(p, r.amount, r.cur) \in Nat
           /\ \A b \in Chains : NewPool(r).reserves[b] =
                IF b = r.cur THEN p.reserves[b] + r.amount ELSE p.reserves[b] - AmountOut(p, r.amount, r.cur)
  BY <1>1, PoolTakes
<1>3. /\ d \in Chains /\ d # r.cur /\ Chains = {r.cur, d} /\ d \in Currencies /\ r.cur \in Currencies
      /\ \A b \in Chains : b # "sat"
  BY <1>2, Coins
<1>4. r.copy.ledger = l /\ r.copy.pool = p
  BY Copies
<1>5. Booked(r, c) = IF c \in Chains THEN p.reserves[c] - NewPool(r).reserves[c] ELSE 0
  BY BookedIs
<1>6. Total(l, c) \in Nat
  BY <1>1, TotalIs
<1>. HIDE DEF p, d
\* Two moves of one user, of n in the one currency and of k in the other.
<1>7. ASSUME NEW g, GoodLedger(g), GoodLedger(m), NEW n \in Int, NEW k \in Int,
             Moves(l, g, r.user, n, r.cur), Moves(g, m, r.user, k, d)
      PROVE  Total(m, c) = Total(l, c) + (IF c = r.cur THEN n ELSE 0) + (IF c = d THEN k ELSE 0)
  <2>1. Total(g, c) = Total(l, c) + IF c = r.cur THEN n ELSE 0
    BY <1>1, <1>3, <1>7, TotalMoves
  <2>2. Total(m, c) = Total(g, c) + IF c = d THEN k ELSE 0
    BY <1>1, <1>3, <1>7, TotalMoves
  <2>. QED
    BY <2>1, <2>2
<1>8. CASE r.op = "add"
  <2>1. PICK g : g = Debit(l, r.user, r.amount, r.cur)
    OBVIOUS
  <2>2. l.balance[r.user][r.cur] >= r.amount /\ l.balance[r.user][d] >= r.item
    BY <1>1, <1>8 DEF Affords, d
  <2>3. GoodLedger(g) /\ Moves(l, g, r.user, - r.amount, r.cur)
    BY <1>1, <1>2, <1>3, <2>1, <2>2, DebitMoves DEF Alone
  <2>4. m = Debit(g, r.user, r.item, d)
    BY <1>4, <1>8, <2>1 DEF NewLedger, d
  <2>5. g.balance[r.user][d] >= r.item
    <3>1. g.balance[r.user][d] = l.balance[r.user][d]
      BY <1>1, <1>3, <2>3 DEF Moves
    <3>. QED
      BY <2>2, <3>1
  <2>6. GoodLedger(m) /\ Moves(g, m, r.user, - r.item, d)
    BY <1>1, <1>2, <1>3, <1>8, <2>3, <2>4, <2>5, DebitMoves DEF Alone
  <2>7. PICK n \in Int, k \in Int : n = - r.amount /\ k = - r.item
    BY <1>2, <1>8
  <2>8. Total(m, c) = Total(l, c) + (IF c = r.cur THEN n ELSE 0) + (IF c = d THEN k ELSE 0)
    BY <1>7, <2>3, <2>6, <2>7
  <2>9. Booked(r, c) = (IF c = r.cur THEN n ELSE 0) + (IF c = d THEN k ELSE 0)
    BY <1>2, <1>3, <1>5, <1>8, <2>7
  <2>. QED
    BY <1>6, <2>8, <2>9
<1>9. CASE r.op = "remove"
  <2>1. PICK n \in Nat, k \in Nat : n = Worth(p, r.amount, r.cur) /\ k = Worth(p, r.amount, d)
    BY <1>2, <1>3, <1>9
  <2>2. PICK g : g = Credit(l, r.user, n, r.cur)
    OBVIOUS
  <2>3. GoodLedger(g) /\ Moves(l, g, r.user, n, r.cur)
    BY <1>1, <1>2, <1>3, <2>2, CreditMoves DEF Alone
  <2>4. m = Credit(g, r.user, k, d)
    BY <1>4, <1>9, <2>1, <2>2 DEF NewLedger, d
  <2>5. GoodLedger(m) /\ Moves(g, m, r.user, k, d)
    BY <1>1, <1>3, <2>3, <2>4, CreditMoves DEF Alone
  <2>6. Total(m, c) = Total(l, c) + (IF c = r.cur THEN n ELSE 0) + (IF c = d THEN k ELSE 0)
    BY <1>7, <2>3, <2>5
  <2>7. Booked(r, c) = (IF c = r.cur THEN n ELSE 0) + (IF c = d THEN k ELSE 0)
    <3>1. c \in Chains => Booked(r, c) = Worth(p, r.amount, c)
      BY <1>2, <1>5, <1>9
    <3>. QED
      BY <1>3, <1>5, <2>1, <3>1
  <2>. QED
    BY <1>6, <2>6, <2>7
<1>10. CASE r.op = "poolSwap"
  <2>1. PICK g : g = Debit(l, r.user, r.amount, r.cur)
    OBVIOUS
  <2>2. l.balance[r.user][r.cur] >= r.amount
    BY <1>1, <1>10 DEF Affords
  <2>3. GoodLedger(g) /\ Moves(l, g, r.user, - r.amount, r.cur)
    BY <1>1, <1>2, <1>3, <2>1, <2>2, DebitMoves DEF Alone
  <2>4. PICK k \in Nat : k = AmountOut(p, r.amount, r.cur)
    BY <1>2, <1>10
  <2>5. m = Credit(g, r.user, k, d)
    BY <1>4, <1>10, <2>1, <2>4 DEF NewLedger, d
  <2>6. GoodLedger(m) /\ Moves(g, m, r.user, k, d)
    BY <1>1, <1>3, <2>3, <2>5, CreditMoves DEF Alone
  <2>7. PICK n \in Int : n = - r.amount
    BY <1>2
  <2>8. Total(m, c) = Total(l, c) + (IF c = r.cur THEN n ELSE 0) + (IF c = d THEN k ELSE 0)
    BY <1>7, <2>3, <2>6, <2>7
  <2>9. Booked(r, c) = (IF c = r.cur THEN n ELSE 0) + (IF c = d THEN k ELSE 0)
    BY <1>2, <1>3, <1>5, <1>10, <2>4, <2>7
  <2>. QED
    BY <1>6, <2>8, <2>9
<1>. QED
  BY <1>8, <1>9, <1>10 DEF PoolOps

\* A save of the ledger adds what the request books, unless it credits an output again or
\* makes a string of an amount with other currencies.
LEMMA LedgerBooks ==
  ASSUME NEW r, Task(r), Head(r.todo) = S("ledger"), NEW l, l = r.copy["ledger"], NEW m, m = NewLedger(r),
         r.cur = "sat" => \A u \in Users, c \in Chains : m.balance[u][c] >= l.balance[u][c],
         r.op = "scan" => \A o \in r.inputs : o.id \notin l.credited,
         NEW c \in Currencies
  PROVE  Total(m, c) = Total(l, c) + Booked(r, c)
<1>1. /\ BeforeSave(r, "ledger") /\ GoodLedger(l) /\ Checked(r) /\ r.op \in Ops
  BY AtSave DEF Good, Task, Shaped
<1>2. CASE r.op = "scan"
  <2>1. r.inputs \in SUBSET Theirs
    BY <1>1, <1>2 DEF BeforeSave, Checked
  <2>2. m = Credits(l, r.inputs)
    BY <1>2, Copies DEF NewLedger, Credits
  <2>. QED
    BY <1>1, <1>2, <2>1, <2>2, CreditsBook, BookedIs
<1>. QED
  BY <1>1, <1>2, OneMove, SwapMoves, PoolMoves DEF Ops, PoolOps, BeforeSave

-----------------------------------------------------------------------------
(* Money: the deposits that are recorded. *)

\* What the outputs that are deposits are worth in a currency.
Weight(u, c) == IF u.chain = c /\ u.deposit THEN u.value ELSE 0
Deposits(us, c) == SumFunctionOnSet([u \in us |-> Weight(u, c)], us)

LEMMA WeightNat ==
  ASSUME NEW us, GoodUtxos(us), NEW c
  PROVE  /\ IsFiniteSet(us) /\ \A u \in us : Weight(u, c) \in Nat /\ [v \in us |-> Weight(v, c)][u] = Weight(u, c)
         /\ Deposits(us, c) \in Nat
<1>1. IsFiniteSet(us) /\ \A u \in us : u.value \in Nat
  BY DEF GoodUtxos, UtxosOf
<1>2. \A u \in us : Weight(u, c) \in Nat /\ [v \in us |-> Weight(v, c)][u] = Weight(u, c)
  BY <1>1 DEF Weight
<1>3. PICK f : f = [u \in us |-> Weight(u, c)]
  OBVIOUS
<1>4. \A u \in us : f[u] \in Nat
  BY <1>2, <1>3
<1>5. SumFunctionOnSet(f, us) \in Nat
  BY <1>1, <1>4, SumNat
<1>. QED
  BY <1>1, <1>2, <1>3, <1>5 DEF Deposits

\* A sum over more outputs restricted to some of them.
LEMMA DepositsOf ==
  ASSUME NEW us, GoodUtxos(us), NEW c, NEW vs \in SUBSET us
  PROVE  GoodUtxos(vs) /\ SumFunctionOnSet([u \in us |-> Weight(u, c)], vs) = Deposits(vs, c)
<1>1. GoodUtxos(vs)
  BY PartOfUtxos
<1>2. PICK f, g : f = [u \in us |-> Weight(u, c)] /\ g = [u \in vs |-> Weight(u, c)]
  OBVIOUS
<1>3. IsFiniteSet(vs) /\ \A u \in vs : Weight(u, c) \in Nat
  BY <1>1, WeightNat
<1>4. \A u \in vs : f[u] \in Int /\ g[u] = f[u]
  BY <1>2, <1>3
<1>5. SumFunctionOnSet(f, vs) = SumFunctionOnSet(g, vs)
  BY <1>3, <1>4, SumSame
<1>. QED
  BY <1>1, <1>2, <1>5 DEF Deposits

LEMMA DepositsPart ==
  ASSUME NEW us, GoodUtxos(us), NEW c, NEW vs \in SUBSET us
  PROVE  Deposits(us, c) = Deposits(vs, c) + Deposits(us \ vs, c)
<1>1. PICK f : f = [u \in us |-> Weight(u, c)]
  OBVIOUS
<1>2. IsFiniteSet(us) /\ \A u \in us : f[u] \in Int
  <2>1. IsFiniteSet(us) /\ \A u \in us : Weight(u, c) \in Nat
    BY WeightNat
  <2>. QED
    BY <1>1, <2>1
<1>3. SumFunctionOnSet(f, us) = SumFunctionOnSet(f, vs) + SumFunctionOnSet(f, us \ vs)
  BY <1>2, SumSplit
<1>4. /\ SumFunctionOnSet(f, us) = Deposits(us, c) /\ SumFunctionOnSet(f, vs) = Deposits(vs, c)
      /\ SumFunctionOnSet(f, us \ vs) = Deposits(us \ vs, c)
  BY <1>1, DepositsOf
<1>. QED
  BY <1>3, <1>4

LEMMA DepositsMore ==
  ASSUME NEW us, GoodUtxos(us), NEW vs, GoodUtxos(vs), us \cap vs = {}, NEW ws, ws = us \cup vs, NEW c
  PROVE  GoodUtxos(ws) /\ Deposits(ws, c) = Deposits(us, c) + Deposits(vs, c)
<1>1. GoodUtxos(ws)
  BY MoreUtxos
<1>2. us \in SUBSET ws /\ ws \ us = vs
  OBVIOUS
<1>. QED
  BY <1>1, <1>2, DepositsPart

\* What outputs that are no deposits count for.
LEMMA DepositsNone ==
  ASSUME NEW us, GoodUtxos(us), NEW c, \A u \in us : ~ u.deposit
  PROVE  Deposits(us, c) = 0
<1>1. PICK f : f = [u \in us |-> Weight(u, c)]
  OBVIOUS
<1>2. \A u \in us : f[u] = 0
  BY <1>1 DEF Weight
<1>. QED
  BY <1>1, <1>2, SumZero DEF Deposits, GoodUtxos

\* The deposits as the model adds them up.
LEMMA SettledIs ==
  ASSUME NEW us, GoodUtxos(us), NEW c
  PROVE  Value({u \in us : u.chain = c /\ u.deposit}) = Deposits(us, c) /\ Deposits(us, c) \in Nat
<1>1. PICK vs : vs = {u \in us : u.chain = c /\ u.deposit}
  OBVIOUS
<1>2. vs \in SUBSET us /\ (\A u \in vs : Weight(u, c) = u.value) /\ \A u \in us \ vs : Weight(u, c) = 0
  BY <1>1 DEF Weight
<1>3. Deposits(us \ vs, c) = 0
  <2>1. PICK f : f = [u \in us \ vs |-> Weight(u, c)]
    OBVIOUS
  <2>2. \A u \in us \ vs : f[u] = 0
    BY <1>2, <2>1
  <2>3. IsFiniteSet(us \ vs)
    BY FS_Subset DEF GoodUtxos
  <2>. QED
    BY <2>1, <2>2, <2>3, SumZero DEF Deposits
<1>4. Value(vs) = Deposits(vs, c)
  <2>1. PICK f, g : f = [u \in vs |-> u.value] /\ g = [u \in vs |-> Weight(u, c)]
    OBVIOUS
  <2>2. DOMAIN f = vs /\ IsFiniteSet(vs)
    BY <1>2, <2>1, FS_Subset DEF GoodUtxos
  <2>3. f = g
    BY <1>2, <2>1
  <2>. QED
    BY <2>1, <2>2, <2>3, Zenon DEF Value, Deposits, SumFunction
<1>5. Deposits(vs, c) \in Nat /\ Deposits(us, c) \in Nat
  BY <1>2, PartOfUtxos, WeightNat
<1>6. Deposits(us, c) = Deposits(vs, c) + Deposits(us \ vs, c)
  BY <1>2, DepositsPart
<1>. QED
  BY <1>1, <1>3, <1>4, <1>5, <1>6

\* What a record of an output counts for.
LEMMA RecordWeight ==
  ASSUME NEW o \in Outputs, NEW u, NEW c
  PROVE  /\ Utxo(o) \in UtxosOf({o.id}) /\ Utxo(o).id = o.id
         /\ Weight(Utxo(o), c) = IF o.chain = c THEN o.value ELSE 0
         /\ Weight(Claimed(o, u), c) = IF o.chain = c THEN o.value ELSE 0
<1>1. PICK no \in BOOLEAN, yes \in BOOLEAN : no = FALSE /\ yes = TRUE
  OBVIOUS
<1>2. Utxo(o) = Record(o.id, o.chain, o.value, o.tweak, no, yes)
  BY <1>1, Zenon DEF Utxo, Record
<1>0. Utxo(o) \in UtxosOf({o.id}) /\ Utxo(o).id = o.id
  <2>1. PICK v : v = Record(o.id, o.chain, o.value, o.tweak, no, yes)
    OBVIOUS
  <2>2. o.chain \in Chains /\ o.value \in Nat /\ o.tweak \in Users \cup {NoUser}
    BY DepositsAssumption
  <2>3. v \in UtxosOf({o.id}) /\ v.id = o.id
    BY <2>1, <2>2, RecordGood
  <2>. QED
    BY <1>2, <2>1, <2>3
<1>3. /\ Utxo(o).chain = o.chain /\ Utxo(o).value = o.value /\ (Utxo(o).deposit <=> yes)
      /\ DOMAIN Utxo(o) = {"id", "chain", "value", "tweak", "spent", "deposit"}
  <2>1. PICK v : v = Utxo(o)
    OBVIOUS
  <2>2. v = Record(o.id, o.chain, o.value, o.tweak, no, yes)
    BY <1>2, <2>1
  <2>3. /\ v.chain = o.chain /\ v.value = o.value /\ (v.deposit <=> yes)
        /\ DOMAIN v = {"id", "chain", "value", "tweak", "spent", "deposit"}
    BY <2>2 DEF Record
  <2>. QED
    BY <2>1, <2>3
<1>4. /\ Claimed(o, u).chain = o.chain /\ Claimed(o, u).value = o.value /\ (Claimed(o, u).deposit <=> yes)
  <2>1. PICK v, x : v = Utxo(o) /\ x = IF v.tweak = u THEN v.tweak ELSE NoUser
    OBVIOUS
  <2>2. Claimed(o, u) = [v EXCEPT !.tweak = x]
    BY <2>1, Zenon DEF Claimed
  <2>3. /\ v.chain = o.chain /\ v.value = o.value /\ (v.deposit <=> yes)
        /\ DOMAIN v = {"id", "chain", "value", "tweak", "spent", "deposit"}
    BY <1>3, <2>1
  <2>4. PICK w : w = [v EXCEPT !.tweak = x]
    OBVIOUS
  <2>5. w.chain = v.chain /\ w.value = v.value /\ w.deposit = v.deposit
    BY <2>3, <2>4
  <2>6. w = Claimed(o, u)
    BY <2>2, <2>4
  <2>7. w.chain = o.chain /\ w.value = o.value /\ (w.deposit <=> yes)
    BY <2>3, <2>5
  <2>. QED
    BY <2>6, <2>7
<1>. QED
  BY <1>0, <1>1, <1>3, <1>4 DEF Weight

\* The records of the outputs that a scan has found.
LEMMA DepositsFound ==
  ASSUME NEW os \in SUBSET Outputs, NEW us, us = {Utxo(o) : o \in os}, NEW c
  PROVE  GoodUtxos(us) /\ Deposits(us, c) = Brought(os, c)
<1>1. /\ IsFiniteSet(os) /\ \A o \in os : o.tweak \in Users \cup {NoUser} /\ o.value \in Nat
      /\ \A o, w \in os : o.id = w.id => o = w
  BY DepositsAssumption, FS_Subset
<1>2. PICK h, f, g : /\ h = [o \in os |-> Utxo(o)] /\ g = [u \in us |-> Weight(u, c)]
                     /\ f = [o \in os |-> IF o.chain = c THEN o.value ELSE 0]
  OBVIOUS
<1>3. us = {h[o] : o \in os}
  BY <1>2
<1>4. \A o, w \in os : h[o] = h[w] => o = w
  <2>1. \A o \in os : Utxo(o).id = o.id
    BY RecordWeight
  <2>. QED
    BY <1>1, <1>2, <2>1
<1>5. \A o \in os : f[o] \in Int /\ g[h[o]] = f[o]
  <2>1. \A o \in os : Weight(Utxo(o), c) = IF o.chain = c THEN o.value ELSE 0
    BY RecordWeight
  <2>. QED
    BY <1>1, <1>2, <2>1
<1>6. IsFiniteSet(us) /\ SumFunctionOnSet(g, us) = SumFunctionOnSet(f, os)
  <2>1. IsFiniteSet({h[o] : o \in os}) /\ SumFunctionOnSet(g, {h[o] : o \in os}) = SumFunctionOnSet(f, os)
    <3>1. IsFiniteSet(os)
      BY <1>1
    <3>. QED
      BY <1>4, <1>5, <3>1, SumRenamed
  <2>. QED
    BY <1>3, <2>1
<1>7. GoodUtxos(us)
  <2>1. \A o \in os : Utxo(o) \in UtxosOf({o.id}) /\ Utxo(o).id = o.id
    BY RecordWeight
  <2>. QED
    BY <1>6, <2>1, UtxosMade
<1>. QED
  BY <1>2, <1>6, <1>7 DEF Deposits, Brought

\* Outputs that are spent are the deposits that they were.
LEMMA DepositsSpent ==
  ASSUME NEW us, GoodUtxos(us), \A u, v \in us : u.id = v.id => u = v,
         NEW vs, vs = {Spent(u) : u \in us}, NEW c
  PROVE  GoodUtxos(vs) /\ Deposits(vs, c) = Deposits(us, c)
<1>1. PICK h, f, g : /\ h = [u \in us |-> Spent(u)] /\ g = [u \in vs |-> Weight(u, c)]
                     /\ f = [u \in us |-> Weight(u, c)]
  OBVIOUS
<1>2. IsFiniteSet(us) /\ \A u \in us : Weight(u, c) \in Nat
  BY WeightNat
<1>3. \A u \in us : Spent(u) \in UtxosOf({u.id}) /\ Spent(u).id = u.id
  BY SpentGood
<1>4. vs = {h[u] : u \in us} /\ \A u, v \in us : h[u] = h[v] => u = v
  <2>1. \A u \in us : h[u] = Spent(u)
    BY <1>1
  <2>2. vs = {h[u] : u \in us}
    BY <1>1, <2>1
  <2>3. ASSUME NEW u \in us, NEW v \in us, h[u] = h[v] PROVE u = v
    <3>1. Spent(u).id = u.id /\ Spent(v).id = v.id /\ Spent(u) = Spent(v)
      BY <1>3, <2>1, <2>3
    <3>2. u.id = v.id
      BY <3>1
    <3>. QED
      BY <3>2
  <2>. QED
    BY <2>2, <2>3
<1>5. \A u \in us : Weight(Spent(u), c) = Weight(u, c)
  <2>1. SUFFICES ASSUME NEW u \in us PROVE Weight(Spent(u), c) = Weight(u, c)
    OBVIOUS
  <2>2. u \in UtxosOf({v.id : v \in us})
    BY DEF GoodUtxos
  <2>3. DOMAIN u = {"id", "chain", "value", "tweak", "spent", "deposit"}
    BY <2>2 DEF UtxosOf
  <2>4. PICK yes \in BOOLEAN : yes = TRUE
    OBVIOUS
  <2>5. PICK w : w = [u EXCEPT !.spent = yes]
    OBVIOUS
  <2>6. w.chain = u.chain /\ w.value = u.value /\ w.deposit = u.deposit
    BY <2>3, <2>5
  <2>7. w = Spent(u)
    BY <2>4, <2>5, Zenon DEF Spent
  <2>. QED
    BY <2>6, <2>7 DEF Weight
<1>6. \A u \in us : f[u] \in Int /\ g[h[u]] = f[u]
  BY <1>1, <1>2, <1>5
<1>7. IsFiniteSet(vs) /\ SumFunctionOnSet(g, vs) = SumFunctionOnSet(f, us)
  <2>1. IsFiniteSet({h[u] : u \in us}) /\ SumFunctionOnSet(g, {h[u] : u \in us}) = SumFunctionOnSet(f, us)
    <3>1. IsFiniteSet(us)
      BY <1>2
    <3>. QED
      BY <1>4, <1>6, <3>1, SumRenamed
  <2>. QED
    BY <1>4, <2>1
<1>8. GoodUtxos(vs)
  BY <1>3, <1>7, UtxosMade
<1>. QED
  BY <1>1, <1>7, <1>8 DEF Deposits

\* What a save of the outputs adds to the deposits.
Recording(r, c) ==
  CASE r.op = "scan" -> Brought(r.inputs, c)
    [] r.op = "claim" -> IF c = r.cur THEN r.amount ELSE 0
    [] OTHER -> 0

\* Outputs have names of their own, and the request none among them.
Distinct(us, t) == (\A u, v \in us : u.id = v.id => u = v) /\ \A u \in us : u.id # t

LEMMA DepositsSaved ==
  ASSUME NEW r, Task(r), Head(r.todo) = S("utxos"), NEW t, NEW us, us = r.copy["utxos"],
         Distinct(us, t), NEW c
  PROVE  Deposits(NewUtxos(r, t), c) = Deposits(us, c) + Recording(r, c)
<1>1. /\ GoodUtxos(us) /\ Asked(r) /\ Checked(r) /\ BeforeSave(r, "utxos")
  BY AtSave DEF Good
<1>2. /\ r.op \in {"scan", "claim", "withdrawSats"}
      /\ r.op = "scan" => NewUtxos(r, t) = us \cup {Utxo(o) : o \in r.inputs}
      /\ r.op = "claim" => NewUtxos(r, t) = us \cup {Claimed(r.item, r.user)}
      /\ r.op = "withdrawSats" =>
           /\ r.inputs \subseteq us
           /\ NewUtxos(r, t) = (us \ r.inputs) \cup {Spent(u) : u \in r.inputs} \cup LeftOver(r, t)
  BY UtxosSaved
<1>3. r.user \in Users /\ Deposits(us, c) \in Nat
  BY <1>1, WeightNat DEF Asked
<1>4. CASE r.op = "scan"
  <2>1. r.inputs \in SUBSET Outputs /\ \A o \in r.inputs : ~ Recorded(us, o)
    BY <1>1, <1>4 DEF BeforeSave, Checked, Theirs
  <2>2. PICK vs : vs = {Utxo(o) : o \in r.inputs}
    OBVIOUS
  <2>3. GoodUtxos(vs) /\ Deposits(vs, c) = Brought(r.inputs, c)
    BY <2>1, <2>2, DepositsFound
  <2>4. us \cap vs = {}
    <3>1. \A o \in r.inputs : Utxo(o).id = o.id
      BY <2>1, RecordWeight
    <3>. QED
      BY <2>1, <2>2, <3>1 DEF Recorded
  <2>5. Recording(r, c) = Brought(r.inputs, c)
    BY <1>4 DEF Recording
  <2>6. Deposits(us \cup vs, c) = Deposits(us, c) + Deposits(vs, c)
    <3>1. GoodUtxos(us) /\ GoodUtxos(vs)
      BY <1>1, <2>3
    <3>2. PICK ws : ws = us \cup vs
      OBVIOUS
    <3>3. Deposits(ws, c) = Deposits(us, c) + Deposits(vs, c)
      BY <2>4, <3>1, <3>2, DepositsMore
    <3>. QED
      BY <3>2, <3>3
  <2>. QED
    BY <1>2, <1>4, <2>2, <2>3, <2>5, <2>6
<1>5. CASE r.op = "claim"
  <2>1. /\ r.item \in Outputs /\ ~ Recorded(us, r.item) /\ r.amount = r.item.value /\ r.cur = r.item.chain
        /\ r.item.value \in Nat
    BY <1>1, <1>5, DepositsAssumption DEF BeforeSave, Checked, Asked
  <2>2. PICK v : v = Claimed(r.item, r.user)
    OBVIOUS
  <2>3. v \in UtxosOf({r.item.id}) /\ v.id = r.item.id
    BY <1>3, <2>1, <2>2, Records
  <2>4. Weight(v, c) = IF c = r.cur THEN r.amount ELSE 0
    <3>1. PICK o \in Outputs : o = r.item
      BY <2>1
    <3>u. PICK u : u = r.user
      OBVIOUS
    <3>2. v = Claimed(o, u)
      BY <2>2, <3>1, <3>u
    <3>3. Weight(v, c) = IF o.chain = c THEN o.value ELSE 0
      BY <3>2, RecordWeight
    <3>. QED
      BY <2>1, <3>1, <3>3
  <2>5. GoodUtxos({v}) /\ Deposits({v}, c) = Weight(v, c)
    <3>1. IsFiniteSet({v})
      BY FS_Singleton
    <3>2. GoodUtxos({v})
      BY <2>3, <3>1, UtxosMade
    <3>3. PICK f : f = [u \in {v} |-> Weight(u, c)]
      OBVIOUS
    <3>4. SumFunctionOnSet(f, {v}) = f[v] + SumFunctionOnSet(f, {v} \ {v})
      <4>1. \A u \in {v} : f[u] \in Int
        BY <2>1, <2>4, <3>3
      <4>. QED
        BY <3>1, <4>1, SumRemove
    <3>5. SumFunctionOnSet(f, {v} \ {v}) = 0
      <4>1. {v} \ {v} = {}
        OBVIOUS
      <4>. QED
        BY <4>1, SumEmpty
    <3>. QED
      BY <2>1, <2>4, <3>2, <3>3, <3>4, <3>5 DEF Deposits
  <2>6. us \cap {v} = {}
    BY <2>1, <2>3 DEF Recorded
  <2>7. Recording(r, c) = IF c = r.cur THEN r.amount ELSE 0
    BY <1>5 DEF Recording
  <2>8. Deposits(us \cup {v}, c) = Deposits(us, c) + Deposits({v}, c)
    <3>1. PICK vs : vs = {v}
      OBVIOUS
    <3>2. GoodUtxos(us) /\ GoodUtxos(vs) /\ us \cap vs = {}
      BY <1>1, <2>5, <2>6, <3>1
    <3>3. PICK ws : ws = us \cup vs
      OBVIOUS
    <3>4. Deposits(ws, c) = Deposits(us, c) + Deposits(vs, c)
      BY <3>2, <3>3, DepositsMore
    <3>. QED
      BY <3>1, <3>3, <3>4
  <2>. QED
    BY <1>2, <1>5, <2>2, <2>4, <2>5, <2>7, <2>8
<1>6. CASE r.op = "withdrawSats"
  <2>1. PICK rest, ins, vs, new : /\ rest = us \ r.inputs /\ ins = r.inputs /\ vs = {Spent(u) : u \in ins}
                                  /\ new = LeftOver(r, t)
    OBVIOUS
  <2>2. ins \in SUBSET us /\ NewUtxos(r, t) = rest \cup vs \cup new
    BY <1>2, <1>6, <2>1
  <2>3. GoodUtxos(ins) /\ GoodUtxos(rest) /\ \A u, v \in ins : u.id = v.id => u = v
    BY <1>1, <2>1, <2>2, PartOfUtxos DEF Distinct
  <2>4. GoodUtxos(vs) /\ Deposits(vs, c) = Deposits(ins, c)
    BY <2>1, <2>3, DepositsSpent
  <2>5. GoodUtxos(new) /\ (\A u \in new : ~ u.deposit /\ u.id = t) /\ Deposits(new, c) = 0
    <3>1. Change(r) \in Int /\ r.cur \in Chains
      <4>1. r.cur \in Chains /\ r.amount \in Nat
        BY <1>1, <1>6 DEF Asked
      <4>2. Value(ins) \in Nat /\ TxFee \in Nat
        BY <2>3, ValueInt, PaymentsAssumption
      <4>. QED
        BY <2>1, <4>1, <4>2 DEF Change
    <3>2. IsFiniteSet(new) /\ \A v \in new : v \in UtxosOf({v.id}) /\ v.id = t /\ ~ v.deposit
      BY <2>1, <3>1, LeftGood
    <3>3. GoodUtxos(new)
      BY <3>2, UtxosMade
    <3>. QED
      BY <3>2, <3>3, DepositsNone
  <2>6. \A v \in vs : \E u \in ins : v = Spent(u) /\ v.id = u.id
    <3>1. \A u \in ins : Spent(u).id = u.id
      BY <2>3, SpentGood
    <3>. QED
      BY <2>1, <3>1
  <2>7. rest \cap vs = {}
    BY <2>1, <2>2, <2>6 DEF Distinct
  <2>8. (rest \cup vs) \cap new = {}
    BY <2>1, <2>2, <2>5, <2>6 DEF Distinct
  <2>13. PICK some, all : some = rest \cup vs /\ all = some \cup new
    OBVIOUS
  <2>9. GoodUtxos(some) /\ Deposits(some, c) = Deposits(rest, c) + Deposits(vs, c)
    BY <2>3, <2>4, <2>7, <2>13, DepositsMore
  <2>10. Deposits(all, c) = Deposits(some, c) + Deposits(new, c)
    BY <2>5, <2>8, <2>9, <2>13, DepositsMore
  <2>11. Deposits(us, c) = Deposits(ins, c) + Deposits(rest, c)
    BY <1>1, <2>1, <2>2, DepositsPart
  <2>12. Deposits(ins, c) \in Nat /\ Deposits(rest, c) \in Nat
    BY <2>3, WeightNat
  <2>14. Recording(r, c) = 0
    BY <1>6, Zenon DEF Recording
  <2>. QED
    BY <2>2, <2>4, <2>5, <2>9, <2>10, <2>11, <2>12, <2>13, <2>14
<1>. QED
  BY <1>2, <1>4, <1>5, <1>6
-----------------------------------------------------------------------------
(* Money: what the requests that are under way have done by halves. *)

\* The ledger has what the outputs or the pool have not.
Ahead(r) == r.op \in PoolOps \cup {"scan"} /\ Did(r, S("ledger"))

\* The chain, the outputs or the user has what the ledger has not.
Behind(r) ==
  /\ ~ Did(r, S("ledger"))
  /\ \/ r.op = "claim" /\ Did(r, S("utxos"))
     \/ r.op \in {"mrc20", "txo"} /\ Did(r, Do("verify"))
     \/ r.op = "buy" /\ Did(r, Do("anchor"))
     \/ r.op = "withdrawSats" /\ Did(r, Do("broadcast"))

\* What the ledger is short of in a currency because of a request.
Owing(r, c) == CASE Ahead(r) -> - Booked(r, c) [] Behind(r) -> Booked(r, c) [] OTHER -> 0

LEMMA OwingIs ==
  ASSUME NEW r, NEW c
  PROVE  /\ ~ (Ahead(r) /\ Behind(r))
         /\ Ahead(r) => Owing(r, c) = - Booked(r, c)
         /\ Behind(r) => Owing(r, c) = Booked(r, c)
         /\ ~ Ahead(r) /\ ~ Behind(r) => Owing(r, c) = 0
<1>1. ~ (Ahead(r) /\ Behind(r))
  BY DEF Ahead, Behind
<1>2. CASE Ahead(r)
  BY <1>1, <1>2, Zenon DEF Owing
<1>3. CASE Behind(r)
  BY <1>1, <1>3, Zenon DEF Owing
<1>4. CASE ~ Ahead(r) /\ ~ Behind(r)
  BY <1>4, Zenon DEF Owing
<1>. QED
  BY <1>1, <1>2, <1>3, <1>4

\* What has been read by then.
LEMMA HalfDone ==
  ASSUME NEW r, Task(r)
  PROVE  /\ Ahead(r) /\ r.op \in PoolOps => Head(r.todo) = S("pool") /\ Did(r, L("pool"))
         /\ Ahead(r) /\ r.op = "scan" => Head(r.todo) = S("utxos") /\ Did(r, Do("scan"))
         /\ Behind(r) /\ r.op = "buy" => Did(r, L("ledger"))
<1>1. Before(r)
  BY Order DEF Task
<1>2. PICK s : s = Head(r.todo)
  OBVIOUS
<1>3. CASE \E f : s = S(f) /\ BeforeSave(r, f)
  <2>1. PICK f : s = S(f) /\ BeforeSave(r, f)
    BY <1>3
  <2>2. /\ ~ Did(r, S(f)) /\ f \in FileNames
        /\ r.op \in PoolOps /\ Did(r, S("ledger")) => s = S("pool")
    BY <1>1, <1>2, <2>1 DEF Before, BeforeSave
  <2>3. Ahead(r) /\ r.op \in PoolOps => f = "pool" /\ Did(r, L("pool"))
    <3>1. ASSUME Ahead(r), r.op \in PoolOps PROVE f = "pool" /\ Did(r, L("pool"))
      <4>1. S(f) = S("pool")
        BY <2>1, <2>2, <3>1 DEF Ahead
      <4>2. f = "pool"
        BY <4>1, StepsDiffer
      <4>. QED
        BY <2>1, <4>2 DEF BeforeSave
    <3>. QED
      BY <3>1
  <2>4. Ahead(r) /\ r.op = "scan" => f = "utxos" /\ Did(r, Do("scan"))
    BY <2>1, <2>2 DEF Ahead, BeforeSave, FileNames, PoolOps, TrailOps
  <2>5. Behind(r) /\ r.op = "buy" => Did(r, L("ledger"))
    BY <2>1, <2>2 DEF Behind, BeforeSave, FileNames, PoolOps
  <2>. QED
    BY <1>2, <2>1, <2>3, <2>4, <2>5
<1>4. CASE \E f : s = L(f) /\ BeforeLoad(r, f)
  <2>1. ~ Ahead(r) /\ ~ (Behind(r) /\ r.op = "buy")
    BY <1>4 DEF Ahead, Behind, BeforeLoad, TrailOps
  <2>. QED
    BY <2>1
<1>5. CASE \E x \in {"scan", "verify", "lookup", "anchor", "broadcast"} : s = Do(x) /\ BeforeDo(r, x)
  <2>1. PICK x \in {"scan", "verify", "lookup", "anchor", "broadcast"} : s = Do(x) /\ BeforeDo(r, x)
    BY <1>5
  <2>2. ~ Did(r, Do(x))
    BY <1>1, <1>2, <2>1 DEF Before
  <2>3. ~ (Ahead(r) /\ r.op = "scan") /\ ~ (Behind(r) /\ r.op = "buy")
    BY <2>1, <2>2 DEF Ahead, Behind, BeforeDo
  <2>4. ~ (Ahead(r) /\ r.op \in PoolOps)
    <3>1. Do(x) # S("pool")
      BY StepsDiffer
    <3>. QED
      BY <1>1, <1>2, <2>1, <3>1 DEF Before, Ahead
  <2>. QED
    BY <2>3, <2>4
<1>. QED
  BY <1>1, <1>2, <1>3, <1>4, <1>5 DEF Before

LEMMA OwingInt ==
  ASSUME NEW r, Task(r), NEW c
  PROVE  /\ Owing(r, c) \in Int
         /\ Ahead(r) \/ Behind(r) => Booked(r, c) \in Int
<1>1. Ahead(r) \/ Behind(r) => Booked(r, c) \in Int
  <2>1. Asked(r) /\ Checked(r) /\ r.amount \in Nat
    BY DEF Task, Asked
  <2>2. CASE Ahead(r) /\ r.op = "scan"
    <3>1. r.inputs \in SUBSET Outputs
      BY <2>1, <2>2, HalfDone DEF Checked, Theirs
    <3>. QED
      <4>1. PICK os \in SUBSET Outputs : os = r.inputs
        BY <3>1
      <4>2. Booked(r, c) = Brought(os, c)
        BY <2>2, <4>1, BookedIs
      <4>3. Brought(os, c) \in Nat
        BY BroughtIs
      <4>. QED
        BY <4>2, <4>3
  <2>3. CASE Ahead(r) /\ r.op \in PoolOps
    <3>1. Did(r, L("pool"))
      BY <2>3, HalfDone
    <3>2. PICK p : p = r.copy["pool"]
      OBVIOUS
    <3>3. c \in Chains => p.reserves[c] \in Nat /\ NewPool(r).reserves[c] \in Int
      <4>1. SUFFICES ASSUME c \in Chains PROVE p.reserves[c] \in Nat /\ NewPool(r).reserves[c] \in Int
        OBVIOUS
      <4>2. CASE r.op = "add"
        BY <2>1, <3>1, <3>2, <4>1, <4>2, PoolTakes DEF PoolOps
      <4>3. CASE r.op = "remove"
        BY <2>1, <3>1, <3>2, <4>1, <4>3, PoolTakes DEF PoolOps
      <4>4. CASE r.op = "poolSwap"
        BY <2>1, <3>1, <3>2, <4>1, <4>4, PoolTakes DEF PoolOps
      <4>. QED
        BY <2>3, <4>2, <4>3, <4>4 DEF PoolOps
    <3>4. Booked(r, c) = IF c \in Chains THEN p.reserves[c] - NewPool(r).reserves[c] ELSE 0
      BY <2>3, <3>2, BookedIs
    <3>. QED
      BY <3>3, <3>4
  <2>4. CASE Behind(r) /\ r.op \in {"claim", "mrc20", "txo"}
    <3>1. Booked(r, c) = IF c = r.cur THEN r.amount ELSE 0
      BY <2>4, BookedIs
    <3>. QED
      BY <2>1, <3>1
  <2>5. CASE Behind(r) /\ r.op = "buy"
    <3>1. GoodLedger(r.copy["ledger"])
      BY <2>5, HalfDone DEF Task, Good, FileNames
    <3>2. Cost(r) \in Nat
      BY <2>1, <3>1, CostNat
    <3>3. Booked(r, c) = IF c = r.cur THEN - Cost(r) ELSE 0
      BY <2>5, Zenon DEF Booked, PoolOps
    <3>. QED
      BY <3>2, <3>3
  <2>6. CASE Behind(r) /\ r.op = "withdrawSats"
    <3>1. Booked(r, c) = IF c = r.cur THEN - r.amount ELSE 0
      BY <2>6, Zenon DEF Booked, PoolOps
    <3>. QED
      BY <2>1, <3>1
  <2>. QED
    BY <2>2, <2>3, <2>4, <2>5, <2>6 DEF Ahead, Behind
<1>2. Owing(r, c) \in Int
  BY <1>1, OwingIs
<1>. QED
  BY <1>1, <1>2

\* The requests at work, and what all of them have done by halves.
Working(p) == {t \in PayTasks : p[t].todo # <<>>}
Share(p, t, c) == IF p[t].todo # <<>> THEN Owing(p[t], c) ELSE 0
Tally(p, c) == SumFunctionOnSet([t \in PayTasks |-> Share(p, t, c)], Working(p))

Tasks(p) == \A t \in Working(p) : Task(p[t])

LEMMA ShareInt ==
  ASSUME NEW p, Tasks(p), NEW t \in PayTasks, NEW c
  PROVE  Share(p, t, c) \in Int
<1>1. CASE p[t].todo # <<>>
  <2>1. Task(p[t])
    BY <1>1 DEF Tasks, Working
  <2>2. PICK r : r = p[t]
    OBVIOUS
  <2>3. Owing(r, c) \in Int
    BY <2>1, <2>2, OwingInt
  <2>. QED
    BY <1>1, <2>2, <2>3 DEF Share
<1>2. CASE p[t].todo = <<>>
  BY <1>2 DEF Share
<1>. QED
  BY <1>1, <1>2

\* A sum over the requests at work and one more.
LEMMA TallyWith ==
  ASSUME NEW p, Tasks(p), NEW t \in PayTasks, NEW c, NEW more, more = Working(p) \cup {t}, IsFiniteSet(more)
  PROVE  /\ IsFiniteSet(Working(p)) /\ Tally(p, c) \in Int
         /\ SumFunctionOnSet([s \in PayTasks |-> Share(p, s, c)], more) = Tally(p, c)
<1>1. PICK f : f = [s \in PayTasks |-> Share(p, s, c)]
  OBVIOUS
<1>2. Working(p) \in SUBSET more /\ more \subseteq PayTasks /\ IsFiniteSet(Working(p))
  <2>1. Working(p) \in SUBSET more /\ more \subseteq PayTasks
    BY DEF Working
  <2>. QED
    BY <2>1, FS_Subset
<1>3. \A s \in more : f[s] \in Int
  <2>1. \A s \in PayTasks : Share(p, s, c) \in Int
    BY ShareInt
  <2>. QED
    BY <1>1, <1>2, <2>1
<1>4. PICK rest, w : rest = more \ w /\ w = Working(p)
  OBVIOUS
<1>5. SumFunctionOnSet(f, more) = SumFunctionOnSet(f, w) + SumFunctionOnSet(f, rest)
  BY <1>2, <1>3, <1>4, SumSplit
<1>6. SumFunctionOnSet(f, rest) = 0
  <2>1. \A s \in rest : f[s] = 0
    BY <1>1, <1>2, <1>4 DEF Share, Working
  <2>2. IsFiniteSet(rest)
    BY <1>4, FS_Subset
  <2>. QED
    BY <2>1, <2>2, SumZero
<1>7. SumFunctionOnSet(f, w) = Tally(p, c) /\ SumFunctionOnSet(f, w) \in Int
  <2>1. SumFunctionOnSet(f, w) \in Int
    <3>1. IsFiniteSet(w) /\ \A s \in w : f[s] \in Int
      BY <1>2, <1>3, <1>4
    <3>. QED
      BY <3>1, SumInt
  <2>. QED
    BY <1>1, <1>4, <2>1 DEF Tally
<1>. QED
  BY <1>1, <1>2, <1>5, <1>6, <1>7

\* A step of one request changes its share.
LEMMA TallyStep ==
  ASSUME NEW p, Tasks(p), NEW q, Tasks(q), IsFiniteSet(Working(p)), NEW t \in PayTasks,
         \A s \in PayTasks \ {t} : q[s] = p[s], NEW c
  PROVE  /\ IsFiniteSet(Working(q))
         /\ Tally(q, c) = Tally(p, c) - Share(p, t, c) + Share(q, t, c)
         /\ Share(p, t, c) \in Int /\ Share(q, t, c) \in Int /\ Tally(p, c) \in Int /\ Tally(q, c) \in Int
<1>1. PICK more : more = Working(p) \cup {t}
  OBVIOUS
<1>2. \A s \in PayTasks \ {t} : Share(q, s, c) = Share(p, s, c)
  BY DEF Share
<1>3. more = Working(q) \cup {t} /\ IsFiniteSet(more) /\ more \subseteq PayTasks /\ t \in more
  <2>1. more = Working(q) \cup {t} /\ more \subseteq PayTasks
    BY <1>1 DEF Working
  <2>. QED
    BY <1>1, <2>1, FS_AddElement
<1>4. PICK f, g : f = [s \in PayTasks |-> Share(p, s, c)] /\ g = [s \in PayTasks |-> Share(q, s, c)]
  OBVIOUS
<1>5. SumFunctionOnSet(f, more) = Tally(p, c) /\ Tally(p, c) \in Int
  BY <1>1, <1>3, <1>4, TallyWith
<1>6. SumFunctionOnSet(g, more) = Tally(q, c) /\ Tally(q, c) \in Int /\ IsFiniteSet(Working(q))
  BY <1>3, <1>4, TallyWith
<1>7. \A s \in PayTasks : f[s] = Share(p, s, c) /\ g[s] = Share(q, s, c) /\ f[s] \in Int /\ g[s] \in Int
  <2>1. \A s \in PayTasks : Share(p, s, c) \in Int /\ Share(q, s, c) \in Int
    BY ShareInt
  <2>. QED
    BY <1>4, <2>1
<1>8. SumFunctionOnSet(g, more) = SumFunctionOnSet(f, more) - f[t] + g[t]
  <2>1. /\ \A s \in more : f[s] \in Int /\ g[s] \in Int
        /\ \A s \in more \ {t} : g[s] = f[s]
    BY <1>2, <1>3, <1>7
  <2>. QED
    BY <1>3, <2>1, SumChange
<1>. QED
  BY <1>5, <1>6, <1>7, <1>8

\* What the pool holds in a currency.
Reserve(p, c) == IF c \in Chains THEN p.reserves[c] ELSE 0

\* What is held and owed, but for what the other requests have done by halves.
Assets(t, c) == Total(files["ledger"], c) + Reserve(files["pool"], c) + Share(pay, t, c)
Debts(c) == Deposits(files["utxos"], c) + due[c]

Balanced ==
  \A c \in Currencies :
    Total(files["ledger"], c) + Reserve(files["pool"], c) + Tally(pay, c) = Deposits(files["utxos"], c) + due[c]

\* An output that a request is about to record is listed already, or about to be by another.
Meet(t) ==
  \E o \in pay[t].inputs :
    \/ o.id \in Listed
    \/ \E s \in PayTasks \ {t} : Busy(s) /\ Watching(pay[s]) /\ \E w \in pay[s].inputs : w.id = o.id
Doomed == \E t \in PayTasks : Busy(t) /\ Watching(pay[t]) /\ Meet(t)

BooksInv ==
  /\ IsFiniteSet(Working(pay)) /\ due \in [Currencies -> Int]
  /\ upset = {} => Balanced \/ Doomed

LEMMA MoneyInt ==
  ASSUME NEW f, GoodLedger(f["ledger"]), GoodPool(f["pool"]), GoodUtxos(f["utxos"]), NEW c \in Currencies
  PROVE  /\ Total(f["ledger"], c) \in Nat /\ Reserve(f["pool"], c) \in Nat /\ Deposits(f["utxos"], c) \in Nat
<1>1. Total(f["ledger"], c) \in Nat
  <2>1. PICK l : l = f["ledger"]
    OBVIOUS
  <2>. QED
    BY <2>1, TotalIs
<1>2. Reserve(f["pool"], c) \in Nat
  <2>1. PICK p : p = f["pool"]
    OBVIOUS
  <2>2. p.reserves \in [Chains -> Nat]
    BY <2>1 DEF GoodPool, Pools
  <2>3. c \in Chains => p.reserves[c] \in Nat
    BY <2>2
  <2>. QED
    BY <2>1, <2>3 DEF Reserve
<1>3. Deposits(f["utxos"], c) \in Nat
  BY WeightNat
<1>. QED
  BY <1>1, <1>2, <1>3

LEMMA FilesGood ==
  ASSUME FilesInv
  PROVE  /\ GoodLedger(files["ledger"]) /\ GoodPool(files["pool"]) /\ GoodUtxos(files["utxos"])
         /\ Tasks(pay) /\ DOMAIN pay = PayTasks
BY DEF FilesInv, Good, FileNames, Tasks, Working, Busy

\* A step of one request.
LEMMA BooksTask ==
  ASSUME FilesInv, FilesInv', IsFiniteSet(Working(pay)), due \in [Currencies -> Int],
         due' \in [Currencies -> Int], NEW t \in PayTasks, NEW q, pay' = [pay EXCEPT ![t] = q], Balanced,
         \A c \in Currencies : Assets(t, c)' - Assets(t, c) = Debts(c)' - Debts(c)
  PROVE  Balanced'
<1>1. /\ GoodLedger(files["ledger"]) /\ GoodPool(files["pool"]) /\ GoodUtxos(files["utxos"])
      /\ Tasks(pay) /\ DOMAIN pay = PayTasks
  BY FilesGood
<1>2. /\ GoodLedger(files'["ledger"]) /\ GoodPool(files'["pool"]) /\ GoodUtxos(files'["utxos"])
      /\ Tasks(pay')
  BY DEF FilesInv, Good, FileNames, Tasks, Working, Busy
<1>3. SUFFICES ASSUME NEW c \in Currencies
               PROVE  Total(files'["ledger"], c) + Reserve(files'["pool"], c) + Tally(pay', c)
                        = Deposits(files'["utxos"], c) + due'[c]
  BY DEF Balanced, Total, Tally, Share, Working, Reserve, Deposits
<1>4. /\ Total(files["ledger"], c) \in Nat /\ Reserve(files["pool"], c) \in Nat
      /\ Deposits(files["utxos"], c) \in Nat
  BY <1>1, MoneyInt
<1>5. /\ Total(files'["ledger"], c) \in Nat /\ Reserve(files'["pool"], c) \in Nat
      /\ Deposits(files'["utxos"], c) \in Nat
  BY <1>2, MoneyInt
<1>6. \A s \in PayTasks \ {t} : pay'[s] = pay[s]
  BY <1>1
<1>7. /\ Tally(pay', c) = Tally(pay, c) - Share(pay, t, c) + Share(pay', t, c)
      /\ Share(pay, t, c) \in Int /\ Share(pay', t, c) \in Int /\ Tally(pay, c) \in Int /\ Tally(pay', c) \in Int
  <2>1. PICK p, z : p = pay /\ z = pay'
    OBVIOUS
  <2>2. Tasks(p) /\ Tasks(z) /\ IsFiniteSet(Working(p)) /\ \A s \in PayTasks \ {t} : z[s] = p[s]
    BY <1>1, <1>2, <1>6, <2>1
  <2>3. /\ Tally(z, c) = Tally(p, c) - Share(p, t, c) + Share(z, t, c)
        /\ Share(p, t, c) \in Int /\ Share(z, t, c) \in Int /\ Tally(p, c) \in Int /\ Tally(z, c) \in Int
    BY <2>2, TallyStep
  <2>. QED
    BY <2>1, <2>3
<1>8. due[c] \in Int /\ due'[c] \in Int
  OBVIOUS
<1>9. Total(files["ledger"], c) + Reserve(files["pool"], c) + Tally(pay, c) = Deposits(files["utxos"], c) + due[c]
  BY DEF Balanced
<1>10. PICK a \in Int, b \in Int, d \in Int, e \in Int, x \in Int, n \in Int :
         /\ a = Total(files["ledger"], c) /\ b = Reserve(files["pool"], c) /\ d = Deposits(files["utxos"], c)
         /\ e = due[c] /\ x = Share(pay, t, c) /\ n = Tally(pay, c)
  BY <1>4, <1>7, <1>8
<1>11. PICK aa \in Int, bb \in Int, dd \in Int, ee \in Int, xx \in Int, nn \in Int :
         /\ aa = Total(files'["ledger"], c) /\ bb = Reserve(files'["pool"], c) /\ dd = Deposits(files'["utxos"], c)
         /\ ee = due'[c] /\ xx = Share(pay', t, c) /\ nn = Tally(pay', c)
  BY <1>5, <1>7, <1>8
<1>12. aa + bb + xx - (a + b + x) = dd + ee - (d + e)
  <2>1. Assets(t, c) = a + b + x /\ Debts(c) = d + e
    BY <1>10 DEF Assets, Debts
  <2>2. Assets(t, c)' = aa + bb + xx
    BY <1>11 DEF Assets
  <2>3. Debts(c)' = dd + ee
    BY <1>11 DEF Debts
  <2>4. Assets(t, c)' - Assets(t, c) = Debts(c)' - Debts(c)
    OBVIOUS
  <2>. QED
    BY <2>1, <2>2, <2>3, <2>4
<1>13. nn = n - x + xx
  BY <1>7, <1>10, <1>11
<1>14. a + b + n = d + e
  BY <1>9, <1>10
<1>15. aa + bb + nn = dd + ee
  BY <1>12, <1>13, <1>14
<1>. QED
  BY <1>11, <1>15

\* The requests at work stay finitely many.
LEMMA WorkFinite ==
  ASSUME IsFiniteSet(Working(pay)), NEW t \in PayTasks, NEW q, DOMAIN pay = PayTasks, pay' = [pay EXCEPT ![t] = q]
  PROVE  IsFiniteSet(Working(pay'))
<1>1. Working(pay') \subseteq Working(pay) \cup {t}
  BY DEF Working
<1>2. IsFiniteSet(Working(pay) \cup {t})
  BY FS_AddElement
<1>. QED
  BY <1>1, <1>2, FS_Subset

\* A request that is about to record what another records too stays so until one of them does.
LEMMA DoomStays ==
  ASSUME Doomed, Listed \subseteq Listed',
         \A s \in PayTasks : Busy(s) /\ Watching(pay[s]) =>
            Busy(s)' /\ Watching(pay'[s]) /\ pay'[s].inputs = pay[s].inputs
  PROVE  Doomed'
<1>1. PICK t \in PayTasks : Busy(t) /\ Watching(pay[t]) /\ Meet(t)
  BY DEF Doomed
<1>2. PICK o \in pay[t].inputs :
        \/ o.id \in Listed
        \/ \E s \in PayTasks \ {t} : Busy(s) /\ Watching(pay[s]) /\ \E w \in pay[s].inputs : w.id = o.id
  BY <1>1 DEF Meet
<1>3. Busy(t)' /\ Watching(pay'[t]) /\ o \in pay'[t].inputs
  BY <1>1, <1>2
<1>4. CASE o.id \in Listed
  <2>1. o.id \in Listed'
    BY <1>4
  <2>2. Meet(t)'
    BY <1>3, <2>1 DEF Meet
  <2>. QED
    BY <1>3, <2>2 DEF Doomed
<1>5. CASE \E s \in PayTasks \ {t} : Busy(s) /\ Watching(pay[s]) /\ \E w \in pay[s].inputs : w.id = o.id
  <2>1. PICK s \in PayTasks \ {t} : Busy(s) /\ Watching(pay[s]) /\ \E w \in pay[s].inputs : w.id = o.id
    BY <1>5
  <2>2. Busy(s)' /\ Watching(pay'[s]) /\ \E w \in pay'[s].inputs : w.id = o.id
    BY <2>1
  <2>3. Meet(t)'
    BY <1>3, <2>1, <2>2 DEF Meet
  <2>. QED
    BY <1>3, <2>3 DEF Doomed
<1>. QED
  BY <1>2, <1>4, <1>5

\* A step of a request that is not about to record what it has credited.
LEMMA DoomTask ==
  ASSUME FilesInv, Doomed, files'["utxos"] = files["utxos"], NEW t \in PayTasks, NEW q,
         pay' = [pay EXCEPT ![t] = q], ~ (Busy(t) /\ Watching(pay[t]))
  PROVE  Doomed'
<1>1. Listed \subseteq Listed'
  BY DEF Listed, IdsOf
<1>2. \A s \in PayTasks : Busy(s) /\ Watching(pay[s]) =>
        Busy(s)' /\ Watching(pay'[s]) /\ pay'[s].inputs = pay[s].inputs
  <2>1. ASSUME NEW s \in PayTasks, Busy(s), Watching(pay[s])
        PROVE  Busy(s)' /\ Watching(pay'[s]) /\ pay'[s].inputs = pay[s].inputs
    <3>1. s # t
      BY <2>1
    <3>2. pay'[s] = pay[s]
      BY <3>1 DEF FilesInv
    <3>. QED
      BY <2>1, <3>2 DEF Busy
  <2>. QED
    BY <2>1
<1>. QED
  BY <1>1, <1>2, DoomStays

\* A request that watches is about to save the outputs.
LEMMA WatcherSaves ==
  ASSUME NEW r, Task(r), Watching(r)
  PROVE  Head(r.todo) = S("utxos") /\ Ahead(r)
<1>1. Ahead(r) /\ r.op = "scan"
  BY DEF Watching, Ahead
<1>. QED
  BY <1>1, HalfDone

\* When it saves what it has credited, the other still has it before it.
LEMMA DoomSeen ==
  ASSUME FilesInv, FilesInv', OutputsInv, Doomed, NEW t \in PayTasks, Save(t), upset' = {}, Watching(pay[t]),
         Head(pay[t].todo) = S("utxos")
  PROVE  Doomed'
<1>1. /\ Busy(t) /\ Task(pay[t]) /\ Checked(pay[t]) /\ BeforeSave(pay[t], "utxos")
      /\ files["utxos"] = pay[t].copy["utxos"] /\ files'["utxos"] = NewUtxos(pay[t], t)
      /\ \A s \in PayTasks \ {t} : pay'[s] = pay[s] /\ (Busy(s)' <=> Busy(s))
  BY SaveOutputs
<1>2. pay[t].op = "scan"
  BY DEF Watching
<1>3. files'["utxos"] = files["utxos"] \cup {Utxo(o) : o \in pay[t].inputs}
  <2>1. PICK r : r = pay[t]
    OBVIOUS
  <2>2. r.op = "scan" => NewUtxos(r, t) = r.copy["utxos"] \cup {Utxo(o) : o \in r.inputs}
    BY <1>1, <2>1, UtxosSaved
  <2>. QED
    BY <1>1, <1>2, <2>1, <2>2
<1>4. /\ Listed \subseteq Listed' /\ \A o \in pay[t].inputs : o.id \in Listed' /\ o.id \notin Listed
  <2>1. \A o \in pay[t].inputs : o \in Outputs /\ ~ Recorded(files["utxos"], o)
    BY <1>1, <1>2 DEF BeforeSave, Checked, Theirs
  <2>2. \A o \in pay[t].inputs : Utxo(o).id = o.id
    BY <2>1, RecordWeight
  <2>. QED
    BY <1>3, <2>1, <2>2 DEF Listed, IdsOf, Recorded
<1>5. PICK s \in PayTasks : Busy(s) /\ Watching(pay[s]) /\ Meet(s)
  BY DEF Doomed
<1>6. PICK o \in pay[s].inputs :
        \/ o.id \in Listed
        \/ \E d \in PayTasks \ {s} : Busy(d) /\ Watching(pay[d]) /\ \E w \in pay[d].inputs : w.id = o.id
  BY <1>5 DEF Meet
\* One that stays, and has an output that is listed then.
<1>7. ASSUME NEW d \in PayTasks \ {t}, Busy(d), Watching(pay[d]), NEW w \in pay[d].inputs, w.id \in Listed'
      PROVE  Doomed'
  <2>1. Busy(d)' /\ Watching(pay'[d]) /\ w \in pay'[d].inputs
    BY <1>1, <1>7
  <2>2. Meet(d)'
    BY <1>7, <2>1 DEF Meet
  <2>. QED
    BY <2>1, <2>2 DEF Doomed
<1>8. CASE s = t
  <2>1. PICK d \in PayTasks \ {s} : Busy(d) /\ Watching(pay[d]) /\ \E w \in pay[d].inputs : w.id = o.id
    BY <1>4, <1>6, <1>8
  <2>2. PICK w \in pay[d].inputs : w.id = o.id
    BY <2>1
  <2>3. w.id \in Listed'
    BY <1>4, <1>8, <2>2
  <2>. QED
    BY <1>7, <1>8, <2>1, <2>2, <2>3
<1>9. CASE s # t /\ o.id \in Listed
  BY <1>4, <1>5, <1>7, <1>9
<1>10. CASE s # t /\ o.id \notin Listed
  <2>1. PICK d \in PayTasks \ {s} : Busy(d) /\ Watching(pay[d]) /\ \E w \in pay[d].inputs : w.id = o.id
    BY <1>6, <1>10
  <2>2. PICK w \in pay[d].inputs : w.id = o.id
    BY <2>1
  <2>3. CASE d = t
    <3>1. o.id \in Listed'
      BY <1>4, <2>2, <2>3
    <3>. QED
      BY <1>5, <1>7, <1>10, <3>1
  <2>4. CASE d # t
    <3>1. Busy(d)' /\ Watching(pay'[d]) /\ w \in pay'[d].inputs /\ Busy(s)' /\ Watching(pay'[s]) /\ o \in pay'[s].inputs
      BY <1>1, <1>5, <1>10, <2>1, <2>2, <2>4
    <3>2. Meet(s)'
      BY <2>1, <2>2, <3>1 DEF Meet
    <3>. QED
      BY <3>1, <3>2 DEF Doomed
  <2>. QED
    BY <2>3, <2>4
<1>. QED
  BY <1>8, <1>9, <1>10

\* A request that is about to record what was credited before it.
LEMMA DoomFound ==
  ASSUME FilesInv, DepositsInv, upset = {}, NEW t \in PayTasks, NEW q, pay' = [pay EXCEPT ![t] = q],
         files'["utxos"] = files["utxos"], q.todo # <<>>, Watching(q), ~ (Busy(t) /\ Watching(pay[t])),
         NEW o \in q.inputs, o \in Outputs, o.id \in Credited
  PROVE  Doomed'
<1>1. \A i \in Credited : Known(i) \/ Watched(i)
  BY DEF DepositsInv
<1>2. pay'[t] = q /\ \A s \in PayTasks \ {t} : pay'[s] = pay[s]
  BY DEF FilesInv
<1>3. Busy(t)' /\ Watching(pay'[t]) /\ o \in pay'[t].inputs
  BY <1>2 DEF Busy
<1>4. CASE Known(o.id)
  <2>1. o.id \notin Proved
    BY DepositsAssumption DEF OutputIds
  <2>2. o.id \in Listed'
    BY <1>4, <2>1 DEF Known, Listed, IdsOf
  <2>3. Meet(t)'
    BY <1>3, <2>2 DEF Meet
  <2>. QED
    BY <1>3, <2>3 DEF Doomed
<1>5. CASE Watched(o.id)
  <2>1. PICK s \in PayTasks : Busy(s) /\ Watching(pay[s]) /\ \E w \in pay[s].inputs : w.id = o.id
    BY <1>5 DEF Watched
  <2>2. s # t
    BY <2>1
  <2>3. Busy(s)' /\ Watching(pay'[s]) /\ \E w \in pay'[s].inputs : w.id = o.id
    BY <1>2, <2>1, <2>2 DEF Busy
  <2>4. Meet(t)'
    BY <1>3, <2>2, <2>3 DEF Meet
  <2>. QED
    BY <1>3, <2>4 DEF Doomed
<1>. QED
  BY <1>1, <1>4, <1>5

\* A save that has made a string of no amount with other currencies, and what it gives.
LEMMA SaveMoney ==
  ASSUME FilesInv, NEW t \in PayTasks, Save(t), upset' = {}, NEW f, Head(pay[t].todo) = S(f)
  PROVE  /\ f = "ledger" /\ pay[t].cur = "sat" =>
              \A u \in Users, c \in Chains :
                ~ (NewLedger(pay[t]).balance[u][c] < pay[t].copy.ledger.balance[u][c])
         /\ pay[t].op \in {"access", "condition"} =>
              due' = [due EXCEPT ![pay[t].cur] = @ + (- pay[t].amount)]
         /\ pay[t].op \notin {"access", "condition"} => due' = due
<1>1. Next1(t)[2] = f
  BY DEF Next1, S
<1>2. f = "ledger" => Amended(pay[t], f, t) = NewLedger(pay[t])
  BY Zenon DEF Amended
<1>3. PICK new : new = Amended(pay[t], f, t)
  OBVIOUS
<1>4. /\ upset' = upset \cup (IF files[f] # pay[t].copy[f] THEN {"lost"} ELSE {})
             \cup (IF f = "ledger" /\ pay[t].cur = "sat"
                      /\ \E u \in Users, c \in Chains : new.balance[u][c] < pay[t].copy.ledger.balance[u][c]
                   THEN {"string"} ELSE {})
      /\ IF pay[t].op \in {"access", "condition"} THEN Owe(pay[t].cur, - pay[t].amount) ELSE UNCHANGED due
  BY <1>1, <1>3 DEF Save
<1>5. f = "ledger" /\ pay[t].cur = "sat" =>
        \A u \in Users, c \in Chains : ~ (new.balance[u][c] < pay[t].copy.ledger.balance[u][c])
  BY <1>4
<1>6. /\ pay[t].op \in {"access", "condition"} => due' = [due EXCEPT ![pay[t].cur] = @ + (- pay[t].amount)]
      /\ pay[t].op \notin {"access", "condition"} => due' = due
  BY <1>4 DEF Owe
<1>. QED
  BY <1>2, <1>3, <1>5, <1>6

\* What the due becomes.
LEMMA DueMoves ==
  ASSUME due \in [Currencies -> Int], NEW c \in Currencies, NEW n \in Int, due' = [due EXCEPT ![c] = @ + n]
  PROVE  /\ due' \in [Currencies -> Int]
         /\ \A d \in Currencies : due'[d] = due[d] + IF d = c THEN n ELSE 0
OBVIOUS

\* A request when it has saved the ledger.
LEMMA HalfSaved ==
  ASSUME NEW r, Task(r), Head(r.todo) = S("ledger"), NEW q, Onward(r, q),
         \A x : Did(q, x) <=> Did(r, x) \/ x = S("ledger"), NEW c
  PROVE  /\ ~ Ahead(r)
         /\ q.todo # <<>> => Task(q) /\ ~ Behind(q) /\ (Ahead(q) <=> r.op \in PoolOps \cup {"scan"})
         /\ Booked(q, c) = Booked(r, c)
         /\ r.op \in {"claim", "mrc20", "txo", "buy"} => Behind(r) /\ q.todo = <<>>
         /\ r.op = "withdrawSats" => Behind(r)
         /\ r.op \in PoolOps \cup {"scan", "access", "condition", "swap"} => ~ Behind(r)
         /\ r.op \in PoolOps \cup {"scan"} => q.todo # <<>>
         /\ r.op \in {"scan", "claim", "mrc20", "txo", "access", "condition", "swap", "buy", "withdrawSats"} \cup PoolOps
<1>1. BeforeSave(r, "ledger") /\ ~ Did(r, S("ledger")) /\ r.op \in Ops
  BY AtSave DEF Task, Shaped
<1>2. q.todo = Tail(r.todo) /\ q.op = r.op
  BY DEF Onward
<1>3. Booked(q, c) = Booked(r, c)
  <2>1. Cost(q) = Cost(r)
    BY AffordsSame DEF Onward
  <2>2. NewPool(q) = NewPool(r)
    BY DEF NewPool, Onward
  <2>3. q.op = r.op /\ q.inputs = r.inputs /\ q.cur = r.cur /\ q.amount = r.amount /\ q.copy["pool"] = r.copy["pool"]
    BY DEF Onward
  <2>. QED
    BY <2>1, <2>2, <2>3 DEF Booked
<1>4. q.todo # <<>> => Task(q)
  BY OnwardTask, StepsDiffer
<1>5. /\ r.op \in {"claim", "mrc20", "txo", "buy"} => Behind(r) /\ q.todo = <<>>
      /\ r.op = "withdrawSats" => Behind(r)
      /\ r.op \in PoolOps \cup {"scan"} => q.todo # <<>>
  BY <1>1, <1>2 DEF Behind, BeforeSave, TrailOps
<1>6. ~ Ahead(r) /\ (r.op \in PoolOps \cup {"scan", "access", "condition", "swap"} => ~ Behind(r))
  BY <1>1 DEF Ahead, Behind, PoolOps
<1>7. ~ Behind(q) /\ (Ahead(q) <=> r.op \in PoolOps \cup {"scan"})
  <2>1. Did(q, S("ledger"))
    OBVIOUS
  <2>. QED
    BY <1>2, <2>1 DEF Ahead, Behind
<1>. QED
  BY <1>1, <1>3, <1>4, <1>5, <1>6, <1>7 DEF Ops, PoolOps, BeforeSave

\* What a save of the ledger settles of what was done by halves.
LEMMA HalfSettled ==
  ASSUME NEW r, Task(r), Head(r.todo) = S("ledger"), NEW q, Onward(r, q),
         \A x : Did(q, x) <=> Did(r, x) \/ x = S("ledger"), NEW c \in Currencies,
         NEW x, x = Owing(r, c), NEW y, y = IF q.todo # <<>> THEN Owing(q, c) ELSE 0
  PROVE  /\ Booked(r, c) \in Int /\ x \in Int /\ y \in Int
         /\ r.op \in {"access", "condition"} => x = 0 /\ y = 0 /\ Booked(r, c) = IF c = r.cur THEN - r.amount ELSE 0
         /\ r.op \notin {"access", "condition"} => Booked(r, c) + y - x = 0
<1>1. /\ ~ Ahead(r)
      /\ q.todo # <<>> => Task(q) /\ ~ Behind(q) /\ (Ahead(q) <=> r.op \in PoolOps \cup {"scan"})
      /\ Booked(q, c) = Booked(r, c)
      /\ r.op \in {"claim", "mrc20", "txo", "buy"} => Behind(r) /\ q.todo = <<>>
      /\ r.op = "withdrawSats" => Behind(r)
      /\ r.op \in PoolOps \cup {"scan", "access", "condition", "swap"} => ~ Behind(r)
      /\ r.op \in PoolOps \cup {"scan"} => q.todo # <<>>
      /\ r.op \in {"scan", "claim", "mrc20", "txo", "access", "condition", "swap", "buy", "withdrawSats"} \cup PoolOps
  BY HalfSaved
<1>2. r.amount \in Nat
  BY DEF Task, Asked
<1>3. PICK b : b = Booked(r, c)
  OBVIOUS
<1>4. CASE r.op \in PoolOps \cup {"scan"}
  <2>1. Ahead(q) /\ Task(q) /\ q.todo # <<>> /\ ~ Ahead(r) /\ ~ Behind(r)
    BY <1>1, <1>4
  <2>2. Booked(q, c) \in Int /\ Owing(q, c) = - Booked(q, c) /\ Owing(r, c) = 0
    BY <2>1, OwingIs, OwingInt
  <2>3. b \in Int /\ y = - b /\ x = 0
    BY <1>1, <1>3, <2>1, <2>2
  <2>4. r.op \notin {"access", "condition"}
    BY <1>4 DEF PoolOps
  <2>. QED
    BY <1>3, <2>3, <2>4
<1>5. CASE r.op \in {"claim", "mrc20", "txo", "buy", "withdrawSats"}
  <2>1. Behind(r) /\ (q.todo # <<>> => ~ Behind(q) /\ ~ Ahead(q))
    BY <1>1, <1>5 DEF PoolOps
  <2>2. Booked(r, c) \in Int /\ Owing(r, c) = Booked(r, c)
    BY <2>1, OwingIs, OwingInt
  <2>3. y = 0
    BY <2>1, OwingIs
  <2>4. r.op \notin {"access", "condition"}
    BY <1>5
  <2>. QED
    BY <2>2, <2>3, <2>4
<1>6. CASE r.op \in {"access", "condition", "swap"}
  <2>1. ~ Ahead(r) /\ ~ Behind(r) /\ (q.todo # <<>> => ~ Behind(q) /\ ~ Ahead(q))
    BY <1>1, <1>6 DEF PoolOps
  <2>2. x = 0 /\ y = 0
    BY <2>1, OwingIs
  <2>3. r.op = "swap" => Booked(r, c) = 0
    BY BookedIs
  <2>4. r.op = "access" => Booked(r, c) = IF c = r.cur THEN - r.amount ELSE 0
    BY Zenon DEF Booked, PoolOps
  <2>5. r.op = "condition" => Booked(r, c) = IF c = r.cur THEN - r.amount ELSE 0
    BY Zenon DEF Booked, PoolOps
  <2>6. CASE r.op = "swap"
    BY <2>2, <2>3, <2>6
  <2>7. CASE r.op \in {"access", "condition"}
    <3>1. PICK n \in Int : n = - r.amount
      BY <1>2
    <3>2. Booked(r, c) = IF c = r.cur THEN n ELSE 0
      BY <2>4, <2>5, <2>7, <3>1
    <3>3. Booked(r, c) \in Int
      BY <3>1, <3>2
    <3>. QED
      BY <2>2, <2>7, <3>1, <3>2, <3>3
  <2>. QED
    BY <1>6, <2>6, <2>7
<1>7. \/ r.op \in PoolOps \cup {"scan"} \/ r.op \in {"claim", "mrc20", "txo", "buy", "withdrawSats"}
      \/ r.op \in {"access", "condition", "swap"}
  BY <1>1
<1>. QED
  BY <1>4, <1>5, <1>6, <1>7, Zenon

\* The ledger is saved.
LEMMA BooksLedger ==
  ASSUME FilesInv, FilesInv', DepositsInv, BooksInv, NEW t \in PayTasks, Save(t), upset' = {},
         Head(pay[t].todo) = S("ledger")
  PROVE  due' \in [Currencies -> Int] /\ (Balanced' \/ Doomed')
<1>1. /\ Busy(t) /\ Task(pay[t]) /\ BeforeSave(pay[t], "ledger") /\ Checked(pay[t]) /\ Asked(pay[t])
      /\ files["ledger"] = pay[t].copy["ledger"] /\ files'["ledger"] = Amended(pay[t], "ledger", t)
      /\ \A g \in FileNames \ {"ledger"} : files'[g] = files[g]
      /\ upset = {}
  BY SaveFacts
<1>2. PICK q : /\ pay' = [pay EXCEPT ![t] = q] /\ pay'[t] = q /\ Onward(pay[t], q)
               /\ \A x : Did(q, x) <=> Did(pay[t], x) \/ x = S("ledger")
  BY SaveFacts
<1>3. PICK r : r = pay[t]
  OBVIOUS
<1>4. /\ Task(r) /\ Head(r.todo) = S("ledger") /\ Onward(r, q) /\ ~ Did(r, S("ledger"))
      /\ r.amount \in Nat /\ r.cur \in Currencies /\ r.copy["ledger"] = files["ledger"]
      /\ \A x : Did(q, x) <=> Did(r, x) \/ x = S("ledger")
  <2>1. Task(r) /\ Head(r.todo) = S("ledger") /\ Onward(r, q) /\ r.copy["ledger"] = files["ledger"]
        /\ \A x : Did(q, x) <=> Did(r, x) \/ x = S("ledger")
    BY <1>1, <1>2, <1>3
  <2>2. ~ Did(r, S("ledger")) /\ Asked(r)
    BY <2>1, AtSave
  <2>. QED
    BY <2>1, <2>2 DEF Asked
<1>5. /\ files'["utxos"] = files["utxos"] /\ files'["pool"] = files["pool"]
      /\ files'["ledger"] = NewLedger(r)
  <2>1. Amended(r, "ledger", t) = NewLedger(r)
    BY Zenon DEF Amended
  <2>. QED
    BY <1>1, <1>3, <2>1 DEF FileNames
<1>6. ~ Watching(pay[t])
  BY <1>3, <1>4 DEF Watching
<1>7. due' \in [Currencies -> Int] /\ due \in [Currencies -> Int] /\ IsFiniteSet(Working(pay))
      /\ \A c \in Currencies :
           due'[c] = due[c] + IF r.op \in {"access", "condition"} /\ c = r.cur THEN - r.amount ELSE 0
  <2>1. due \in [Currencies -> Int] /\ IsFiniteSet(Working(pay))
    BY DEF BooksInv
  <2>2. CASE r.op \in {"access", "condition"}
    <3>1. PICK n \in Int : n = - r.amount
      BY <1>4
    <3>2. due' = [due EXCEPT ![r.cur] = @ + n]
      BY <1>3, <2>2, <3>1, SaveMoney
    <3>3. due' \in [Currencies -> Int] /\ \A d \in Currencies : due'[d] = due[d] + IF d = r.cur THEN n ELSE 0
      BY <1>4, <2>1, <3>2, DueMoves
    <3>. QED
      BY <2>1, <2>2, <3>1, <3>3
  <2>3. CASE r.op \notin {"access", "condition"}
    <3>1. due' = due
      BY <1>3, <2>3, SaveMoney
    <3>. QED
      BY <2>1, <2>3, <3>1
  <2>. QED
    BY <2>2, <2>3
<1>8. CASE Doomed
  BY <1>2, <1>5, <1>6, <1>7, <1>8, DoomTask
<1>9. CASE r.op = "scan" /\ \E o \in r.inputs : o.id \in Credited
  <2>1. PICK o \in r.inputs : o.id \in Credited
    BY <1>9
  <2>2. o \in Outputs /\ q.todo # <<>> /\ Watching(q) /\ o \in q.inputs
    <3>1. r.inputs \subseteq Outputs
      BY <1>1, <1>3, <1>9 DEF BeforeSave, Checked, Theirs
    <3>2. q.op = "scan" /\ q.inputs = r.inputs /\ q.todo = Tail(r.todo)
      BY <1>4, <1>9 DEF Onward
    <3>3. q.todo # <<>>
      BY <1>1, <1>3, <1>9, <3>2 DEF BeforeSave
    <3>. QED
      BY <1>4, <3>1, <3>2, <3>3 DEF Watching
  <2>3. Doomed'
    BY <1>1, <1>2, <1>5, <1>6, <2>1, <2>2, DoomFound
  <2>. QED
    BY <1>7, <2>3
<1>10. CASE Balanced /\ ~ (r.op = "scan" /\ \E o \in r.inputs : o.id \in Credited)
  <2>1. PICK l, m : l = r.copy["ledger"] /\ m = NewLedger(r)
    OBVIOUS
  <2>2. r.cur = "sat" => \A u \in Users, c \in Chains : m.balance[u][c] >= l.balance[u][c]
    <3>1. GoodLedger(l) /\ GoodLedger(m)
      <4>1. GoodLedger(l)
        BY <1>4, <2>1, FilesGood
      <4>. QED
        BY <1>4, <2>1, <4>1, LedgerSaved
    <3>2. \A u \in Users, c \in Chains : m.balance[u][c] \in Nat /\ l.balance[u][c] \in Nat
      BY <3>1, TotalIs, Coins
    <3>3. r.cur = "sat" => \A u \in Users, c \in Chains : ~ (m.balance[u][c] < l.balance[u][c])
      BY <1>3, <1>4, <2>1, SaveMoney, Copies
    <3>. QED
      BY <3>2, <3>3
  <2>3. r.op = "scan" => \A o \in r.inputs : o.id \notin l.credited
    BY <1>4, <1>10, <2>1 DEF Credited
  <2>4. ASSUME NEW c \in Currencies
        PROVE  Assets(t, c)' - Assets(t, c) = Debts(c)' - Debts(c)
    <3>1. Total(m, c) = Total(l, c) + Booked(r, c)
      BY <1>4, <2>1, <2>2, <2>3, LedgerBooks
    <3>2. PICK x, y : x = Owing(r, c) /\ y = IF q.todo # <<>> THEN Owing(q, c) ELSE 0
      OBVIOUS
    <3>3. /\ Booked(r, c) \in Int /\ x \in Int /\ y \in Int
          /\ r.op \in {"access", "condition"} => x = 0 /\ y = 0 /\ Booked(r, c) = IF c = r.cur THEN - r.amount ELSE 0
          /\ r.op \notin {"access", "condition"} => Booked(r, c) + y - x = 0
      BY <1>4, <3>2, HalfSettled
    <3>4. Share(pay, t, c) = x
      BY <1>1, <1>3, <3>2 DEF Share, Busy
    <3>5. Share(pay', t, c) = y
      BY <1>2, <3>2 DEF Share
    <3>6. /\ Total(files["ledger"], c) \in Nat /\ Reserve(files["pool"], c) \in Nat
          /\ Deposits(files["utxos"], c) \in Nat /\ due[c] \in Int
      BY <1>7, FilesGood, MoneyInt
    <3>7. PICK T \in Nat, R \in Nat, U \in Nat, e \in Int, b \in Int :
            /\ T = Total(files["ledger"], c) /\ R = Reserve(files["pool"], c) /\ U = Deposits(files["utxos"], c)
            /\ e = due[c] /\ b = Booked(r, c)
      BY <3>3, <3>6
    <3>8. Assets(t, c) = T + R + x /\ Debts(c) = U + e
      BY <3>4, <3>7 DEF Assets, Debts
    <3>9. Assets(t, c)' = T + b + R + y
      <4>1. Assets(t, c)' = Total(files'["ledger"], c) + Reserve(files'["pool"], c) + Share(pay', t, c)
        BY DEF Assets
      <4>2. Total(files'["ledger"], c) = T + b /\ Reserve(files'["pool"], c) = R
        BY <1>4, <1>5, <2>1, <3>1, <3>7
      <4>. QED
        BY <3>5, <4>1, <4>2
    <3>10. Debts(c)' = U + due'[c]
      BY <1>5, <3>7 DEF Debts
    <3>11. PICK z \in Int : z = due'[c] - e /\ z = IF r.op \in {"access", "condition"} /\ c = r.cur THEN - r.amount ELSE 0
      BY <1>4, <1>7, <3>7
    <3>12. b + y - x = z
      BY <3>3, <3>7, <3>11
    <3>13. due'[c] \in Int
      BY <1>7
    <3>. QED
      BY <3>3, <3>7, <3>8, <3>9, <3>10, <3>11, <3>12, <3>13
  <2>5. Balanced'
    BY <1>2, <1>7, <1>10, <2>4, BooksTask
  <2>. QED
    BY <1>7, <2>5
<1>. QED
  BY <1>1, <1>8, <1>9, <1>10 DEF BooksInv

\* A step that begins or ends nothing by halves.
Marks == {S("ledger"), S("utxos"), Do("verify"), Do("anchor"), Do("broadcast")}

LEMMA HalfSame ==
  ASSUME NEW r, NEW q, q.op = r.op, Head(r.todo) \notin Marks,
         \A x : Did(q, x) <=> Did(r, x) \/ x = Head(r.todo)
  PROVE  (Ahead(q) <=> Ahead(r)) /\ (Behind(q) <=> Behind(r))
<1>1. \A x \in Marks : Did(q, x) <=> Did(r, x)
  BY DEF Marks
<1>2. /\ Did(q, S("ledger")) <=> Did(r, S("ledger"))
      /\ Did(q, S("utxos")) <=> Did(r, S("utxos"))
      /\ Did(q, Do("verify")) <=> Did(r, Do("verify"))
      /\ Did(q, Do("anchor")) <=> Did(r, Do("anchor"))
      /\ Did(q, Do("broadcast")) <=> Did(r, Do("broadcast"))
  BY <1>1 DEF Marks
<1>. QED
  BY <1>2 DEF Ahead, Behind

LEMMA BookedSame ==
  ASSUME NEW r, NEW q, Onward(r, q), NEW c
  PROVE  Booked(q, c) = Booked(r, c)
<1>1. Cost(q) = Cost(r)
  BY AffordsSame DEF Onward
<1>2. NewPool(q) = NewPool(r)
  BY DEF NewPool, Onward
<1>3. q.op = r.op /\ q.inputs = r.inputs /\ q.cur = r.cur /\ q.amount = r.amount /\ q.copy["pool"] = r.copy["pool"]
  BY DEF Onward
<1>. QED
  BY <1>1, <1>2, <1>3 DEF Booked

\* A step that moves nothing.
LEMMA SameMoney ==
  ASSUME FilesInv, due \in [Currencies -> Int], due' = due, files'["utxos"] = files["utxos"],
         files'["pool"] = files["pool"], files'["ledger"] = files["ledger"], NEW t \in PayTasks,
         NEW c \in Currencies, Share(pay', t, c) = Share(pay, t, c)
  PROVE  Assets(t, c)' - Assets(t, c) = Debts(c)' - Debts(c)
<1>1. Total(files["ledger"], c) \in Nat /\ Reserve(files["pool"], c) \in Nat /\ Deposits(files["utxos"], c) \in Nat
  BY FilesGood, MoneyInt
<1>2. Share(pay, t, c) \in Int
  BY FilesGood, ShareInt
<1>3. PICK a \in Int, b \in Int : a = Assets(t, c) /\ b = Debts(c)
  BY <1>1, <1>2 DEF Assets, Debts
<1>4. Assets(t, c)' = a
  <2>1. Assets(t, c)' = Total(files'["ledger"], c) + Reserve(files'["pool"], c) + Share(pay', t, c)
    BY DEF Assets
  <2>. QED
    BY <1>3, <2>1 DEF Assets
<1>5. Debts(c)' = b
  <2>1. Debts(c)' = Deposits(files'["utxos"], c) + due'[c]
    BY DEF Debts
  <2>. QED
    BY <1>3, <2>1 DEF Debts
<1>. QED
  BY <1>3, <1>4, <1>5

\* A save that the books do not depend on.
LEMMA BooksElsewhere ==
  ASSUME FilesInv, FilesInv', DepositsInv, BooksInv, NEW t \in PayTasks, Save(t), upset' = {},
         NEW f \in {"trail", "offers", "replay"}, Head(pay[t].todo) = S(f)
  PROVE  due' \in [Currencies -> Int] /\ (Balanced' \/ Doomed')
<1>1. /\ Busy(t) /\ Task(pay[t]) /\ BeforeSave(pay[t], f)
      /\ \A g \in FileNames \ {f} : files'[g] = files[g]
      /\ upset = {}
  BY SaveFacts
<1>2. PICK q : /\ pay' = [pay EXCEPT ![t] = q] /\ pay'[t] = q /\ Onward(pay[t], q)
               /\ \A x : Did(q, x) <=> Did(pay[t], x) \/ x = S(f)
  BY SaveFacts
<1>3. PICK r : r = pay[t]
  OBVIOUS
<1>4. Task(r) /\ Head(r.todo) = S(f) /\ Onward(r, q) /\ BeforeSave(r, f) /\ q.op = r.op /\ q.todo = Tail(r.todo)
  BY <1>1, <1>2, <1>3 DEF Onward
<1>5. files'["utxos"] = files["utxos"] /\ files'["pool"] = files["pool"] /\ files'["ledger"] = files["ledger"]
  BY <1>1 DEF FileNames
<1>6. due' = due /\ due \in [Currencies -> Int] /\ IsFiniteSet(Working(pay))
  <2>1. r.op \notin {"access", "condition"}
    BY <1>4 DEF BeforeSave, TrailOps
  <2>. QED
    BY <1>3, <1>4, <2>1, SaveMoney DEF BooksInv
<1>7. (Ahead(q) <=> Ahead(r)) /\ (Behind(q) <=> Behind(r)) /\ ~ Ahead(r) /\ (Behind(r) => q.todo # <<>>)
  <2>1. S(f) \notin Marks
    BY StepsDiffer DEF Marks
  <2>2. (Ahead(q) <=> Ahead(r)) /\ (Behind(q) <=> Behind(r))
    BY <1>2, <1>3, <1>4, <2>1, HalfSame
  <2>3. ~ Ahead(r)
    BY <1>4 DEF Ahead, BeforeSave, PoolOps, TrailOps
  <2>4. Behind(r) => q.todo # <<>>
    BY <1>4 DEF Behind, BeforeSave, TrailOps
  <2>. QED
    BY <2>2, <2>3, <2>4
<1>8. CASE Doomed
  <2>1. ~ Watching(pay[t])
    BY <1>3, <1>7 DEF Watching, Ahead
  <2>. QED
    BY <1>2, <1>5, <1>6, <1>8, <2>1, DoomTask
<1>9. CASE Balanced
  <2>1. ASSUME NEW c \in Currencies
        PROVE  Assets(t, c)' - Assets(t, c) = Debts(c)' - Debts(c)
    <3>1. Share(pay', t, c) = Share(pay, t, c)
      <4>1. q.todo # <<>> => Owing(q, c) = Owing(r, c)
        BY <1>4, <1>7, OwingIs, BookedSame
      <4>2. q.todo = <<>> => Owing(r, c) = 0
        BY <1>7, OwingIs
      <4>3. Share(pay, t, c) = Owing(r, c)
        BY <1>1, <1>3 DEF Share, Busy
      <4>4. Share(pay', t, c) = IF q.todo # <<>> THEN Owing(q, c) ELSE 0
        BY <1>2 DEF Share
      <4>. QED
        BY <4>1, <4>2, <4>3, <4>4
    <3>. QED
      BY <1>5, <1>6, <3>1, SameMoney
  <2>. QED
    BY <1>2, <1>6, <1>9, <2>1, BooksTask
<1>. QED
  BY <1>1, <1>8, <1>9 DEF BooksInv

\* The pool is saved: it has what the ledger has lost to it.
LEMMA BooksPool ==
  ASSUME FilesInv, FilesInv', DepositsInv, BooksInv, NEW t \in PayTasks, Save(t), upset' = {},
         Head(pay[t].todo) = S("pool")
  PROVE  due' \in [Currencies -> Int] /\ (Balanced' \/ Doomed')
<1>1. /\ Busy(t) /\ Task(pay[t]) /\ BeforeSave(pay[t], "pool")
      /\ files["pool"] = pay[t].copy["pool"] /\ files'["pool"] = Amended(pay[t], "pool", t)
      /\ \A g \in FileNames \ {"pool"} : files'[g] = files[g]
      /\ upset = {}
  BY SaveFacts
<1>2. PICK q : /\ pay' = [pay EXCEPT ![t] = q] /\ pay'[t] = q /\ Onward(pay[t], q)
  BY SaveFacts
<1>3. PICK r : r = pay[t]
  OBVIOUS
<1>4. /\ Task(r) /\ Onward(r, q) /\ BeforeSave(r, "pool") /\ q.todo = <<>> /\ Ahead(r) /\ r.op \in PoolOps
      /\ r.copy["pool"] = files["pool"]
  BY <1>1, <1>2, <1>3 DEF Onward, BeforeSave, Ahead
<1>5. files'["utxos"] = files["utxos"] /\ files'["ledger"] = files["ledger"] /\ files'["pool"] = NewPool(r)
  <2>1. Amended(r, "pool", t) = NewPool(r)
    BY Zenon DEF Amended
  <2>. QED
    BY <1>1, <1>3, <2>1 DEF FileNames
<1>6. due' = due /\ due \in [Currencies -> Int] /\ IsFiniteSet(Working(pay))
  <2>1. r.op \notin {"access", "condition"}
    BY <1>4 DEF PoolOps
  <2>. QED
    BY <1>3, <2>1, SaveMoney DEF BooksInv
<1>7. CASE Doomed
  <2>1. ~ Watching(pay[t])
    BY <1>3, <1>4 DEF Watching, PoolOps
  <2>. QED
    BY <1>2, <1>5, <1>6, <1>7, <2>1, DoomTask
<1>8. CASE Balanced
  <2>1. ASSUME NEW c \in Currencies
        PROVE  Assets(t, c)' - Assets(t, c) = Debts(c)' - Debts(c)
    <3>1. Booked(r, c) \in Int /\ Owing(r, c) = - Booked(r, c)
      BY <1>4, OwingInt, OwingIs
    <3>2. Booked(r, c) = Reserve(files["pool"], c) - Reserve(files'["pool"], c)
      <4>1. Booked(r, c) = IF c \in Chains THEN r.copy["pool"].reserves[c] - NewPool(r).reserves[c] ELSE 0
        BY <1>4, BookedIs
      <4>. QED
        BY <1>4, <1>5, <4>1 DEF Reserve
    <3>3. Share(pay, t, c) = Owing(r, c) /\ Share(pay', t, c) = 0
      BY <1>1, <1>2, <1>3, <1>4 DEF Share, Busy
    <3>4. /\ Total(files["ledger"], c) \in Nat /\ Reserve(files["pool"], c) \in Nat
          /\ Deposits(files["utxos"], c) \in Nat
      BY FilesGood, MoneyInt
    <3>5. Reserve(files'["pool"], c) \in Nat
      <4>1. GoodPool(files'["pool"]) /\ GoodLedger(files'["ledger"]) /\ GoodUtxos(files'["utxos"])
        BY DEF FilesInv, Good, FileNames
      <4>. QED
        BY <4>1, MoneyInt
    <3>6. PICK T \in Int, R \in Int, z \in Int, U \in Int, e \in Int, b \in Int :
            /\ T = Total(files["ledger"], c) /\ R = Reserve(files["pool"], c) /\ U = Deposits(files["utxos"], c)
            /\ e = due[c] /\ b = Booked(r, c) /\ z = Reserve(files'["pool"], c)
      BY <1>6, <3>1, <3>4, <3>5
    <3>7. Assets(t, c) = T + R - b /\ Debts(c) = U + e /\ b = R - z
      BY <3>1, <3>2, <3>3, <3>6 DEF Assets, Debts
    <3>8. Assets(t, c)' = T + z
      <4>1. Assets(t, c)' = Total(files'["ledger"], c) + Reserve(files'["pool"], c) + Share(pay', t, c)
        BY DEF Assets
      <4>. QED
        BY <1>5, <3>3, <3>6, <4>1
    <3>9. Debts(c)' = U + e
      <4>1. Debts(c)' = Deposits(files'["utxos"], c) + due'[c]
        BY DEF Debts
      <4>. QED
        BY <1>5, <1>6, <3>6, <4>1
    <3>. QED
      BY <3>7, <3>8, <3>9
  <2>. QED
    BY <1>2, <1>6, <1>8, <2>1, BooksTask
<1>. QED
  BY <1>1, <1>7, <1>8 DEF BooksInv

\* What a save of the outputs settles of what was done by halves.
LEMMA HalfRecorded ==
  ASSUME NEW r, Task(r), Head(r.todo) = S("utxos"), NEW q, Onward(r, q),
         \A x : Did(q, x) <=> Did(r, x) \/ x = S("utxos"), NEW c \in Currencies,
         NEW x, x = Owing(r, c), NEW y, y = IF q.todo # <<>> THEN Owing(q, c) ELSE 0
  PROVE  x \in Int /\ y \in Int /\ y - x = Recording(r, c) /\ r.op \in {"scan", "claim", "withdrawSats"}
<1>1. BeforeSave(r, "utxos") /\ ~ Did(r, S("utxos")) /\ Asked(r)
  BY AtSave
<1>2. q.todo = Tail(r.todo) /\ q.op = r.op /\ r.op \in {"scan", "claim", "withdrawSats"} /\ r.amount \in Nat
  BY <1>1 DEF Onward, BeforeSave, Asked
<1>3. PICK b : b = Booked(r, c)
  OBVIOUS
<1>4. CASE r.op = "scan"
  <2>1. Ahead(r) /\ q.todo = <<>>
    BY <1>1, <1>2, <1>4 DEF Ahead, BeforeSave
  <2>2. x = - b /\ b \in Int /\ y = 0
    BY <1>3, <2>1, OwingIs, OwingInt
  <2>3. Recording(r, c) = b
    <3>1. Recording(r, c) = Brought(r.inputs, c)
      BY <1>4, Zenon DEF Recording
    <3>. QED
      BY <1>3, <1>4, <3>1, BookedIs
  <2>. QED
    BY <1>2, <2>2, <2>3
<1>5. CASE r.op = "claim"
  <2>1. ~ Ahead(r) /\ ~ Behind(r) /\ ~ Ahead(q)
    BY <1>1, <1>2, <1>5 DEF Ahead, Behind, PoolOps
  <2>2. Booked(q, c) = b /\ Recording(r, c) = b
    <3>1. Recording(r, c) = IF c = r.cur THEN r.amount ELSE 0
      BY <1>5, Zenon DEF Recording
    <3>2. Booked(r, c) = IF c = r.cur THEN r.amount ELSE 0
      BY <1>5, BookedIs
    <3>. QED
      BY <1>3, <3>1, <3>2, BookedSame
  <2>3. q.todo # <<>> /\ Behind(q)
    <3>1. ~ Did(r, S("ledger"))
      BY <1>1, <1>5 DEF BeforeSave
    <3>2. ~ Did(q, S("ledger"))
      BY <3>1, StepsDiffer
    <3>. QED
      BY <1>1, <1>2, <1>5, <3>2 DEF Behind, BeforeSave
  <2>4. Task(q)
    BY <2>3, OnwardTask, StepsDiffer
  <2>5. x = 0 /\ y = b /\ b \in Int
    BY <2>1, <2>2, <2>3, <2>4, OwingIs, OwingInt
  <2>. QED
    BY <1>2, <2>2, <2>5
<1>6. CASE r.op = "withdrawSats"
  <2>1. ~ Ahead(r) /\ ~ Behind(r) /\ ~ Ahead(q) /\ ~ Behind(q)
    BY <1>1, <1>2, <1>6 DEF Ahead, Behind, PoolOps, BeforeSave
  <2>2. Recording(r, c) = 0
    BY <1>6, Zenon DEF Recording
  <2>. QED
    BY <1>2, <2>1, <2>2, OwingIs
<1>. QED
  BY <1>2, <1>4, <1>5, <1>6

\* No output is forgotten.
LEMMA StayListed ==
  ASSUME NEW r, Task(r), Head(r.todo) = S("utxos"), NEW t, NEW us, us = r.copy["utxos"]
  PROVE  IdsOf(us) \subseteq IdsOf(NewUtxos(r, t))
<1>1. GoodUtxos(us)
  BY AtSave DEF Good
<1>2. /\ r.op \in {"scan", "claim", "withdrawSats"}
      /\ r.op = "scan" => NewUtxos(r, t) = us \cup {Utxo(o) : o \in r.inputs}
      /\ r.op = "claim" => NewUtxos(r, t) = us \cup {Claimed(r.item, r.user)}
      /\ r.op = "withdrawSats" =>
           /\ r.inputs \subseteq us
           /\ NewUtxos(r, t) = (us \ r.inputs) \cup {Spent(u) : u \in r.inputs} \cup LeftOver(r, t)
  BY UtxosSaved
<1>3. CASE r.op = "scan" \/ r.op = "claim"
  <2>1. us \subseteq NewUtxos(r, t)
    BY <1>2, <1>3
  <2>. QED
    BY <2>1 DEF IdsOf
<1>4. CASE r.op = "withdrawSats"
  <2>1. \A u \in us : Spent(u).id = u.id
    BY <1>1, SpentGood
  <2>2. \A u \in us : \E v \in NewUtxos(r, t) : v.id = u.id
    BY <1>2, <1>4, <2>1
  <2>. QED
    BY <2>2 DEF IdsOf
<1>. QED
  BY <1>2, <1>3, <1>4

\* The outputs are saved.
LEMMA BooksUtxos ==
  ASSUME FilesInv, FilesInv', DepositsInv, OutputsInv, BooksInv, NEW t \in PayTasks, Save(t), upset' = {},
         Head(pay[t].todo) = S("utxos")
  PROVE  due' \in [Currencies -> Int] /\ (Balanced' \/ Doomed')
<1>1. /\ Busy(t) /\ Task(pay[t]) /\ BeforeSave(pay[t], "utxos")
      /\ files["utxos"] = pay[t].copy["utxos"] /\ files'["utxos"] = NewUtxos(pay[t], t)
  BY SaveOutputs
<1>2. PICK q : /\ pay' = [pay EXCEPT ![t] = q] /\ pay'[t] = q /\ Onward(pay[t], q)
               /\ \A x : Did(q, x) <=> Did(pay[t], x) \/ x = S("utxos")
               /\ \A s \in PayTasks \ {t} : pay'[s] = pay[s] /\ (Busy(s)' <=> Busy(s))
  BY SaveOutputs
<1>3. PICK r : r = pay[t]
  OBVIOUS
<1>4. /\ Task(r) /\ Head(r.todo) = S("utxos") /\ Onward(r, q) /\ BeforeSave(r, "utxos")
      /\ r.copy["utxos"] = files["utxos"] /\ \A x : Did(q, x) <=> Did(r, x) \/ x = S("utxos")
  BY <1>1, <1>2, <1>3
<1>5. files'["ledger"] = files["ledger"] /\ files'["pool"] = files["pool"] /\ upset = {}
  <2>1. \A g \in FileNames \ {"utxos"} : files'[g] = files[g]
    BY SaveFacts
  <2>2. upset \subseteq upset'
    BY SaveFacts
  <2>. QED
    BY <2>1, <2>2 DEF FileNames
<1>6. due' = due /\ due \in [Currencies -> Int] /\ IsFiniteSet(Working(pay))
  <2>1. r.op \notin {"access", "condition"}
    BY <1>4 DEF BeforeSave
  <2>. QED
    BY <1>3, <2>1, SaveMoney DEF BooksInv
<1>7. CASE Doomed
  <2>1. CASE Watching(r)
    BY <1>3, <1>6, <1>7, <2>1, DoomSeen
  <2>2. CASE ~ Watching(r)
    <3>1. Listed \subseteq Listed'
      <4>1. IdsOf(files["utxos"]) \subseteq IdsOf(NewUtxos(r, t))
        BY <1>4, StayListed
      <4>. QED
        BY <1>1, <1>3, <4>1 DEF Listed, IdsOf
    <3>2. \A s \in PayTasks : Busy(s) /\ Watching(pay[s]) =>
            Busy(s)' /\ Watching(pay'[s]) /\ pay'[s].inputs = pay[s].inputs
      BY <1>2, <1>3, <2>2
    <3>. QED
      BY <1>6, <1>7, <3>1, <3>2, DoomStays
  <2>. QED
    BY <2>1, <2>2
<1>8. CASE Balanced
  <2>1. Distinct(files["utxos"], t)
    <3>1. \A u, v \in files["utxos"] : u.id = v.id => u = v
      BY <1>5 DEF OutputsInv
    <3>2. t \notin Listed
      BY <1>1, <1>5 DEF OutputsInv
    <3>. QED
      BY <3>1, <3>2 DEF Distinct, Listed, IdsOf
  <2>2. ASSUME NEW c \in Currencies
        PROVE  Assets(t, c)' - Assets(t, c) = Debts(c)' - Debts(c)
    <3>1. PICK x, y : x = Owing(r, c) /\ y = IF q.todo # <<>> THEN Owing(q, c) ELSE 0
      OBVIOUS
    <3>2. x \in Int /\ y \in Int /\ y - x = Recording(r, c)
      BY <1>4, <3>1, HalfRecorded
    <3>3. Deposits(NewUtxos(r, t), c) = Deposits(files["utxos"], c) + Recording(r, c)
      BY <1>4, <2>1, DepositsSaved
    <3>4. Share(pay, t, c) = x
      BY <1>1, <1>3, <3>1 DEF Share, Busy
    <3>5. Share(pay', t, c) = y
      BY <1>2, <3>1 DEF Share
    <3>6. /\ Total(files["ledger"], c) \in Nat /\ Reserve(files["pool"], c) \in Nat
          /\ Deposits(files["utxos"], c) \in Nat /\ due[c] \in Int
      BY <1>6, FilesGood, MoneyInt
    <3>7. PICK T \in Nat, R \in Nat, U \in Nat, e \in Int :
            /\ T = Total(files["ledger"], c) /\ R = Reserve(files["pool"], c) /\ U = Deposits(files["utxos"], c)
            /\ e = due[c]
      BY <3>6
    <3>8. Assets(t, c) = T + R + x /\ Debts(c) = U + e
      BY <3>4, <3>7 DEF Assets, Debts
    <3>9. Assets(t, c)' = T + R + y
      <4>1. Assets(t, c)' = Total(files'["ledger"], c) + Reserve(files'["pool"], c) + Share(pay', t, c)
        BY DEF Assets
      <4>. QED
        BY <1>5, <3>5, <3>7, <4>1
    <3>10. Debts(c)' = U + (y - x) + e
      <4>1. Debts(c)' = Deposits(files'["utxos"], c) + due'[c]
        BY DEF Debts
      <4>2. files'["utxos"] = NewUtxos(r, t)
        BY <1>1, <1>3
      <4>. QED
        BY <1>6, <3>2, <3>3, <3>7, <4>1, <4>2
    <3>. QED
      BY <3>2, <3>7, <3>8, <3>9, <3>10
  <2>3. Balanced'
    BY <1>2, <1>6, <1>8, <2>2, BooksTask
  <2>. QED
    BY <1>6, <2>3
<1>. QED
  BY <1>5, <1>7, <1>8 DEF BooksInv

\* A file is saved.
LEMMA BooksSave ==
  ASSUME FilesInv, FilesInv', DepositsInv, OutputsInv, BooksInv, NEW t \in PayTasks, Save(t), upset' = {}
  PROVE  due' \in [Currencies -> Int] /\ (Balanced' \/ Doomed')
<1>1. PICK f \in FileNames : Head(pay[t].todo) = S(f)
  BY SaveIs
<1>2. f \in {"trail", "offers", "replay"} \/ f \in {"ledger", "utxos", "pool"}
  BY DEF FileNames
<1>. QED
  BY <1>1, <1>2, BooksLedger, BooksUtxos, BooksPool, BooksElsewhere

\* A step of one request that changes no file: what it adds to what was done by halves is
\* what it adds to what is due.
LEMMA BooksTurn ==
  ASSUME FilesInv, FilesInv', BooksInv, upset = {}, files' = files, due' \in [Currencies -> Int],
         NEW t \in PayTasks, NEW q, pay' = [pay EXCEPT ![t] = q], ~ (Busy(t) /\ Watching(pay[t])),
         \A c \in Currencies : Share(pay', t, c) = Share(pay, t, c) + due'[c] - due[c]
  PROVE  Balanced' \/ Doomed'
<1>1. due \in [Currencies -> Int] /\ IsFiniteSet(Working(pay)) /\ (Balanced \/ Doomed)
  BY DEF BooksInv
<1>2. CASE Doomed
  BY <1>2, DoomTask
<1>3. CASE Balanced
  <2>1. ASSUME NEW c \in Currencies
        PROVE  Assets(t, c)' - Assets(t, c) = Debts(c)' - Debts(c)
    <3>1. /\ Total(files["ledger"], c) \in Nat /\ Reserve(files["pool"], c) \in Nat
          /\ Deposits(files["utxos"], c) \in Nat
      BY FilesGood, MoneyInt
    <3>2. Share(pay, t, c) \in Int /\ due[c] \in Int /\ due'[c] \in Int
      BY <1>1, FilesGood, ShareInt
    <3>3. PICK T \in Nat, R \in Nat, U \in Nat, e \in Int, n \in Int, x \in Int :
            /\ T = Total(files["ledger"], c) /\ R = Reserve(files["pool"], c) /\ U = Deposits(files["utxos"], c)
            /\ e = due[c] /\ n = due'[c] /\ x = Share(pay, t, c)
      BY <3>1, <3>2
    <3>4. Assets(t, c) = T + R + x /\ Debts(c) = U + e
      BY <3>3 DEF Assets, Debts
    <3>5. Assets(t, c)' = T + R + (x + n - e)
      <4>1. Assets(t, c)' = Total(files'["ledger"], c) + Reserve(files'["pool"], c) + Share(pay', t, c)
        BY DEF Assets
      <4>2. Share(pay', t, c) = x + n - e
        BY <3>3
      <4>. QED
        BY <3>3, <4>1, <4>2
    <3>6. Debts(c)' = U + n
      <4>1. Debts(c)' = Deposits(files'["utxos"], c) + due'[c]
        BY DEF Debts
      <4>. QED
        BY <3>3, <4>1
    <3>. QED
      BY <3>3, <3>4, <3>5, <3>6
  <2>. QED
    BY <1>1, <1>3, <2>1, BooksTask
<1>. QED
  BY <1>1, <1>2, <1>3

\* The same when nothing is paid.
LEMMA BooksStay ==
  ASSUME FilesInv, FilesInv', BooksInv, upset = {}, files' = files, due' = due,
         NEW t \in PayTasks, NEW q, pay' = [pay EXCEPT ![t] = q], ~ (Busy(t) /\ Watching(pay[t])),
         \A c \in Currencies : Share(pay', t, c) = Share(pay, t, c)
  PROVE  Balanced' \/ Doomed'
<1>1. due' \in [Currencies -> Int] /\ due \in [Currencies -> Int]
  BY DEF BooksInv
<1>2. \A c \in Currencies : Share(pay', t, c) = Share(pay, t, c) + due'[c] - due[c]
  <2>1. SUFFICES ASSUME NEW c \in Currencies PROVE Share(pay', t, c) = Share(pay, t, c) + due'[c] - due[c]
    OBVIOUS
  <2>2. Share(pay, t, c) \in Int
    BY FilesGood, ShareInt
  <2>3. PICK e \in Int, x \in Int : e = due[c] /\ e = due'[c] /\ x = Share(pay, t, c)
    BY <1>1, <2>2
  <2>4. Share(pay', t, c) = x
    BY <2>3
  <2>. QED
    BY <2>3, <2>4
<1>. QED
  BY <1>1, <1>2, BooksTurn

\* A request that has nothing done by halves stops.
LEMMA BooksStop ==
  ASSUME FilesInv, FilesInv', BooksInv, upset = {}, files' = files, due' = due,
         NEW t \in PayTasks, Stop(t), ~ Ahead(pay[t]), ~ Behind(pay[t])
  PROVE  Balanced' \/ Doomed'
<1>1. PICK q : q = [NewTask EXCEPT !.op = "done"]
  OBVIOUS
<1>2. q.todo = <<>> /\ pay' = [pay EXCEPT ![t] = q] /\ pay'[t] = q
  BY <1>1 DEF NewTask, Stop, FilesInv
<1>3. ~ Watching(pay[t])
  BY DEF Watching, Ahead
<1>4. ASSUME NEW c \in Currencies PROVE Share(pay', t, c) = Share(pay, t, c)
  <2>1. Owing(pay[t], c) = 0
    BY OwingIs
  <2>2. Share(pay, t, c) = 0
    BY <2>1 DEF Share
  <2>3. Share(pay', t, c) = 0
    BY <1>2 DEF Share
  <2>. QED
    BY <2>2, <2>3
<1>. QED
  BY <1>2, <1>3, <1>4, BooksStay

\* What was done by halves when a file is loaded.
LEMMA HalfLoaded ==
  ASSUME NEW r, Task(r), NEW f \in FileNames, Head(r.todo) = L(f)
  PROVE  /\ ~ Ahead(r) /\ Tail(r.todo) # <<>>
         /\ Behind(r) => r.op \in {"claim", "mrc20", "txo"} /\ f = "ledger"
<1>1. BeforeLoad(r, f)
  BY Order, StepsDiffer DEF Task, Before
<1>2. ~ Ahead(r) /\ Tail(r.todo) # <<>>
  BY <1>1 DEF BeforeLoad, Ahead
<1>3. Behind(r) => r.op \in {"claim", "mrc20", "txo"}
  BY <1>1 DEF BeforeLoad, Behind, TrailOps
<1>4. Behind(r) => f = "ledger"
  BY <1>1, <1>3 DEF BeforeLoad, Behind, TrailOps, PoolOps, FileNames
<1>. QED
  BY <1>2, <1>3, <1>4

LEMMA BooksLoad ==
  ASSUME FilesInv, FilesInv', BooksInv, NEW t \in PayTasks, Load(t), upset' = {}
  PROVE  Balanced' \/ Doomed'
<1>0. files' = files /\ upset = {} /\ due' = due /\ Busy(t)
  BY LoadWhole, StepAt DEF Load
<1>1. PICK f \in FileNames :
        /\ Task(pay[t]) /\ Head(pay[t].todo) = L(f)
        /\ \/ Stop(t) /\ ~ (f = "ledger" /\ pay[t].op \in {"claim", "mrc20", "txo"})
           \/ \E q : pay' = [pay EXCEPT ![t] = q] /\ Loaded(pay[t], q, f, files[f])
  BY LoadWhole
<1>2. PICK r : r = pay[t]
  OBVIOUS
<1>3. /\ Task(r) /\ Head(r.todo) = L(f) /\ ~ Ahead(r) /\ Tail(r.todo) # <<>>
      /\ Behind(r) => r.op \in {"claim", "mrc20", "txo"} /\ f = "ledger"
  BY <1>1, <1>2, HalfLoaded
<1>4. CASE Stop(t) /\ ~ (f = "ledger" /\ pay[t].op \in {"claim", "mrc20", "txo"})
  BY <1>0, <1>2, <1>3, <1>4, BooksStop
<1>5. ASSUME NEW q, pay' = [pay EXCEPT ![t] = q], Loaded(pay[t], q, f, files[f])
      PROVE  Balanced' \/ Doomed'
  <2>1. q.op = r.op /\ q.todo = Tail(r.todo) /\ q.amount = r.amount /\ pay'[t] = q
        /\ (r.op \notin {"access", "condition"} => q.cur = r.cur)
    BY <1>2, <1>5 DEF Loaded, FilesInv
  <2>2. \A x : Did(q, x) <=> Did(r, x) \/ x = Head(r.todo)
    BY <1>3, <2>1, DidOnward
  <2>3. (Ahead(q) <=> Ahead(r)) /\ (Behind(q) <=> Behind(r))
    <3>1. Head(r.todo) \notin Marks
      BY <1>3, StepsDiffer DEF Marks
    <3>. QED
      BY <2>1, <2>2, <3>1, HalfSame
  <2>4. ASSUME NEW c \in Currencies PROVE Share(pay', t, c) = Share(pay, t, c)
    <3>1. Share(pay, t, c) = Owing(r, c)
      BY <1>0, <1>2 DEF Share, Busy
    <3>2. Share(pay', t, c) = Owing(q, c)
      BY <1>3, <2>1 DEF Share
    <3>3. CASE Behind(r)
      <4>1. Booked(q, c) = Booked(r, c)
        BY <1>3, <2>1, <3>3, BookedIs
      <4>. QED
        BY <2>3, <3>1, <3>2, <3>3, <4>1, OwingIs
    <3>4. CASE ~ Behind(r)
      BY <1>3, <2>3, <3>1, <3>2, <3>4, OwingIs
    <3>. QED
      BY <3>3, <3>4
  <2>5. ~ Watching(pay[t])
    BY <1>2, <1>3 DEF Watching, Ahead
  <2>. QED
    BY <1>0, <1>5, <2>4, <2>5, BooksStay
<1>. QED
  BY <1>1, <1>4, <1>5

LEMMA BooksBegin ==
  ASSUME FilesInv, FilesInv', BooksInv, NEW t \in PayTasks, Begin(t), upset' = {}
  PROVE  Balanced' \/ Doomed'
<1>0. files' = files /\ upset = {} /\ due' = due /\ pay[t].op = "idle"
  BY DEF Begin
<1>1. PICK q : pay' = [pay EXCEPT ![t] = q] /\ Task(q) /\ \A x : ~ Did(q, x)
  BY BeginIs
<1>2. ~ Busy(t)
  BY <1>0 DEF FilesInv, Task, Shaped, Ops
<1>3. ~ Ahead(q) /\ ~ Behind(q) /\ pay'[t] = q
  BY <1>1 DEF Ahead, Behind, FilesInv
<1>4. ASSUME NEW c \in Currencies PROVE Share(pay', t, c) = Share(pay, t, c)
  <2>1. Owing(q, c) = 0
    BY <1>3, OwingIs
  <2>2. Share(pay', t, c) = 0
    BY <1>3, <2>1 DEF Share
  <2>. QED
    BY <1>2, <2>2 DEF Share, Busy
<1>. QED
  BY <1>0, <1>1, <1>2, <1>4, BooksStay

\* What a scan finds that makes no difference to the ledger was credited before.
LEMMA FoundCredited ==
  ASSUME NEW r, Task(r), r.op = "scan", Did(r, L("ledger")), Fits(r), NEW new \in SUBSET Theirs,
         NewLedger(Spend(r, new)) = r.copy.ledger
  PROVE  \A o \in new : o.id \in Credited
<1>1. PICK l : l = r.copy["ledger"]
  OBVIOUS
<1>2. GoodLedger(l) /\ l = r.copy.ledger
  BY <1>1, Copies DEF Task, Good, FileNames
<1>3. NewLedger(Spend(r, new)) = Credits(l, new)
  <2>1. PICK k : k = Spend(r, new)
    OBVIOUS
  <2>2. k.op = "scan" /\ k.inputs = new /\ k.copy = r.copy
    BY <2>1 DEF Spend, Task, Asked, Fields
  <2>3. NewLedger(k) = Credits(l, new)
    BY <1>1, <2>2, Copies DEF NewLedger, Credits
  <2>. QED
    BY <2>1, <2>3
<1>4. Credits(l, new).credited = l.credited \cup {o.id : o \in new}
  BY <1>2, CreditsGood
<1>5. \A o \in new : o.id \in l.credited
  BY <1>2, <1>3, <1>4
<1>6. l.credited \subseteq Credited
  BY <1>1 DEF Fits
<1>. QED
  BY <1>5, <1>6

LEMMA BooksScan ==
  ASSUME FilesInv, FilesInv', DepositsInv, BooksInv, NEW t \in PayTasks, ScanChains(t), upset' = {}
  PROVE  Balanced' \/ Doomed'
<1>0. files' = files /\ upset = {} /\ due' = due
  BY DEF ScanChains
<1>1. /\ Busy(t) /\ Task(pay[t]) /\ Head(pay[t].todo) = Do("scan") /\ BeforeDo(pay[t], "scan")
      /\ \/ Stop(t)
         \/ \E answered \in SUBSET Chains : \E q :
                 LET new == New(pay[t], answered)
                 IN /\ Found(pay[t], q, new)
                    /\ \/ pay' = [pay EXCEPT ![t] = q]
                       \/ /\ pay' = [pay EXCEPT ![t] = Further(q)]
                          /\ NewLedger(Spend(pay[t], new)) = pay[t].copy.ledger
  BY ScanIs
<1>2. PICK r : r = pay[t]
  OBVIOUS
<1>3. /\ Task(r) /\ Head(r.todo) = Do("scan") /\ r.op = "scan" /\ Did(r, L("ledger")) /\ ~ Did(r, S("ledger"))
      /\ ~ Ahead(r) /\ ~ Behind(r) /\ ~ Watching(r)
  BY <1>1, <1>2 DEF BeforeDo, Ahead, Behind, Watching
<1>4. CASE Stop(t)
  BY <1>0, <1>2, <1>3, <1>4, BooksStop
<1>5. ASSUME NEW answered \in SUBSET Chains, NEW q, NEW new, new = New(pay[t], answered),
             Found(pay[t], q, new),
             \/ pay' = [pay EXCEPT ![t] = q]
             \/ /\ pay' = [pay EXCEPT ![t] = Further(q)]
                /\ NewLedger(Spend(pay[t], new)) = pay[t].copy.ledger
      PROVE  Balanced' \/ Doomed'
  <2>1. new \subseteq {o \in Theirs : ~ Recorded(r.copy["utxos"], o)} /\ new \in SUBSET Theirs
    BY <1>2, <1>3, <1>5, Copies DEF New, Theirs, Task, Asked
  <2>2. Found(r, q, new)
    BY <1>2, <1>5
  <2>3. q.todo # <<>> /\ Task(q) /\ Head(q.todo) = S("ledger")
    BY <1>3, <2>1, <2>2, FoundTask
  <2>4. \A x : Did(q, x) <=> Did(r, x) \/ x = Do("scan")
    BY <1>3, <2>2, DidOnward DEF Found
  <2>5. \A c \in Currencies : Share(pay, t, c) = 0
    BY <1>2, <1>3, OwingIs DEF Share
  <2>6. CASE pay' = [pay EXCEPT ![t] = q]
    <3>1. ~ Did(q, S("ledger")) /\ q.op = "scan"
      BY <1>3, <2>2, <2>4, StepsDiffer DEF Found
    <3>2. ~ Ahead(q) /\ ~ Behind(q) /\ pay'[t] = q
      BY <2>6, <3>1 DEF Ahead, Behind, FilesInv
    <3>3. \A c \in Currencies : Share(pay', t, c) = Share(pay, t, c)
      BY <2>5, <3>2, OwingIs DEF Share
    <3>. QED
      BY <1>0, <1>2, <1>3, <2>6, <3>3, BooksStay
  <2>7. CASE /\ pay' = [pay EXCEPT ![t] = Further(q)]
             /\ NewLedger(Spend(pay[t], new)) = pay[t].copy.ledger
    <3>1. PICK z : z = Further(q)
      OBVIOUS
    <3>2. Onward(q, z)
      BY <2>3, <3>1, FurtherOnward DEF Task, Asked
    <3>3. \A x : Did(z, x) <=> Did(q, x) \/ x = S("ledger")
      BY <2>3, <3>2, DidOnward DEF Onward
    <3>4. z.op = "scan" /\ z.inputs = new /\ Watching(z) /\ Ahead(z)
      BY <1>3, <2>2, <3>2, <3>3 DEF Found, Onward, Watching, Ahead
    <3>5. z.todo # <<>>
      <4>1. q.op = "scan"
        BY <1>3, <2>2 DEF Found
      <4>. QED
        BY <2>3, <3>2, <3>3, <4>1, HalfSaved
    <3>6. pay' = [pay EXCEPT ![t] = z] /\ pay'[t] = z
      BY <2>7, <3>1 DEF FilesInv
    <3>7. CASE new = {}
      <4>1. ASSUME NEW c \in Currencies PROVE Share(pay', t, c) = Share(pay, t, c)
        <5>1. Booked(z, c) = 0
          <6>1. Booked(z, c) = Brought({}, c)
            BY <3>4, <3>7, BookedIs
          <6>. QED
            BY <6>1, BroughtIs
        <5>2. Owing(z, c) = 0
          BY <3>4, <5>1, OwingIs
        <5>3. Share(pay', t, c) = 0
          BY <3>6, <5>2 DEF Share
        <5>. QED
          BY <2>5, <5>3
      <4>. QED
        BY <1>0, <1>2, <1>3, <3>6, <4>1, BooksStay
    <3>8. CASE new # {}
      <4>1. Fits(r)
        BY <1>0, <1>1, <1>2 DEF DepositsInv
      <4>2. NewLedger(Spend(r, new)) = r.copy.ledger
        BY <1>2, <2>7
      <4>3. \A o \in new : o.id \in Credited
        BY <1>3, <2>1, <4>1, <4>2, FoundCredited
      <4>4. PICK o \in z.inputs : o \in Outputs /\ o.id \in Credited
        BY <2>1, <3>4, <3>8, <4>3 DEF Theirs
      <4>5. Doomed'
        BY <1>0, <1>2, <1>3, <3>4, <3>5, <3>6, <4>4, DoomFound
      <4>. QED
        BY <4>5
    <3>. QED
      BY <3>7, <3>8
  <2>. QED
    BY <1>5, <2>6, <2>7
<1>. QED
  BY <1>1, <1>4, <1>5

\* A step in the outside world begins something by halves: what the ledger will be changed by.
LEMMA HalfBegun ==
  ASSUME NEW r, Task(r), NEW x \in {"verify", "lookup", "anchor", "broadcast"}, Head(r.todo) = Do(x),
         NEW q, Onward(r, q), NEW c
  PROVE  /\ ~ Ahead(r) /\ ~ Behind(r) /\ BeforeDo(r, x)
         /\ x # "lookup" => q.todo # <<>>
         /\ x = "lookup" \/ r.op = "swap" => Owing(q, c) = 0
         /\ x # "lookup" /\ r.op # "swap" => Owing(q, c) = Booked(r, c)
<1>1. BeforeDo(r, x) /\ ~ Did(r, Do(x)) /\ Head(r.todo) # S("ledger") /\ Head(r.todo) # S("utxos")
  BY Order, StepsDiffer DEF Task, Before
<1>2. \A y : Did(q, y) <=> Did(r, y) \/ y = Do(x)
  BY DidOnward DEF Onward
<1>3. q.op = r.op /\ q.todo = Tail(r.todo)
  BY DEF Onward
<1>4. ~ Ahead(r) /\ ~ Ahead(q) /\ ~ Did(r, S("ledger")) /\ ~ Did(q, S("ledger"))
  BY <1>1, <1>2, StepsDiffer DEF BeforeDo, Ahead
<1>5. ~ Behind(r)
  BY <1>1 DEF BeforeDo, Behind, TrailOps
<1>6. x # "lookup" => q.todo # <<>>
  BY <1>1, <1>3 DEF BeforeDo
<1>7. x = "lookup" \/ r.op = "swap" => ~ Behind(q)
  <2>1. x = "lookup" => r.op = "claim" /\ ~ Did(q, S("utxos"))
    BY <1>1, <1>2, StepsDiffer DEF BeforeDo
  <2>. QED
    BY <1>3, <2>1 DEF Behind
<1>8. x # "lookup" /\ r.op # "swap" => Behind(q)
  BY <1>1, <1>2, <1>3, <1>4 DEF BeforeDo, Behind, TrailOps
<1>9. Booked(q, c) = Booked(r, c)
  BY BookedSame
<1>. QED
  BY <1>1, <1>4, <1>5, <1>6, <1>7, <1>8, <1>9, OwingIs

LEMMA SendDue ==
  ASSUME NEW t, NEW ok, NEW world, NEW price, Send(t, ok, world, price)
  PROVE  \/ Stop(t) /\ due' = due
         \/ Continue(t, pay[t]) /\ Owe(pay[t].cur, - price)
BY DEF Send

\* What a step in the outside world does to what is due: what the ledger will be changed by.
Dues(t, r, x) ==
  \/ Stop(t) /\ due' = due
  \/ /\ Continue(t, pay[t])
     /\ x = "lookup" \/ r.op = "swap" => due' = due
     /\ x # "lookup" /\ r.op # "swap" =>
          \E n \in Int : /\ due' = [due EXCEPT ![r.cur] = @ + n]
                         /\ \A c : Booked(r, c) = IF c = r.cur THEN n ELSE 0

LEMMA WorldDue ==
  ASSUME FilesInv, due \in [Currencies -> Int], NEW t \in PayTasks,
         Lookup(t) \/ Verify(t) \/ Anchor(t) \/ Broadcast(t), NEW r, r = pay[t]
  PROVE  \E x \in {"verify", "lookup", "anchor", "broadcast"} :
           Task(r) /\ Head(r.todo) = Do(x) /\ (Dues(t, r, x) \/ (due' = due /\ "txo" \in upset'))
<1>1. ASSUME NEW x \in {"verify", "lookup", "anchor", "broadcast"}, At(t, x)
      PROVE  /\ Task(r) /\ Head(r.todo) = Do(x) /\ BeforeDo(r, x) /\ r.amount \in Nat
             /\ \A f : Did(r, L(f)) /\ f \in FileNames => Good(f, r.copy[f])
             /\ Asked(r)
  BY <1>1, StepAt DEF Task, Asked
<1>2. CASE Lookup(t)
  <2>1. At(t, "lookup")
    BY <1>2 DEF Lookup
  <2>2. Dues(t, r, "lookup")
    BY <1>2 DEF Lookup, Dues
  <2>. QED
    BY <1>1, <2>1, <2>2
<1>6. CASE VerifyTxo(t)
  <2>1. At(t, "verify")
    BY <1>6 DEF VerifyTxo
  <2>2. (Stop(t) /\ due' = due) \/ (due' = due /\ "txo" \in upset')
    BY <1>6 DEF VerifyTxo
  <2>3. Dues(t, r, "verify") \/ (due' = due /\ "txo" \in upset')
    BY <2>2 DEF Dues
  <2>. QED
    BY <1>1, <2>1, <2>3
<1>3. CASE VerifyMrc20(t)
  <2>1. At(t, "verify")
    BY <1>3 DEF VerifyMrc20
  <2>2. r.op \in {"mrc20", "txo"} /\ r.amount \in Nat
    BY <1>1, <2>1 DEF BeforeDo
  <2>3. (Stop(t) /\ due' = due) \/ (Continue(t, pay[t]) /\ due' = [due EXCEPT ![r.cur] = @ + r.amount])
    BY <1>3 DEF VerifyMrc20, Owe
  <2>4. \A c : Booked(r, c) = IF c = r.cur THEN r.amount ELSE 0
    BY <2>2, BookedIs
  <2>5. Dues(t, r, "verify")
    BY <2>2, <2>3, <2>4 DEF Dues
  <2>. QED
    BY <1>1, <2>1, <2>5
<1>4. CASE Anchor(t)
  <2>1. At(t, "anchor")
    BY <1>4 DEF Anchor
  <2>2. r.op \in {"buy", "swap"} /\ GoodLedger(r.copy["ledger"])
    BY <1>1, <2>1 DEF BeforeDo, TrailOps, Good, FileNames
  <2>3. Cost(r) \in Nat
    BY <1>1, <2>1, <2>2, CostNat
  <2>4. PICK price \in Int : price = IF r.op = "buy" THEN Cost(r) ELSE 0
    BY <2>3
  <2>5. (Stop(t) /\ due' = due) \/ (Continue(t, pay[t]) /\ Owe(r.cur, - price))
    <3>1. PICK ok, world : Send(t, ok, world, price)
      BY <1>4, <2>4 DEF Anchor
    <3>. QED
      BY <3>1, SendDue
  <2>6. PICK n \in Int : n = - price /\ n + price = 0
    BY <2>4
  <2>7. (Stop(t) /\ due' = due) \/ (Continue(t, pay[t]) /\ due' = [due EXCEPT ![r.cur] = @ + n])
    BY <2>5, <2>6 DEF Owe
  <2>8. CASE r.op = "buy"
    <3>1. \A c : Booked(r, c) = IF c = r.cur THEN - Cost(r) ELSE 0
      BY <2>8, Zenon DEF Booked, PoolOps
    <3>2. \A c : Booked(r, c) = IF c = r.cur THEN n ELSE 0
      BY <2>4, <2>6, <2>8, <3>1
    <3>3. Dues(t, r, "anchor")
      BY <2>7, <2>8, <3>2 DEF Dues
    <3>. QED
      BY <1>1, <2>1, <3>3
  <2>9. CASE r.op = "swap"
    <3>1. r.cur \in Currencies
      BY <1>1, <2>1 DEF Asked
    <3>2. n = 0
      <4>1. price = 0
        BY <2>4, <2>9
      <4>2. n + price = 0
        BY <2>6
      <4>. QED
        BY <4>1, <4>2
    <3>3. [due EXCEPT ![r.cur] = @ + n] = due
      <4>1. due[r.cur] + n = due[r.cur]
        BY <3>1, <3>2
      <4>. QED
        BY <3>1, <4>1
    <3>4. Dues(t, r, "anchor")
      BY <2>7, <2>9, <3>3 DEF Dues
    <3>. QED
      BY <1>1, <2>1, <3>4
  <2>. QED
    BY <2>2, <2>8, <2>9
<1>5. CASE Broadcast(t)
  <2>1. At(t, "broadcast")
    BY <1>5 DEF Broadcast
  <2>2. r.op = "withdrawSats" /\ r.amount \in Nat
    BY <1>1, <2>1 DEF BeforeDo
  <2>3. PICK n \in Int : n = - r.amount
    BY <2>2
  <2>4. (Stop(t) /\ due' = due) \/ (Continue(t, pay[t]) /\ due' = [due EXCEPT ![r.cur] = @ + n])
    <3>1. PICK ok, world : Send(t, ok, world, r.amount)
      BY <1>5 DEF Broadcast
    <3>2. (Stop(t) /\ due' = due) \/ (Continue(t, pay[t]) /\ Owe(r.cur, - r.amount))
      BY <3>1, SendDue
    <3>. QED
      BY <2>3, <3>2 DEF Owe
  <2>5. \A c : Booked(r, c) = IF c = r.cur THEN - r.amount ELSE 0
    BY <2>2, Zenon DEF Booked, PoolOps
  <2>6. Dues(t, r, "broadcast")
    BY <2>2, <2>3, <2>4, <2>5 DEF Dues
  <2>. QED
    BY <1>1, <2>1, <2>6
<1>. QED
  BY <1>2, <1>3, <1>4, <1>5, <1>6 DEF Verify

LEMMA DuesInt ==
  ASSUME due \in [Currencies -> Int], NEW t, NEW r, Task(r), NEW x, Dues(t, r, x)
  PROVE  due' \in [Currencies -> Int]
<1>1. r.cur \in Currencies
  BY DEF Task, Asked
<1>2. due' = due \/ \E n \in Int : due' = [due EXCEPT ![r.cur] = @ + n]
  BY DEF Dues
<1>. QED
  BY <1>1, <1>2, DueMoves

LEMMA BooksWorld ==
  ASSUME FilesInv, FilesInv', BooksInv, NEW t \in PayTasks,
         Lookup(t) \/ Verify(t) \/ Anchor(t) \/ Broadcast(t), upset' = {}
  PROVE  Balanced' \/ Doomed'
<1>0. files' = files /\ upset = {} /\ Busy(t) /\ "txo" \notin upset'
  BY WorldKeeps
<1>1. due \in [Currencies -> Int]
  BY DEF BooksInv
<1>2. PICK r : r = pay[t]
  OBVIOUS
<1>3. PICK x \in {"verify", "lookup", "anchor", "broadcast"} :
        Task(r) /\ Head(r.todo) = Do(x) /\ Dues(t, r, x)
  BY <1>0, <1>1, <1>2, WorldDue
<1>4. PICK q : q = Further(r)
  OBVIOUS
<1>5. Onward(r, q)
  BY <1>3, <1>4, FurtherOnward DEF Task, Asked
<1>6. /\ ~ Ahead(r) /\ ~ Behind(r) /\ (x # "lookup" => q.todo # <<>>) /\ ~ Watching(pay[t])
      /\ \A c : /\ x = "lookup" \/ r.op = "swap" => Owing(q, c) = 0
                /\ x # "lookup" /\ r.op # "swap" => Owing(q, c) = Booked(r, c)
  <2>1. ~ Ahead(r)
    BY <1>3, <1>5, HalfBegun
  <2>. QED
    BY <1>2, <1>3, <1>5, <2>1, HalfBegun DEF Watching, Ahead
<1>7. due' \in [Currencies -> Int] /\ r.cur \in Currencies
  BY <1>1, <1>3, DuesInt DEF Task, Asked
<1>8. CASE Stop(t) /\ due' = due
  BY <1>0, <1>2, <1>6, <1>8, BooksStop
<1>9. CASE ~ (Stop(t) /\ due' = due)
  <2>1. /\ Continue(t, pay[t])
        /\ x = "lookup" \/ r.op = "swap" => due' = due
        /\ x # "lookup" /\ r.op # "swap" =>
             \E n \in Int : /\ due' = [due EXCEPT ![r.cur] = @ + n]
                            /\ \A c : Booked(r, c) = IF c = r.cur THEN n ELSE 0
    BY <1>3, <1>9 DEF Dues
  <2>2. pay' = [pay EXCEPT ![t] = q] /\ pay'[t] = q
    BY <1>2, <1>4, <2>1, ContinueIs DEF FilesInv
  <2>3. \A c \in Currencies : Share(pay, t, c) = 0
    BY <1>2, <1>6, OwingIs DEF Share
  <2>4. CASE x = "lookup" \/ r.op = "swap"
    <3>1. \A c \in Currencies : Share(pay', t, c) = Share(pay, t, c)
      BY <1>6, <2>2, <2>3, <2>4 DEF Share
    <3>. QED
      BY <1>0, <1>6, <2>1, <2>2, <2>4, <3>1, BooksStay
  <2>5. CASE x # "lookup" /\ r.op # "swap"
    <3>1. PICK n \in Int : /\ due' = [due EXCEPT ![r.cur] = @ + n]
                           /\ \A c : Booked(r, c) = IF c = r.cur THEN n ELSE 0
      BY <2>1, <2>5
    <3>2. ASSUME NEW c \in Currencies PROVE Share(pay', t, c) = Share(pay, t, c) + due'[c] - due[c]
      <4>1. due'[c] = due[c] + IF c = r.cur THEN n ELSE 0
        BY <1>1, <1>7, <3>1, DueMoves
      <4>2. Share(pay', t, c) = IF c = r.cur THEN n ELSE 0
        <5>1. Owing(q, c) = IF c = r.cur THEN n ELSE 0
          BY <1>6, <2>5, <3>1
        <5>. QED
          BY <1>6, <2>2, <2>5, <5>1 DEF Share
      <4>3. PICK e \in Int, d \in Int, z \in Int : e = due[c] /\ d = due'[c] /\ z = IF c = r.cur THEN n ELSE 0
        BY <1>1, <1>7
      <4>4. d = e + z /\ Share(pay', t, c) = z
        BY <4>1, <4>2, <4>3
      <4>. QED
        BY <2>3, <4>3, <4>4
    <3>. QED
      BY <1>0, <1>6, <1>7, <2>2, <3>2, BooksTurn
  <2>. QED
    BY <2>4, <2>5
<1>. QED
  BY <1>8, <1>9

\* What is due is a number, and the requests at work stay finitely many.
LEMMA DueStays ==
  ASSUME FilesInv, due \in [Currencies -> Int], [PaymentsNext]_payVars
  PROVE  due' \in [Currencies -> Int]
<1>1. CASE UNCHANGED due
  BY <1>1
<1>2. ASSUME NEW t \in PayTasks, Save(t) PROVE due' \in [Currencies -> Int]
  <2>1. Task(pay[t])
    BY <1>2, SaveIs
  <2>2. pay[t].cur \in Currencies /\ pay[t].amount \in Nat
    BY <2>1 DEF Task, Asked
  <2>3. PICK n \in Int : n = - pay[t].amount
    BY <2>2
  <2>4. due' = due \/ due' = [due EXCEPT ![pay[t].cur] = @ + n]
    BY <1>2, <2>3 DEF Save, Owe
  <2>. QED
    BY <2>2, <2>4, DueMoves
<1>3. ASSUME NEW t \in PayTasks, Lookup(t) \/ Verify(t) \/ Anchor(t) \/ Broadcast(t)
      PROVE  due' \in [Currencies -> Int]
  <2>1. PICK r : r = pay[t]
    OBVIOUS
  <2>2. PICK x : Task(r) /\ (Dues(t, r, x) \/ due' = due)
    BY <1>3, <2>1, WorldDue
  <2>. QED
    BY <2>2, DuesInt
<1>4. ASSUME NEW t \in PayTasks, Begin(t) \/ Load(t) \/ SaveFails(t) \/ ScanChains(t)
      PROVE  UNCHANGED due
  BY <1>4 DEF Begin, Load, SaveFails, ScanChains
<1>5. (\E o \in Outputs : Pays(o)) \/ Death \/ UNCHANGED payVars => UNCHANGED due
  BY DEF Pays, Death, payVars
<1>. QED
  BY <1>1, <1>2, <1>3, <1>4, <1>5 DEF PaymentsNext

LEMMA WorkStays ==
  ASSUME FilesInv, IsFiniteSet(Working(pay)), [PaymentsNext]_payVars
  PROVE  IsFiniteSet(Working(pay'))
<1>1. CASE pay' = pay
  BY <1>1 DEF Working
<1>2. ASSUME NEW t \in PayTasks, NEW q, pay' = [pay EXCEPT ![t] = q]
      PROVE  IsFiniteSet(Working(pay'))
  <2>1. DOMAIN pay = PayTasks
    BY DEF FilesInv
  <2>. QED
    BY <1>2, <2>1, WorkFinite
<1>3. ASSUME NEW t \in PayTasks, Stop(t) PROVE IsFiniteSet(Working(pay'))
  <2>1. PICK q : q = [NewTask EXCEPT !.op = "done"]
    OBVIOUS
  <2>2. pay' = [pay EXCEPT ![t] = q]
    BY <1>3, <2>1 DEF Stop
  <2>. QED
    BY <1>2, <2>2
<1>4. ASSUME NEW t \in PayTasks, Continue(t, pay[t]) PROVE IsFiniteSet(Working(pay'))
  <2>1. PICK q : q = Further(pay[t])
    OBVIOUS
  <2>2. pay' = [pay EXCEPT ![t] = q]
    BY <1>4, <2>1, ContinueIs
  <2>. QED
    BY <1>2, <2>2
<1>5. ASSUME NEW t \in PayTasks, Begin(t) PROVE IsFiniteSet(Working(pay'))
  BY <1>2, <1>5, BeginIs
<1>6. ASSUME NEW t \in PayTasks, Load(t) PROVE IsFiniteSet(Working(pay'))
  <2>1. PICK f \in FileNames : Stop(t) \/ \E q : pay' = [pay EXCEPT ![t] = q]
    BY <1>6, LoadIs
  <2>. QED
    BY <1>2, <1>3, <2>1
<1>7. ASSUME NEW t \in PayTasks, Save(t) PROVE IsFiniteSet(Working(pay'))
  <2>1. Continue(t, pay[t])
    BY <1>7, SaveIs
  <2>. QED
    BY <1>4, <2>1
<1>8. ASSUME NEW t \in PayTasks, ScanChains(t) PROVE IsFiniteSet(Working(pay'))
  <2>1. Stop(t) \/ \E q : pay' = [pay EXCEPT ![t] = q]
    BY <1>8, ScanGoes
  <2>. QED
    BY <1>2, <1>3, <2>1
<1>9. ASSUME NEW t \in PayTasks, Lookup(t) \/ Verify(t) \/ Anchor(t) \/ Broadcast(t)
      PROVE  IsFiniteSet(Working(pay'))
  <2>1. Stop(t) \/ Continue(t, pay[t])
    BY <1>9, WorldKeeps
  <2>. QED
    BY <1>3, <1>4, <2>1
<1>10. CASE Death
  <2>1. \A t \in PayTasks : ~ Busy(t)'
    BY <1>10, DeathIs
  <2>2. Working(pay') = {}
    BY <2>1 DEF Working, Busy
  <2>. QED
    BY <2>2, FS_EmptySet
<1>12. ASSUME NEW t \in PayTasks, SaveFails(t) PROVE IsFiniteSet(Working(pay'))
  BY <1>3, <1>4, <1>12, SaveFailsIs
<1>11. (\E o \in Outputs : Pays(o)) \/ UNCHANGED payVars => pay' = pay
  BY DEF Pays, payVars
<1>. QED
  BY <1>1, <1>5, <1>6, <1>7, <1>8, <1>9, <1>10, <1>11, <1>12 DEF PaymentsNext

\* A step that leaves the files, the requests and what is due alone.
LEMMA BooksSame ==
  ASSUME BooksInv, files' = files, pay' = pay, due' = due, upset' = upset
  PROVE  BooksInv'
<1>1. Listed' = Listed /\ \A t \in PayTasks : Busy(t)' <=> Busy(t)
  BY DEF Listed, IdsOf, Busy
<1>2. Doomed => Doomed'
  BY <1>1, DoomStays
<1>3. Balanced => Balanced'
  BY DEF Balanced, Total, Reserve, Tally, Deposits, Share, Working
<1>4. Working(pay') = Working(pay)
  BY DEF Working
<1>. QED
  BY <1>2, <1>3, <1>4 DEF BooksInv

LEMMA BooksStep ==
  FilesInv /\ DepositsInv /\ OutputsInv /\ BooksInv /\ [PaymentsNext]_payVars => BooksInv'
<1>1. SUFFICES ASSUME FilesInv, DepositsInv, OutputsInv, BooksInv, [PaymentsNext]_payVars
               PROVE  BooksInv'
  OBVIOUS
<1>2. FilesInv'
  BY <1>1, FilesStep
<1>3. IsFiniteSet(Working(pay')) /\ due' \in [Currencies -> Int]
  BY <1>1, DueStays, WorkStays DEF BooksInv
<1>4. ASSUME upset' = {} => Balanced' \/ Doomed' PROVE BooksInv'
  BY <1>3, <1>4 DEF BooksInv, Working
<1>5. CASE (\E o \in Outputs : Pays(o)) \/ UNCHANGED payVars
  <2>1. files' = files /\ pay' = pay /\ due' = due /\ upset' = upset
    BY <1>5 DEF Pays, payVars
  <2>. QED
    BY <1>1, <2>1, BooksSame
<1>6. CASE Death
  <2>1. upset' # {}
    BY <1>1, <1>6, DeathIs
  <2>. QED
    BY <1>4, <2>1
<1>7. ASSUME NEW t \in PayTasks, Begin(t) PROVE BooksInv'
  BY <1>1, <1>2, <1>4, <1>7, BooksBegin
<1>8. ASSUME NEW t \in PayTasks, Load(t) PROVE BooksInv'
  BY <1>1, <1>2, <1>4, <1>8, BooksLoad
<1>9. ASSUME NEW t \in PayTasks, Save(t) PROVE BooksInv'
  BY <1>1, <1>2, <1>4, <1>9, BooksSave
<1>10. ASSUME NEW t \in PayTasks, ScanChains(t) PROVE BooksInv'
  BY <1>1, <1>2, <1>4, <1>10, BooksScan
<1>11. ASSUME NEW t \in PayTasks, Lookup(t) \/ Verify(t) \/ Anchor(t) \/ Broadcast(t) PROVE BooksInv'
  BY <1>1, <1>2, <1>4, <1>11, BooksWorld
<1>12. ASSUME NEW t \in PayTasks, SaveFails(t) PROVE BooksInv'
  <2>1. upset' # {}
    BY <1>1, <1>12, SaveFailsIs
  <2>. QED
    BY <1>4, <2>1
<1>. QED
  BY <1>1, <1>5, <1>6, <1>7, <1>8, <1>9, <1>10, <1>11, <1>12 DEF PaymentsNext

\* The money as the property has it.
LEMMA BooksAre ==
  ASSUME FilesInv, NEW c \in Currencies
  PROVE  /\ Held(files, c) = Total(files["ledger"], c) + Reserve(files["pool"], c)
         /\ Settled(files, c) = Deposits(files["utxos"], c)
         /\ Held(files, c) \in Nat /\ Settled(files, c) \in Nat
<1>1. /\ files.ledger = files["ledger"] /\ files.pool = files["pool"] /\ files.utxos = files["utxos"]
      /\ GoodUtxos(files["utxos"])
  BY FilesGood
<1>2. Held(files, c) = Total(files["ledger"], c) + Reserve(files["pool"], c)
  BY <1>1 DEF Held, Total, Reserve
<1>3. Settled(files, c) = Deposits(files["utxos"], c)
  <2>1. PICK us : us = files["utxos"]
    OBVIOUS
  <2>2. Value({u \in us : u.chain = c /\ u.deposit}) = Deposits(us, c)
    BY <1>1, <2>1, SettledIs
  <2>. QED
    BY <1>1, <2>1, <2>2 DEF Settled
<1>4. /\ Total(files["ledger"], c) \in Nat /\ Reserve(files["pool"], c) \in Nat
      /\ Deposits(files["utxos"], c) \in Nat
  BY FilesGood, MoneyInt
<1>. QED
  BY <1>2, <1>3, <1>4

\* Nobody is at work.
LEMMA NoneAtWork ==
  ASSUME \A t \in PayTasks : ~ Busy(t)
  PROVE  IsFiniteSet(Working(pay)) /\ (\A c : Tally(pay, c) = 0) /\ ~ Doomed
<1>1. Working(pay) = {}
  BY DEF Working, Busy
<1>2. \A c : Tally(pay, c) = 0
  BY <1>1, SumEmpty DEF Tally
<1>. QED
  BY <1>1, <1>2, FS_EmptySet DEF Doomed

LEMMA BooksStart == PaymentsInit => BooksInv
<1>1. SUFFICES ASSUME PaymentsInit PROVE BooksInv
  OBVIOUS
<1>2. FilesInv
  BY <1>1, FilesStart
<1>3. \A t \in PayTasks : ~ Busy(t)
  BY <1>1 DEF PaymentsInit, NewTask, Busy
<1>4. due = [c \in Currencies |-> Held(files, c) - Settled(files, c)]
  BY <1>1 DEF PaymentsInit
<1>5. \A c \in Currencies :
        /\ Held(files, c) = Total(files["ledger"], c) + Reserve(files["pool"], c)
        /\ Settled(files, c) = Deposits(files["utxos"], c)
        /\ Held(files, c) \in Nat /\ Settled(files, c) \in Nat
  BY <1>2, BooksAre
<1>6. due \in [Currencies -> Int]
  BY <1>4, <1>5
<1>7. Balanced
  <2>1. SUFFICES ASSUME NEW c \in Currencies
                 PROVE  Total(files["ledger"], c) + Reserve(files["pool"], c) + Tally(pay, c)
                          = Deposits(files["utxos"], c) + due[c]
    BY DEF Balanced
  <2>2. PICK h \in Int, s \in Int : h = Held(files, c) /\ s = Settled(files, c) /\ due[c] = h - s
    BY <1>4, <1>5
  <2>3. Tally(pay, c) = 0
    BY <1>3, NoneAtWork
  <2>4. Total(files["ledger"], c) + Reserve(files["pool"], c) = h /\ Deposits(files["utxos"], c) = s
    BY <1>5, <2>2
  <2>. QED
    BY <2>2, <2>3, <2>4
<1>. QED
  BY <1>3, <1>6, <1>7, NoneAtWork DEF BooksInv

LEMMA BooksSound == FilesInv /\ BooksInv => BooksBalance
<1>1. SUFFICES ASSUME FilesInv, BooksInv, Quiet, upset = {}, NEW c \in Currencies
               PROVE  Held(files, c) = Settled(files, c) + due[c]
  BY DEF BooksBalance
<1>2. Tally(pay, c) = 0 /\ ~ Doomed
  BY <1>1, NoneAtWork DEF Quiet
<1>3. Total(files["ledger"], c) + Reserve(files["pool"], c) + Tally(pay, c) = Deposits(files["utxos"], c) + due[c]
  BY <1>1, <1>2 DEF BooksInv, Balanced
<1>4. PICK h \in Int, s \in Int : h = Held(files, c) /\ s = Settled(files, c)
  BY <1>1, BooksAre
<1>5. h = Total(files["ledger"], c) + Reserve(files["pool"], c) /\ s = Deposits(files["utxos"], c)
  BY <1>1, <1>4, BooksAre
<1>6. h + 0 = s + due[c]
  BY <1>2, <1>3, <1>5
<1>. QED
  BY <1>4, <1>6

\* The books balance: as long as no file has lost anything, no string has taken the place
\* of other amounts, no TXO URI was credited, no answer or write was lost and no request has
\* died, the ledger and the
\* pool hold between requests what was paid in and not used (saveLedger, savePool and
\* saveUtxos of every handler of pay.js): none of them makes money or loses any.
THEOREM BooksBalanceTheorem == PaymentsSpec => []BooksBalance
<1>. DEFINE Inv == FilesInv /\ WorldShape /\ DepositsInv /\ OutputsInv /\ BooksInv
<1>1. PaymentsInit => Inv
  BY FilesStart, WorldStart, DepositsStart, OutputsStart, BooksStart
<1>2. Inv /\ [PaymentsNext]_payVars => Inv'
  BY FilesStep, WorldStep, DepositsStep, OutputsStep, BooksStep
<1>3. Inv => BooksBalance
  BY BooksSound
<1>. QED
  BY <1>1, <1>2, <1>3, PTL DEF PaymentsSpec
====
