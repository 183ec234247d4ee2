--------------------------- MODULE Balance_proofs ---------------------------
(* What Balance promises for every number of checks, top-ups, workers and    *)
(* stops, proved from the claims the database updates are made on.           *)
EXTENDS Balance, FiniteSetTheorems, TLAPS

-----------------------------------------------------------------------------
(* The strengthening: a run with no price has moved nothing; the worker on   *)
(* its way to the bought balance is the only one for its run or session, and *)
(* the movement it carries has not happened yet.                             *)
RunOK(r) ==
  /\ Unpriced(r) => charged[r] = 0 /\ part[r] = 0 /\ took[r] = 0 /\ gave[r] = 0
  /\ part[r] \in {0, charged[r]}
  /\ took[r] \in {0, charged[r]}
  /\ gave[r] \in {0, charged[r]}
  /\ part[r] > 0 => gave[r] = 0
  /\ ~Unpriced(r) => price[r] \in {0, Price[r]} /\ part[r] <= price[r]
RunInv == \A r \in Runs : RunOK(r)

ClaimInv == \A w \in Workers :
  /\ at[w] \in {"balance", "claim"} => job[w].price \in {0, Price[job[w].run]}
  /\ at[w] = "claim" => job[w].part <= job[w].price
  /\ at[w] = "voidClaim" => job[w].price # 0

DebitInv == \A w \in Workers : at[w] = "debit" =>
  /\ ~Unpriced(job[w].run)
  /\ took[job[w].run] = 0
  /\ job[w].part = charged[job[w].run]
  /\ \A v \in Workers : at[v] = "debit" /\ job[v].run = job[w].run => v = w

RefundInv == \A w \in Workers : at[w] = "refund" =>
  /\ price[job[w].run] = 0 /\ part[job[w].run] = 0
  /\ gave[job[w].run] = 0
  /\ job[w].part = charged[job[w].run]
  /\ \A v \in Workers : at[v] = "refund" /\ job[v].run = job[w].run => v = w

SessionInv == \A s \in Sessions :
  /\ moved[s] <= 1
  /\ receipt[s] # "credited" => moved[s] = 0

IncrementInv == \A w \in Workers : at[w] = "increment" =>
  /\ receipt[job[w].session] = "credited"
  /\ moved[job[w].session] = 0
  /\ \A v \in Workers : at[v] = "increment" /\ job[v].session = job[w].session => v = w

IInv == TypeOK /\ RunInv /\ ClaimInv /\ DebitInv /\ RefundInv /\ SessionInv /\ IncrementInv

-----------------------------------------------------------------------------
(* What a worker's move does to at and job, whatever the call.               *)
LEMMA GotoMoves ==
  ASSUME TypeOK, NEW w \in Workers, NEW c \in Calls, NEW j \in Job, Goto(w, c, j)
  PROVE  /\ at' \in [Workers -> Calls] /\ job' \in [Workers -> Job]
         /\ at'[w] = c /\ job'[w] = j
         /\ \A v \in Workers : v # w => at'[v] = at[v] /\ job'[v] = job[v]
BY DEF TypeOK, Goto

(* An idle worker carries nothing.                                           *)
LEMMA NoJobType == NoJob \in Job
BY DEF NoJob, Job, NoPrice

(* The bought part of a price is at most the price.                          *)
LEMMA SplitType ==
  ASSUME NEW p \in Nat, NEW c \in Int
  PROVE  SplitPrice(p, c) \in 0..p
BY DEF SplitPrice, NonNegative

(* What the window has cost is an integer.                                   *)
LEMMA PlanSpentType == TypeOK => PlanSpent \in Int
BY BalanceAssumption DEF TypeOK, PlanSpent, Window

(* The first state satisfies every column's type and the strengthening.      *)
LEMMA InitIInv == Init => IInv
<1> SUFFICES ASSUME Init PROVE IInv
  OBVIOUS
<1> USE BalanceAssumption DEF Init
<1>1. TypeOK
  BY NoJobType DEF TypeOK, JobOK, OnRun, OnSession, Calls, NoPrice, Ended
<1>2. RunInv /\ ClaimInv /\ DebitInv /\ RefundInv /\ SessionInv /\ IncrementInv
  BY DEF RunInv, RunOK, ClaimInv, DebitInv, RefundInv, SessionInv, IncrementInv, Unpriced, NoPrice
<1> QED BY <1>1, <1>2 DEF IInv

-----------------------------------------------------------------------------
(* Most calls only read.  A worker that moves to a call which is not a       *)
(* movement of the balance, with a well-formed job, disturbs nothing.        *)
money == <<price, part, receipt, charged, took, gave, moved>>

WellFormed(c, j) ==
  /\ c \in OnRun => j.run \in Runs
  /\ c \in OnSession => j.session \in Sessions
  /\ c \in {"balance", "claim"} => j.price \in Nat /\ j.price \in {0, Price[j.run]}
  /\ c = "claim" => j.part <= j.price
  /\ c = "voidClaim" => j.price # 0

(* A worker that goes on with a well-formed job leaves every job well formed. *)
LEMMA JobsKept ==
  ASSUME IInv, NEW w \in Workers, NEW c \in Calls, NEW j \in Job,
         Goto(w, c, j), WellFormed(c, j)
  PROVE  JobOK' /\ ClaimInv'
<1>1. /\ at'[w] = c /\ job'[w] = j
      /\ \A v \in Workers : v # w => at'[v] = at[v] /\ job'[v] = job[v]
  BY GotoMoves DEF IInv
<1> QED BY <1>1 DEF IInv, TypeOK, JobOK, ClaimInv, WellFormed

(* A worker that goes on without touching the money leaves the money in order. *)
LEMMA QuietMove ==
  ASSUME IInv, NEW w \in Workers, NEW c \in Calls, NEW j \in Job,
         Goto(w, c, j), c \notin {"debit", "refund", "increment"}, UNCHANGED money
  PROVE  (RunInv /\ DebitInv /\ RefundInv /\ SessionInv /\ IncrementInv)'
<1>1. /\ at'[w] = c /\ job'[w] = j
      /\ \A v \in Workers : v # w => at'[v] = at[v] /\ job'[v] = job[v]
  BY GotoMoves DEF IInv
<1>2. (RunInv /\ SessionInv)'
  BY DEF IInv, RunInv, RunOK, SessionInv, Unpriced, money
<1>3. (DebitInv /\ RefundInv /\ IncrementInv)'
  BY <1>1 DEF IInv, DebitInv, RefundInv, IncrementInv, Unpriced, money
<1> QED BY <1>2, <1>3

(* A move that leaves every row and the history alone.                       *)
LEMMA ReadOnly ==
  ASSUME IInv, NEW w \in Workers, NEW c \in Calls, NEW j \in Job,
         Goto(w, c, j), WellFormed(c, j), c \notin {"debit", "refund", "increment"},
         UNCHANGED <<rows, history, month>>, stops' \in Nat
  PROVE  IInv'
<1>1. UNCHANGED money
  BY DEF rows, history, money
<1>2. JobOK' /\ ClaimInv'
  BY JobsKept
<1>3. (RunInv /\ DebitInv /\ RefundInv /\ SessionInv /\ IncrementInv)'
  BY <1>1, QuietMove
<1>4. TypeOK'
  BY <1>2, GotoMoves DEF IInv, TypeOK, rows, history
<1> QED BY <1>2, <1>3, <1>4 DEF IInv

(* So does one that ends having read only.                                   *)
LEMMA ReturnReads ==
  ASSUME IInv, NEW w \in Workers, Return(w),
         UNCHANGED <<rows, history, month>>, stops' \in Nat
  PROVE  IInv'
BY ReadOnly, NoJobType DEF Return, WellFormed, Calls, OnRun, OnSession

(* What follows a pricing is a void or nothing.                              *)
LEMMA AfterPricingMove ==
  ASSUME IInv, NEW w \in Workers, at[w] \in {"claim", "debit"}, AfterPricing(w)
  PROVE  \E c \in {"voidRead", "idle"}, j \in Job : Goto(w, c, j) /\ WellFormed(c, j)
<1> DEFINE j == [NoJob EXCEPT !.void = TRUE, !.run = job[w].run]
<1>1. j \in Job /\ j.run = job[w].run
  BY DEF IInv, TypeOK, JobOK, NoJob, Job, NoPrice, OnRun
<1>2. WellFormed("voidRead", j)
  BY <1>1 DEF IInv, TypeOK, JobOK, WellFormed, OnRun, OnSession
<1>3. WellFormed("idle", NoJob)
  BY DEF WellFormed, OnRun, OnSession
<1> HIDE DEF j
<1>4. Goto(w, "voidRead", j) \/ Goto(w, "idle", NoJob)
  BY DEF AfterPricing, Return, j
<1> QED BY <1>1, <1>2, <1>3, <1>4, NoJobType

-----------------------------------------------------------------------------
(* One lemma per action.                                                     *)
LEMMA AdmitStep ==
  ASSUME IInv, NEW w \in Workers, NEW r \in Runs, Admit(w, r)
  PROVE  IInv'
<1> DEFINE j == [NoJob EXCEPT !.run = r]
<1>1. j \in Job /\ j.run = r
  BY DEF NoJob, Job, NoPrice
<1>2. WellFormed("insert", j)
  BY <1>1 DEF WellFormed, OnRun, OnSession
<1>3. Goto(w, "insert", j) /\ UNCHANGED <<rows, history, month>> /\ stops' \in Nat
  BY DEF Admit, IInv, TypeOK
<1> HIDE DEF j
<1> QED BY <1>1, <1>2, <1>3, ReadOnly DEF Calls

(* A run is inserted unpriced.                                               *)
LEMMA InsertStep ==
  ASSUME IInv, NEW w \in Workers, Insert(w)
  PROVE  IInv'
<1>1. Goto(w, "idle", NoJob) /\ UNCHANGED money
  BY DEF Insert, Return, money, history
<1>2. WellFormed("idle", NoJob) /\ "idle" \in Calls
  BY DEF WellFormed, OnRun, OnSession, Calls
<1>3. JobOK' /\ ClaimInv'
  BY <1>1, <1>2, NoJobType, JobsKept
<1>4. (RunInv /\ DebitInv /\ RefundInv /\ SessionInv /\ IncrementInv)'
  BY <1>1, <1>2, NoJobType, QuietMove
<1>5. at' \in [Workers -> Calls] /\ job' \in [Workers -> Job]
  BY <1>1, <1>2, NoJobType, GotoMoves DEF IInv
<1>6. TypeOK'
  BY <1>3, <1>5 DEF IInv, TypeOK, Insert, history
<1> QED BY <1>3, <1>4, <1>6 DEF IInv

(* A run ends, its price as it was.                                          *)
LEMMA EndStep ==
  ASSUME IInv, NEW r \in Runs, End(r)
  PROVE  IInv'
<1>0. PICK e \in Ended : status' = [status EXCEPT ![r] = e]
  BY DEF End, Ended
<1>1. status' \in [Runs -> {"none", "live"} \union Ended]
  BY <1>0 DEF IInv, TypeOK
<1>2. TypeOK'
  BY <1>1 DEF End, IInv, TypeOK, JobOK, history
<1>3. (RunInv /\ ClaimInv /\ DebitInv /\ RefundInv /\ SessionInv /\ IncrementInv)'
  BY DEF End, IInv, RunInv, RunOK, ClaimInv, DebitInv, RefundInv, SessionInv, IncrementInv, Unpriced, history
<1> QED BY <1>2, <1>3 DEF IInv

(* priceRun starts on a run that ended.                                      *)
LEMMA PriceRunStep ==
  ASSUME IInv, NEW w \in Workers, NEW r \in Runs, PriceRun(w, r)
  PROVE  IInv'
<1> DEFINE j == [NoJob EXCEPT !.void = (status[r] = "failed"), !.run = r]
           k == [j EXCEPT !.price = IF status[r] = "failed" THEN 0 ELSE Price[r]]
<1>1. j \in Job /\ j.run = r /\ k \in Job /\ k.run = r /\ k.price \in Nat /\ k.price \in {0, Price[r]}
  BY BalanceAssumption DEF NoJob, Job, NoPrice
<1>2. WellFormed("balance", k) /\ WellFormed("voidRead", j)
  BY <1>1 DEF WellFormed, OnRun, OnSession
<1>3. Goto(w, "balance", k) \/ Goto(w, "voidRead", j)
  BY DEF PriceRun
<1>4. UNCHANGED <<rows, history, month>> /\ stops' \in Nat
  BY DEF PriceRun, IInv, TypeOK
<1> HIDE DEF j, k
<1> QED BY <1>1, <1>2, <1>3, <1>4, ReadOnly DEF Calls

(* The balance read gives the split to be claimed.                           *)
LEMMA ReadBalanceStep ==
  ASSUME IInv, NEW w \in Workers, ReadBalance(w)
  PROVE  IInv'
<1> DEFINE f == SplitPrice(job[w].price, Credit - PlanSpent)
           j == [job[w] EXCEPT !.part = f]
<1>1. job[w] \in Job /\ job[w].run \in Runs /\ job[w].price \in Nat /\ job[w].price \in {0, Price[job[w].run]}
  BY DEF ReadBalance, IInv, TypeOK, JobOK, OnRun, ClaimInv
<1>2. f \in 0..job[w].price
  <2>1. Credit - PlanSpent \in Int
    BY PlanSpentType, BalanceAssumption DEF IInv
  <2> QED BY <1>1, <2>1, SplitType
<1> HIDE DEF f
<1>3. j \in Job /\ j.run = job[w].run /\ j.price = job[w].price /\ j.part = f
  BY <1>1, <1>2 DEF Job, NoPrice
<1>4. WellFormed("claim", j)
  BY <1>1, <1>2, <1>3 DEF WellFormed, OnRun, OnSession
<1>5. Goto(w, "claim", j) /\ UNCHANGED <<rows, history, month>> /\ stops' \in Nat
  BY DEF ReadBalance, IInv, TypeOK, f
<1> HIDE DEF j
<1> QED BY <1>3, <1>4, <1>5, ReadOnly DEF Calls

(* The claim is won on a row that has no price: no other worker carries a    *)
(* movement for this run, and none has been made.                            *)
LEMMA ClaimPriceStep ==
  ASSUME IInv, NEW w \in Workers, ClaimPrice(w)
  PROVE  IInv'
<1>0. PICK r \in Runs : r = job[w].run
  BY DEF ClaimPrice, IInv, TypeOK, JobOK, OnRun
<1>1. /\ at[w] = "claim" /\ r = job[w].run /\ job[w] \in Job
      /\ job[w].price \in Nat /\ job[w].price \in {0, Price[r]}
      /\ job[w].part \in Nat /\ job[w].part <= job[w].price
  BY <1>0 DEF ClaimPrice, IInv, TypeOK, JobOK, OnRun, ClaimInv, Job
<1>2. UNCHANGED <<status, created, topup, receipt, took, gave, moved, acked, month, stops>>
  BY DEF ClaimPrice
<1>3. CASE ~Unpriced(r)
  <2>1. AfterPricing(w) /\ UNCHANGED <<price, part, planSpent, charged, ledger, overtaken>>
    BY <1>1, <1>3 DEF ClaimPrice
  <2>2. UNCHANGED <<rows, history, month>> /\ stops' \in Nat
    BY <1>2, <2>1 DEF rows, history, IInv, TypeOK
  <2>3. PICK c \in {"voidRead", "idle"}, j \in Job : Goto(w, c, j) /\ WellFormed(c, j)
    BY <1>1, <2>1, AfterPricingMove
  <2> QED BY <2>2, <2>3, ReadOnly DEF Calls
<1>4. CASE Unpriced(r)
  <2>1. /\ price' = [price EXCEPT ![r] = job[w].price]
        /\ part' = [part EXCEPT ![r] = job[w].part]
        /\ planSpent' = [planSpent EXCEPT ![WindowOf(r)] = @ + job[w].price - job[w].part]
        /\ charged' = [charged EXCEPT ![r] = job[w].part]
        /\ ledger' = ledger - job[w].part
        /\ IF job[w].part > 0 THEN Goto(w, "debit", job[w]) ELSE AfterPricing(w)
    BY <1>1, <1>4 DEF ClaimPrice
  <2>2. PICK c \in {"debit", "voidRead", "idle"}, j \in Job :
          Goto(w, c, j) /\ WellFormed(c, j) /\ (c = "debit" => j = job[w])
    <3>1. CASE job[w].part > 0
      BY <1>1, <2>1, <3>1 DEF WellFormed, OnRun, OnSession
    <3>2. CASE ~(job[w].part > 0)
      BY <1>1, <2>1, <3>2, AfterPricingMove
    <3> QED BY <3>1, <3>2
  <2>3. c \in Calls
    BY DEF Calls
  <2>4. /\ at' \in [Workers -> Calls] /\ job' \in [Workers -> Job]
        /\ at'[w] = c /\ job'[w] = j
        /\ \A v \in Workers : v # w => at'[v] = at[v] /\ job'[v] = job[v]
    BY <2>2, <2>3, GotoMoves DEF IInv
  <2>5. JobOK' /\ ClaimInv'
    BY <2>2, <2>3, JobsKept
  <2>6. TypeOK'
    <3>1. WindowOf(r) \in 0..LastMonth
      BY <1>1, BalanceAssumption DEF WindowOf, Window, IInv, TypeOK
    <3> DEFINE m == WindowOf(r)
    <3>2. planSpent' = [planSpent EXCEPT ![m] = planSpent[m] + job[w].price - job[w].part]
      BY <2>1
    <3> HIDE DEF m
    <3>3. planSpent' \in [0..LastMonth -> Int]
      BY <1>1, <3>1, <3>2 DEF IInv, TypeOK, m
    <3>4. ledger' \in Int
      BY <1>1, <2>1 DEF IInv, TypeOK
    <3>5. overtaken' \subseteq Runs
      BY <1>1, <1>4 DEF ClaimPrice, Overtakes, IInv, TypeOK
    <3> QED BY <1>1, <1>2, <2>1, <2>4, <2>5, <3>3, <3>4, <3>5 DEF IInv, TypeOK
  <2>7. /\ charged[r] = 0 /\ part[r] = 0 /\ took[r] = 0 /\ gave[r] = 0
        /\ price'[r] = job[w].price /\ part'[r] = job[w].part /\ charged'[r] = job[w].part
        /\ ~Unpriced(r)'
    <3>1. charged[r] = 0 /\ part[r] = 0 /\ took[r] = 0 /\ gave[r] = 0
      BY <1>1, <1>4 DEF IInv, RunInv, RunOK
    <3>2. price'[r] = job[w].price /\ part'[r] = job[w].part /\ charged'[r] = job[w].part
      BY <1>1, <2>1 DEF IInv, TypeOK
    <3> QED BY <1>1, <3>1, <3>2 DEF Unpriced, NoPrice
  <2>8. RunInv'
    <3> SUFFICES ASSUME NEW q \in Runs PROVE RunOK(q)'
      BY DEF RunInv, RunOK
    <3>1. CASE q = r
      BY <1>1, <1>2, <2>7, <3>1 DEF RunInv, RunOK
    <3>2. CASE q # r
      <4>1. price'[q] = price[q] /\ part'[q] = part[q] /\ charged'[q] = charged[q]
        BY <1>1, <2>1, <3>2 DEF IInv, TypeOK
      <4> QED BY <1>2, <4>1 DEF IInv, RunInv, RunOK, Unpriced
    <3> QED BY <3>1, <3>2
  <2>9. DebitInv'
    <3>1. \A v \in Workers : at[v] = "debit" => job[v].run # r
      BY <1>1, <1>4 DEF IInv, DebitInv, Unpriced
    <3>2. \A v \in Workers : at[v] = "debit" => job[v].run \in Runs
      BY DEF IInv, TypeOK, JobOK, OnRun
    <3>3. \A q \in Runs : q # r => price'[q] = price[q] /\ charged'[q] = charged[q]
      BY <1>1, <2>1 DEF IInv, TypeOK
    <3>4. charged'[r] = job[w].part
      BY <1>1, <2>1 DEF IInv, TypeOK
    <3> QED BY <1>1, <1>2, <2>2, <2>4, <2>7, <3>1, <3>2, <3>3, <3>4 DEF IInv, DebitInv, Unpriced
  <2>10. RefundInv'
    <3>1. \A v \in Workers : at[v] = "refund" => job[v].run # r /\ job[v].run \in Runs
      BY <1>1, <1>4 DEF IInv, RefundInv, Unpriced, NoPrice, TypeOK, JobOK, OnRun
    <3>2. \A q \in Runs : q # r => price'[q] = price[q] /\ part'[q] = part[q] /\ charged'[q] = charged[q]
      BY <1>1, <2>1 DEF IInv, TypeOK
    <3> QED BY <1>1, <1>2, <2>2, <2>4, <3>1, <3>2 DEF IInv, RefundInv
  <2>11. (SessionInv /\ IncrementInv)'
    BY <1>2, <2>2, <2>4 DEF IInv, SessionInv, IncrementInv
  <2> QED BY <2>5, <2>6, <2>8, <2>9, <2>10, <2>11 DEF IInv
<1> QED BY <1>3, <1>4

(* The one debit of a claimed part is made.                                  *)
LEMMA DebitStep ==
  ASSUME IInv, NEW w \in Workers, Debit(w)
  PROVE  IInv'
<1>0. PICK r \in Runs : r = job[w].run
  BY DEF Debit, IInv, TypeOK, JobOK, OnRun
<1>1. /\ at[w] = "debit" /\ r = job[w].run /\ job[w].part \in Nat
      /\ took[r] = 0 /\ job[w].part = charged[r] /\ ~Unpriced(r)
  BY <1>0 DEF Debit, IInv, TypeOK, JobOK, OnRun, DebitInv, Job
<1>2. /\ UNCHANGED <<status, created, price, part, planSpent, receipt, charged, gave, moved, acked, ledger, overtaken, month, stops>>
      /\ topup' = topup - job[w].part
      /\ took' = [took EXCEPT ![r] = @ + job[w].part]
  BY <1>1 DEF Debit
<1>3. PICK c \in {"voidRead", "idle"}, j \in Job : Goto(w, c, j) /\ WellFormed(c, j)
  BY <1>1, AfterPricingMove DEF Debit
<1>4. c \in Calls /\ c \notin {"debit", "refund", "increment"}
  BY DEF Calls
<1>5. /\ at' \in [Workers -> Calls] /\ job' \in [Workers -> Job]
      /\ at'[w] = c /\ job'[w] = j
      /\ \A v \in Workers : v # w => at'[v] = at[v] /\ job'[v] = job[v]
  BY <1>3, <1>4, GotoMoves DEF IInv
<1>6. JobOK' /\ ClaimInv'
  BY <1>3, <1>4, JobsKept
<1>7. TypeOK'
  <2>1. topup' \in Int /\ took' \in [Runs -> Nat]
    BY <1>1, <1>2 DEF IInv, TypeOK
  <2> QED BY <1>2, <1>5, <1>6, <2>1 DEF IInv, TypeOK
<1>8. RunInv'
  <2>1. took'[r] = charged[r] /\ \A q \in Runs : q # r => took'[q] = took[q]
    BY <1>1, <1>2 DEF IInv, TypeOK
  <2>2. ASSUME NEW q \in Runs PROVE RunOK(q)'
    BY <1>1, <1>2, <2>1 DEF IInv, RunInv, RunOK, Unpriced
  <2> QED BY <2>2 DEF RunInv
<1>9. DebitInv'
  <2>1. \A v \in Workers : at[v] = "debit" /\ v # w => job[v].run # r /\ job[v].run \in Runs
    BY <1>1 DEF IInv, DebitInv, TypeOK, JobOK, OnRun
  <2>2. \A q \in Runs : q # r => took'[q] = took[q]
    BY <1>1, <1>2 DEF IInv, TypeOK
  <2> QED BY <1>2, <1>4, <1>5, <2>1, <2>2 DEF IInv, DebitInv, Unpriced
<1>10. (RefundInv /\ SessionInv /\ IncrementInv)'
  BY <1>2, <1>4, <1>5 DEF IInv, RefundInv, SessionInv, IncrementInv
<1> QED BY <1>6, <1>7, <1>8, <1>9, <1>10 DEF IInv

(* voidRunPrice reads price and part.                                        *)
LEMMA VoidReadStep ==
  ASSUME IInv, NEW w \in Workers, VoidRead(w)
  PROVE  IInv'
<1>0. PICK r \in Runs : r = job[w].run
  BY DEF VoidRead, IInv, TypeOK, JobOK, OnRun
<1>1. UNCHANGED <<rows, history, month>> /\ stops' \in Nat
  BY DEF VoidRead, IInv, TypeOK
<1>2. CASE price[r] = 0
  BY <1>0, <1>1, <1>2, ReturnReads DEF VoidRead
<1>3. CASE price[r] # 0
  <2> DEFINE j == [job[w] EXCEPT !.price = price[r], !.part = part[r]]
  <2>0. job[w] \in Job /\ price[r] \in Nat \union {NoPrice} /\ part[r] \in Nat
    BY DEF IInv, TypeOK
  <2>1. j \in Job /\ j.run = r /\ j.price = price[r]
    BY <1>0, <2>0 DEF Job
  <2>2. WellFormed("voidClaim", j)
    BY <1>3, <2>1 DEF WellFormed, OnRun, OnSession
  <2>3. Goto(w, "voidClaim", j)
    BY <1>0, <1>3 DEF VoidRead
  <2> HIDE DEF j
  <2> QED BY <1>1, <2>1, <2>2, <2>3, ReadOnly DEF Calls
<1> QED BY <1>2, <1>3

(* The void is won on the exact values read: the part it carries is the one  *)
(* that was charged, and nobody has given it back.                           *)
LEMMA VoidClaimStep ==
  ASSUME IInv, NEW w \in Workers, VoidClaim(w)
  PROVE  IInv'
<1>0. PICK r \in Runs : r = job[w].run
  BY DEF VoidClaim, IInv, TypeOK, JobOK, OnRun
<1>1. at[w] = "voidClaim" /\ job[w] \in Job /\ job[w].part \in Nat /\ job[w].price # 0
  BY DEF VoidClaim, IInv, TypeOK, ClaimInv, Job
<1>2. UNCHANGED <<status, created, topup, receipt, charged, took, gave, moved, acked, overtaken, month, stops>>
  BY DEF VoidClaim
<1>3. CASE ~AsRead(w)
  <2>1. Return(w) /\ UNCHANGED <<price, part, planSpent, ledger>>
    BY <1>3 DEF VoidClaim
  <2>2. UNCHANGED <<rows, history, month>> /\ stops' \in Nat
    BY <1>2, <2>1 DEF rows, history, IInv, TypeOK
  <2> QED BY <2>1, <2>2, ReturnReads
<1>4. CASE AsRead(w)
  <2>1. /\ price' = [price EXCEPT ![r] = 0]
        /\ part' = [part EXCEPT ![r] = 0]
        /\ planSpent' = [planSpent EXCEPT ![WindowOf(r)] = @ - (PricedAt(r) - part[r])]
        /\ ledger' = ledger + job[w].part
        /\ IF job[w].part > 0 THEN Goto(w, "refund", job[w]) ELSE Return(w)
    BY <1>0, <1>4 DEF VoidClaim
  <2>2. PICK c \in {"refund", "idle"}, j \in Job :
          /\ Goto(w, c, j) /\ WellFormed(c, j)
          /\ c = "refund" => j = job[w] /\ job[w].part > 0
    <3>1. CASE job[w].part > 0
      BY <1>0, <1>1, <2>1, <3>1 DEF WellFormed, OnRun, OnSession
    <3>2. CASE ~(job[w].part > 0)
      BY <2>1, <3>2, NoJobType DEF Return, WellFormed, OnRun, OnSession
    <3> QED BY <3>1, <3>2
  <2>3. c \in Calls
    BY DEF Calls
  <2>4. /\ at' \in [Workers -> Calls] /\ job' \in [Workers -> Job]
        /\ at'[w] = c /\ job'[w] = j
        /\ \A v \in Workers : v # w => at'[v] = at[v] /\ job'[v] = job[v]
    BY <2>2, <2>3, GotoMoves DEF IInv
  <2>5. JobOK' /\ ClaimInv'
    BY <2>2, <2>3, JobsKept
  <2>6. price'[r] = 0 /\ part'[r] = 0 /\ part[r] = job[w].part
    BY <1>0, <1>4, <2>1 DEF AsRead, IInv, TypeOK
  <2>7. \A q \in Runs : q # r => price'[q] = price[q] /\ part'[q] = part[q]
    BY <2>1 DEF IInv, TypeOK
  <2>8. TypeOK'
    <3> DEFINE m == WindowOf(r)
               d == PricedAt(r) - part[r]
    <3>1. m \in 0..LastMonth
      BY BalanceAssumption DEF WindowOf, Window, IInv, TypeOK
    <3>2. d \in Int
      BY DEF PricedAt, IInv, TypeOK, NoPrice
    <3>3. planSpent' = [planSpent EXCEPT ![m] = planSpent[m] - d]
      BY <2>1
    <3> HIDE DEF m, d
    <3>4. planSpent' \in [0..LastMonth -> Int]
      <4>1. planSpent \in [0..LastMonth -> Int] /\ planSpent[m] \in Int
        BY <3>1 DEF IInv, TypeOK
      <4>2. planSpent[m] - d \in Int
        BY <3>2, <4>1
      <4> QED BY <3>1, <3>3, <4>1, <4>2
    <3>5. ledger' \in Int
      BY <1>1, <2>1 DEF IInv, TypeOK
    <3> QED BY <1>2, <2>1, <2>4, <2>5, <3>4, <3>5 DEF IInv, TypeOK
  <2>9. RunInv'
    <3> SUFFICES ASSUME NEW q \in Runs PROVE RunOK(q)'
      BY DEF RunInv
    <3>1. CASE q = r
      BY <1>2, <2>6, <3>1, BalanceAssumption DEF IInv, RunInv, RunOK, Unpriced, NoPrice, TypeOK
    <3>2. CASE q # r
      BY <1>2, <2>7, <3>2 DEF IInv, RunInv, RunOK, Unpriced
    <3> QED BY <3>1, <3>2
  <2>10. DebitInv'
    <3>1. \A v \in Workers : at[v] = "debit" => job[v].run \in Runs
      BY DEF IInv, TypeOK, JobOK, OnRun
    <3> QED BY <1>1, <1>2, <2>2, <2>4, <2>6, <2>7, <3>1 DEF IInv, DebitInv, Unpriced, NoPrice
  <2>11. RefundInv'
    <3>1. \A v \in Workers : at[v] = "refund" => job[v].run \in Runs
      BY DEF IInv, TypeOK, JobOK, OnRun
    <3>2. c = "refund" => /\ gave[r] = 0 /\ job[w].part = charged[r]
                          /\ \A v \in Workers : at[v] = "refund" => job[v].run # r
      BY <1>0, <2>2, <2>6 DEF IInv, RunInv, RunOK, RefundInv
    <3> QED BY <1>0, <1>1, <1>2, <2>2, <2>4, <2>6, <2>7, <3>1, <3>2 DEF IInv, RefundInv
  <2>12. (SessionInv /\ IncrementInv)'
    BY <1>2, <2>2, <2>4 DEF IInv, SessionInv, IncrementInv
  <2> QED BY <2>5, <2>8, <2>9, <2>10, <2>11, <2>12 DEF IInv
<1> QED BY <1>3, <1>4

(* The one refund of a claimed part is made.                                 *)
LEMMA RefundStep ==
  ASSUME IInv, NEW w \in Workers, Refund(w)
  PROVE  IInv'
<1>0. PICK r \in Runs : r = job[w].run
  BY DEF Refund, IInv, TypeOK, JobOK, OnRun
<1>1. /\ at[w] = "refund" /\ job[w].part \in Nat
      /\ gave[r] = 0 /\ job[w].part = charged[r] /\ price[r] = 0 /\ part[r] = 0
  BY <1>0 DEF Refund, IInv, TypeOK, RefundInv, Job
<1>2. /\ UNCHANGED <<status, created, price, part, planSpent, receipt, charged, took, moved, acked, ledger, overtaken, month, stops>>
      /\ topup' = topup + job[w].part
      /\ gave' = [gave EXCEPT ![r] = @ + job[w].part]
      /\ Goto(w, "idle", NoJob)
  BY <1>0 DEF Refund, Return
<1>3. WellFormed("idle", NoJob) /\ "idle" \in Calls
  BY DEF WellFormed, OnRun, OnSession, Calls
<1>4. /\ at' \in [Workers -> Calls] /\ job' \in [Workers -> Job]
      /\ at'[w] = "idle"
      /\ \A v \in Workers : v # w => at'[v] = at[v] /\ job'[v] = job[v]
  BY <1>2, <1>3, NoJobType, GotoMoves DEF IInv
<1>5. JobOK' /\ ClaimInv'
  BY <1>2, <1>3, NoJobType, JobsKept
<1>6. TypeOK'
  <2>1. topup' \in Int /\ gave' \in [Runs -> Nat]
    BY <1>1, <1>2 DEF IInv, TypeOK
  <2> QED BY <1>2, <1>4, <1>5, <2>1 DEF IInv, TypeOK
<1>7. RunInv'
  <2>1. gave'[r] = charged[r] /\ \A q \in Runs : q # r => gave'[q] = gave[q]
    BY <1>1, <1>2 DEF IInv, TypeOK
  <2>2. ASSUME NEW q \in Runs PROVE RunOK(q)'
    BY <1>1, <1>2, <2>1 DEF IInv, RunInv, RunOK, Unpriced, NoPrice
  <2> QED BY <2>2 DEF RunInv
<1>8. RefundInv'
  <2>1. \A v \in Workers : at[v] = "refund" /\ v # w => job[v].run # r /\ job[v].run \in Runs
    BY <1>0, <1>1 DEF IInv, RefundInv, TypeOK, JobOK, OnRun
  <2>2. \A q \in Runs : q # r => gave'[q] = gave[q]
    BY <1>2 DEF IInv, TypeOK
  <2> QED BY <1>2, <1>4, <2>1, <2>2 DEF IInv, RefundInv
<1>9. (DebitInv /\ SessionInv /\ IncrementInv)'
  BY <1>2, <1>4 DEF IInv, DebitInv, SessionInv, IncrementInv, Unpriced
<1> QED BY <1>5, <1>6, <1>7, <1>8, <1>9 DEF IInv

(* A delivery reads the receipt, or makes it.                                *)
LEMMA DeliverTopUpStep ==
  ASSUME IInv, NEW w \in Workers, NEW s \in Sessions, DeliverTopUp(w, s)
  PROVE  IInv'
<1> DEFINE j == [NoJob EXCEPT !.session = s]
<1>1. j \in Job /\ j.session = s
  BY DEF NoJob, Job, NoPrice
<1>2. WellFormed("creditClaim", j) /\ "creditClaim" \in Calls
  BY <1>1 DEF WellFormed, OnRun, OnSession, Calls
<1>3. /\ Goto(w, "creditClaim", j)
      /\ UNCHANGED <<status, created, price, part, planSpent, topup, history, month, stops>>
      /\ receipt' = IF receipt[s] = "none" THEN [receipt EXCEPT ![s] = "uncredited"] ELSE receipt
  BY DEF DeliverTopUp
<1> HIDE DEF j
<1>4. /\ at' \in [Workers -> Calls] /\ job' \in [Workers -> Job]
      /\ at'[w] = "creditClaim"
      /\ \A v \in Workers : v # w => at'[v] = at[v] /\ job'[v] = job[v]
  BY <1>1, <1>2, <1>3, GotoMoves DEF IInv
<1>5. JobOK' /\ ClaimInv'
  BY <1>1, <1>2, <1>3, JobsKept
<1>6. TypeOK'
  BY <1>3, <1>4, <1>5 DEF IInv, TypeOK, history
<1>7. \A t \in Sessions : (receipt'[t] = "credited") <=> (receipt[t] = "credited")
  BY <1>3 DEF IInv, TypeOK
<1>8. (RunInv /\ DebitInv /\ RefundInv)'
  BY <1>3, <1>4 DEF IInv, RunInv, RunOK, DebitInv, RefundInv, Unpriced, history
<1>9. SessionInv'
  BY <1>3, <1>7 DEF IInv, SessionInv, history
<1>10. IncrementInv'
  <2>1. \A v \in Workers : at[v] = "increment" => job[v].session \in Sessions
    BY DEF IInv, TypeOK, JobOK, OnSession
  <2> QED BY <1>3, <1>4, <1>7, <2>1 DEF IInv, IncrementInv, history
<1> QED BY <1>5, <1>6, <1>8, <1>9, <1>10 DEF IInv

(* The credit is won on a receipt nobody has claimed.                        *)
LEMMA CreditClaimStep ==
  ASSUME IInv, NEW w \in Workers, CreditClaim(w)
  PROVE  IInv'
<1>0. PICK s \in Sessions : s = job[w].session
  BY DEF CreditClaim, IInv, TypeOK, JobOK, OnSession
<1>1. /\ at[w] = "creditClaim" /\ job[w] \in Job
      /\ UNCHANGED <<status, created, price, part, planSpent, topup, charged, took, gave, moved, overtaken, month, stops>>
  BY DEF CreditClaim, IInv, TypeOK
<1>2. PICK c \in {"increment", "idle"}, j \in Job :
        /\ Goto(w, c, j) /\ WellFormed(c, j)
        /\ c = "increment" => /\ j = job[w] /\ Uncredited(s)
                              /\ receipt' = [receipt EXCEPT ![s] = "credited"]
        /\ c = "idle" => receipt' = receipt
        /\ acked' \subseteq Sessions /\ ledger' \in Int
  <2>1. CASE Uncredited(s)
    <3>1. /\ receipt' = [receipt EXCEPT ![s] = "credited"]
          /\ ledger' = ledger + Amount[s] /\ acked' = acked
          /\ Goto(w, "increment", job[w])
      BY <1>0, <2>1 DEF CreditClaim
    <3>2. WellFormed("increment", job[w])
      BY <1>0 DEF WellFormed, OnRun, OnSession
    <3> QED BY <1>0, <1>1, <2>1, <3>1, <3>2, BalanceAssumption DEF IInv, TypeOK
  <2>2. CASE ~Uncredited(s)
    <3>1. Goto(w, "idle", NoJob) /\ acked' = acked \union {s} /\ receipt' = receipt /\ ledger' = ledger
      BY <1>0, <2>2 DEF CreditClaim, Return
    <3>2. WellFormed("idle", NoJob)
      BY DEF WellFormed, OnRun, OnSession
    <3> QED BY <3>1, <3>2, NoJobType DEF IInv, TypeOK
  <2> QED BY <2>1, <2>2
<1>3. c \in Calls
  BY DEF Calls
<1>4. /\ at' \in [Workers -> Calls] /\ job' \in [Workers -> Job]
      /\ at'[w] = c /\ job'[w] = j
      /\ \A v \in Workers : v # w => at'[v] = at[v] /\ job'[v] = job[v]
  BY <1>2, <1>3, GotoMoves DEF IInv
<1>5. JobOK' /\ ClaimInv'
  BY <1>2, <1>3, JobsKept
<1>6. TypeOK'
  BY <1>1, <1>2, <1>4, <1>5 DEF IInv, TypeOK
<1>7. (RunInv /\ DebitInv /\ RefundInv)'
  BY <1>1, <1>2, <1>4 DEF IInv, RunInv, RunOK, DebitInv, RefundInv, Unpriced
<1>8. SessionInv'
  BY <1>1, <1>2 DEF IInv, TypeOK, SessionInv
<1>9. IncrementInv'
  <2>1. \A v \in Workers : at[v] = "increment" => job[v].session \in Sessions
    BY DEF IInv, TypeOK, JobOK, OnSession
  <2>2. c = "increment" => /\ moved[s] = 0 /\ receipt'[s] = "credited"
                           /\ \A v \in Workers : at[v] = "increment" => job[v].session # s
    BY <1>2, <2>1 DEF IInv, TypeOK, SessionInv, IncrementInv, Uncredited
  <2>3. \A t \in Sessions : receipt[t] = "credited" => receipt'[t] = "credited"
    BY <1>2 DEF IInv, TypeOK
  <2> QED BY <1>0, <1>1, <1>2, <1>4, <2>1, <2>2, <2>3 DEF IInv, IncrementInv
<1> QED BY <1>5, <1>6, <1>7, <1>8, <1>9 DEF IInv

(* The one increment of a claimed receipt is made.                           *)
LEMMA IncrementStep ==
  ASSUME IInv, NEW w \in Workers, Increment(w)
  PROVE  IInv'
<1>0. PICK s \in Sessions : s = job[w].session
  BY DEF Increment, IInv, TypeOK, JobOK, OnSession
<1>1. at[w] = "increment" /\ receipt[s] = "credited" /\ moved[s] = 0
  BY <1>0 DEF Increment, IInv, IncrementInv
<1>2. /\ UNCHANGED <<status, created, price, part, planSpent, receipt, charged, took, gave, ledger, overtaken, month, stops>>
      /\ topup' = topup + Amount[s]
      /\ moved' = [moved EXCEPT ![s] = @ + 1]
      /\ acked' = acked \union {s}
      /\ Goto(w, "idle", NoJob)
  BY <1>0 DEF Increment, Return
<1>3. WellFormed("idle", NoJob) /\ "idle" \in Calls
  BY DEF WellFormed, OnRun, OnSession, Calls
<1>4. /\ at' \in [Workers -> Calls] /\ job' \in [Workers -> Job]
      /\ at'[w] = "idle"
      /\ \A v \in Workers : v # w => at'[v] = at[v] /\ job'[v] = job[v]
  BY <1>2, <1>3, NoJobType, GotoMoves DEF IInv
<1>5. JobOK' /\ ClaimInv'
  BY <1>2, <1>3, NoJobType, JobsKept
<1>6. TypeOK'
  <2>1. topup' \in Int /\ moved' \in [Sessions -> Nat] /\ acked' \subseteq Sessions
    BY <1>2, BalanceAssumption DEF IInv, TypeOK
  <2> QED BY <1>2, <1>4, <1>5, <2>1 DEF IInv, TypeOK
<1>7. (RunInv /\ DebitInv /\ RefundInv)'
  BY <1>2, <1>4 DEF IInv, RunInv, RunOK, DebitInv, RefundInv, Unpriced
<1>8. SessionInv'
  BY <1>1, <1>2 DEF IInv, TypeOK, SessionInv
<1>9. IncrementInv'
  <2>1. \A v \in Workers : at[v] = "increment" /\ v # w => job[v].session # s /\ job[v].session \in Sessions
    BY <1>0, <1>1 DEF IInv, IncrementInv, TypeOK, JobOK, OnSession
  <2>2. \A t \in Sessions : t # s => moved'[t] = moved[t]
    BY <1>2 DEF IInv, TypeOK
  <2> QED BY <1>2, <1>4, <2>1, <2>2 DEF IInv, IncrementInv
<1> QED BY <1>5, <1>6, <1>7, <1>8, <1>9 DEF IInv

(* A worker that stops leaves its movement undone for good.                  *)
LEMMA StopStep ==
  ASSUME IInv, NEW w \in Workers, Stop(w)
  PROVE  IInv'
<1>1. Return(w) /\ UNCHANGED <<rows, history, month>> /\ stops' \in Nat
  BY DEF Stop, IInv, TypeOK
<1> QED BY <1>1, ReturnReads

(* A new month changes no row.                                               *)
LEMMA NextMonthStep ==
  ASSUME IInv, NextMonth
  PROVE  IInv'
<1>1. TypeOK'
  BY BalanceAssumption DEF NextMonth, IInv, TypeOK, JobOK, rows, history
<1>2. (RunInv /\ ClaimInv /\ DebitInv /\ RefundInv /\ SessionInv /\ IncrementInv)'
  BY DEF NextMonth, IInv, RunInv, RunOK, ClaimInv, DebitInv, RefundInv, SessionInv, IncrementInv,
         Unpriced, rows, history
<1> QED BY <1>1, <1>2 DEF IInv

(* Nothing changes when nothing happens.                                     *)
LEMMA StutterStep ==
  ASSUME IInv, UNCHANGED vars
  PROVE  IInv'
<1>1. TypeOK'
  BY DEF IInv, TypeOK, JobOK, vars, rows, history
<1>2. (RunInv /\ ClaimInv /\ DebitInv /\ RefundInv /\ SessionInv /\ IncrementInv)'
  BY DEF IInv, RunInv, RunOK, ClaimInv, DebitInv, RefundInv, SessionInv, IncrementInv,
         Unpriced, vars, rows, history
<1> QED BY <1>1, <1>2 DEF IInv

(* Every step keeps the invariant.                                           *)
LEMMA NextIInv == IInv /\ [Next]_vars => IInv'
<1> SUFFICES ASSUME IInv, [Next]_vars PROVE IInv'
  OBVIOUS
<1>1. ASSUME NEW w \in Workers, Step(w) PROVE IInv'
  BY <1>1, InsertStep, ReadBalanceStep, ClaimPriceStep, DebitStep, VoidReadStep, VoidClaimStep,
     RefundStep, CreditClaimStep, IncrementStep, StopStep DEF Step
<1>2. ASSUME NEW w \in Workers, NEW r \in Runs, Admit(w, r) \/ PriceRun(w, r) PROVE IInv'
  BY <1>2, AdmitStep, PriceRunStep
<1>3. ASSUME NEW w \in Workers, NEW s \in Sessions, DeliverTopUp(w, s) PROVE IInv'
  BY <1>3, DeliverTopUpStep
<1>4. ASSUME NEW r \in Runs, End(r) PROVE IInv'
  BY <1>4, EndStep
<1> QED BY <1>1, <1>2, <1>3, <1>4, NextMonthStep, StutterStep DEF Next

(* The strengthened invariant holds in every reachable state.                *)
THEOREM Inductive == Spec => []IInv
BY InitIInv, NextIInv, PTL DEF Spec

(* Every column and every worker's job keeps its type.                       *)
THEOREM TypeCorrect == Spec => []TypeOK
<1>1. IInv => TypeOK
  BY DEF IInv
<1> QED BY <1>1, Inductive, PTL

(* A check is charged to the bought balance at most once and given back at   *)
(* most that once, for any number of workers pricing, voiding and retrying.  *)
THEOREM ChargedOnce == Spec => []TakenOnce
<1>1. IInv => TakenOnce
  BY DEF IInv, RunInv, RunOK, TakenOnce
<1> QED BY <1>1, Inductive, PTL

(* A paid session moves the balance at most once, however often and however  *)
(* concurrently Stripe delivers it.                                          *)
THEOREM TopUpOnce == Spec => []CreditedOnce
<1>1. IInv => CreditedOnce
  BY DEF IInv, SessionInv, CreditedOnce
<1> QED BY <1>1, Inductive, PTL
-----------------------------------------------------------------------------
(* What one step does to the rows the ledger is made of: nothing, or one of  *)
(* the three entries of Ledger.                                              *)
entries == <<price, part, ledger>>

(* Only three claims, and a first delivery, change what the ledger sees.     *)
LEMMA RowStep ==
  ASSUME IInv, [Next]_vars
  PROVE  \/ UNCHANGED entries /\ UNCHANGED receipt
         \/ \E w \in Workers : ClaimPrice(w) \/ VoidClaim(w) \/ CreditClaim(w)
         \/ \E w \in Workers, s \in Sessions : DeliverTopUp(w, s)
<1>1. ASSUME NEW w \in Workers, Step(w), ~ClaimPrice(w), ~VoidClaim(w), ~CreditClaim(w)
      PROVE  UNCHANGED entries /\ UNCHANGED receipt
  BY <1>1 DEF Step, Insert, ReadBalance, Debit, VoidRead, Refund, Increment, Stop, entries, rows, history
<1>2. ASSUME NEW w \in Workers, NEW r \in Runs, Admit(w, r) \/ PriceRun(w, r)
      PROVE  UNCHANGED entries /\ UNCHANGED receipt
  BY <1>2 DEF Admit, PriceRun, entries, rows, history
<1>3. ASSUME NEW r \in Runs, End(r) PROVE UNCHANGED entries /\ UNCHANGED receipt
  BY <1>3 DEF End, entries, history
<1>4. NextMonth \/ UNCHANGED vars => UNCHANGED entries /\ UNCHANGED receipt
  BY DEF NextMonth, vars, entries, rows, history
<1> QED BY <1>1, <1>2, <1>3, <1>4 DEF Next

(* The claim on a null price is a charge of the ledger.                      *)
LEMMA ClaimIsCharge ==
  ASSUME IInv, NEW w \in Workers, ClaimPrice(w)
  PROVE  \/ UNCHANGED entries /\ UNCHANGED receipt
         \/ \E r \in Runs : L!Charge(r)
<1>0. PICK r \in Runs : r = job[w].run
  BY DEF ClaimPrice, IInv, TypeOK, JobOK, OnRun
<1>1. CASE ~Unpriced(r)
  BY <1>0, <1>1 DEF ClaimPrice, entries
<1>2. CASE Unpriced(r)
  <2>1. /\ price' = [price EXCEPT ![r] = job[w].price]
        /\ part' = [part EXCEPT ![r] = job[w].part]
        /\ ledger' = ledger - job[w].part
        /\ receipt' = receipt
    BY <1>0, <1>2 DEF ClaimPrice
  <2>2. job[w].price \in {0, Price[r]} /\ job[w].part \in 0..job[w].price
    BY <1>0 DEF ClaimPrice, IInv, TypeOK, JobOK, ClaimInv, Job
  <2>3. L!Charge(r)
    BY <1>2, <2>1, <2>2 DEF L!Charge, L!NoPrice, Unpriced, NoPrice
  <2> QED BY <2>3
<1> QED BY <1>1, <1>2

(* The claim on the values read is a give-back.                              *)
LEMMA VoidIsGiveBack ==
  ASSUME IInv, NEW w \in Workers, VoidClaim(w)
  PROVE  \/ UNCHANGED entries /\ UNCHANGED receipt
         \/ \E r \in Runs : L!GiveBack(r)
<1>0. PICK r \in Runs : r = job[w].run
  BY DEF VoidClaim, IInv, TypeOK, JobOK, OnRun
<1>1. CASE ~AsRead(w)
  BY <1>1 DEF VoidClaim, entries
<1>2. CASE AsRead(w)
  <2>1. /\ price' = [price EXCEPT ![r] = 0]
        /\ part' = [part EXCEPT ![r] = 0]
        /\ ledger' = ledger + job[w].part
        /\ receipt' = receipt
    BY <1>0, <1>2 DEF VoidClaim
  <2>2. price[r] # 0 /\ part[r] = job[w].part
    BY <1>0, <1>2 DEF AsRead, VoidClaim, IInv, ClaimInv
  <2>3. L!GiveBack(r)
    BY <2>1, <2>2 DEF L!GiveBack
  <2> QED BY <2>3
<1> QED BY <1>1, <1>2

(* The claim on a receipt is a credit.                                       *)
LEMMA CreditIsCredit ==
  ASSUME IInv, NEW w \in Workers, CreditClaim(w)
  PROVE  \/ UNCHANGED entries /\ UNCHANGED receipt
         \/ \E s \in Sessions : L!CreditTopUp(s)
<1>0. PICK s \in Sessions : s = job[w].session
  BY DEF CreditClaim, IInv, TypeOK, JobOK, OnSession
<1>1. CASE ~Uncredited(s)
  BY <1>0, <1>1 DEF CreditClaim, entries
<1>2. CASE Uncredited(s)
  <2>1. /\ receipt' = [receipt EXCEPT ![s] = "credited"]
        /\ ledger' = ledger + Amount[s]
        /\ price' = price /\ part' = part
    BY <1>0, <1>2 DEF CreditClaim
  <2>2. {t \in Sessions : receipt'[t] = "credited"} = {t \in Sessions : receipt[t] = "credited"} \union {s}
    BY <2>1 DEF IInv, TypeOK
  <2>3. s \notin {t \in Sessions : receipt[t] = "credited"}
    BY <1>2 DEF Uncredited
  <2>4. L!CreditTopUp(s)
    BY <2>1, <2>2, <2>3 DEF L!CreditTopUp
  <2> QED BY <2>4
<1> QED BY <1>1, <1>2

(* Every step of the detailed writes is an entry of the ledger or a stutter.  *)
LEMMA StepRefines == IInv /\ [Next]_vars => [L!Next]_(L!vars)
<1> SUFFICES ASSUME IInv, [Next]_vars PROVE [L!Next]_(L!vars)
  OBVIOUS
<1>1. UNCHANGED entries /\ UNCHANGED receipt => UNCHANGED L!vars
  BY DEF entries, L!vars
<1>2. ASSUME NEW w \in Workers, NEW s \in Sessions, DeliverTopUp(w, s)
      PROVE  UNCHANGED L!vars
  <2>1. UNCHANGED entries /\ receipt' = IF receipt[s] = "none" THEN [receipt EXCEPT ![s] = "uncredited"] ELSE receipt
    BY <1>2 DEF DeliverTopUp, entries, history
  <2>2. {t \in Sessions : receipt'[t] = "credited"} = {t \in Sessions : receipt[t] = "credited"}
    BY <2>1 DEF IInv, TypeOK
  <2> QED BY <2>1, <2>2 DEF L!vars, entries
<1>3. ASSUME NEW w \in Workers, ClaimPrice(w) \/ VoidClaim(w) \/ CreditClaim(w)
      PROVE  (UNCHANGED entries /\ UNCHANGED receipt) \/ L!Next
  BY <1>3, ClaimIsCharge, VoidIsGiveBack, CreditIsCredit DEF L!Next
<1> QED BY <1>1, <1>2, <1>3, RowStep

(* The rows implement the abstract ledger, whatever interleaves or stops:    *)
(* charged once, given back once and in full, credited once.                 *)
THEOREM ImplementsLedger == Spec => LedgerSpec
<1>1. Init => L!Init
  BY DEF Init, L!Init, L!NoPrice, NoPrice
<1> QED BY <1>1, Inductive, StepRefines, PTL DEF Spec, LedgerSpec, L!Spec

(* A price, once written, is only ever replaced by 0.                        *)
THEOREM FinalPrice == Spec => PriceIsFinal
<1> DEFINE Final == \A r \in Runs : price[r] # NoPrice =>
                       \/ price'[r] = price[r] /\ part'[r] = part[r]
                       \/ price'[r] = 0 /\ part'[r] = 0
<1>1. ASSUME IInv, [Next]_vars PROVE Final
  <2>1. CASE UNCHANGED entries
    BY <2>1 DEF entries
  <2>2. ASSUME NEW q \in Runs, L!Charge(q) PROVE Final
    <3>1. price[q] = NoPrice /\ \A r \in Runs : r # q => price'[r] = price[r] /\ part'[r] = part[r]
      BY <1>1, <2>2 DEF L!Charge, L!NoPrice, NoPrice, IInv, TypeOK
    <3> QED BY <3>1
  <2>3. ASSUME NEW q \in Runs, L!GiveBack(q) PROVE Final
    <3>1. /\ price'[q] = 0 /\ part'[q] = 0
          /\ \A r \in Runs : r # q => price'[r] = price[r] /\ part'[r] = part[r]
      BY <1>1, <2>3 DEF L!GiveBack, IInv, TypeOK
    <3> QED BY <3>1
  <2>4. ASSUME NEW w \in Workers, CreditClaim(w) \/ \E s \in Sessions : DeliverTopUp(w, s) PROVE Final
    BY <2>4 DEF CreditClaim, DeliverTopUp
  <2> QED BY <1>1, <2>1, <2>2, <2>3, <2>4, RowStep, ClaimIsCharge, VoidIsGiveBack
<1>2. IInv /\ [Next]_vars => [Final]_vars
  BY <1>1
<1> HIDE DEF Final
<1>3. Spec => [][Final]_vars
  BY <1>2, Inductive, PTL DEF Spec
<1> QED BY <1>3 DEF Final, PriceIsFinal
-----------------------------------------------------------------------------
(* Totals.  A total is a count of units, so what a theory of sums would say  *)
(* follows from the theorems about finite sets.                              *)
LEMMA UnitOf ==
  ASSUME NEW amount, NEW S, NEW u
  PROVE  u \in Units(amount, S) <=> \E x \in S : \E i \in 1..amount[x] : u = <<x, i>>
BY DEF Units

(* A finite sum of naturals is a natural.                                    *)
LEMMA UnitsFinite ==
  ASSUME NEW S, IsFiniteSet(S), NEW amount, \A x \in S : amount[x] \in Nat
  PROVE  IsFiniteSet(Units(amount, S)) /\ Total(amount, S) \in Nat
<1> DEFINE f == [x \in S |-> {x} \X (1..amount[x])]
           T == {{x} \X (1..amount[x]) : x \in S}
<1>1. f \in Surjection(S, T)
  BY DEF Surjection
<1>2. IsFiniteSet(T)
  <2> HIDE DEF f, T
  <2> QED BY <1>1, FS_Surjection
<1>3. ASSUME NEW x \in S PROVE IsFiniteSet({x} \X (1..amount[x]))
  <2>1. IsFiniteSet({x})
    BY FS_Singleton
  <2>2. IsFiniteSet(1..amount[x])
    <3>1. amount[x] \in Int
      BY <1>3
    <3> QED BY <3>1, FS_Interval
  <2> QED BY <2>1, <2>2, FS_Product
<1>4. IsFiniteSet(UNION T)
  <2>1. \A U \in T : IsFiniteSet(U)
    BY <1>3
  <2> HIDE DEF T
  <2> QED BY <1>2, <2>1, FS_UNION
<1> QED BY <1>4, FS_CardinalityType DEF Units, Total

(* One element's share of a total.                                           *)
LEMMA TotalSplit ==
  ASSUME NEW S, IsFiniteSet(S), NEW amount, \A x \in S : amount[x] \in Nat, NEW w \in S
  PROVE  Total(amount, S) = Total(amount, S \ {w}) + amount[w]
<1> DEFINE A == Units(amount, S \ {w})
           B == {w} \X (1..amount[w])
<1>1. Units(amount, S) = A \union B
  <2>1. ASSUME NEW u PROVE u \in Units(amount, S) <=> u \in A \/ u \in B
    BY UnitOf
  <2> QED BY <2>1
<1>2. A \cap B = {}
  BY UnitOf
<1>3. IsFiniteSet(A)
  BY FS_RemoveElement, UnitsFinite
<1>4. IsFiniteSet(B) /\ Cardinality(B) = amount[w]
  <2>1. IsFiniteSet({w}) /\ Cardinality({w}) = 1
    BY FS_Singleton
  <2>2. amount[w] \in Nat /\ IsFiniteSet(1..amount[w]) /\ Cardinality(1..amount[w]) = amount[w]
    <3>1. amount[w] \in Nat
      OBVIOUS
    <3> HIDE DEF A, B
    <3>2. \A n \in Nat : IsFiniteSet(1..n) /\ Cardinality(1..n) = n
      BY FS_Interval
    <3> QED BY <3>1, <3>2
  <2>3. IsFiniteSet(B) /\ Cardinality(B) = Cardinality({w}) * Cardinality(1..amount[w])
    BY <2>1, <2>2, FS_Product
  <2> QED BY <2>1, <2>2, <2>3
<1>5. Cardinality(A \union B) = Cardinality(A) + Cardinality(B) - Cardinality(A \cap B)
  <2> HIDE DEF A, B
  <2> QED BY <1>3, <1>4, FS_Union
<1>6. Cardinality(A) \in Nat
  BY <1>3, FS_CardinalityType
<1>7. Cardinality(A \cap B) = 0
  BY <1>2, FS_EmptySet
<1> HIDE DEF A, B
<1>8. amount[w] \in Nat
  OBVIOUS
<1>9. Total(amount, S) = Cardinality(A) + amount[w]
  BY <1>1, <1>4, <1>5, <1>6, <1>7, <1>8 DEF Total
<1> QED BY <1>9 DEF Total, A

(* A total depends on the amounts of its own elements alone.                 *)
LEMMA TotalSame ==
  ASSUME NEW S, NEW a, NEW b, \A x \in S : a[x] = b[x]
  PROVE  Total(a, S) = Total(b, S)
BY DEF Total, Units

(* The empty sum is 0.                                                       *)
LEMMA TotalEmpty ==
  ASSUME NEW amount
  PROVE  Total(amount, {}) = 0
<1>1. Units(amount, {}) = {}
  BY DEF Units
<1> QED BY <1>1, FS_EmptySet DEF Total

(* A part of a sum is no more than the sum.                                  *)
LEMMA TotalSubset ==
  ASSUME NEW S, IsFiniteSet(S), NEW amount, \A x \in S : amount[x] \in Nat, NEW T \in SUBSET S
  PROVE  Total(amount, T) <= Total(amount, S)
<1>1. Units(amount, T) \subseteq Units(amount, S)
  BY UnitOf
<1> QED BY <1>1, UnitsFinite, FS_Subset DEF Total

(* Amounts of at most c add up to at most c for each element.                *)
LEMMA TotalWithin ==
  ASSUME NEW S, IsFiniteSet(S), NEW c \in Nat, NEW amount,
         \A x \in S : amount[x] \in Nat /\ amount[x] <= c
  PROVE  Total(amount, S) <= Cardinality(S) * c
<1>1. Units(amount, S) \subseteq S \X (1..c)
  BY UnitOf
<1>2. IsFiniteSet(1..c) /\ Cardinality(1..c) = c
  BY FS_Interval
<1>3. IsFiniteSet(S \X (1..c)) /\ Cardinality(S \X (1..c)) = Cardinality(S) * c
  BY <1>2, FS_Product
<1> QED BY <1>1, <1>3, FS_Subset DEF Total

(* When one element joins, leaves or changes and the others stay.            *)
LEMMA TotalMove ==
  ASSUME NEW S, IsFiniteSet(S), NEW T, IsFiniteSet(T), NEW a, NEW b, NEW w,
         S \ {w} = T \ {w},
         \A x \in S : a[x] \in Nat, \A x \in T : b[x] \in Nat,
         \A x \in S \ {w} : a[x] = b[x]
  PROVE  /\ Total(a, S) \in Nat /\ Total(b, T) \in Nat
         /\ Total(b, T) - (IF w \in T THEN b[w] ELSE 0)
              = Total(a, S) - (IF w \in S THEN a[w] ELSE 0)
<1>1. Total(a, S) \in Nat /\ Total(b, T) \in Nat
  BY UnitsFinite
<1>2. Total(a, S \ {w}) = Total(b, T \ {w})
  BY TotalSame
<1>3. Total(a, S) = Total(a, S \ {w}) + (IF w \in S THEN a[w] ELSE 0)
  <2>1. CASE w \in S
    BY <2>1, TotalSplit
  <2>2. CASE w \notin S
    <3>1. S \ {w} = S
      BY <2>2
    <3> QED BY <1>1, <2>2, <3>1
  <2> QED BY <2>1, <2>2
<1>4. Total(b, T) = Total(b, T \ {w}) + (IF w \in T THEN b[w] ELSE 0)
  <2>1. CASE w \in T
    BY <2>1, TotalSplit
  <2>2. CASE w \notin T
    <3>1. T \ {w} = T
      BY <2>2
    <3> QED BY <1>1, <2>2, <3>1
  <2> QED BY <2>1, <2>2
<1>5. Total(a, S \ {w}) \in Nat
  BY FS_RemoveElement, UnitsFinite
<1> QED BY <1>1, <1>2, <1>3, <1>4, <1>5

-----------------------------------------------------------------------------
(* The strengthening for the plan's credit.  While all checks fall into one  *)
(* window, the credit spent is the plan's part of every check; no part is    *)
(* more than the credit; and what is spent, with what the pricings on their  *)
(* way to the claim have been given, is at most the credit once per worker.  *)
ClaimPart == [w \in Workers |-> job[w].price - job[w].part]

MonthInv == \A r \in Runs : created[r] <= month

SpendInv == OneWindow =>
  /\ \A r \in Runs : PlanPart[r] <= Credit
  /\ \A w \in Carries("claim") : ClaimPart[w] <= Credit
  /\ planSpent[0] = Total(PlanPart, Runs)
  /\ planSpent[0] + Total(ClaimPart, Carries("claim")) <= Credit * Cardinality(Workers)


(* One worker moves, the others stay where they are.                         *)
Alone(w) == \A v \in Workers \ {w} : at'[v] = at[v] /\ job'[v] = job[v]

(* A worker that goes on moves alone.                                        *)
LEMMA GotoAlone ==
  ASSUME IInv, NEW w \in Workers, NEW c, NEW j, Goto(w, c, j)
  PROVE  Alone(w) /\ at'[w] = c /\ job'[w] = j
BY DEF IInv, TypeOK, Goto, Alone

(* What a worker on its way adds to the bought balance the rows stand for,   *)
(* and what it will spend of the credit.                                     *)
Weight(call, j) == IF call = "debit" THEN j.part
                   ELSE IF call = "refund" THEN -j.part
                   ELSE IF call = "increment" THEN -Amount[j.session] ELSE 0
Share(call, j) == IF call = "claim" THEN j.price - j.part ELSE 0

(* The summed functions say what the jobs carry, as naturals.                *)
LEMMA JobAmounts ==
  ASSUME IInv
  PROVE  /\ \A w \in Workers : JobPart[w] = job[w].part /\ job[w].part \in Nat
         /\ \A w \in Carries("increment") :
               JobAmount[w] = Amount[job[w].session] /\ Amount[job[w].session] \in Nat
         /\ \A w \in Carries("claim") :
               ClaimPart[w] = job[w].price - job[w].part /\ job[w].price - job[w].part \in Nat
<1>1. \A w \in Workers : JobPart[w] = job[w].part /\ job[w].part \in Nat
  BY DEF IInv, TypeOK, Job, JobPart
<1>2. \A w \in Carries("increment") :
        JobAmount[w] = Amount[job[w].session] /\ Amount[job[w].session] \in Nat
  BY BalanceAssumption DEF IInv, TypeOK, JobOK, OnSession, Carries, JobAmount
<1>3. \A w \in Carries("claim") :
        ClaimPart[w] = job[w].price - job[w].part /\ job[w].price - job[w].part \in Nat
  BY <1>1 DEF IInv, TypeOK, JobOK, OnRun, ClaimInv, Carries, ClaimPart
<1> QED BY <1>1, <1>2, <1>3

(* A worker's move changes the totals by what it carried and what it carries *)
(* now.                                                                      *)
LEMMA PartsMove ==
  ASSUME IInv, IInv', NEW w \in Workers, Alone(w), NEW call
  PROVE  /\ Total(JobPart, Carries(call)) \in Nat /\ Total(JobPart, Carries(call))' \in Nat
         /\ Total(JobPart, Carries(call))' - (IF at'[w] = call THEN job'[w].part ELSE 0)
              = Total(JobPart, Carries(call)) - (IF at[w] = call THEN job[w].part ELSE 0)
<1> DEFINE S == Carries(call)  T == Carries(call)'
           a == JobPart        b == JobPart'
<1>1. IsFiniteSet(S) /\ IsFiniteSet(T)
  <2>1. S \in SUBSET Workers /\ T \in SUBSET Workers
    BY DEF Carries
  <2> QED BY <2>1, BalanceAssumption, FS_Subset
<1>2. S \ {w} = T \ {w} /\ (w \in S <=> at[w] = call) /\ (w \in T <=> at'[w] = call)
  BY DEF Alone, Carries
<1>3. \A x \in Workers : a[x] = job[x].part /\ b[x] = job'[x].part /\ a[x] \in Nat /\ b[x] \in Nat
  <2>1. \A x \in Workers : b[x] = job'[x].part /\ b[x] \in Nat
    BY DEF IInv, TypeOK, Job, JobPart
  <2> QED BY <2>1, JobAmounts
<1>4. S \subseteq Workers /\ T \subseteq Workers
  BY DEF Carries
<1>5. \A x \in S \ {w} : a[x] = b[x]
  BY <1>3, <1>4 DEF Alone
<1>6. a[w] = job[w].part /\ b[w] = job'[w].part
  BY <1>3
<1>7. (\A x \in S : a[x] \in Nat) /\ (\A x \in T : b[x] \in Nat)
  BY <1>3, <1>4
<1> HIDE DEF S, T, a, b
<1>8. /\ Total(a, S) \in Nat /\ Total(b, T) \in Nat
      /\ Total(b, T) - (IF w \in T THEN b[w] ELSE 0) = Total(a, S) - (IF w \in S THEN a[w] ELSE 0)
  BY <1>1, <1>2, <1>5, <1>7, TotalMove
<1>9. /\ Total(a, S) \in Nat /\ Total(b, T) \in Nat
      /\ Total(b, T) - (IF at'[w] = call THEN job'[w].part ELSE 0)
           = Total(a, S) - (IF at[w] = call THEN job[w].part ELSE 0)
  BY <1>2, <1>6, <1>8
<1> QED BY <1>9 DEF S, T, a, b, Total, Units

(* The same, for the top-ups on their way.                                   *)
LEMMA AmountsMove ==
  ASSUME IInv, IInv', NEW w \in Workers, Alone(w)
  PROVE  /\ Total(JobAmount, Carries("increment")) \in Nat
         /\ Total(JobAmount, Carries("increment"))' \in Nat
         /\ Total(JobAmount, Carries("increment"))'
              - (IF at'[w] = "increment" THEN Amount[job'[w].session] ELSE 0)
              = Total(JobAmount, Carries("increment"))
                  - (IF at[w] = "increment" THEN Amount[job[w].session] ELSE 0)
<1> DEFINE S == Carries("increment")  T == Carries("increment")'
           a == JobAmount             b == JobAmount'
<1>1. S \in SUBSET Workers /\ T \in SUBSET Workers
  BY DEF Carries
<1>2. IsFiniteSet(S) /\ IsFiniteSet(T)
  BY <1>1, BalanceAssumption, FS_Subset
<1>3. /\ S \ {w} = T \ {w}
      /\ w \in S <=> at[w] = "increment"
      /\ w \in T <=> at'[w] = "increment"
  BY DEF Alone, Carries
<1>4. \A x \in S : a[x] = Amount[job[x].session] /\ a[x] \in Nat
  BY JobAmounts
<1>5. \A x \in T : b[x] = Amount[job'[x].session] /\ b[x] \in Nat
  BY BalanceAssumption DEF IInv, TypeOK, JobOK, OnSession, Carries, JobAmount
<1>6. \A x \in S \ {w} : a[x] = b[x]
  BY <1>1, <1>3, <1>4, <1>5 DEF Alone
<1> HIDE DEF S, T, a, b
<1>7. /\ Total(a, S) \in Nat /\ Total(b, T) \in Nat
      /\ Total(b, T) - (IF w \in T THEN b[w] ELSE 0) = Total(a, S) - (IF w \in S THEN a[w] ELSE 0)
  <2>1. (\A x \in S : a[x] \in Nat) /\ (\A x \in T : b[x] \in Nat) /\ S \ {w} = T \ {w}
    BY <1>3, <1>4, <1>5
  <2> QED BY <1>2, <1>6, <2>1, TotalMove
<1>8. /\ Total(a, S) \in Nat /\ Total(b, T) \in Nat
      /\ Total(b, T) - (IF at'[w] = "increment" THEN Amount[job'[w].session] ELSE 0)
           = Total(a, S) - (IF at[w] = "increment" THEN Amount[job[w].session] ELSE 0)
  BY <1>3, <1>4, <1>5, <1>7
<1> QED BY <1>8 DEF S, T, a, b, Total, Units

(* The same, for the pricings on their way to the claim.                     *)
LEMMA ClaimsMove ==
  ASSUME IInv, IInv', NEW w \in Workers, Alone(w)
  PROVE  /\ Total(ClaimPart, Carries("claim")) \in Nat
         /\ Total(ClaimPart, Carries("claim"))' \in Nat
         /\ Total(ClaimPart, Carries("claim"))' - Share(at'[w], job'[w])
              = Total(ClaimPart, Carries("claim")) - Share(at[w], job[w])
<1> DEFINE S == Carries("claim")  T == Carries("claim")'
           a == ClaimPart         b == ClaimPart'
<1>1. S \in SUBSET Workers /\ T \in SUBSET Workers
  BY DEF Carries
<1>2. IsFiniteSet(S) /\ IsFiniteSet(T)
  BY <1>1, BalanceAssumption, FS_Subset
<1>3. S \ {w} = T \ {w} /\ (w \in S <=> at[w] = "claim") /\ (w \in T <=> at'[w] = "claim")
  BY DEF Alone, Carries
<1>4. \A x \in S : a[x] = job[x].price - job[x].part /\ a[x] \in Nat
  BY JobAmounts
<1>5. \A x \in T : b[x] = job'[x].price - job'[x].part /\ b[x] \in Nat
  <2>1. \A x \in Workers : job'[x].part \in Nat
    BY DEF IInv, TypeOK, Job
  <2> QED BY <2>1 DEF IInv, TypeOK, JobOK, OnRun, ClaimInv, Carries, ClaimPart
<1>6. \A x \in S \ {w} : a[x] = b[x]
  BY <1>1, <1>3, <1>4, <1>5 DEF Alone
<1> HIDE DEF S, T, a, b
<1>7. /\ Total(a, S) \in Nat /\ Total(b, T) \in Nat
      /\ Total(b, T) - (IF w \in T THEN b[w] ELSE 0) = Total(a, S) - (IF w \in S THEN a[w] ELSE 0)
  <2>1. (\A x \in S : a[x] \in Nat) /\ (\A x \in T : b[x] \in Nat) /\ S \ {w} = T \ {w}
    BY <1>3, <1>4, <1>5
  <2> QED BY <1>2, <1>6, <2>1, TotalMove
<1>8. /\ Total(a, S) \in Nat /\ Total(b, T) \in Nat
      /\ Total(b, T) - Share(at'[w], job'[w]) = Total(a, S) - Share(at[w], job[w])
  BY <1>3, <1>4, <1>5, <1>7 DEF Share
<1> QED BY <1>8 DEF S, T, a, b, Total, Units

-----------------------------------------------------------------------------
(* The bought balance: a movement is claimed when the ledger changes, and    *)
(* made when the balance does.                                               *)
Moves(w) ==
  topup' - ledger' = topup - ledger + Weight(at'[w], job'[w]) - Weight(at[w], job[w])

(* So balance and rows stay matched.                                         *)
LEMMA MatchMove ==
  ASSUME IInv, IInv', BalanceMatchesRows, NEW w \in Workers, Alone(w),
         stops' = 0 => stops = 0,
         Moves(w)
  PROVE  BalanceMatchesRows'
<1> SUFFICES ASSUME stops' = 0
             PROVE  topup' = ledger' + Total(JobPart, Carries("debit"))'
                                     - Total(JobPart, Carries("refund"))'
                                     - Total(JobAmount, Carries("increment"))'
  BY DEF BalanceMatchesRows
<1>1. topup = ledger + Total(JobPart, Carries("debit"))
                     - Total(JobPart, Carries("refund"))
                     - Total(JobAmount, Carries("increment"))
  BY DEF BalanceMatchesRows
<1>2. topup \in Int /\ ledger \in Int /\ topup' \in Int /\ ledger' \in Int
  BY DEF IInv, TypeOK
<1>3. /\ job[w].part \in Nat /\ job'[w].part \in Nat
      /\ at[w] = "increment" => Amount[job[w].session] \in Nat
      /\ at'[w] = "increment" => Amount[job'[w].session] \in Nat
  BY BalanceAssumption DEF IInv, TypeOK, Job, JobOK, OnSession
<1> DEFINE D == Total(JobPart, Carries("debit"))  d == Total(JobPart, Carries("debit"))'
           R == Total(JobPart, Carries("refund")) r == Total(JobPart, Carries("refund"))'
           I == Total(JobAmount, Carries("increment")) i == Total(JobAmount, Carries("increment"))'
<1>4. /\ D \in Nat /\ d \in Nat
      /\ d - (IF at'[w] = "debit" THEN job'[w].part ELSE 0) = D - (IF at[w] = "debit" THEN job[w].part ELSE 0)
  BY PartsMove
<1>5. /\ R \in Nat /\ r \in Nat
      /\ r - (IF at'[w] = "refund" THEN job'[w].part ELSE 0) = R - (IF at[w] = "refund" THEN job[w].part ELSE 0)
  BY PartsMove
<1>6. /\ I \in Nat /\ i \in Nat
      /\ i - (IF at'[w] = "increment" THEN Amount[job'[w].session] ELSE 0)
           = I - (IF at[w] = "increment" THEN Amount[job[w].session] ELSE 0)
  BY AmountsMove
<1> HIDE DEF D, d, R, r, I, i
<1>7. topup = ledger + D - R - I
  BY <1>1 DEF D, R, I
<1>8. (d - D) - (r - R) - (i - I) = Weight(at'[w], job'[w]) - Weight(at[w], job[w])
  <2> DEFINE oD == IF at[w] = "debit" THEN job[w].part ELSE 0
             nD == IF at'[w] = "debit" THEN job'[w].part ELSE 0
             oR == IF at[w] = "refund" THEN job[w].part ELSE 0
             nR == IF at'[w] = "refund" THEN job'[w].part ELSE 0
             oI == IF at[w] = "increment" THEN Amount[job[w].session] ELSE 0
             nI == IF at'[w] = "increment" THEN Amount[job'[w].session] ELSE 0
  <2>1. /\ oD \in Nat /\ nD \in Nat /\ oR \in Nat /\ nR \in Nat /\ oI \in Nat /\ nI \in Nat
    BY <1>3
  <2>2. Weight(at[w], job[w]) = oD - oR - oI
    BY <1>3 DEF Weight
  <2>3. Weight(at'[w], job'[w]) = nD - nR - nI
    BY <1>3 DEF Weight
  <2>4. d - nD = D - oD /\ r - nR = R - oR /\ i - nI = I - oI
    BY <1>4, <1>5, <1>6
  <2>5. /\ D \in Nat /\ d \in Nat /\ R \in Nat /\ r \in Nat /\ I \in Nat /\ i \in Nat
    BY <1>4, <1>5, <1>6
  <2> HIDE DEF oD, nD, oR, nR, oI, nI
  <2>6. (d - D) - (r - R) - (i - I) = (nD - nR - nI) - (oD - oR - oI)
    BY <2>1, <2>4, <2>5
  <2> QED BY <2>2, <2>3, <2>6
<1>9. topup' = ledger' + d - r - i
  <2> DEFINE o == Weight(at[w], job[w])  n == Weight(at'[w], job'[w])
             t == topup'                 l == ledger'
  <2>1. o \in Int /\ n \in Int /\ t \in Int /\ l \in Int
    BY <1>2, <1>3 DEF Weight
  <2>2. /\ D \in Int /\ d \in Int /\ R \in Int /\ r \in Int /\ I \in Int /\ i \in Int
    BY <1>4, <1>5, <1>6
  <2>3. t - l = topup - ledger + n - o
    BY DEF Moves
  <2>4. (d - D) - (r - R) - (i - I) = n - o
    BY <1>8
  <2> HIDE DEF o, n, t, l
  <2>5. topup - ledger = D - R - I
    BY <1>2, <1>7, <2>2
  <2>6. t - l = (D - R - I) + n - o
    BY <1>2, <2>1, <2>2, <2>3, <2>5
  <2>7. (D - R - I) + n - o = d - r - i
    BY <2>1, <2>2, <2>4
  <2>8. t = l + d - r - i
    BY <2>1, <2>2, <2>6, <2>7
  <2> QED BY <2>8 DEF t, l
<1> QED BY <1>9 DEF d, r, i

(* Where a worker that is not on its way stands, nothing is claimed.         *)
LEMMA QuietWeight ==
  ASSUME NEW call, NEW j, call \notin {"debit", "refund", "increment"}
  PROVE  Weight(call, j) = 0
BY DEF Weight

(* A step outside the three movements leaves balance and rows matched.       *)
LEMMA QuietMatches ==
  ASSUME IInv, IInv', BalanceMatchesRows, NEW w \in Workers,
         NEW c, NEW j, Goto(w, c, j), c \notin {"debit", "refund", "increment"},
         at[w] \notin {"debit", "refund", "increment"},
         UNCHANGED <<topup, ledger, stops>>
  PROVE  BalanceMatchesRows'
<1>1. Alone(w) /\ at'[w] = c /\ job'[w] = j
  BY GotoAlone
<1>2. Weight(at'[w], job'[w]) = 0 /\ Weight(at[w], job[w]) = 0
  BY <1>1, QuietWeight
<1>3. Moves(w)
  BY <1>2 DEF IInv, TypeOK, Moves
<1> QED BY <1>1, <1>3, MatchMove

(* Every step of a worker keeps balance and rows matched,                    *)
LEMMA StepMatches ==
  ASSUME IInv, IInv', BalanceMatchesRows, NEW w \in Workers, Step(w)
  PROVE  BalanceMatchesRows'
<1> USE DEF history, rows
<1>0. topup \in Int /\ ledger \in Int /\ \A v \in Workers : job[v].part \in Nat
  BY DEF IInv, TypeOK, Job
<1>1. CASE Insert(w)
  BY <1>1, QuietMatches DEF Insert, Return
<1>2. CASE ReadBalance(w)
  BY <1>2, QuietMatches DEF ReadBalance
<1>3. CASE ClaimPrice(w) /\ Unpriced(job[w].run)
  <2>1. at[w] = "claim" /\ UNCHANGED <<topup, stops>> /\ ledger' = ledger - job[w].part
    BY <1>3 DEF ClaimPrice
  <2>2. CASE job[w].part > 0
    <3>1. Goto(w, "debit", job[w])
      BY <1>3, <2>2 DEF ClaimPrice
    <3>2. Alone(w) /\ at'[w] = "debit" /\ job'[w] = job[w]
      BY <3>1, GotoAlone
    <3>3. Weight(at'[w], job'[w]) = job[w].part /\ Weight(at[w], job[w]) = 0
      BY <2>1, <3>2 DEF Weight
    <3>4. Moves(w)
      BY <1>0, <2>1, <3>3 DEF Moves
    <3> QED BY <2>1, <3>2, <3>4, MatchMove
  <2>3. CASE ~(job[w].part > 0)
    <3>1. AfterPricing(w) /\ ledger' = ledger
      BY <1>0, <1>3, <2>1, <2>3 DEF ClaimPrice
    <3>2. PICK c \in {"voidRead", "idle"}, j \in Job : Goto(w, c, j)
      BY <2>1, <3>1, AfterPricingMove
    <3> QED BY <2>1, <3>1, <3>2, QuietMatches
  <2> QED BY <2>2, <2>3
<1>4. CASE ClaimPrice(w) /\ ~Unpriced(job[w].run)
  <2>1. at[w] = "claim" /\ UNCHANGED <<topup, ledger, stops>> /\ AfterPricing(w)
    BY <1>4 DEF ClaimPrice
  <2>2. PICK c \in {"voidRead", "idle"}, j \in Job : Goto(w, c, j)
    BY <2>1, AfterPricingMove
  <2> QED BY <2>1, <2>2, QuietMatches
<1>5. CASE Debit(w)
  <2>1. at[w] = "debit" /\ UNCHANGED <<ledger, stops>> /\ topup' = topup - job[w].part /\ AfterPricing(w)
    BY <1>5 DEF Debit
  <2>2. PICK c \in {"voidRead", "idle"}, j \in Job : Goto(w, c, j)
    BY <2>1, AfterPricingMove
  <2>3. Alone(w) /\ at'[w] = c
    BY <2>2, GotoAlone
  <2>4. Weight(at'[w], job'[w]) = 0 /\ Weight(at[w], job[w]) = job[w].part
    BY <2>1, <2>3 DEF Weight
  <2>5. Moves(w)
    BY <1>0, <2>1, <2>4 DEF Moves
  <2> QED BY <2>1, <2>3, <2>5, MatchMove
<1>6. CASE VoidRead(w)
  BY <1>6, QuietMatches DEF VoidRead, Return
<1>7. CASE VoidClaim(w) /\ AsRead(w)
  <2>1. at[w] = "voidClaim" /\ UNCHANGED <<topup, stops>> /\ ledger' = ledger + job[w].part
    BY <1>7 DEF VoidClaim
  <2>2. CASE job[w].part > 0
    <3>1. Goto(w, "refund", job[w])
      BY <1>7, <2>2 DEF VoidClaim
    <3>2. Alone(w) /\ at'[w] = "refund" /\ job'[w] = job[w]
      BY <3>1, GotoAlone
    <3>3. Weight(at'[w], job'[w]) = -job[w].part /\ Weight(at[w], job[w]) = 0
      BY <2>1, <3>2 DEF Weight
    <3>4. Moves(w)
      BY <1>0, <2>1, <3>3 DEF Moves
    <3> QED BY <2>1, <3>2, <3>4, MatchMove
  <2>3. CASE ~(job[w].part > 0)
    <3>1. Goto(w, "idle", NoJob) /\ ledger' = ledger
      BY <1>0, <1>7, <2>1, <2>3 DEF VoidClaim, Return
    <3> QED BY <2>1, <3>1, QuietMatches
  <2> QED BY <2>2, <2>3
<1>8. CASE VoidClaim(w) /\ ~AsRead(w)
  BY <1>8, QuietMatches DEF VoidClaim, Return
<1>9. CASE Refund(w)
  <2>1. /\ at[w] = "refund" /\ UNCHANGED <<ledger, stops>> /\ topup' = topup + job[w].part
        /\ Goto(w, "idle", NoJob)
    BY <1>9 DEF Refund, Return
  <2>2. Alone(w) /\ at'[w] = "idle"
    BY <2>1, GotoAlone
  <2>3. Weight(at'[w], job'[w]) = 0 /\ Weight(at[w], job[w]) = -job[w].part
    BY <2>1, <2>2 DEF Weight
  <2>4. Moves(w)
    BY <1>0, <2>1, <2>3 DEF Moves
  <2> QED BY <2>1, <2>2, <2>4, MatchMove
<1>10. CASE CreditClaim(w) /\ Uncredited(job[w].session)
  <2>1. /\ at[w] = "creditClaim" /\ UNCHANGED <<topup, stops>>
        /\ ledger' = ledger + Amount[job[w].session]
        /\ Goto(w, "increment", job[w])
    BY <1>10 DEF CreditClaim
  <2>2. Alone(w) /\ at'[w] = "increment" /\ job'[w] = job[w]
    BY <2>1, GotoAlone
  <2>3. Weight(at'[w], job'[w]) = -Amount[job[w].session] /\ Weight(at[w], job[w]) = 0
    BY <2>1, <2>2 DEF Weight
  <2>4. Amount[job[w].session] \in Nat
    BY <2>1, BalanceAssumption DEF IInv, TypeOK, JobOK, OnSession
  <2>5. Moves(w)
    BY <1>0, <2>1, <2>3, <2>4 DEF Moves
  <2> QED BY <2>1, <2>2, <2>5, MatchMove
<1>11. CASE CreditClaim(w) /\ ~Uncredited(job[w].session)
  BY <1>11, QuietMatches DEF CreditClaim, Return
<1>12. CASE Increment(w)
  <2>1. /\ at[w] = "increment" /\ UNCHANGED <<ledger, stops>>
        /\ topup' = topup + Amount[job[w].session]
        /\ Goto(w, "idle", NoJob)
    BY <1>12 DEF Increment, Return
  <2>2. Alone(w) /\ at'[w] = "idle"
    BY <2>1, GotoAlone
  <2>3. Weight(at'[w], job'[w]) = 0 /\ Weight(at[w], job[w]) = -Amount[job[w].session]
    BY <2>1, <2>2 DEF Weight
  <2>4. Amount[job[w].session] \in Nat
    BY <2>1, BalanceAssumption DEF IInv, TypeOK, JobOK, OnSession
  <2>5. Moves(w)
    BY <1>0, <2>1, <2>3, <2>4 DEF Moves
  <2> QED BY <2>1, <2>2, <2>5, MatchMove
<1>13. CASE Stop(w)
  <2>1. stops' # 0
    BY <1>13 DEF Stop, IInv, TypeOK
  <2> QED BY <2>1 DEF BalanceMatchesRows
<1> QED BY <1>1, <1>2, <1>3, <1>4, <1>5, <1>6, <1>7, <1>8, <1>9, <1>10, <1>11, <1>12, <1>13 DEF Step

(* ... and so does every step.                                               *)
LEMMA NextMatches ==
  ASSUME IInv, IInv', BalanceMatchesRows, [Next]_vars
  PROVE  BalanceMatchesRows'
<1> USE DEF history, rows
<1>1. CASE \E w \in Workers : Step(w)
  BY <1>1, StepMatches
<1>2. ASSUME NEW w \in Workers, NEW r \in Runs, Admit(w, r) PROVE BalanceMatchesRows'
  BY <1>2, QuietMatches DEF Admit
<1>3. ASSUME NEW w \in Workers, NEW r \in Runs, PriceRun(w, r) PROVE BalanceMatchesRows'
  BY <1>3, QuietMatches DEF PriceRun
<1>4. ASSUME NEW w \in Workers, NEW s \in Sessions, DeliverTopUp(w, s) PROVE BalanceMatchesRows'
  BY <1>4, QuietMatches DEF DeliverTopUp
<1>5. CASE (\E r \in Runs : End(r)) \/ NextMonth \/ UNCHANGED vars
  <2>1. UNCHANGED <<topup, ledger, stops, at, job>>
    BY <1>5 DEF End, NextMonth, vars
  <2> QED BY <2>1 DEF BalanceMatchesRows, Total, Units, JobPart, JobAmount, Carries
<1> QED BY <1>1, <1>2, <1>3, <1>4, <1>5 DEF Next

-----------------------------------------------------------------------------
(* The plan's credit.                                                        *)
LEMMA PlanPartType ==
  ASSUME IInv, NEW r \in Runs
  PROVE  PlanPart[r] = PricedAt(r) - part[r] /\ PlanPart[r] \in Nat
<1>1. PricedAt(r) - part[r] \in Nat
  BY DEF PricedAt, Unpriced, IInv, RunInv, RunOK, TypeOK, NoPrice
<1> QED BY <1>1 DEF PlanPart

(* In one window every run falls into window 0, and so does the credit spent. *)
LEMMA WindowZero ==
  ASSUME IInv, MonthInv, OneWindow
  PROVE  (\A r \in Runs : WindowOf(r) = 0) /\ PlanSpent = planSpent[0]
BY DEF IInv, TypeOK, MonthInv, OneWindow, WindowOf, Window, PlanSpent

(* The spending of the credit is settled at the claim: a worker that moves   *)
(* anywhere but to the claim, and writes no price, spends nothing.           *)
LEMMA QuietSpend ==
  ASSUME IInv, IInv', SpendInv, NEW w \in Workers, Alone(w), at'[w] # "claim",
         UNCHANGED <<price, part, planSpent, month>>
  PROVE  SpendInv'
<1> SUFFICES ASSUME OneWindow
             PROVE  /\ \A r \in Runs : PlanPart'[r] <= Credit
                    /\ \A v \in Carries("claim")' : ClaimPart'[v] <= Credit
                    /\ planSpent'[0] = Total(PlanPart, Runs)'
                    /\ planSpent'[0] + Total(ClaimPart, Carries("claim"))' <= Credit * Cardinality(Workers)
  BY DEF SpendInv, OneWindow
<1>1. PlanPart' = PlanPart
  BY DEF PlanPart, PricedAt
<1>2. Carries("claim")' \subseteq Carries("claim") \ {w}
  BY DEF Carries, Alone
<1>3. \A v \in Carries("claim")' : ClaimPart'[v] <= Credit
  BY <1>2 DEF SpendInv, ClaimPart, Alone, Carries
<1>4. Total(PlanPart, Runs)' = Total(PlanPart, Runs)
  BY <1>1 DEF Total, Units
<1> DEFINE C == Total(ClaimPart, Carries("claim"))
<1>5. C \in Nat /\ C' \in Nat /\ C' <= C
  <2>1. Share(at'[w], job'[w]) = 0
    BY DEF Share
  <2>2. Share(at[w], job[w]) \in Nat
    <3>1. at[w] = "claim" => w \in Carries("claim")
      BY DEF Carries
    <3> QED BY <3>1, JobAmounts DEF Share
  <2>3. C \in Nat /\ C' \in Nat /\ C' - Share(at'[w], job'[w]) = C - Share(at[w], job[w])
    BY ClaimsMove
  <2> QED BY <2>1, <2>2, <2>3
<1>6. planSpent[0] \in Int /\ Credit * Cardinality(Workers) \in Int
  BY BalanceAssumption, FS_CardinalityType DEF IInv, TypeOK
<1>7. planSpent[0] + C <= Credit * Cardinality(Workers) /\ planSpent[0] = Total(PlanPart, Runs)
  BY DEF SpendInv
<1> DEFINE limit == Credit * Cardinality(Workers)
<1> HIDE DEF C, limit
<1>8. planSpent'[0] + C' <= limit
  BY <1>5, <1>6, <1>7 DEF limit
<1>9. \A r \in Runs : PlanPart'[r] <= Credit
  BY <1>1 DEF SpendInv
<1> QED BY <1>3, <1>4, <1>7, <1>8, <1>9 DEF C, limit

(* A pricing is given what the credit has left at the moment it reads the    *)
(* balance.  All the others together have been given at most the whole       *)
(* credit each.                                                              *)
LEMMA ReadBalanceSpend ==
  ASSUME IInv, IInv', MonthInv, SpendInv, NEW w \in Workers, ReadBalance(w)
  PROVE  SpendInv'
<1> SUFFICES ASSUME OneWindow
             PROVE  /\ \A r \in Runs : PlanPart'[r] <= Credit
                    /\ \A v \in Carries("claim")' : ClaimPart'[v] <= Credit
                    /\ planSpent'[0] = Total(PlanPart, Runs)'
                    /\ planSpent'[0] + Total(ClaimPart, Carries("claim"))' <= Credit * Cardinality(Workers)
  BY DEF SpendInv, OneWindow, ReadBalance
<1> DEFINE j == [job[w] EXCEPT !.part = SplitPrice(job[w].price, Credit - PlanSpent)]
           C == Total(ClaimPart, Carries("claim"))
           share == Share(at'[w], job'[w])
           spent == planSpent[0]
           n == Cardinality(Workers)
<1>1. /\ at[w] = "balance" /\ UNCHANGED <<price, part, planSpent, month>>
      /\ Goto(w, "claim", j)
  BY DEF ReadBalance, rows
<1>2. Alone(w) /\ at'[w] = "claim" /\ job'[w] = j
  BY <1>1, GotoAlone
<1>3. PlanPart' = PlanPart /\ Total(PlanPart, Runs)' = Total(PlanPart, Runs)
  BY <1>1 DEF PlanPart, PricedAt, Total, Units
<1>4. spent = Total(PlanPart, Runs) /\ spent \in Nat /\ spent + C <= Credit * n
  <2>1. \A r \in Runs : PlanPart[r] \in Nat
    BY PlanPartType
  <2>2. Total(PlanPart, Runs) \in Nat
    BY <2>1, BalanceAssumption, UnitsFinite
  <2> QED BY <2>2 DEF SpendInv
<1>5. share = job[w].price - SplitPrice(job[w].price, Credit - spent) /\ job[w].price \in Nat
  <2>1. job[w] \in Job /\ job[w].price \in Nat
    BY <1>1 DEF IInv, TypeOK, JobOK
  <2>2. j.price = job[w].price /\ j.part = SplitPrice(job[w].price, Credit - PlanSpent)
    BY <2>1 DEF Job
  <2>3. PlanSpent = spent
    BY WindowZero
  <2> QED BY <1>2, <2>1, <2>2, <2>3 DEF Share
<1>6. share \in Nat /\ share <= Credit /\ (share = 0 \/ spent + share <= Credit)
  BY <1>4, <1>5, BalanceAssumption DEF SplitPrice, NonNegative
<1>7. Carries("claim")' = Carries("claim") \union {w} /\ w \notin Carries("claim")
  BY <1>1, <1>2 DEF Carries, Alone
<1>8. \A v \in Carries("claim")' : ClaimPart'[v] <= Credit
  <2>1. ClaimPart'[w] = share
    BY <1>2 DEF ClaimPart, Share
  <2>2. \A v \in Carries("claim") : ClaimPart'[v] = ClaimPart[v] /\ ClaimPart[v] <= Credit
    BY <1>2, <1>7 DEF SpendInv, ClaimPart, Alone, Carries
  <2> QED BY <1>6, <1>7, <2>1, <2>2
<1>9. C \in Nat /\ C' = C + share
  <2>1. Share(at[w], job[w]) = 0
    BY <1>1 DEF Share
  <2>2. C \in Nat /\ C' \in Nat /\ C' - share = C - Share(at[w], job[w])
    BY <1>2, ClaimsMove
  <2> QED BY <1>6, <2>1, <2>2
<1>10. n \in Nat /\ n >= 1 /\ C <= (n - 1) * Credit
  <2>1. Carries("claim") \in SUBSET (Workers \ {w})
    BY <1>7 DEF Carries
  <2>2. IsFiniteSet(Workers \ {w}) /\ Cardinality(Workers \ {w}) = n - 1 /\ n \in Nat
    BY BalanceAssumption, FS_RemoveElement, FS_CardinalityType
  <2>3. IsFiniteSet(Carries("claim"))
    BY <2>1, <2>2, FS_Subset
  <2>4. Cardinality(Carries("claim")) <= n - 1 /\ Cardinality(Carries("claim")) \in Nat
    BY <2>1, <2>2, <2>3, FS_Subset, FS_CardinalityType
  <2>5. \A v \in Carries("claim") : ClaimPart[v] \in Nat /\ ClaimPart[v] <= Credit
    BY JobAmounts DEF SpendInv
  <2>6. C <= Cardinality(Carries("claim")) * Credit
    BY <2>3, <2>5, BalanceAssumption, TotalWithin
  <2> DEFINE m == Cardinality(Carries("claim"))
  <2> HIDE DEF m, n, C
  <2>7. m \in Nat /\ n \in Nat /\ m <= n - 1 /\ C <= m * Credit /\ Credit \in Nat /\ C \in Nat
    BY <2>2, <2>4, <2>6, <1>9, BalanceAssumption DEF m
  <2>8. n - 1 \in Nat /\ m * Credit <= (n - 1) * Credit
    BY <2>7
  <2> QED BY <2>7, <2>8
<1> HIDE DEF C, share, spent, n, j
<1>11. spent + C + share <= Credit * n
  <2>1. Credit \in Nat /\ (n - 1) * Credit = Credit * n - Credit
    BY <1>10, BalanceAssumption
  <2>2. Credit * n \in Int /\ (n - 1) * Credit \in Int
    BY <1>10, BalanceAssumption
  <2> QED BY <1>4, <1>6, <1>9, <1>10, <2>1, <2>2
<1>12. planSpent'[0] + C' <= Credit * n
  BY <1>1, <1>4, <1>6, <1>9, <1>11 DEF spent
<1>13. \A r \in Runs : PlanPart'[r] <= Credit
  BY <1>3 DEF SpendInv
<1> QED BY <1>1, <1>3, <1>4, <1>8, <1>12, <1>13 DEF C, n, spent

(* What one run's part of the plan's spending becomes is what the window's   *)
(* sum becomes.                                                              *)
LEMMA PlanPartMoves ==
  ASSUME IInv, IInv', NEW r \in Runs,
         \A q \in Runs \ {r} : price'[q] = price[q] /\ part'[q] = part[q]
  PROVE  /\ Total(PlanPart, Runs) \in Nat
         /\ Total(PlanPart, Runs)' = Total(PlanPart, Runs) + PlanPart'[r] - PlanPart[r]
         /\ \A q \in Runs \ {r} : PlanPart'[q] = PlanPart[q]
<1> DEFINE a == PlanPart  b == PlanPart'
<1>1. \A q \in Runs : a[q] \in Nat
  BY PlanPartType
<1>2. \A q \in Runs : b[q] = PricedAt(q)' - part'[q] /\ b[q] \in Nat
  <2> SUFFICES ASSUME NEW q \in Runs PROVE b[q] = PricedAt(q)' - part'[q] /\ b[q] \in Nat
    OBVIOUS
  <2>0. RunOK(q)' /\ price'[q] \in Nat \union {NoPrice} /\ part'[q] \in Nat
    BY DEF IInv, RunInv, TypeOK
  <2>1. PricedAt(q)' - part'[q] \in Nat
    BY <2>0 DEF PricedAt, Unpriced, RunOK, NoPrice
  <2> QED BY <2>1 DEF PlanPart
<1>3. \A q \in Runs \ {r} : b[q] = a[q]
  BY DEF PlanPart, PricedAt
<1> HIDE DEF a, b
<1>4. /\ Total(a, Runs) \in Nat /\ Total(b, Runs) \in Nat
      /\ Total(b, Runs) - (IF r \in Runs THEN b[r] ELSE 0) = Total(a, Runs) - (IF r \in Runs THEN a[r] ELSE 0)
  <2>1. IsFiniteSet(Runs) /\ \A q \in Runs : b[q] \in Nat
    BY <1>2, BalanceAssumption
  <2> QED BY <1>1, <1>3, <2>1, TotalMove
<1>5. Total(a, Runs) \in Nat /\ Total(b, Runs) = Total(a, Runs) + b[r] - a[r]
  BY <1>1, <1>2, <1>4
<1> QED BY <1>3, <1>5 DEF a, b, Total, Units

(* A claim moves its part from what is on the way to what is spent.          *)
LEMMA ClaimSpend ==
  ASSUME IInv, IInv', MonthInv, SpendInv, NEW w \in Workers, ClaimPrice(w)
  PROVE  SpendInv'
<1>0. PICK r \in Runs : r = job[w].run
  BY DEF ClaimPrice, IInv, TypeOK, JobOK, OnRun
<1>1. at[w] = "claim" /\ UNCHANGED month
  BY DEF ClaimPrice
<1>2. /\ job[w].price \in Nat /\ job[w].part \in Nat /\ job[w].part <= job[w].price
  BY <1>1 DEF IInv, TypeOK, JobOK, ClaimInv, Job
<1>3. PICK c \in {"debit", "voidRead", "idle"}, j \in Job : Goto(w, c, j)
  <2>1. CASE AfterPricing(w)
    BY <1>1, <2>1, AfterPricingMove
  <2>2. CASE Goto(w, "debit", job[w])
    BY <2>2 DEF IInv, TypeOK
  <2> QED BY <2>1, <2>2 DEF ClaimPrice
<1>4. Alone(w) /\ at'[w] # "claim"
  BY <1>3, GotoAlone
<1>5. CASE ~Unpriced(r)
  <2>1. UNCHANGED <<price, part, planSpent>>
    BY <1>0, <1>5 DEF ClaimPrice
  <2> QED BY <1>1, <1>4, <2>1, QuietSpend
<1>6. CASE Unpriced(r)
  <2> SUFFICES ASSUME OneWindow
               PROVE  /\ \A q \in Runs : PlanPart'[q] <= Credit
                      /\ \A v \in Carries("claim")' : ClaimPart'[v] <= Credit
                      /\ planSpent'[0] = Total(PlanPart, Runs)'
                      /\ planSpent'[0] + Total(ClaimPart, Carries("claim"))' <= Credit * Cardinality(Workers)
    BY <1>1 DEF SpendInv, OneWindow
  <2> DEFINE share == job[w].price - job[w].part
             C == Total(ClaimPart, Carries("claim"))
             T == Total(PlanPart, Runs)
             limit == Credit * Cardinality(Workers)
  <2>1. /\ price' = [price EXCEPT ![r] = job[w].price]
        /\ part' = [part EXCEPT ![r] = job[w].part]
        /\ planSpent' = [planSpent EXCEPT ![WindowOf(r)] = @ + job[w].price - job[w].part]
    BY <1>0, <1>6 DEF ClaimPrice
  <2>2. price'[r] = job[w].price /\ part'[r] = job[w].part /\ price[r] = NoPrice /\ part[r] = 0
    BY <1>6, <2>1 DEF IInv, TypeOK, RunInv, RunOK, Unpriced
  <2>3. PlanPart[r] = 0 /\ PlanPart'[r] = share
    BY <1>2, <2>2 DEF PlanPart, PricedAt, NoPrice
  <2>4. w \in Carries("claim") /\ share <= Credit /\ share \in Nat
    <3>1. w \in Carries("claim")
      BY <1>1 DEF Carries
    <3>2. ClaimPart[w] = share /\ share \in Nat
      BY <3>1, JobAmounts
    <3> QED BY <3>1, <3>2 DEF SpendInv
  <2>5. /\ T \in Nat /\ T' = T + share
        /\ \A q \in Runs \ {r} : PlanPart'[q] = PlanPart[q]
    <3>1. \A q \in Runs \ {r} : price'[q] = price[q] /\ part'[q] = part[q]
      BY <2>1 DEF IInv, TypeOK
    <3>2. /\ T \in Nat /\ T' = T + PlanPart'[r] - PlanPart[r]
          /\ \A q \in Runs \ {r} : PlanPart'[q] = PlanPart[q]
      BY <3>1, PlanPartMoves
    <3> HIDE DEF share, T
    <3> QED BY <2>3, <2>4, <3>2
  <2>6. \A q \in Runs : PlanPart'[q] <= Credit
    BY <2>3, <2>4, <2>5 DEF SpendInv
  <2>7. \A v \in Carries("claim")' : ClaimPart'[v] <= Credit
    <3>1. Carries("claim")' \subseteq Carries("claim") \ {w}
      BY <1>4 DEF Carries, Alone
    <3> QED BY <1>4, <3>1 DEF SpendInv, ClaimPart, Alone, Carries
  <2>8. planSpent'[0] = planSpent[0] + share /\ planSpent[0] \in Int
    <3>1. WindowOf(r) = 0
      BY WindowZero
    <3>2. 0 \in 0..LastMonth
      BY BalanceAssumption
    <3>3. planSpent[0] \in Int
      BY <3>2 DEF IInv, TypeOK
    <3>4. planSpent'[0] = planSpent[0] + job[w].price - job[w].part
      BY <2>1, <3>1, <3>2 DEF IInv, TypeOK
    <3> QED BY <1>2, <3>3, <3>4
  <2>9. C \in Nat /\ C' = C - share
    <3>1. Share(at'[w], job'[w]) = 0 /\ Share(at[w], job[w]) = share
      BY <1>1, <1>4 DEF Share
    <3>2. C \in Nat /\ C' \in Nat /\ C' - Share(at'[w], job'[w]) = C - Share(at[w], job[w])
      BY <1>4, ClaimsMove
    <3> HIDE DEF C, share
    <3>3. C \in Nat /\ C' \in Nat /\ C' - 0 = C - share
      BY <3>1, <3>2
    <3>4. \A x, y, z \in Nat : x - 0 = y - z => x = y - z
      OBVIOUS
    <3> QED BY <2>4, <3>3, <3>4, Zenon
  <2>10. planSpent[0] = T /\ planSpent[0] + C <= limit
    BY DEF SpendInv
  <2> HIDE DEF share, C, T, limit
  <2>11. planSpent'[0] = T' /\ planSpent'[0] + C' <= limit
    BY <2>4, <2>5, <2>8, <2>9, <2>10
  <2> QED BY <2>6, <2>7, <2>11 DEF C, T, limit
<1> QED BY <1>5, <1>6

(* A give-back lowers what is spent.                                         *)
LEMMA VoidSpend ==
  ASSUME IInv, IInv', MonthInv, SpendInv, NEW w \in Workers, VoidClaim(w)
  PROVE  SpendInv'
<1>0. PICK r \in Runs : r = job[w].run
  BY DEF VoidClaim, IInv, TypeOK, JobOK, OnRun
<1>1. at[w] = "voidClaim" /\ UNCHANGED month
  BY DEF VoidClaim
<1>2. PICK c, j : c \in {"refund", "idle"} /\ Goto(w, c, j)
  BY DEF VoidClaim, Return
<1>3. Alone(w) /\ at'[w] # "claim"
  BY <1>2, GotoAlone
<1>4. CASE ~AsRead(w)
  <2>1. UNCHANGED <<price, part, planSpent>>
    BY <1>4 DEF VoidClaim
  <2> QED BY <1>1, <1>3, <2>1, QuietSpend
<1>5. CASE AsRead(w)
  <2> SUFFICES ASSUME OneWindow
               PROVE  /\ \A q \in Runs : PlanPart'[q] <= Credit
                      /\ \A v \in Carries("claim")' : ClaimPart'[v] <= Credit
                      /\ planSpent'[0] = Total(PlanPart, Runs)'
                      /\ planSpent'[0] + Total(ClaimPart, Carries("claim"))' <= Credit * Cardinality(Workers)
    BY <1>1 DEF SpendInv, OneWindow
  <2> DEFINE C == Total(ClaimPart, Carries("claim"))
             T == Total(PlanPart, Runs)
             limit == Credit * Cardinality(Workers)
             d == PricedAt(r) - part[r]
  <2>1. /\ price' = [price EXCEPT ![r] = 0]
        /\ part' = [part EXCEPT ![r] = 0]
        /\ planSpent' = [planSpent EXCEPT ![WindowOf(r)] = @ - (PricedAt(r) - part[r])]
    BY <1>0, <1>5 DEF VoidClaim
  <2>2. price'[r] = 0 /\ part'[r] = 0
    BY <2>1 DEF IInv, TypeOK
  <2>3. PlanPart[r] = d /\ d \in Nat /\ PlanPart'[r] = 0
    <3>1. PlanPart'[r] = 0
      BY <2>2 DEF PlanPart, PricedAt, NoPrice
    <3> QED BY <3>1, PlanPartType
  <2>4. /\ T \in Nat /\ T' = T - d
        /\ \A q \in Runs \ {r} : PlanPart'[q] = PlanPart[q]
    <3>1. \A q \in Runs \ {r} : price'[q] = price[q] /\ part'[q] = part[q]
      BY <2>1 DEF IInv, TypeOK
    <3>2. /\ T \in Nat /\ T' = T + PlanPart'[r] - PlanPart[r]
          /\ \A q \in Runs \ {r} : PlanPart'[q] = PlanPart[q]
      BY <3>1, PlanPartMoves
    <3> HIDE DEF d, T
    <3> QED BY <2>3, <3>2
  <2>5. \A q \in Runs : PlanPart'[q] <= Credit
    BY <2>3, <2>4, BalanceAssumption DEF SpendInv
  <2>6. Carries("claim")' = Carries("claim") /\ \A v \in Carries("claim") : ClaimPart'[v] = ClaimPart[v]
    BY <1>1, <1>3 DEF Carries, Alone, ClaimPart
  <2>7. planSpent'[0] = planSpent[0] - d /\ planSpent[0] \in Int
    <3>1. WindowOf(r) = 0
      BY WindowZero
    <3>2. 0 \in 0..LastMonth
      BY BalanceAssumption
    <3> QED BY <2>1, <3>1, <3>2 DEF IInv, TypeOK
  <2>8. C \in Nat /\ C' = C
    <3>1. Share(at'[w], job'[w]) = 0 /\ Share(at[w], job[w]) = 0
      BY <1>1, <1>3 DEF Share
    <3>2. C \in Nat /\ C' \in Nat /\ C' - Share(at'[w], job'[w]) = C - Share(at[w], job[w])
      BY <1>3, ClaimsMove
    <3> HIDE DEF C
    <3>3. C \in Nat /\ C' \in Nat /\ C' - 0 = C - 0
      BY <3>1, <3>2
    <3>4. \A x, y \in Nat : x - 0 = y - 0 => x = y
      OBVIOUS
    <3> QED BY <3>3, <3>4, Zenon
  <2>9. planSpent[0] = T /\ planSpent[0] + C <= limit /\ limit \in Int
    BY BalanceAssumption, FS_CardinalityType DEF SpendInv
  <2>10. \A v \in Carries("claim")' : ClaimPart'[v] <= Credit
    BY <2>6 DEF SpendInv
  <2> HIDE DEF d, C, T, limit
  <2>11. planSpent'[0] = T' /\ planSpent'[0] + C' <= limit
    BY <2>3, <2>4, <2>7, <2>8, <2>9
  <2> QED BY <2>5, <2>10, <2>11 DEF C, T, limit
<1> QED BY <1>4, <1>5

(* Every step keeps what is spent within the credit once per worker.         *)
LEMMA NextSpend ==
  ASSUME IInv, IInv', MonthInv, SpendInv, [Next]_vars
  PROVE  MonthInv' /\ SpendInv'
<1> USE DEF history, rows
<1>1. MonthInv'
  <2>1. CASE \E w \in Workers : Insert(w)
    BY <2>1 DEF Insert, MonthInv, IInv, TypeOK
  <2>2. CASE NextMonth
    BY <2>2 DEF NextMonth, MonthInv, IInv, TypeOK
  <2>3. CASE UNCHANGED <<created, month>>
    BY <2>3 DEF MonthInv
  <2>4. ASSUME NEW w \in Workers, Step(w), ~Insert(w) PROVE UNCHANGED <<created, month>>
    BY <2>4 DEF Step, ReadBalance, ClaimPrice, Debit, VoidRead, VoidClaim, Refund, CreditClaim, Increment, Stop
  <2>5. ASSUME NEW w \in Workers, NEW r \in Runs, Admit(w, r) \/ PriceRun(w, r)
        PROVE  UNCHANGED <<created, month>>
    BY <2>5 DEF Admit, PriceRun
  <2>6. ASSUME NEW w \in Workers, NEW s \in Sessions, DeliverTopUp(w, s) PROVE UNCHANGED <<created, month>>
    BY <2>6 DEF DeliverTopUp
  <2>7. CASE (\E r \in Runs : End(r)) \/ UNCHANGED vars
    BY <2>3, <2>7 DEF End, vars
  <2> QED BY <2>1, <2>2, <2>3, <2>4, <2>5, <2>6, <2>7 DEF Next
<1>2. ASSUME NEW w \in Workers, Step(w) PROVE SpendInv'
  <2>1. CASE ReadBalance(w)
    BY <2>1, ReadBalanceSpend
  <2>2. CASE ClaimPrice(w)
    BY <2>2, ClaimSpend
  <2>3. CASE VoidClaim(w)
    BY <2>3, VoidSpend
  <2>4. CASE Insert(w) \/ Debit(w) \/ VoidRead(w) \/ Refund(w) \/ CreditClaim(w) \/ Increment(w) \/ Stop(w)
    <3>1. UNCHANGED <<price, part, planSpent, month>>
      BY <2>4 DEF Insert, Debit, VoidRead, Refund, CreditClaim, Increment, Stop
    <3>2. PICK c, j : Goto(w, c, j) /\ c # "claim"
      <4>1. CASE Debit(w)
        BY <4>1, AfterPricingMove DEF Debit
      <4>2. CASE ~Debit(w)
        BY <2>4, <4>2 DEF Insert, VoidRead, Refund, CreditClaim, Increment, Stop, Return
      <4> QED BY <4>1, <4>2
    <3>3. Alone(w) /\ at'[w] # "claim"
      BY <3>2, GotoAlone
    <3> QED BY <3>1, <3>3, QuietSpend
  <2> QED BY <1>2, <2>1, <2>2, <2>3, <2>4 DEF Step
<1>3. ASSUME NEW w \in Workers, NEW r \in Runs, Admit(w, r) \/ PriceRun(w, r) PROVE SpendInv'
  <2>1. PICK c, j : c \in {"insert", "balance", "voidRead"} /\ Goto(w, c, j)
    BY <1>3 DEF Admit, PriceRun
  <2>2. Alone(w) /\ at'[w] # "claim"
    BY <2>1, GotoAlone
  <2> QED BY <1>3, <2>2, QuietSpend DEF Admit, PriceRun
<1>4. ASSUME NEW w \in Workers, NEW s \in Sessions, DeliverTopUp(w, s) PROVE SpendInv'
  <2>1. PICK j : Goto(w, "creditClaim", j)
    BY <1>4 DEF DeliverTopUp
  <2>2. Alone(w) /\ at'[w] # "claim"
    BY <2>1, GotoAlone
  <2> QED BY <1>4, <2>2, QuietSpend DEF DeliverTopUp
<1>5. CASE (\E r \in Runs : End(r)) \/ NextMonth \/ UNCHANGED vars
  <2>1. UNCHANGED <<price, part, planSpent, at, job>>
    BY <1>5 DEF End, NextMonth, vars
  <2>2. OneWindow' => OneWindow
    <3>1. month' = month \/ month' = month + 1
      BY <1>5 DEF End, NextMonth, vars
    <3> QED BY <3>1 DEF OneWindow, IInv, TypeOK
  <2>3. PlanPart' = PlanPart /\ ClaimPart' = ClaimPart /\ Carries("claim")' = Carries("claim")
    BY <2>1 DEF PlanPart, PricedAt, ClaimPart, Carries
  <2>4. /\ Total(PlanPart, Runs)' = Total(PlanPart, Runs)
        /\ Total(ClaimPart, Carries("claim"))' = Total(ClaimPart, Carries("claim"))
    BY <2>3 DEF Total, Units
  <2> QED BY <1>1, <2>1, <2>2, <2>3, <2>4 DEF SpendInv
<1> QED BY <1>1, <1>2, <1>3, <1>4, <1>5 DEF Next

(* A pricing that no other one overtook still finds the credit it was given: *)
(* what is spent stays within the credit once, and once more for each that   *)
(* was overtaken and claimed.                                                *)
OvertakenInv == OneWindow =>
  /\ planSpent[0] <= Credit * (1 + Cardinality(Overtaken))
  /\ \A v \in Carries("claim") : job[v].run \notin overtaken /\ Unpriced(job[v].run) =>
       ClaimPart[v] = 0 \/ planSpent[0] + ClaimPart[v] <= Credit

(* The overtaken pricings can be counted.                                    *)
LEMMA OvertakenCount ==
  ASSUME IInv
  PROVE  IsFiniteSet(Overtaken) /\ Cardinality(Overtaken) \in Nat /\ planSpent[0] \in Int
<1>1. Overtaken \in SUBSET Runs
  BY DEF IInv, TypeOK, Overtaken
<1>2. IsFiniteSet(Overtaken)
  BY <1>1, BalanceAssumption, FS_Subset
<1> QED BY <1>2, BalanceAssumption, FS_CardinalityType DEF IInv, TypeOK

(* Without a price written or a balance read, nothing changes.               *)
LEMMA QuietOvertaken ==
  ASSUME OvertakenInv, UNCHANGED <<price, planSpent, overtaken>>, OneWindow' => OneWindow,
         \A v \in Carries("claim")' : v \in Carries("claim") /\ job'[v] = job[v]
  PROVE  OvertakenInv'
<1>1. Overtaken' = Overtaken
  BY DEF Overtaken, Unpriced
<1>2. \A v \in Carries("claim")' : ClaimPart'[v] = ClaimPart[v]
  BY DEF ClaimPart, Carries
<1>3. \A v \in Carries("claim")' : Unpriced(job[v].run)' = Unpriced(job[v].run)
  BY DEF Unpriced
<1> QED BY <1>1, <1>2, <1>3 DEF OvertakenInv

(* The balance just read is that of the rows.                                *)
LEMMA ReadBalanceOvertaken ==
  ASSUME IInv, IInv', MonthInv, OvertakenInv, NEW w \in Workers, ReadBalance(w)
  PROVE  OvertakenInv'
<1> DEFINE j == [job[w] EXCEPT !.part = SplitPrice(job[w].price, Credit - PlanSpent)]
           spent == planSpent[0]
<1>1. /\ at[w] = "balance" /\ UNCHANGED <<price, planSpent, overtaken, month>>
      /\ Goto(w, "claim", j)
  BY DEF ReadBalance, rows, history
<1>2. Alone(w) /\ at'[w] = "claim" /\ job'[w] = j
  BY <1>1, GotoAlone
<1> SUFFICES ASSUME OneWindow PROVE OvertakenInv'
  BY <1>1 DEF OvertakenInv, OneWindow
<1>3. Overtaken' = Overtaken
  BY <1>1 DEF Overtaken, Unpriced
<1>4. ClaimPart'[w] = 0 \/ spent + ClaimPart'[w] <= Credit
  <2>1. job[w] \in Job /\ job[w].price \in Nat
    BY <1>1 DEF IInv, TypeOK, JobOK
  <2>2. j.price = job[w].price /\ j.part = SplitPrice(job[w].price, Credit - PlanSpent)
    BY <2>1 DEF Job
  <2>3. PlanSpent = spent /\ spent \in Int
    BY WindowZero, OvertakenCount
  <2>4. ClaimPart'[w] = job[w].price - SplitPrice(job[w].price, Credit - spent)
    BY <1>2, <2>2, <2>3 DEF ClaimPart
  <2> HIDE DEF spent
  <2> QED BY <2>1, <2>3, <2>4, BalanceAssumption DEF SplitPrice, NonNegative
<1>5. ASSUME NEW v \in Carries("claim")', v # w
      PROVE  v \in Carries("claim") /\ job'[v] = job[v] /\ ClaimPart'[v] = ClaimPart[v]
  BY <1>2, <1>5 DEF Carries, Alone, ClaimPart
<1>6. \A q \in Runs : Unpriced(q)' = Unpriced(q)
  BY <1>1 DEF Unpriced
<1>7. \A v \in Carries("claim")' : job'[v].run \in Runs
  BY DEF Carries, IInv, TypeOK, JobOK, OnRun
<1> QED BY <1>1, <1>3, <1>4, <1>5, <1>6, <1>7 DEF OvertakenInv

(* A price written overtakes every pricing still on its way; it spends the   *)
(* credit again only where it was overtaken itself.                          *)
LEMMA ClaimOvertaken ==
  ASSUME IInv, IInv', MonthInv, SpendInv, OvertakenInv, NEW w \in Workers, ClaimPrice(w)
  PROVE  OvertakenInv'
<1>0. PICK r \in Runs : r = job[w].run
  BY DEF ClaimPrice, IInv, TypeOK, JobOK, OnRun
<1>1. at[w] = "claim" /\ UNCHANGED month
  BY DEF ClaimPrice
<1>2. /\ job[w].price \in Nat /\ job[w].part \in Nat /\ job[w].part <= job[w].price
  BY <1>1 DEF IInv, TypeOK, JobOK, ClaimInv, Job
<1>3. PICK c \in {"debit", "voidRead", "idle"}, j \in Job : Goto(w, c, j)
  <2>1. CASE AfterPricing(w)
    BY <1>1, <2>1, AfterPricingMove
  <2>2. CASE Goto(w, "debit", job[w])
    BY <2>2 DEF IInv, TypeOK
  <2> QED BY <2>1, <2>2 DEF ClaimPrice
<1>4. Alone(w) /\ at'[w] # "claim"
  BY <1>3, GotoAlone
<1>5. \A v \in Carries("claim")' : v # w /\ v \in Carries("claim") /\ job'[v] = job[v]
  BY <1>4 DEF Carries, Alone
<1>6. CASE ~Unpriced(r)
  <2>1. UNCHANGED <<price, planSpent, overtaken>>
    BY <1>0, <1>6 DEF ClaimPrice
  <2> QED BY <1>1, <1>5, <2>1, QuietOvertaken DEF OneWindow
<1>7. CASE Unpriced(r)
  <2> DEFINE share == job[w].price - job[w].part
             n == Cardinality(Overtaken)
             spent == planSpent[0]
  <2> SUFFICES ASSUME OneWindow PROVE OvertakenInv'
    BY <1>1 DEF OvertakenInv, OneWindow
  <2>1. /\ price' = [price EXCEPT ![r] = job[w].price]
        /\ planSpent' = [planSpent EXCEPT ![WindowOf(r)] = @ + job[w].price - job[w].part]
        /\ overtaken' = overtaken \union Overtakes(r)
    BY <1>0, <1>7 DEF ClaimPrice
  <2>2. ~Unpriced(r)' /\ \A q \in Runs \ {r} : Unpriced(q)' = Unpriced(q)
    BY <1>2, <2>1 DEF Unpriced, NoPrice, IInv, TypeOK
  <2>3. planSpent'[0] = spent + share
    <3>1. WindowOf(r) = 0 /\ 0 \in 0..LastMonth
      BY WindowZero, BalanceAssumption
    <3> QED BY <1>2, <2>1, <3>1 DEF IInv, TypeOK
  <2>4. share \in Nat /\ share <= Credit /\ spent \in Int /\ n \in Nat /\ Credit \in Nat
    <3>1. w \in Carries("claim")
      BY <1>1 DEF Carries
    <3>2. ClaimPart[w] = share
      BY DEF ClaimPart
    <3>3. share <= Credit
      BY <3>1, <3>2 DEF SpendInv
    <3> QED BY <1>2, <3>3, OvertakenCount, BalanceAssumption
  <2>5. spent <= Credit * (1 + n)
    BY DEF OvertakenInv
  <2>6. planSpent'[0] <= Credit * (1 + Cardinality(Overtaken)')
    <3>1. CASE r \in overtaken
      <4>1. Overtaken' = Overtaken \union {r} /\ r \notin Overtaken
        <5>1. \A q : q \in Overtaken' <=> q \in overtaken' /\ ~Unpriced(q)'
          BY DEF Overtaken
        <5>2. \A q : q \in Overtaken <=> q \in overtaken /\ ~Unpriced(q)
          BY DEF Overtaken
        <5>3. \A q \in Overtakes(r) : q \in Runs \ {r} /\ Unpriced(q)
          BY DEF Overtakes
        <5>4. overtaken \subseteq Runs
          BY DEF IInv, TypeOK
        <5> QED BY <1>7, <2>1, <2>2, <3>1, <5>1, <5>2, <5>3, <5>4, Zenon
      <4>2. Cardinality(Overtaken)' = n + 1
        BY <4>1, OvertakenCount, FS_AddElement
      <4> HIDE DEF share, spent, n
      <4>3. Credit * (1 + (n + 1)) = Credit * (1 + n) + Credit
        BY <2>4
      <4>4. Credit * (1 + n) \in Int
        BY <2>4
      <4> QED BY <2>3, <2>4, <2>5, <4>2, <4>3, <4>4
    <3>2. CASE r \notin overtaken
      <4>1. Overtaken' = Overtaken
        BY <1>7, <2>1, <2>2, <3>2 DEF Overtaken, Overtakes, IInv, TypeOK
      <4>2. share = 0 \/ spent + share <= Credit
        <5>1. w \in Carries("claim") /\ ClaimPart[w] = share
          BY <1>1 DEF Carries, ClaimPart
        <5> QED BY <1>0, <1>7, <3>2, <5>1 DEF OvertakenInv
      <4> HIDE DEF share, spent, n
      <4>3. Credit <= Credit * (1 + n) /\ Credit * (1 + n) \in Int
        <5>1. Credit * (1 + n) = Credit + Credit * n /\ Credit * n \in Nat
          BY <2>4
        <5> QED BY <2>4, <5>1
      <4>4. spent + share <= Credit * (1 + n)
        BY <2>4, <2>5, <4>2, <4>3
      <4> QED BY <2>3, <4>1, <4>4 DEF n
    <3> QED BY <3>1, <3>2
  <2>7. ASSUME NEW v \in Carries("claim")', job'[v].run \notin overtaken', Unpriced(job[v].run)'
        PROVE  FALSE
    <3>1. v \in Carries("claim") /\ job'[v] = job[v] /\ v \in Workers /\ at[v] = "claim"
      BY <1>5, <2>7 DEF Carries
    <3>2. job[v].run \in Runs
      BY <3>1 DEF IInv, TypeOK, JobOK, OnRun
    <3>3. job[v].run # r /\ Unpriced(job[v].run)
      BY <2>2, <2>7, <3>1, <3>2
    <3>4. job[v].run \in Overtakes(r)
      BY <3>1, <3>2, <3>3 DEF Overtakes
    <3> QED BY <2>1, <2>7, <3>1, <3>4
  <2> QED BY <2>6, <2>7 DEF OvertakenInv
<1> QED BY <1>6, <1>7

(* A give-back only lowers what is spent.                                    *)
LEMMA VoidOvertaken ==
  ASSUME IInv, IInv', MonthInv, OvertakenInv, NEW w \in Workers, VoidClaim(w)
  PROVE  OvertakenInv'
<1>0. PICK r \in Runs : r = job[w].run
  BY DEF VoidClaim, IInv, TypeOK, JobOK, OnRun
<1>1. at[w] = "voidClaim" /\ UNCHANGED <<month, overtaken>>
  BY DEF VoidClaim
<1>2. PICK c, j : c \in {"refund", "idle"} /\ Goto(w, c, j)
  BY DEF VoidClaim, Return
<1>3. Alone(w) /\ at'[w] # "claim"
  BY <1>2, GotoAlone
<1>4. \A v \in Carries("claim")' : v # w /\ v \in Carries("claim") /\ job'[v] = job[v]
  BY <1>3 DEF Carries, Alone
<1>5. CASE ~AsRead(w)
  <2>1. UNCHANGED <<price, planSpent>>
    BY <1>5 DEF VoidClaim
  <2> QED BY <1>1, <1>4, <2>1, QuietOvertaken DEF OneWindow
<1>6. CASE AsRead(w)
  <2> DEFINE d == PricedAt(r) - part[r]
  <2> SUFFICES ASSUME OneWindow PROVE OvertakenInv'
    BY <1>1 DEF OvertakenInv, OneWindow
  <2>1. /\ price' = [price EXCEPT ![r] = 0]
        /\ planSpent' = [planSpent EXCEPT ![WindowOf(r)] = @ - (PricedAt(r) - part[r])]
    BY <1>0, <1>6 DEF VoidClaim
  <2>2. d \in Nat
    BY PlanPartType
  <2>3. planSpent'[0] = planSpent[0] - d
    <3>1. WindowOf(r) = 0 /\ 0 \in 0..LastMonth
      BY WindowZero, BalanceAssumption
    <3> QED BY <2>1, <3>1 DEF IInv, TypeOK
  <2>4. \A q \in Runs : Unpriced(q)' => Unpriced(q)
    BY <2>1 DEF Unpriced, NoPrice, IInv, TypeOK
  <2>5. Overtaken \subseteq Overtaken' /\ Overtaken' \in SUBSET Runs
    BY <1>1, <2>4 DEF Overtaken, IInv, TypeOK
  <2>6. /\ Cardinality(Overtaken)' \in Nat /\ Cardinality(Overtaken) \in Nat
        /\ Cardinality(Overtaken) <= Cardinality(Overtaken)'
    <3>1. IsFiniteSet(Overtaken')
      BY <2>5, BalanceAssumption, FS_Subset
    <3> QED BY <2>5, <3>1, OvertakenCount, FS_Subset, FS_CardinalityType
  <2>7. planSpent[0] \in Int /\ planSpent'[0] <= planSpent[0]
    BY <2>2, <2>3, OvertakenCount
  <2>8. planSpent'[0] \in Int /\ Credit \in Nat
    BY <2>2, <2>3, <2>7, BalanceAssumption
  <2>9. planSpent'[0] <= Credit * (1 + Cardinality(Overtaken)')
    <3>1. planSpent[0] <= Credit * (1 + Cardinality(Overtaken))
      BY DEF OvertakenInv
    <3>2. \A x, y \in Nat : x <= y => /\ Credit * (1 + x) <= Credit * (1 + y)
                                     /\ Credit * (1 + x) \in Int /\ Credit * (1 + y) \in Int
      <4>1. SUFFICES ASSUME NEW x \in Nat, NEW y \in Nat, x <= y
                     PROVE  /\ Credit * (1 + x) <= Credit * (1 + y)
                            /\ Credit * (1 + x) \in Int /\ Credit * (1 + y) \in Int
        OBVIOUS
      <4>2. /\ Credit * (1 + y) = Credit * (1 + x) + Credit * (y - x)
            /\ y - x \in Nat /\ Credit * (y - x) \in Nat /\ Credit * (1 + x) \in Nat
        BY <2>8, <4>1
      <4> QED BY <4>2
    <3> QED BY <2>6, <2>7, <2>8, <3>1, <3>2
  <2>10. ASSUME NEW v \in Carries("claim")', job'[v].run \notin overtaken', Unpriced(job[v].run)'
         PROVE  ClaimPart'[v] = 0 \/ planSpent'[0] + ClaimPart'[v] <= Credit
    <3>1. v \in Carries("claim") /\ job'[v] = job[v] /\ v \in Workers /\ ClaimPart'[v] = ClaimPart[v]
      BY <1>4, <2>10 DEF Carries, ClaimPart
    <3>2. job[v].run \in Runs
      BY <3>1 DEF Carries, IInv, TypeOK, JobOK, OnRun
    <3>3. ClaimPart[v] = 0 \/ planSpent[0] + ClaimPart[v] <= Credit
      BY <1>1, <2>4, <2>10, <3>1, <3>2 DEF OvertakenInv
    <3>4. ClaimPart[v] \in Int
      BY <3>1, JobAmounts
    <3> QED BY <2>7, <2>8, <3>1, <3>3, <3>4
  <2> QED BY <2>9, <2>10 DEF OvertakenInv
<1> QED BY <1>5, <1>6

(* Every step keeps the count of the overtaken.                              *)
LEMMA NextOvertaken ==
  ASSUME IInv, IInv', MonthInv, SpendInv, OvertakenInv, [Next]_vars
  PROVE  OvertakenInv'
<1> USE DEF history, rows
<1>1. ASSUME NEW w \in Workers, Step(w) PROVE OvertakenInv'
  <2>1. CASE ReadBalance(w)
    BY <2>1, ReadBalanceOvertaken
  <2>2. CASE ClaimPrice(w)
    BY <2>2, ClaimOvertaken
  <2>3. CASE VoidClaim(w)
    BY <2>3, VoidOvertaken
  <2>4. CASE Insert(w) \/ Debit(w) \/ VoidRead(w) \/ Refund(w) \/ CreditClaim(w) \/ Increment(w) \/ Stop(w)
    <3>1. UNCHANGED <<price, planSpent, overtaken, month>>
      BY <2>4 DEF Insert, Debit, VoidRead, Refund, CreditClaim, Increment, Stop
    <3>2. PICK c, j : Goto(w, c, j) /\ c # "claim"
      <4>1. CASE Debit(w)
        BY <4>1, AfterPricingMove DEF Debit
      <4>2. CASE ~Debit(w)
        BY <2>4, <4>2 DEF Insert, VoidRead, Refund, CreditClaim, Increment, Stop, Return
      <4> QED BY <4>1, <4>2
    <3>3. Alone(w) /\ at'[w] # "claim"
      BY <3>2, GotoAlone
    <3>4. \A v \in Carries("claim")' : v \in Carries("claim") /\ job'[v] = job[v]
      BY <3>3 DEF Carries, Alone
    <3> QED BY <3>1, <3>4, QuietOvertaken DEF OneWindow
  <2> QED BY <1>1, <2>1, <2>2, <2>3, <2>4 DEF Step
<1>2. ASSUME NEW w \in Workers,
             (\E r \in Runs : Admit(w, r) \/ PriceRun(w, r)) \/ \E s \in Sessions : DeliverTopUp(w, s)
      PROVE  OvertakenInv'
  <2>1. PICK c, j : c # "claim" /\ Goto(w, c, j)
    <3>1. ASSUME NEW r \in Runs, Admit(w, r) PROVE \E c, j : c # "claim" /\ Goto(w, c, j)
      BY <3>1 DEF Admit
    <3>2. ASSUME NEW r \in Runs, PriceRun(w, r) PROVE \E c, j : c # "claim" /\ Goto(w, c, j)
      BY <3>2 DEF PriceRun
    <3>3. ASSUME NEW s \in Sessions, DeliverTopUp(w, s) PROVE \E c, j : c # "claim" /\ Goto(w, c, j)
      BY <3>3 DEF DeliverTopUp
    <3> QED BY <1>2, <3>1, <3>2, <3>3
  <2>2. Alone(w) /\ at'[w] # "claim"
    BY <2>1, GotoAlone
  <2>3. \A v \in Carries("claim")' : v \in Carries("claim") /\ job'[v] = job[v]
    BY <2>2 DEF Carries, Alone
  <2>4. UNCHANGED <<price, planSpent, overtaken, month>>
    BY <1>2 DEF Admit, PriceRun, DeliverTopUp
  <2> QED BY <2>3, <2>4, QuietOvertaken DEF OneWindow
<1>3. CASE (\E r \in Runs : End(r)) \/ NextMonth \/ UNCHANGED vars
  <2>1. UNCHANGED <<price, planSpent, overtaken, at, job>>
    BY <1>3 DEF End, NextMonth, vars
  <2>2. OneWindow' => OneWindow
    <3>1. month' = month \/ month' = month + 1
      BY <1>3 DEF End, NextMonth, vars
    <3> QED BY <3>1 DEF OneWindow, IInv, TypeOK
  <2>3. \A v \in Carries("claim")' : v \in Carries("claim") /\ job'[v] = job[v]
    BY <2>1 DEF Carries
  <2> QED BY <2>1, <2>2, <2>3, QuietOvertaken
<1> QED BY <1>1, <1>2, <1>3 DEF Next

(* All of it: the claims, and the sums of money and credit.                  *)
SumInv == IInv /\ MonthInv /\ SpendInv /\ BalanceMatchesRows /\ OvertakenInv

(* The strengthening with the sums holds in every reachable state.           *)
THEOREM SumsInductive == Spec => []SumInv
<1>1. Init => SumInv
  <2> SUFFICES ASSUME Init PROVE SumInv
    OBVIOUS
  <2>1. IInv
    BY InitIInv
  <2>2. MonthInv
    BY DEF Init, MonthInv
  <2>3. \A call : call # "idle" => Carries(call) = {}
    BY DEF Init, Carries
  <2>4. BalanceMatchesRows
    <3>1. /\ Total(JobPart, Carries("debit")) = 0 /\ Total(JobPart, Carries("refund")) = 0
          /\ Total(JobAmount, Carries("increment")) = 0
      BY <2>3, TotalEmpty
    <3> QED BY <3>1 DEF Init, BalanceMatchesRows
  <2>5. SpendInv
    <3>1. \A r \in Runs : PlanPart[r] = 0
      BY DEF Init, PlanPart, PricedAt
    <3>2. Total(PlanPart, Runs) = 0
      <4>1. Units(PlanPart, Runs) = {}
        BY <3>1 DEF Units
      <4> QED BY <4>1, FS_EmptySet DEF Total
    <3>3. Total(ClaimPart, Carries("claim")) = 0
      BY <2>3, TotalEmpty
    <3>4. planSpent[0] = 0
      BY BalanceAssumption DEF Init
    <3>5. Credit \in Nat /\ Cardinality(Workers) \in Nat
      BY BalanceAssumption, FS_CardinalityType
    <3>6. 0 <= Credit * Cardinality(Workers)
      BY <3>5
    <3> QED BY <2>3, <3>1, <3>2, <3>3, <3>4, <3>5, <3>6 DEF SpendInv
  <2>6. OvertakenInv
    <3>1. Overtaken = {} /\ planSpent[0] = 0 /\ Carries("claim") = {}
      BY <2>3, BalanceAssumption DEF Init, Overtaken
    <3>2. 0 <= Credit * (1 + 0)
      BY BalanceAssumption
    <3> QED BY <3>1, <3>2, FS_EmptySet DEF OvertakenInv
  <2> QED BY <2>1, <2>2, <2>4, <2>5, <2>6 DEF SumInv
<1>2. SumInv /\ [Next]_vars => SumInv'
  BY NextIInv, NextMatches, NextSpend, NextOvertaken DEF SumInv
<1> QED BY <1>1, <1>2, PTL DEF Spec

(* The bought balance is what the rows say, but for the movements on their   *)
(* way, whatever interleaves, as long as no worker stopped between the claim *)
(* of a movement and the movement itself.                                    *)
THEOREM BoughtMatchesRows == Spec => []BalanceMatchesRows
<1>1. SumInv => BalanceMatchesRows
  BY DEF SumInv
<1> QED BY <1>1, SumsInductive, PTL

(* However many checks are priced at the same moment, the plan's credit of   *)
(* one window is spent once, and once more at most for each check whose      *)
(* pricing another one overtook between its read and its claim               *)
(* (agent/pricing.ts, priceRun); never more often than there are workers or  *)
(* checks.                                                                   *)
THEOREM CreditOverspendBounded == Spec => []OverspendBounded
<1>1. ASSUME SumInv PROVE OverspendBounded
  <2> SUFFICES ASSUME OneWindow PROVE SpentIn(0) <= Credit * Pricings
    BY DEF OverspendBounded
  <2> DEFINE seen == {r \in Runs : status[r] # "none" /\ WindowOf(r) = Window(0)}
             C == Total(ClaimPart, Carries("claim"))
             T == Total(PlanPart, Runs)
             m == Cardinality(Runs)
             n == Cardinality(Workers)
             k == 1 + Cardinality(Overtaken)
  <2>1. \A r \in Runs : PlanPart[r] \in Nat /\ PlanPart[r] <= Credit
    BY <1>1, PlanPartType DEF SumInv, SpendInv
  <2>2. SpentIn(0) <= T /\ SpentIn(0) \in Nat /\ T \in Nat
    <3>1. seen \in SUBSET Runs
      OBVIOUS
    <3>2. IsFiniteSet(seen) /\ IsFiniteSet(Runs)
      BY <3>1, BalanceAssumption, FS_Subset
    <3> HIDE DEF seen
    <3>3. Total(PlanPart, seen) <= Total(PlanPart, Runs)
      BY <2>1, <3>1, <3>2, TotalSubset
    <3>4. Total(PlanPart, seen) \in Nat /\ Total(PlanPart, Runs) \in Nat
      BY <2>1, <3>1, <3>2, UnitsFinite
    <3> QED BY <3>3, <3>4 DEF SpentIn, seen
  <2>3. C \in Nat
    <3>1. Carries("claim") \in SUBSET Workers
      BY DEF Carries
    <3>2. IsFiniteSet(Carries("claim"))
      BY <3>1, BalanceAssumption, FS_Subset
    <3>3. \A w \in Carries("claim") : ClaimPart[w] \in Nat
      BY <1>1, JobAmounts DEF SumInv
    <3> QED BY <3>2, <3>3, UnitsFinite
  <2>4. m \in Nat /\ n \in Nat /\ Credit \in Nat
    BY BalanceAssumption, FS_CardinalityType
  <2>5. T <= m * Credit
    BY <2>1, BalanceAssumption, TotalWithin
  <2>6. T + C <= Credit * n
    BY <1>1 DEF SumInv, SpendInv
  <2>7. k \in Nat /\ T <= Credit * k
    BY <1>1, OvertakenCount DEF SumInv, OvertakenInv, SpendInv
  <2>8. Pricings \in {n, m, k}
    <3>1. \E x \in {n, m, k} : \A y \in {n, m, k} : x <= y
      <4>1. \A x, y \in {n, m, k} : x <= y \/ y <= x
        BY <2>4, <2>7
      <4>2. \A x, y, z \in {n, m, k} : x <= y /\ y <= z => x <= z
        BY <2>4, <2>7
      <4> QED BY <4>1, <4>2
    <3> QED BY <3>1 DEF Pricings, Min
  <2> HIDE DEF C, T, m, n, k
  <2>9. SpentIn(0) <= Credit * n /\ SpentIn(0) <= Credit * m /\ SpentIn(0) <= Credit * k
    <3>1. Credit * n \in Nat /\ Credit * m \in Nat /\ Credit * k \in Nat /\ m * Credit = Credit * m
      BY <2>4, <2>7
    <3> QED BY <2>2, <2>3, <2>5, <2>6, <2>7, <3>1
  <2> QED BY <2>8, <2>9
<1>2. SumInv => OverspendBounded
  BY <1>1
<1> QED BY <1>2, SumsInductive, PTL
=============================================================================
