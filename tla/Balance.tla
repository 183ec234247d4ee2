------------------------------- MODULE Balance ------------------------------
(* A team's dollar balance: the gate a check starts through (lib/plans.ts),  *)
(* the pricing of a finished check and the voiding of a failed one           *)
(* (agent/pricing.ts), and the crediting of a paid top-up (lib/topup.ts).    *)
(* D1 has no transactions, so every database call is a step of its own:      *)
(* workers interleave between any two calls, and a worker may stop between   *)
(* any two of them.  A Workflow step or a webhook that stopped is run again, *)
(* which the model allows at any time.                                       *)
EXTENDS Integers, FiniteSets, FiniteSetsExt

CONSTANTS
  Runs,       \* the team's checks
  Sessions,   \* Stripe checkout sessions that paid a top-up
  Workers,    \* step attempts, sweeps and webhook deliveries that run at once
  None,       \* no run, no session
  Credit,     \* PLAN_LIMITS[plan].creditUsd
  Lifetime,   \* the plan's window: TRUE on Free, FALSE for a UTC month
  Estimate,   \* estimateCheckPrice of the app
  Price,      \* Price[r]: priceForCost of what r cost
  Amount,     \* Amount[s]: what session s paid
  LastMonth,  \* bound: UTC months 0..LastMonth pass
  MaxStops    \* bound: workers that stop between two calls

ASSUME BalanceAssumption ==
  /\ IsFiniteSet(Runs) /\ IsFiniteSet(Workers)
  /\ Credit \in Nat
  /\ Lifetime \in BOOLEAN
  /\ Estimate \in Nat
  /\ Price \in [Runs -> Nat]
  /\ Amount \in [Sessions -> Nat]
  /\ LastMonth \in Nat
  /\ MaxStops \in Nat

VARIABLES
  status,   \* Run.status, as far as pricing reads it
  created,  \* the month of Run.createdAt
  price,    \* Run.priceUsd, NoPrice while null
  part,     \* Run.priceFromTopupUsd
  planSpent,\* per window: SUM(priceUsd) - SUM(priceFromTopupUsd) of its runs
  topup,    \* Team.topupUsd
  receipt,  \* the BalanceTopUp row of a session, and its `credited` column
  month,    \* the current UTC month
  at,       \* the call each worker makes next
  job,      \* what each worker carries from one call to the next
  stops     \* workers stopped so far

(* History: what the database writes add up to.                              *)
VARIABLES
  charged,  \* the part of r's price first written against the bought balance
  took,     \* what left the bought balance for r
  gave,     \* what came back to it for r
  moved,    \* how often session s moved it
  acked,    \* sessions Stripe has been answered 200 for
  ledger,   \* the bought balance the rows add up to
  overtaken \* runs whose pricing had read the balance when another was written

rows    == <<status, created, price, part, planSpent, topup, receipt>>
history == <<charged, took, gave, moved, acked, ledger, overtaken>>
vars    == <<rows, history, month, at, job, stops>>

NoPrice == -1
Ended == {"completed", "failed"}
Calls == {"idle", "insert", "balance", "claim", "debit", "voidRead", "voidClaim",
          "refund", "creditClaim", "increment"}
Job == [void : BOOLEAN, run : Runs \union {None}, session : Sessions \union {None},
        price : Nat \union {NoPrice}, part : Nat]
NoJob == [void |-> FALSE, run |-> None, session |-> None, price |-> NoPrice, part |-> 0]

Init == /\ status = [r \in Runs |-> "none"]
        /\ created = [r \in Runs |-> 0]
        /\ price = [r \in Runs |-> NoPrice]
        /\ part = [r \in Runs |-> 0]
        /\ planSpent = [m \in 0..LastMonth |-> 0]
        /\ topup = 0
        /\ receipt = [s \in Sessions |-> "none"]
        /\ month = 0
        /\ at = [w \in Workers |-> "idle"]
        /\ job = [w \in Workers |-> NoJob]
        /\ stops = 0
        /\ charged = [r \in Runs |-> 0]
        /\ took = [r \in Runs |-> 0]
        /\ gave = [r \in Runs |-> 0]
        /\ moved = [s \in Sessions |-> 0]
        /\ acked = {}
        /\ ledger = 0
        /\ overtaken = {}

-----------------------------------------------------------------------------
(* The balance, computed from the rows (teamBalance, balanceFrom).           *)

Window(m) == IF Lifetime THEN 0 ELSE m
WindowOf(r) == Window(created[r])
PricedAt(r) == IF price[r] = NoPrice THEN 0 ELSE price[r]
NothingSpent == 0
PlanSpent == planSpent[Window(month)]
NonNegative(n) == IF n < 0 THEN 0 ELSE n
TeamBalance == NonNegative(Credit - PlanSpent) + topup

(* balanceDecision: positive, and at least what a check usually costs.       *)
Admitted == TeamBalance > 0 /\ TeamBalance >= Estimate

SplitUnclamped(p, creditLeft) == p - NonNegative(creditLeft)

(* splitPrice: what the credit left in the window cannot cover.              *)
SplitPrice(p, creditLeft) == NonNegative(p - NonNegative(creditLeft))

-----------------------------------------------------------------------------
(* The conditions the updates are claimed on.                                *)
Dropped(x) == TRUE
Unpriced(r) == price[r] = NoPrice
AsRead(w) == price[job[w].run] = job[w].price /\ part[job[w].run] = job[w].part
Uncredited(s) == receipt[s] = "uncredited"

Goto(w, call, j) == at' = [at EXCEPT ![w] = call] /\ job' = [job EXCEPT ![w] = j]
Return(w) == Goto(w, "idle", NoJob)

(* Starting a check: the gate reads the balance, then the row is inserted.   *)
Admit(w, r) ==
  /\ at[w] = "idle" /\ status[r] = "none"
  /\ \A v \in Workers : at[v] = "insert" => job[v].run # r
  /\ Admitted
  /\ Goto(w, "insert", [NoJob EXCEPT !.run = r])
  /\ UNCHANGED <<rows, history, month, stops>>

Insert(w) ==
  /\ at[w] = "insert"
  /\ status' = [status EXCEPT ![job[w].run] = "live"]
  /\ created' = [created EXCEPT ![job[w].run] = month]
  /\ Return(w)
  /\ UNCHANGED <<price, part, planSpent, topup, receipt, history, month, stops>>

(* The run ends.  A run the orphan sweep ended may still be completed by the *)
(* workflow that was running it, whose status writes are unconditional.      *)
End(r) ==
  /\ \/ status[r] = "live" /\ status' \in {[status EXCEPT ![r] = s] : s \in Ended}
     \/ status[r] = "failed" /\ status' = [status EXCEPT ![r] = "completed"]
  /\ UNCHANGED <<created, price, part, planSpent, topup, receipt, history, month, at, job, stops>>

(* priceRun: read the row; nothing to do when it is priced.  Called alone    *)
(* for a finished run, and before voidRunPrice for a failed one.             *)
PriceRun(w, r) ==
  /\ at[w] = "idle" /\ status[r] \in Ended
  /\ LET j == [NoJob EXCEPT !.void = (status[r] = "failed"), !.run = r]
     IN \/ /\ Unpriced(r)
           /\ Goto(w, "balance", [j EXCEPT !.price = IF status[r] = "failed" THEN 0 ELSE Price[r]])
        \/ ~Unpriced(r) /\ j.void /\ Goto(w, "voidRead", j)
  /\ UNCHANGED <<rows, history, month, stops>>

(* ... the balance, and how the price splits against the credit left ...     *)
ReadBalance(w) ==
  /\ at[w] = "balance"
  /\ Goto(w, "claim", [job[w] EXCEPT !.part = SplitPrice(job[w].price, Credit - PlanSpent)])
  /\ UNCHANGED <<rows, history, month, stops>>

(* What follows priceRun in its caller.                                      *)
AfterPricing(w) == IF job[w].void
                     THEN Goto(w, "voidRead", [NoJob EXCEPT !.void = TRUE, !.run = job[w].run])
                     ELSE Return(w)

(* The runs that are about to be priced by what their reader saw before r's  *)
(* price was there.                                                          *)
Overtakes(r) == {q \in Runs \ {r} : Unpriced(q) /\ \E v \in Workers : at[v] = "claim" /\ job[v].run = q}

(* ... the claim: written onto a row that has no price, by one caller ...    *)
ClaimPrice(w) ==
  LET r == job[w].run IN
  /\ at[w] = "claim"
  /\ \/ /\ Unpriced(r)
        /\ price' = [price EXCEPT ![r] = job[w].price]
        /\ part' = [part EXCEPT ![r] = job[w].part]
        /\ planSpent' = [planSpent EXCEPT ![WindowOf(r)] = @ + job[w].price - job[w].part]
        /\ charged' = [charged EXCEPT ![r] = job[w].part]
        /\ ledger' = ledger - job[w].part
        /\ overtaken' = overtaken \union Overtakes(r)
        /\ IF job[w].part > 0 THEN Goto(w, "debit", job[w]) ELSE AfterPricing(w)
     \/ /\ ~Unpriced(r)
        /\ AfterPricing(w)
        /\ UNCHANGED <<price, part, planSpent, charged, ledger, overtaken>>
  /\ UNCHANGED <<status, created, topup, receipt, took, gave, moved, acked, month, stops>>

(* ... and the bought balance's share, a write of its own.                   *)
Debit(w) ==
  /\ at[w] = "debit"
  /\ topup' = topup - job[w].part
  /\ took' = [took EXCEPT ![job[w].run] = @ + job[w].part]
  /\ AfterPricing(w)
  /\ UNCHANGED <<status, created, price, part, planSpent, receipt, charged, gave, moved, acked, ledger, overtaken, month, stops>>

(* voidRunPrice: read, claim on the exact values read, give back.            *)
VoidRead(w) ==
  LET r == job[w].run IN
  /\ at[w] = "voidRead"
  /\ IF price[r] = 0
       THEN Return(w)
       ELSE Goto(w, "voidClaim", [job[w] EXCEPT !.price = price[r], !.part = part[r]])
  /\ UNCHANGED <<rows, history, month, stops>>

VoidClaim(w) ==
  LET r == job[w].run IN
  /\ at[w] = "voidClaim"
  /\ \/ /\ AsRead(w)
        /\ price' = [price EXCEPT ![r] = 0]
        /\ part' = [part EXCEPT ![r] = 0]
        /\ planSpent' = [planSpent EXCEPT ![WindowOf(r)] = @ - (PricedAt(r) - part[r])]
        /\ ledger' = ledger + job[w].part
        /\ IF job[w].part > 0 THEN Goto(w, "refund", job[w]) ELSE Return(w)
     \/ /\ ~AsRead(w)
        /\ Return(w)
        /\ UNCHANGED <<price, part, planSpent, ledger>>
  /\ UNCHANGED <<status, created, topup, receipt, charged, took, gave, moved, acked, overtaken, month, stops>>

RefundPrice(w) ==
  /\ at[w] = "refund"
  /\ topup' = topup + job[w].price
  /\ gave' = [gave EXCEPT ![job[w].run] = @ + job[w].price]
  /\ Return(w)
  /\ UNCHANGED <<status, created, price, part, planSpent, receipt, charged, took, moved, acked, ledger, overtaken, month, stops>>

Refund(w) ==
  /\ at[w] = "refund"
  /\ topup' = topup + job[w].part
  /\ gave' = [gave EXCEPT ![job[w].run] = @ + job[w].part]
  /\ Return(w)
  /\ UNCHANGED <<status, created, price, part, planSpent, receipt, charged, took, moved, acked, ledger, overtaken, month, stops>>

(* creditTopUp, once per delivery of the session's webhook.  The lookup and  *)
(* the insert of the receipt leave one row whatever happens between them: a  *)
(* unique-key violation is swallowed.                                        *)
DeliverTopUp(w, s) ==
  /\ at[w] = "idle"
  /\ receipt' = IF receipt[s] = "none" THEN [receipt EXCEPT ![s] = "uncredited"] ELSE receipt
  /\ Goto(w, "creditClaim", [NoJob EXCEPT !.session = s])
  /\ UNCHANGED <<status, created, price, part, planSpent, topup, history, month, stops>>

CreditClaim(w) ==
  LET s == job[w].session IN
  /\ at[w] = "creditClaim"
  /\ \/ /\ Uncredited(s)
        /\ receipt' = [receipt EXCEPT ![s] = "credited"]
        /\ ledger' = ledger + Amount[s]
        /\ Goto(w, "increment", job[w])
        /\ UNCHANGED acked
     \/ /\ ~Uncredited(s)
        /\ Return(w)
        /\ acked' = acked \union {s}
        /\ UNCHANGED <<receipt, ledger>>
  /\ UNCHANGED <<status, created, price, part, planSpent, topup, charged, took, gave, moved, overtaken, month, stops>>

Increment(w) ==
  LET s == job[w].session IN
  /\ at[w] = "increment"
  /\ topup' = topup + Amount[s]
  /\ moved' = [moved EXCEPT ![s] = @ + 1]
  /\ acked' = acked \union {s}
  /\ Return(w)
  /\ UNCHANGED <<status, created, price, part, planSpent, receipt, charged, took, gave, ledger, overtaken, month, stops>>

(* The worker is gone, or its next call threw.                               *)
Stop(w) ==
  /\ at[w] # "idle" /\ stops < MaxStops
  /\ stops' = stops + 1
  /\ Return(w)
  /\ UNCHANGED <<rows, history, month>>

NextMonth ==
  /\ month < LastMonth
  /\ month' = month + 1
  /\ UNCHANGED <<rows, history, at, job, stops>>

Step(w) == \/ Insert(w) \/ ReadBalance(w) \/ ClaimPrice(w) \/ Debit(w)
           \/ VoidRead(w) \/ VoidClaim(w) \/ Refund(w)
           \/ CreditClaim(w) \/ Increment(w) \/ Stop(w)

Next == \/ \E w \in Workers : \/ Step(w)
                              \/ \E r \in Runs : Admit(w, r) \/ PriceRun(w, r)
                              \/ \E s \in Sessions : DeliverTopUp(w, s)
        \/ \E r \in Runs : End(r)
        \/ NextMonth

Spec == Init /\ [][Next]_vars

-----------------------------------------------------------------------------
(* A worker carries what its next call needs.                                *)
OnRun == {"insert", "balance", "claim", "debit", "voidRead", "voidClaim", "refund"}
OnSession == {"creditClaim", "increment"}
JobOK == \A w \in Workers :
  /\ at[w] \in OnRun => job[w].run \in Runs
  /\ at[w] \in OnSession => job[w].session \in Sessions
  /\ at[w] \in {"balance", "claim"} => job[w].price \in Nat

(* Every variable holds a value of its column.                               *)
TypeOK ==
  /\ status \in [Runs -> {"none", "live"} \union Ended]
  /\ created \in [Runs -> 0..LastMonth]
  /\ price \in [Runs -> Nat \union {NoPrice}]
  /\ part \in [Runs -> Nat]
  /\ planSpent \in [0..LastMonth -> Int]
  /\ topup \in Int
  /\ receipt \in [Sessions -> {"none", "uncredited", "credited"}]
  /\ month \in 0..LastMonth
  /\ at \in [Workers -> Calls]
  /\ job \in [Workers -> Job]
  /\ stops \in Nat
  /\ charged \in [Runs -> Nat]
  /\ took \in [Runs -> Nat]
  /\ gave \in [Runs -> Nat]
  /\ moved \in [Sessions -> Nat]
  /\ acked \subseteq Sessions
  /\ ledger \in Int
  /\ overtaken \subseteq Runs
  /\ JobOK

(* However many workers price a run, retry it or void it, the bought balance *)
(* is charged for it at most once, and given back at most that once.         *)
TakenOnce == \A r \in Runs : took[r] \in {0, charged[r]} /\ gave[r] \in {0, charged[r]}

(* However often Stripe delivers a session, it moves the balance at most     *)
(* once (webhooks/stripe/route.ts, creditTopUp).                             *)
CreditedOnce == \A s \in Sessions : moved[s] <= 1

(* A price, once written, only ever becomes 0, and a run priced 0 stays free *)
(* (pricing.ts: the claim on null, the claim on the values read).            *)
PriceIsFinal == [][\A r \in Runs : price[r] # NoPrice =>
                     \/ price'[r] = price[r] /\ part'[r] = part[r]
                     \/ price'[r] = 0 /\ part'[r] = 0]_vars

(* An answer of 200 ends Stripe's retries: an acknowledged top-up is on the  *)
(* balance, or its worker is about to put it there (topup.ts:12-13).         *)
AckedIsCredited ==
  \A s \in acked : \/ moved[s] > 0
                   \/ \E w \in Workers : at[w] = "increment" /\ job[w].session = s

(* The sum of amount[x] over S, none of them negative: S has amount[x] units *)
(* of money for each x.                                                      *)
Units(amount, S) == UNION {{x} \X (1..amount[x]) : x \in S}
Total(amount, S) == Cardinality(Units(amount, S))

(* The plan's credit covers what it can and the bought balance the rest      *)
(* (plans.ts:266, 454-456).  Checks priced at the same moment can each be    *)
(* given the same credit: within one window the credit is spent once, and    *)
(* once more at most for each check whose pricing another one overtook       *)
(* between its read of the balance and its claim; in all, no more often than *)
(* there are workers, or checks.                                             *)
PlanPart == [r \in Runs |-> PricedAt(r) - part[r]]
SpentIn(m) == Total(PlanPart, {r \in Runs : status[r] # "none" /\ WindowOf(r) = Window(m)})
Overtaken == {r \in overtaken : ~Unpriced(r)}
Pricings == Min({Cardinality(Workers), Cardinality(Runs), 1 + Cardinality(Overtaken)})
OneWindow == Lifetime \/ month = 0
OverspendBounded == OneWindow => SpentIn(0) <= Credit * Pricings

(* Until a worker stops between two writes, the bought balance is what the   *)
(* rows say, but for the movements that are claimed and on their way.        *)
Carries(call) == {w \in Workers : at[w] = call}
JobPart   == [w \in Workers |-> job[w].part]
JobAmount == [w \in Workers |-> Amount[job[w].session]]
BalanceMatchesRows ==
  stops = 0 =>
    topup = ledger + Total(JobPart, Carries("debit"))
                   - Total(JobPart, Carries("refund"))
                   - Total(JobAmount, Carries("increment"))

(* The rows themselves keep the promises of Ledger, stops included.          *)
L == INSTANCE Ledger WITH credited <- {s \in Sessions : receipt[s] = "credited"},
                          bought <- ledger
LedgerSpec == L!Spec
=============================================================================
