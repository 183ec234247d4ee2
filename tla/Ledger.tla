------------------------------- MODULE Ledger -------------------------------
(* What a team's balance promises: every check is charged once, a charge is  *)
(* given back at most once and in full, every paid top-up is credited once,  *)
(* and the bought balance is exactly what those entries say.  The detailed   *)
(* module Balance, where each entry and the movement it causes are separate  *)
(* database writes, is shown to implement it.                                *)
EXTENDS Integers

CONSTANTS Runs,      \* the team's checks
          Sessions,  \* its paid top-up checkout sessions
          Price,     \* Price[r]: what the finished check r costs the team
          Amount     \* Amount[s]: what session s paid

VARIABLES price,     \* Run.priceUsd, NoPrice while null
          part,      \* Run.priceFromTopupUsd
          credited,  \* the sessions whose amount has been credited
          bought     \* the bought balance the entries add up to

vars == <<price, part, credited, bought>>

NoPrice == -1

Init == /\ price = [r \in Runs |-> NoPrice]
        /\ part = [r \in Runs |-> 0]
        /\ credited = {}
        /\ bought = 0

Charge(r) == /\ price[r] = NoPrice
             /\ \E p \in {0, Price[r]} : \E fromBought \in 0..p :
                  /\ price' = [price EXCEPT ![r] = p]
                  /\ part' = [part EXCEPT ![r] = fromBought]
                  /\ bought' = bought - fromBought
             /\ UNCHANGED credited

GiveBack(r) == /\ price[r] # 0
               /\ price' = [price EXCEPT ![r] = 0]
               /\ part' = [part EXCEPT ![r] = 0]
               /\ bought' = bought + part[r]
               /\ UNCHANGED credited

CreditTopUp(s) == /\ s \notin credited
                  /\ credited' = credited \union {s}
                  /\ bought' = bought + Amount[s]
                  /\ UNCHANGED <<price, part>>

Next == \/ \E r \in Runs : Charge(r) \/ GiveBack(r)
        \/ \E s \in Sessions : CreditTopUp(s)

Spec == Init /\ [][Next]_vars
=============================================================================
