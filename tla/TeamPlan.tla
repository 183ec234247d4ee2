------------------------------ MODULE TeamPlan ------------------------------
(* The plan a team is on, kept in step with Stripe by the webhook          *)
(* (src/app/api/webhooks/stripe/route.ts).  Checkout and Stripe's portal   *)
(* change subscriptions; Stripe posts an event about each change, and may  *)
(* deliver it late, out of order or again.                                 *)
EXTENDS Integers, SequencesExt

CONSTANTS
  MaxSubs,      \* bound: subscriptions the team may open
  MaxGiven,     \* bound: those of them set up in Stripe, without a checkout
  MaxChanges,   \* bound: changes of a subscription's price or standing
  MaxRepeats    \* bound: deliveries that Stripe makes again

ASSUME TeamPlanAssumption ==
  /\ MaxSubs \in Nat \ {0} /\ MaxGiven \in Nat
  /\ MaxChanges \in Nat /\ MaxRepeats \in Nat

VARIABLES
  plan,         \* Team.plan
  subId,        \* Team.stripeSubscriptionId, 0 when null
  customer,     \* Team.stripeCustomerId, 0 when null
  subs,         \* Stripe: the state of each subscription
  custOf,       \* Stripe: the customer of each checkout session
  given,        \* Stripe: subscriptions set up there, without a checkout
  mail,         \* events not yet delivered, oldest first
  hook,         \* a checkout event whose subscription has been retrieved
  reordered,    \* history: an event was handled before an older one was done
  changes, repeats

vars == <<plan, subId, customer, subs, custOf, given, mail, hook, reordered,
          changes, repeats>>

Subs   == 1..MaxSubs
Prices == {"starter", "growth"}       \* in good standing, at that price
Live   == Prices \union {"unpaid"}
States == Live \union {"none", "open", "gone"}
Plans  == Prices \union {"free"}
Events == [kind : {"completed", "updated", "deleted"}, sub : Subs, state : States]

NoHook == [sub |-> 0, plan |-> "free"]

(* planFromSubscription: a subscription that is not in good standing pays  *)
(* for nothing.                                                            *)
PlanOf(state) == IF state \in Prices THEN state ELSE "free"

(* The rows keep their types, and a team without a subscription is on      *)
(* Free.                                                                   *)
TypeOK ==
  /\ plan \in Plans /\ subId \in 0..MaxSubs /\ customer \in 0..MaxSubs
  /\ subs \in [Subs -> States] /\ custOf \in [Subs -> 0..MaxSubs]
  /\ given \subseteq Subs
  /\ mail \in Seq(Events)
  /\ hook \in [sub : 0..MaxSubs, plan : Plans]
  /\ reordered \in BOOLEAN
  /\ changes \in 0..MaxChanges /\ repeats \in 0..MaxRepeats
  /\ subId = 0 => plan = "free"

Init ==
  /\ plan = "free" /\ subId = 0 /\ customer = 0
  /\ subs = [s \in Subs |-> "none"] /\ custOf = [s \in Subs |-> 0]
  /\ given = {} /\ mail = <<>> /\ hook = NoHook
  /\ reordered = FALSE /\ changes = 0 /\ repeats = 0

-----------------------------------------------------------------------------
(* POST /api/billing/checkout: the team's customer is used again, or one   *)
(* is made and kept: the first time, when Stripe no longer has the stored  *)
(* one, or when two requests both read none.  The route does not ask       *)
(* whether the team has a subscription already.                            *)
OpenSession(s, anew) ==
  /\ subs[s] = "none" /\ (customer = 0 => anew)
  /\ subs' = [subs EXCEPT ![s] = "open"]
  /\ customer' = IF anew THEN s ELSE customer
  /\ custOf' = [custOf EXCEPT ![s] = IF anew THEN s ELSE customer]
  /\ UNCHANGED <<plan, subId, given, mail, hook, reordered, changes, repeats>>

Posts(kinds, s, state) ==
  mail' = mail \o [k \in DOMAIN kinds |-> [kind |-> kinds[k], sub |-> s, state |-> state]]

(* The session is paid: Stripe makes the subscription and posts its        *)
(* creation (handled as an update is) and the session's completion.        *)
Pay(s, price) ==
  /\ subs[s] = "open"
  /\ subs' = [subs EXCEPT ![s] = price]
  /\ Posts(<<"updated", "completed">>, s, price)
  /\ UNCHANGED <<plan, subId, customer, custOf, given, hook, reordered, changes, repeats>>

(* A trial set up from Stripe's side arrives only as "created".            *)
Comp(s, price) ==
  /\ subs[s] = "none" /\ customer # 0 /\ Cardinality(given) < MaxGiven
  /\ subs' = [subs EXCEPT ![s] = price]
  /\ custOf' = [custOf EXCEPT ![s] = customer]
  /\ given' = given \union {s}
  /\ Posts(<<"updated">>, s, price)
  /\ UNCHANGED <<plan, subId, customer, hook, reordered, changes, repeats>>

(* Another price in the portal, a payment that fails or is made good.      *)
Change(s, state) ==
  /\ subs[s] \in Live \ {state} /\ changes < MaxChanges
  /\ changes' = changes + 1
  /\ subs' = [subs EXCEPT ![s] = state]
  /\ Posts(<<"updated">>, s, state)
  /\ UNCHANGED <<plan, subId, customer, custOf, given, hook, reordered, repeats>>

Cancel(s) ==
  /\ subs[s] \in Live
  /\ subs' = [subs EXCEPT ![s] = "gone"]
  /\ Posts(<<"deleted">>, s, "gone")
  /\ UNCHANGED <<plan, subId, customer, custOf, given, hook, reordered, changes, repeats>>

-----------------------------------------------------------------------------
(* findTeamForSubscription: by the customer, else by the subscription.     *)
ByCustomer(s) == custOf[s] = customer
Found(s)      == ByCustomer(s) \/ subId = s

(* Event k is handled: while an older one is not done, out of order.       *)
(* Stripe posts it again when the answer does not reach it.                *)
Takes(k, again) ==
  /\ mail' = IF again THEN mail ELSE RemoveAt(mail, k)
  /\ again => repeats < MaxRepeats
  /\ repeats' = IF again THEN repeats + 1 ELSE repeats
  /\ reordered' = (reordered \/ k # 1 \/ hook # NoHook)

(* checkout.session.completed: the subscription is retrieved as it is now, *)
(* and the team is written in a second call.                               *)
Retrieve(k, again) ==
  LET e == mail[k] IN
  /\ e.kind = "completed" /\ hook = NoHook
  /\ Takes(k, again)
  /\ hook' = [sub |-> e.sub, plan |-> PlanOf(subs[e.sub])]
  /\ UNCHANGED <<plan, subId, customer, subs, custOf, given, changes>>

Complete ==
  /\ hook # NoHook
  /\ plan' = hook.plan /\ subId' = hook.sub /\ customer' = custOf[hook.sub]
  /\ hook' = NoHook
  /\ UNCHANGED <<subs, custOf, given, mail, reordered, changes, repeats>>

(* customer.subscription.created and .updated: the state the event has.    *)
Update(k, again) ==
  LET e == mail[k] IN
  /\ e.kind = "updated"
  /\ Takes(k, again)
  /\ IF Found(e.sub)
     THEN plan' = PlanOf(e.state) /\ subId' = e.sub
     ELSE UNCHANGED <<plan, subId>>
  /\ UNCHANGED <<customer, subs, custOf, given, hook, changes>>

(* customer.subscription.deleted: whichever subscription the team has.     *)
KeptPlan == plan
Ended    == "free"

Delete(k, again) ==
  LET e == mail[k] IN
  /\ e.kind = "deleted"
  /\ Takes(k, again)
  /\ IF Found(e.sub)
     THEN plan' = Ended /\ subId' = 0
     ELSE UNCHANGED <<plan, subId>>
  /\ UNCHANGED <<customer, subs, custOf, given, hook, changes>>

Next ==
  \/ \E s \in Subs : \E anew \in BOOLEAN : OpenSession(s, anew)
  \/ \E s \in Subs : \E price \in Prices : Pay(s, price) \/ Comp(s, price)
  \/ \E s \in Subs : \E state \in Live : Change(s, state)
  \/ \E s \in Subs : Cancel(s)
  \/ \E k \in DOMAIN mail : \E again \in BOOLEAN :
       Retrieve(k, again) \/ Update(k, again) \/ Delete(k, again)
  \/ Complete

Spec == Init /\ [][Next]_vars

-----------------------------------------------------------------------------
(* Every event is handled, each after the ones before it.                  *)
CaughtUp == mail = <<>> /\ hook = NoHook /\ ~reordered

Bought == {s \in Subs : subs[s] \notin {"none", "open"}}

(* The webhook keeps the plan in step: once the events of any number of    *)
(* subscriptions have been handled in order, some of them more than once,  *)
(* the team is on the plan of the subscription it names, and a team with   *)
(* one subscription is on the plan of that one.  One bought at a checkout  *)
(* stays the team's though a second request made it another customer; one  *)
(* set up in Stripe is found only while its customer is the team's.        *)
PlanInStep ==
  CaughtUp =>
    /\ subId # 0 => plan = PlanOf(subs[subId])
    /\ \A s \in Subs : Bought = {s} /\ (s \in given => custOf[s] = customer)
                      => plan = PlanOf(subs[s])

(* route.ts: "we keep `Team.plan` and the stored customer/subscription ids *)
(* in step": with its events handled in order, a team that pays for a      *)
(* subscription is not on Free.                                            *)
PayingIsServed ==
  CaughtUp /\ (\E s \in Subs : subs[s] \in Prices) => plan # "free"
=============================================================================
