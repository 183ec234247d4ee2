-------------------------------- MODULE Team --------------------------------
(* Who is on a team, and how many of them Stripe is told to bill.          *)
(* The doors are server actions (src/app/team/actions.ts,                  *)
(* src/app/invite/[token]/actions.ts): each reads the rows it decides on,  *)
(* writes, and ends with syncTeamSeats (src/lib/billing-sync.ts).  D1 has  *)
(* no transactions, so every database or Stripe call is a step, and other  *)
(* requests run in between.                                                *)
EXTENDS Integers, FiniteSets

CONSTANTS
  Persons,      \* people who may be on the team
  Founder,      \* whose personal team it was
  Requests,     \* requests that may be under way at once
  Invites,      \* invitations that may be sent
  Included,     \* seats the plan carries without a subscription
  MaxSubs,      \* bound: subscriptions the team may have, one after another
  MaxStops      \* bound: requests that end half way

ASSUME TeamAssumption ==
  /\ Founder \in Persons /\ IsFiniteSet(Persons) /\ IsFiniteSet(Requests)
  /\ Included \in Nat /\ MaxSubs \in Nat /\ MaxStops \in Nat

VARIABLES
  scope,        \* Membership.scope of each person, "none" without a row
  invite,       \* TeamInvite: its state and the scope it gives
  sub,          \* Team.stripeSubscriptionId, 0 when null
  bought,       \* subscriptions made so far
  quantity,     \* what Stripe bills each of them for
  job,          \* where each request is, and what it has read
  fresh,        \* history: the list a request read is still the list
  owed,         \* history: the last count sent may not be the team's
  joined,       \* history: who came by each invitation
  stops         \* requests that ended half way

vars == <<scope, invite, sub, bought, quantity, job, fresh, owed, joined, stops>>

Scopes   == {"admin", "member", "reader"}
Access   == Scopes \union {"other", "none"}   \* "other": a string no scope names
Billable == {"admin", "member"}
Subs     == 1..MaxSubs

Idle       == [at |-> "idle"]
Asks       == [at : {"list", "write"}, who : Persons, to : Access]
Acceptings == [at : {"join", "stamp"}, who : Persons, by : Invites]
Syncs      == {[at |-> "sync"]} \union [at : {"count"}, to : Subs]
                \union [at : {"push"}, to : Subs, n : Nat \ {0}]
Jobs       == {Idle} \union Asks \union Acceptings \union Syncs

(* The rows keep their types, an invitation one of the three scopes and a  *)
(* membership whatever an admin's form said (actions.ts:122), and Stripe   *)
(* is never asked for zero seats (seats.ts: a subscription for zero seats  *)
(* is not a subscription).                                                 *)
TypeOK ==
  /\ scope \in [Persons -> Access]
  /\ invite \in [Invites -> [state : {"none", "pending", "accepted",
                                      "revoked", "expired"}, scope : Scopes]]
  /\ bought \in 0..MaxSubs /\ sub \in 0..bought
  /\ quantity \in [Subs -> Nat \ {0}]
  /\ job \in [Requests -> Jobs]
  /\ fresh \in [Requests -> BOOLEAN]
  /\ owed \in BOOLEAN
  /\ joined \in [Invites -> SUBSET Persons]
  /\ stops \in 0..MaxStops

Init ==
  /\ scope = [p \in Persons |-> IF p = Founder THEN "admin" ELSE "none"]
  /\ invite = [i \in Invites |-> [state |-> "none", scope |-> "reader"]]
  /\ sub = 0 /\ bought = 0 /\ quantity = [s \in Subs |-> 1]
  /\ job = [r \in Requests |-> Idle]
  /\ fresh = [r \in Requests |-> FALSE]
  /\ owed = TRUE
  /\ joined = [i \in Invites |-> {}]
  /\ stops = 0

-----------------------------------------------------------------------------
Admins == {p \in Persons : scope[p] = "admin"}

BillableSeats == Cardinality({p \in Persons : scope[p] \in Billable})

(* subscriptionQuantity: never below one seat.                             *)
Unfloored == BillableSeats
Seats     == IF BillableSeats = 0 THEN 1 ELSE BillableSeats

(* seatGate, asked before an invitation is sent and at no other door: a    *)
(* team without a subscription does not grow past its plan.                *)
SeatGate(s) == s \in Billable => BillableSeats + 1 <= Included \/ sub # 0

(* A request goes on to its next step.  The lists the others have read are *)
(* stale when it has changed the members.                                  *)
Goes(r, j)    == job' = [job EXCEPT ![r] = j]
Leaves(r)     == Goes(r, Idle) /\ fresh' = [fresh EXCEPT ![r] = FALSE]
Changes(r, m) ==
  /\ scope' = m
  /\ fresh' = [q \in Requests |-> fresh[q] /\ q # r /\ m = scope]
  /\ owed' = (owed \/ m # scope)

-----------------------------------------------------------------------------
(* inviteMemberAction and POST /api/team/invites.                          *)
Invite(i, s) ==
  /\ invite[i].state = "none" /\ Admins # {} /\ SeatGate(s)
  /\ invite' = [invite EXCEPT ![i] = [state |-> "pending", scope |-> s]]
  /\ UNCHANGED <<scope, sub, bought, quantity, job, fresh, owed, joined, stops>>

(* revokeInviteAction, and the seven days of an invitation.                *)
Withdraw(i, end) ==
  /\ invite[i].state = "pending" /\ (end = "revoked" => Admins # {})
  /\ invite' = [invite EXCEPT ![i].state = end]
  /\ UNCHANGED <<scope, sub, bought, quantity, job, fresh, owed, joined, stops>>

(* requireActionScope lets an admin change or remove anybody, and somebody *)
(* on the team with a scope it knows leave: "none" is the end of a         *)
(* membership.  What scope the form asks for is not looked at.             *)
Ask(r, q, s) ==
  /\ job[r] = Idle
  /\ Admins # {} \/ (scope[q] \in Scopes /\ s = "none")
  /\ Goes(r, [at |-> "list", who |-> q, to |-> s])
  /\ UNCHANGED <<scope, invite, sub, bought, quantity, fresh, owed, joined, stops>>

(* decideScopeChange, decideRemoval, decideLeave: one rule, that the last  *)
(* admin stays one.                                                        *)
OnTeam(q, s) == scope[q] # "none"
Allowed(q, s) ==
  /\ OnTeam(q, s)
  /\ scope[q] = "admin" /\ s # "admin" => Cardinality(Admins) # 1

(* membersOf and the decision.                                             *)
Decide(r) ==
  /\ job[r].at = "list"
  /\ IF Allowed(job[r].who, job[r].to)
     THEN Goes(r, [job[r] EXCEPT !.at = "write"]) /\ fresh' = [fresh EXCEPT ![r] = TRUE]
     ELSE Leaves(r)
  /\ UNCHANGED <<scope, invite, sub, bought, quantity, owed, joined, stops>>

(* membership.updateMany or deleteMany: a row that has gone stays gone.    *)
Write(r) ==
  /\ job[r].at = "write"
  /\ LET j == job[r] IN
       Changes(r, [scope EXCEPT ![j.who] = IF @ = "none" THEN @ ELSE j.to])
  /\ Goes(r, [at |-> "sync"])
  /\ UNCHANGED <<invite, sub, bought, quantity, joined, stops>>

-----------------------------------------------------------------------------
(* acceptInviteAction.  decideAccept lets in whoever holds a pending       *)
(* invitation and is not on the team; the others are sent away.            *)
Unrevoked(i) == invite[i].state \in {"pending", "accepted"}
Pending(i)   == invite[i].state = "pending"

Open(r, p, i) ==
  /\ job[r] = Idle /\ Pending(i) /\ scope[p] = "none"
  /\ Goes(r, [at |-> "join", who |-> p, by |-> i])
  /\ UNCHANGED <<scope, invite, sub, bought, quantity, fresh, owed, joined, stops>>

(* The upsert: a row that is there already is left as it is.               *)
Join(r) ==
  /\ job[r].at = "join"
  /\ LET j == job[r] IN
       /\ Changes(r, [scope EXCEPT ![j.who] = IF @ = "none" THEN invite[j.by].scope ELSE @])
       /\ joined' = [joined EXCEPT ![j.by] = IF scope[j.who] = "none" THEN @ \union {j.who} ELSE @]
       /\ Goes(r, [j EXCEPT !.at = "stamp"])
  /\ UNCHANGED <<invite, sub, bought, quantity, stops>>

Stamp(r) ==
  /\ job[r].at = "stamp"
  /\ invite' = [invite EXCEPT ![job[r].by].state = "accepted"]
  /\ Goes(r, [at |-> "sync"])
  /\ UNCHANGED <<scope, sub, bought, quantity, fresh, owed, joined, stops>>

-----------------------------------------------------------------------------
(* syncTeamSeats: the subscription, then the members, then Stripe.         *)
ReadSub(r) ==
  /\ job[r].at = "sync"
  /\ Goes(r, IF sub = 0 THEN Idle ELSE [at |-> "count", to |-> sub])
  /\ UNCHANGED <<scope, invite, sub, bought, quantity, fresh, owed, joined, stops>>

Incremented(r) == quantity[job[r].to] + 1
Counted(r)     == Seats

Count(r) ==
  /\ job[r].at = "count"
  /\ Goes(r, [at |-> "push", to |-> job[r].to, n |-> Counted(r)])
  /\ fresh' = [fresh EXCEPT ![r] = TRUE]
  /\ UNCHANGED <<scope, invite, sub, bought, quantity, owed, joined, stops>>

(* The same number is not sent again; sending it would change nothing.     *)
Push(r) ==
  /\ job[r].at = "push"
  /\ quantity' = [quantity EXCEPT ![job[r].to] = job[r].n]
  /\ owed' = IF job[r].to = sub THEN ~fresh[r] ELSE owed
  /\ Leaves(r)
  /\ UNCHANGED <<scope, invite, sub, bought, joined, stops>>

(* Stripe throws: logged, and the request goes on.                         *)
PushFails(r) ==
  /\ job[r].at = "push"
  /\ Leaves(r)
  /\ UNCHANGED <<scope, invite, sub, bought, quantity, owed, joined, stops>>

(* activeTeamContext: a signed-in person with no membership at all is made *)
(* the admin of their personal team, on it before or not, and no seats are *)
(* counted.                                                                *)
Return(r) ==
  /\ job[r] = Idle /\ scope[Founder] = "none"
  /\ Changes(r, [scope EXCEPT ![Founder] = "admin"])
  /\ UNCHANGED <<invite, sub, bought, quantity, job, joined, stops>>

(* The request ends half way.                                              *)
Stop(r) ==
  /\ job[r] # Idle /\ stops < MaxStops
  /\ stops' = stops + 1
  /\ Leaves(r)
  /\ UNCHANGED <<scope, invite, sub, bought, quantity, owed, joined>>

(* What TeamPlan's webhook does to the team's row: checkout makes a        *)
(* subscription of quantity one, whose events put it on the team, and the  *)
(* end of it takes it off.  Neither counts the seats.                      *)
Subscribe ==
  /\ bought < MaxSubs
  /\ bought' = bought + 1 /\ sub' = bought + 1
  /\ owed' = TRUE
  /\ UNCHANGED <<scope, invite, quantity, job, fresh, joined, stops>>

Unsubscribe ==
  /\ sub # 0
  /\ sub' = 0
  /\ UNCHANGED <<scope, invite, bought, quantity, job, fresh, owed, joined, stops>>

Next ==
  \/ \E i \in Invites, s \in Scopes : Invite(i, s)
  \/ \E i \in Invites, end \in {"revoked", "expired"} : Withdraw(i, end)
  \/ \E r \in Requests :
       \/ \E q \in Persons, s \in Access : Ask(r, q, s)
       \/ \E p \in Persons, i \in Invites : Open(r, p, i)
       \/ Decide(r) \/ Write(r) \/ Join(r) \/ Stamp(r)
       \/ ReadSub(r) \/ Count(r) \/ Push(r) \/ PushFails(r) \/ Stop(r)
       \/ Return(r)
  \/ Subscribe \/ Unsubscribe

Spec == Init /\ [][Next]_vars

-----------------------------------------------------------------------------
(* membership.ts: "A team always has at least one admin."                  *)
TeamHasAdmin == Admins # {}

(* The last admin goes only by a change written over a list that another   *)
(* request has changed since it was read, whoever leaves, is removed, is   *)
(* given another scope or joins meanwhile.                                 *)
AdminIsKept ==
  [][TeamHasAdmin /\ ~TeamHasAdmin' => \E r \in Requests : ~fresh[r] /\ Write(r)]_vars

(* An invitation lets in as many people as hold it open at once, and one   *)
(* more for each acceptance that ended before the invitation was marked:   *)
(* never an open door (acceptInviteAction writes the membership first).    *)
InviteIsSpent ==
  \A i \in Invites : Cardinality(joined[i]) <= Cardinality(Requests) + stops

(* A count that nobody overtook leaves Stripe billing the team's own       *)
(* seats, whatever earlier syncs missed or overwrote, until the members or *)
(* the subscription change (billing-sync.ts: "a sync that was missed is    *)
(* corrected by the next one instead of compounding").                     *)
SeatsAgree == ~owed /\ sub # 0 => quantity[sub] = Seats
=============================================================================
