---------------------------- MODULE Team_proofs ----------------------------
(* The safety of the team's doors, for any people, invitations, requests   *)
(* at once, subscriptions and requests that end half way.                  *)
EXTENDS Team, FiniteSetTheorems, TLAPS

(* What a request holds at each step.                                      *)
LEMMA JobCases ==
  ASSUME TypeOK, NEW r \in Requests
  PROVE  /\ job[r] \in Jobs
         /\ job[r].at \in {"list", "write"} => job[r] \in Asks
         /\ job[r].at \in {"join", "stamp"} => job[r] \in Acceptings
         /\ job[r].at = "count" => job[r] \in [at : {"count"}, to : Subs]
         /\ job[r].at = "push" => job[r] \in [at : {"push"}, to : Subs, n : Nat \ {0}]
  BY DEF TypeOK, Jobs, Idle, Asks, Acceptings, Syncs

(* The people billed are finitely many, and Stripe is asked for at least   *)
(* one seat.                                                               *)
LEMMA SeatsTyped == Seats \in Nat \ {0}
<1> DEFINE B == {p \in Persons : scope[p] \in Billable}
<1>1. IsFiniteSet(B)
  BY FS_Subset, TeamAssumption DEF TeamAssumption
<1>2. Cardinality(B) \in Nat
  BY <1>1, FS_CardinalityType
<1> QED
  BY <1>2 DEF Seats, BillableSeats

(* The types hold at the start.                                              *)
LEMMA InitTypes == Init => TypeOK
<1> SUFFICES ASSUME Init PROVE TypeOK
  OBVIOUS
<1>1. scope \in [Persons -> Access]
  BY DEF Init, Access, Scopes
<1>2. invite \in [Invites -> [state : {"none", "pending", "accepted", "revoked", "expired"}, scope : Scopes]]
  BY DEF Init, Scopes
<1>3. job \in [Requests -> Jobs]
  BY DEF Init, Jobs
<1>4. bought \in 0..MaxSubs /\ sub \in 0..bought /\ stops \in 0..MaxStops
  BY TeamAssumption DEF Init, TeamAssumption
<1>5. quantity \in [Subs -> Nat \ {0}] /\ joined \in [Invites -> SUBSET Persons]
  BY DEF Init
<1>6. fresh \in [Requests -> BOOLEAN]
  BY DEF Init
<1>7. owed \in BOOLEAN
  BY DEF Init
<1> QED
  BY <1>1, <1>2, <1>3, <1>4, <1>5, <1>6, <1>7 DEF TypeOK

(* A request that takes a step keeps the types of jobs and of lists read.  *)
LEMMA GoesTyped ==
  ASSUME TypeOK, NEW r \in Requests, NEW j \in Jobs, Goes(r, j)
  PROVE  job' \in [Requests -> Jobs]
  BY DEF TypeOK, Goes

(* A request that ends keeps the requests typed,                             *)
LEMMA LeavesTyped ==
  ASSUME TypeOK, NEW r \in Requests, Leaves(r)
  PROVE  job' \in [Requests -> Jobs] /\ fresh' \in [Requests -> BOOLEAN]
<1>1. job' \in [Requests -> Jobs]
  BY DEF TypeOK, Leaves, Goes, Jobs
<1>2. fresh' \in [Requests -> BOOLEAN]
  BY DEF TypeOK, Leaves
<1> QED
  BY <1>1, <1>2

(* and one that changes the members keeps the members typed.                 *)
LEMMA ChangesTyped ==
  ASSUME TypeOK, NEW r \in Requests, NEW m \in [Persons -> Access], Changes(r, m)
  PROVE  /\ scope' \in [Persons -> Access]
         /\ fresh' \in [Requests -> BOOLEAN]
         /\ owed' \in BOOLEAN
<1>1. scope' \in [Persons -> Access]
  BY DEF Changes
<1>2. fresh' \in [Requests -> BOOLEAN]
  BY DEF TypeOK, Changes
<1>3. owed' \in BOOLEAN
  BY DEF TypeOK, Changes
<1> QED
  BY <1>1, <1>2, <1>3

(* Every step keeps the types.                                             *)
LEMMA TypeStep == TypeOK /\ [Next]_vars => TypeOK'
<1> SUFFICES ASSUME TypeOK, [Next]_vars PROVE TypeOK'
  OBVIOUS
<1>0. Idle \in Jobs /\ [at |-> "sync"] \in Jobs
  BY DEF Jobs, Syncs
<1>1. ASSUME NEW i \in Invites, NEW s \in Scopes, Invite(i, s) PROVE TypeOK'
  <2>1. invite' \in [Invites -> [state : {"none", "pending", "accepted", "revoked", "expired"}, scope : Scopes]]
    BY <1>1 DEF TypeOK, Invite
  <2> QED
    BY <1>1, <2>1 DEF TypeOK, Invite
<1>2. ASSUME NEW i \in Invites, NEW end \in {"revoked", "expired"}, Withdraw(i, end) PROVE TypeOK'
  <2>1. invite' \in [Invites -> [state : {"none", "pending", "accepted", "revoked", "expired"}, scope : Scopes]]
    BY <1>2 DEF TypeOK, Withdraw
  <2> QED
    BY <1>2, <2>1 DEF TypeOK, Withdraw
<1>3. ASSUME NEW r \in Requests, NEW q \in Persons, NEW s \in Access, Ask(r, q, s)
      PROVE  TypeOK'
  <2>1. [at |-> "list", who |-> q, to |-> s] \in Jobs
    BY DEF Jobs, Asks
  <2>2. job' \in [Requests -> Jobs]
    BY <1>3, <2>1, GoesTyped DEF Ask
  <2> QED
    BY <1>3, <2>2 DEF TypeOK, Ask
<1>4. ASSUME NEW r \in Requests, NEW p \in Persons, NEW i \in Invites, Open(r, p, i)
      PROVE  TypeOK'
  <2>1. [at |-> "join", who |-> p, by |-> i] \in Jobs
    BY DEF Jobs, Acceptings
  <2>2. job' \in [Requests -> Jobs]
    BY <1>4, <2>1, GoesTyped DEF Open
  <2> QED
    BY <1>4, <2>2 DEF TypeOK, Open
<1>5. ASSUME NEW r \in Requests, Decide(r) PROVE TypeOK'
  <2>1. job[r] \in Asks
    BY <1>5, JobCases DEF Decide
  <2>2. [job[r] EXCEPT !.at = "write"] \in Jobs
    BY <2>1 DEF Jobs, Asks
  <2>3. job' \in [Requests -> Jobs] /\ fresh' \in [Requests -> BOOLEAN]
    <3>1. CASE Allowed(job[r].who, job[r].to)
      <4>1. job' \in [Requests -> Jobs]
        BY <1>5, <2>2, <3>1, GoesTyped DEF Decide
      <4>2. fresh' \in [Requests -> BOOLEAN]
        BY <1>5, <3>1 DEF Decide, TypeOK
      <4> QED
        BY <4>1, <4>2
    <3>2. CASE ~Allowed(job[r].who, job[r].to)
      BY <1>5, <3>2, LeavesTyped DEF Decide
    <3> QED
      BY <3>1, <3>2
  <2> QED
    BY <1>5, <2>3 DEF TypeOK, Decide
<1>6. ASSUME NEW r \in Requests, Write(r) PROVE TypeOK'
  <2> DEFINE m == [scope EXCEPT ![job[r].who] = IF @ = "none" THEN @ ELSE job[r].to]
  <2>1. job[r] \in Asks
    BY <1>6, JobCases DEF Write
  <2>2. m \in [Persons -> Access]
    BY <2>1 DEF TypeOK, Asks
  <2>3. Changes(r, m) /\ Goes(r, [at |-> "sync"])
    BY <1>6 DEF Write
  <2>4. job' \in [Requests -> Jobs]
    BY <1>0, <2>3, GoesTyped
  <2>5. scope' \in [Persons -> Access] /\ fresh' \in [Requests -> BOOLEAN] /\ owed' \in BOOLEAN
    BY <2>2, <2>3, ChangesTyped
  <2>6. UNCHANGED <<invite, sub, bought, quantity, joined, stops>>
    BY <1>6 DEF Write
  <2> QED
    BY <2>4, <2>5, <2>6 DEF TypeOK
<1>7. ASSUME NEW r \in Requests, Join(r) PROVE TypeOK'
  <2> DEFINE m == [scope EXCEPT ![job[r].who] = IF @ = "none" THEN invite[job[r].by].scope ELSE @]
  <2>1. job[r] \in Acceptings
    BY <1>7, JobCases DEF Join
  <2>2. m \in [Persons -> Access]
    BY <2>1 DEF TypeOK, Acceptings, Access
  <2>3. Changes(r, m) /\ Goes(r, [job[r] EXCEPT !.at = "stamp"])
        /\ joined' = [joined EXCEPT ![job[r].by] =
             IF scope[job[r].who] = "none" THEN @ \union {job[r].who} ELSE @]
    BY <1>7 DEF Join
  <2>4. [job[r] EXCEPT !.at = "stamp"] \in Jobs
    BY <2>1 DEF Jobs, Acceptings
  <2>5. job' \in [Requests -> Jobs]
    BY <2>3, <2>4, GoesTyped
  <2>6. scope' \in [Persons -> Access] /\ fresh' \in [Requests -> BOOLEAN] /\ owed' \in BOOLEAN
    BY <2>2, <2>3, ChangesTyped
  <2>7. joined' \in [Invites -> SUBSET Persons]
    BY <2>1, <2>3 DEF TypeOK, Acceptings
  <2>8. UNCHANGED <<invite, sub, bought, quantity, stops>>
    BY <1>7 DEF Join
  <2> QED
    BY <2>5, <2>6, <2>7, <2>8 DEF TypeOK
<1>8. ASSUME NEW r \in Requests, Stamp(r) PROVE TypeOK'
  <2>1. invite' \in [Invites -> [state : {"none", "pending", "accepted", "revoked", "expired"}, scope : Scopes]]
    BY <1>8 DEF TypeOK, Stamp
  <2>2. job' \in [Requests -> Jobs]
    BY <1>0, <1>8, GoesTyped DEF Stamp
  <2> QED
    BY <1>8, <2>1, <2>2 DEF TypeOK, Stamp
<1>9. ASSUME NEW r \in Requests, ReadSub(r) PROVE TypeOK'
  <2>1. sub # 0 => [at |-> "count", to |-> sub] \in Jobs
    <3>1. sub \in 0..MaxSubs
      BY TeamAssumption DEF TypeOK, TeamAssumption
    <3> QED
      BY <3>1, TeamAssumption DEF Jobs, Syncs, Subs, TeamAssumption
  <2>2. job' \in [Requests -> Jobs]
    BY <1>0, <1>9, <2>1, GoesTyped DEF ReadSub
  <2> QED
    BY <1>9, <2>2 DEF TypeOK, ReadSub
<1>10. ASSUME NEW r \in Requests, Count(r) PROVE TypeOK'
  <2>1. job[r].to \in Subs
    BY <1>10, JobCases DEF Count
  <2>2. [at |-> "push", to |-> job[r].to, n |-> Counted(r)] \in Jobs
    BY <2>1, SeatsTyped DEF Jobs, Syncs, Counted
  <2>3. job' \in [Requests -> Jobs]
    BY <1>10, <2>2, GoesTyped DEF Count
  <2>4. fresh' \in [Requests -> BOOLEAN]
    BY <1>10 DEF Count, TypeOK
  <2> QED
    BY <1>10, <2>3, <2>4 DEF TypeOK, Count
<1>11. ASSUME NEW r \in Requests, Push(r) PROVE TypeOK'
  <2>1. job[r].to \in Subs /\ job[r].n \in Nat \ {0}
    BY <1>11, JobCases DEF Push
  <2>2. quantity' \in [Subs -> Nat \ {0}]
    BY <1>11, <2>1 DEF Push, TypeOK
  <2>3. job' \in [Requests -> Jobs] /\ fresh' \in [Requests -> BOOLEAN]
    BY <1>11, LeavesTyped DEF Push
  <2>4. owed' \in BOOLEAN
    <3>1. fresh[r] \in BOOLEAN /\ owed \in BOOLEAN
      BY DEF TypeOK
    <3>2. owed' = (~fresh[r]) \/ owed' = owed
      BY <1>11 DEF Push
    <3> QED
      BY <3>1, <3>2
  <2> QED
    BY <1>11, <2>2, <2>3, <2>4 DEF TypeOK, Push
<1>12. ASSUME NEW r \in Requests, PushFails(r) PROVE TypeOK'
  <2>1. job' \in [Requests -> Jobs] /\ fresh' \in [Requests -> BOOLEAN]
    BY <1>12, LeavesTyped DEF PushFails
  <2> QED
    BY <1>12, <2>1 DEF TypeOK, PushFails
<1>13. ASSUME NEW r \in Requests, Stop(r) PROVE TypeOK'
  <2>1. job' \in [Requests -> Jobs] /\ fresh' \in [Requests -> BOOLEAN]
    BY <1>13, LeavesTyped DEF Stop
  <2>2. stops' \in 0..MaxStops
    BY <1>13, TeamAssumption DEF Stop, TypeOK, TeamAssumption
  <2> QED
    BY <1>13, <2>1, <2>2 DEF TypeOK, Stop
<1>14. CASE Subscribe
  <2>1. bought' \in 0..MaxSubs /\ sub' \in 0..bought'
    BY <1>14, TeamAssumption DEF Subscribe, TypeOK, TeamAssumption
  <2>2. owed' \in BOOLEAN
    BY <1>14 DEF Subscribe
  <2> QED
    BY <1>14, <2>1, <2>2 DEF TypeOK, Subscribe
<1>15. CASE Unsubscribe
  <2>1. sub' \in 0..bought'
    BY <1>15, TeamAssumption DEF Unsubscribe, TypeOK, TeamAssumption
  <2> QED
    BY <1>15, <2>1 DEF TypeOK, Unsubscribe
<1>16. CASE UNCHANGED vars
  BY <1>16 DEF TypeOK, vars
<1>17. ASSUME NEW r \in Requests, Return(r) PROVE TypeOK'
  <2> DEFINE m == [scope EXCEPT ![Founder] = "admin"]
  <2>1. m \in [Persons -> Access]
    BY DEF TypeOK, Access, Scopes
  <2>2. Changes(r, m)
    BY <1>17 DEF Return
  <2>3. scope' \in [Persons -> Access] /\ fresh' \in [Requests -> BOOLEAN] /\ owed' \in BOOLEAN
    BY <2>1, <2>2, ChangesTyped
  <2> QED
    BY <1>17, <2>3 DEF TypeOK, Return
<1> QED
  BY <1>1, <1>2, <1>3, <1>4, <1>5, <1>6, <1>7, <1>8, <1>9, <1>10, <1>11, <1>12,
     <1>13, <1>14, <1>15, <1>16, <1>17 DEF Next

(* Every row and every request keeps its type, and Stripe is never asked   *)
(* for zero seats.                                                         *)
THEOREM TypeCorrect == Spec => []TypeOK
  BY InitTypes, TypeStep, PTL DEF Spec

-----------------------------------------------------------------------------
(* A request whose list is still the list would be allowed its change now. *)
AdminInv == \A r \in Requests :
              job[r].at = "write" /\ fresh[r] => Allowed(job[r].who, job[r].to)

(* An admin who may go leaves another one behind.                          *)
LEMMA AnotherAdmin ==
  ASSUME NEW q \in Persons, scope[q] = "admin", Cardinality(Admins) # 1
  PROVE  \E p \in Admins : p # q
<1>1. Admins # {q}
  BY FS_Singleton
<1>2. q \in Admins
  BY DEF Admins
<1> QED
  BY <1>1, <1>2

(* A step that leaves the members, the lists read and the changes decided  *)
(* as they are.                                                            *)
LEMMA AdminQuiet ==
  ASSUME AdminInv, scope' = scope,
         \A r \in Requests : job'[r].at = "write" /\ fresh'[r] =>
           \/ job[r].at = "write" /\ fresh[r] /\ job'[r] = job[r]
           \/ Allowed(job'[r].who, job'[r].to)
  PROVE  AdminInv'
  BY DEF AdminInv, TeamHasAdmin, Admins, Allowed, OnTeam

(* A step of a request that does not change the members goes to another    *)
(* position than the write.                                                *)
LEMMA ElsewhereQuiet ==
  ASSUME TypeOK, AdminInv, NEW r \in Requests, NEW j, Goes(r, j), j.at # "write",
         scope' = scope,
         \A q \in Requests : q # r => fresh'[q] = fresh[q]
  PROVE  AdminInv'
<1>1. job'[r] = j /\ \A q \in Requests : q # r => job'[q] = job[q]
  BY DEF Goes, TypeOK
<1>2. \A q \in Requests : job'[q].at = "write" /\ fresh'[q] =>
        job[q].at = "write" /\ fresh[q] /\ job'[q] = job[q]
  BY <1>1
<1> QED
  BY <1>2, AdminQuiet

(* A request that ends changes nothing about the admins.                     *)
LEMMA LeavesQuiet ==
  ASSUME TypeOK, AdminInv, NEW r \in Requests, Leaves(r), scope' = scope
  PROVE  AdminInv'
<1>1. Goes(r, Idle) /\ Idle.at # "write" /\ \A q \in Requests : q # r => fresh'[q] = fresh[q]
  BY DEF Leaves, Idle, TypeOK
<1> QED
  BY <1>1, ElsewhereQuiet

(* Nobody's list is the list any more once the members have changed.       *)
LEMMA ChangedLists ==
  ASSUME TypeOK, NEW r \in Requests, NEW m, Changes(r, m)
  PROVE  /\ scope' = m
         /\ \A q \in Requests : fresh'[q] => fresh[q] /\ q # r /\ scope' = scope
  BY DEF TypeOK, Changes

(* The admin stays over every step.                                        *)
LEMMA AdminStep == TypeOK /\ AdminInv /\ [Next]_vars => AdminInv'
<1> SUFFICES ASSUME TypeOK, AdminInv, [Next]_vars PROVE AdminInv'
  OBVIOUS
<1>1. ASSUME NEW i \in Invites, NEW s \in Scopes, Invite(i, s) PROVE AdminInv'
  BY <1>1, AdminQuiet DEF Invite
<1>2. ASSUME NEW i \in Invites, NEW end \in {"revoked", "expired"}, Withdraw(i, end)
      PROVE AdminInv'
  BY <1>2, AdminQuiet DEF Withdraw
<1>3. ASSUME NEW r \in Requests, NEW q \in Persons, NEW s \in Access, Ask(r, q, s)
      PROVE  AdminInv'
  <2> DEFINE j == [at |-> "list", who |-> q, to |-> s]
  <2>1. Goes(r, j) /\ j.at # "write" /\ scope' = scope /\ fresh' = fresh
    BY <1>3 DEF Ask
  <2> QED
    BY <2>1, ElsewhereQuiet
<1>4. ASSUME NEW r \in Requests, NEW p \in Persons, NEW i \in Invites, Open(r, p, i)
      PROVE  AdminInv'
  <2> DEFINE j == [at |-> "join", who |-> p, by |-> i]
  <2>1. Goes(r, j) /\ j.at # "write" /\ scope' = scope /\ fresh' = fresh
    BY <1>4 DEF Open
  <2> QED
    BY <2>1, ElsewhereQuiet
<1>5. ASSUME NEW r \in Requests, Decide(r) PROVE AdminInv'
  <2>1. CASE Allowed(job[r].who, job[r].to)
    <3>1. job[r] \in Asks
      BY <1>5, JobCases DEF Decide
    <3>2. /\ job' = [job EXCEPT ![r] = [job[r] EXCEPT !.at = "write"]]
          /\ fresh' = [fresh EXCEPT ![r] = TRUE]
          /\ scope' = scope
      BY <1>5, <2>1 DEF Decide, Goes
    <3>3. job'[r].who = job[r].who /\ job'[r].to = job[r].to
      BY <3>1, <3>2 DEF TypeOK, Asks
    <3>4. \A q \in Requests : q # r => job'[q] = job[q] /\ fresh'[q] = fresh[q]
      BY <3>2 DEF TypeOK
    <3> QED
      BY <2>1, <3>2, <3>3, <3>4, AdminQuiet
  <2>2. CASE ~Allowed(job[r].who, job[r].to)
    <3>1. Leaves(r) /\ scope' = scope
      BY <1>5, <2>2 DEF Decide
    <3> QED
      BY <3>1, LeavesQuiet
  <2> QED
    BY <2>1, <2>2
<1>6. ASSUME NEW r \in Requests, Write(r) \/ Join(r) \/ Return(r) PROVE AdminInv'
  <2> SUFFICES ASSUME NEW q \in Requests, job'[q].at = "write", fresh'[q]
               PROVE  Allowed(job[q].who, job[q].to)' 
    BY DEF AdminInv
  <2>1. PICK m : Changes(r, m)
    BY <1>6 DEF Write, Join, Return
  <2>2. fresh[q] /\ q # r /\ scope' = scope
    BY <2>1, ChangedLists
  <2>3. job'[q] = job[q]
    BY <1>6, <2>2 DEF Write, Join, Return, Goes, TypeOK
  <2>4. Allowed(job[q].who, job[q].to)
    BY <2>2, <2>3 DEF AdminInv
  <2> QED
    BY <2>2, <2>3, <2>4 DEF Allowed, OnTeam, Admins
<1>7. ASSUME NEW r \in Requests, Stamp(r) PROVE AdminInv'
  <2> DEFINE j == [at |-> "sync"]
  <2>1. Goes(r, j) /\ j.at # "write" /\ scope' = scope /\ fresh' = fresh
    BY <1>7 DEF Stamp
  <2> QED
    BY <2>1, ElsewhereQuiet
<1>8. ASSUME NEW r \in Requests, ReadSub(r) PROVE AdminInv'
  <2> DEFINE j == IF sub = 0 THEN Idle ELSE [at |-> "count", to |-> sub]
  <2>1. Goes(r, j) /\ scope' = scope /\ fresh' = fresh
    BY <1>8 DEF ReadSub
  <2>2. j.at # "write"
    BY DEF Idle
  <2> QED
    BY <2>1, <2>2, ElsewhereQuiet
<1>9. ASSUME NEW r \in Requests, Count(r) PROVE AdminInv'
  <2> DEFINE j == [at |-> "push", to |-> job[r].to, n |-> Counted(r)]
  <2>1. Goes(r, j) /\ j.at # "write" /\ scope' = scope
    BY <1>9 DEF Count
  <2>2. \A q \in Requests : q # r => fresh'[q] = fresh[q]
    BY <1>9 DEF Count, TypeOK
  <2> QED
    BY <2>1, <2>2, ElsewhereQuiet
<1>10. ASSUME NEW r \in Requests, Push(r) \/ PushFails(r) \/ Stop(r) PROVE AdminInv'
  <2>1. Leaves(r) /\ scope' = scope
    BY <1>10 DEF Push, PushFails, Stop
  <2> QED
    BY <2>1, LeavesQuiet
<1>11. CASE Subscribe \/ Unsubscribe \/ UNCHANGED vars
  <2>1. scope' = scope /\ job' = job /\ fresh' = fresh
    BY <1>11 DEF Subscribe, Unsubscribe, vars
  <2> QED
    BY <2>1, AdminQuiet
<1> QED
  BY <1>1, <1>2, <1>3, <1>4, <1>5, <1>6, <1>7, <1>8, <1>9, <1>10, <1>11 DEF Next

(* A change written over the list it was allowed on leaves an admin.       *)
LEMMA FreshWrite ==
  ASSUME TypeOK, AdminInv, TeamHasAdmin, NEW r \in Requests, Write(r), fresh[r]
  PROVE  TeamHasAdmin'
<1> DEFINE m == [scope EXCEPT ![job[r].who] = IF @ = "none" THEN @ ELSE job[r].to]
<1>1. job[r] \in Asks /\ job[r].at = "write"
  BY JobCases DEF Write
<1>2. Changes(r, m)
  BY DEF Write
<1>3. Allowed(job[r].who, job[r].to)
  BY <1>1 DEF AdminInv
<1>4. scope' = m
  BY <1>2, ChangedLists
<1>5. job[r].who \in Persons /\ scope[job[r].who] # "none"
  BY <1>1, <1>3 DEF Asks, Allowed, OnTeam
<1>6. \A p \in Persons : scope'[p] = IF p = job[r].who THEN job[r].to ELSE scope[p]
  BY <1>4, <1>5 DEF TypeOK
<1>7. CASE scope[job[r].who] = "admin" /\ job[r].to # "admin"
  <2>1. Cardinality(Admins) # 1
    BY <1>3, <1>7 DEF Allowed
  <2>2. PICK p \in Admins : p # job[r].who
    BY <1>5, <1>7, <2>1, AnotherAdmin
  <2>3. p \in Persons /\ scope'[p] = "admin"
    BY <1>6, <2>2 DEF Admins
  <2> QED
    BY <2>3 DEF TeamHasAdmin, Admins
<1>8. CASE job[r].to = "admin"
  <2>1. scope'[job[r].who] = "admin"
    BY <1>5, <1>6, <1>8
  <2> QED
    BY <1>5, <2>1 DEF TeamHasAdmin, Admins
<1>9. CASE scope[job[r].who] # "admin"
  <2>1. PICK p \in Persons : scope[p] = "admin"
    BY DEF TeamHasAdmin, Admins
  <2>2. scope'[p] = "admin"
    BY <1>6, <1>9, <2>1
  <2> QED
    BY <2>1, <2>2 DEF TeamHasAdmin, Admins
<1> QED
  BY <1>7, <1>8, <1>9

(* Somebody who joins, or comes back to the team they founded, takes no    *)
(* admin's place.                                                          *)
LEMMA JoinKeepsAdmin ==
  ASSUME TypeOK, TeamHasAdmin, NEW r \in Requests, Join(r) \/ Return(r)
  PROVE  TeamHasAdmin'
<1>1. PICK p \in Persons : scope[p] = "admin"
  BY DEF TeamHasAdmin, Admins
<1>2. CASE Join(r)
  <2> DEFINE m == [scope EXCEPT ![job[r].who] = IF @ = "none" THEN invite[job[r].by].scope ELSE @]
  <2>1. scope' = m
    BY <1>2, ChangedLists DEF Join
  <2>2. scope'[p] = "admin"
    BY <1>1, <2>1 DEF TypeOK
  <2> QED
    BY <1>1, <2>2 DEF TeamHasAdmin, Admins
<1>3. CASE Return(r)
  <2>1. scope' = [scope EXCEPT ![Founder] = "admin"]
    BY <1>3, ChangedLists DEF Return
  <2>2. scope'[p] = "admin"
    BY <1>1, <2>1 DEF TypeOK
  <2> QED
    BY <1>1, <2>2 DEF TeamHasAdmin, Admins
<1> QED
  BY <1>2, <1>3

(* A step after which there is no admin left is a change written over a    *)
(* list that has moved.                                                    *)
LEMMA AdminGoes ==
  ASSUME TypeOK, AdminInv, Next, TeamHasAdmin
  PROVE  TeamHasAdmin' \/ \E r \in Requests : ~fresh[r] /\ Write(r)
<1>1. scope' = scope => TeamHasAdmin'
  BY DEF TeamHasAdmin, Admins
<1>2. ASSUME NEW i \in Invites PROVE /\ \A s \in Scopes : Invite(i, s) => scope' = scope
                                     /\ \A end : Withdraw(i, end) => scope' = scope
  BY DEF Invite, Withdraw
<1>3. ASSUME NEW r \in Requests
      PROVE  /\ \A q \in Persons, s \in Access : Ask(r, q, s) => scope' = scope
             /\ \A p \in Persons, i \in Invites : Open(r, p, i) => scope' = scope
             /\ Decide(r) \/ Stamp(r) \/ ReadSub(r) \/ Count(r) \/ Push(r) \/ PushFails(r) \/ Stop(r)
                  => scope' = scope
  BY DEF Ask, Open, Decide, Stamp, ReadSub, Count, Push, PushFails, Stop
<1>4. Subscribe \/ Unsubscribe => scope' = scope
  BY DEF Subscribe, Unsubscribe
<1> QED
  BY <1>1, <1>2, <1>3, <1>4, FreshWrite, JoinKeepsAdmin DEF Next

(* The last admin goes only by a change written over a list that another   *)
(* request has changed since it was read (team/actions.ts:124-133,         *)
(* 151-157, 174-177).                                                      *)
THEOREM AdminStays == Spec => AdminIsKept
<1>1. Init => AdminInv
  BY DEF Init, AdminInv, Idle
<1>2. TypeOK /\ AdminInv /\ [Next]_vars =>
        [TeamHasAdmin /\ ~TeamHasAdmin' => \E r \in Requests : ~fresh[r] /\ Write(r)]_vars
  BY AdminGoes
<1> QED
  BY <1>1, <1>2, AdminStep, TypeCorrect, PTL DEF Spec, AdminIsKept

-----------------------------------------------------------------------------
(* A count that is still the count of the list is the team's seats, and    *)
(* so is what Stripe bills when the last such count was sent.              *)
SeatsInv ==
  /\ SeatsAgree
  /\ \A r \in Requests : job[r].at = "push" /\ fresh[r] => job[r].n = Seats

(* A step that neither changes the members nor what Stripe bills.          *)
LEMMA SeatsQuiet ==
  ASSUME SeatsInv, scope' = scope, quantity' = quantity, sub' = sub \/ sub' = 0 \/ owed',
         owed => owed',
         \A r \in Requests : job'[r].at = "push" /\ fresh'[r] =>
           \/ job[r].at = "push" /\ fresh[r] /\ job'[r] = job[r]
           \/ job'[r].n = Seats
  PROVE  SeatsInv'
<1>1. Seats' = Seats
  BY DEF Seats, BillableSeats
<1>2. SeatsAgree'
  BY <1>1 DEF SeatsInv, SeatsAgree
<1>3. \A r \in Requests : job'[r].at = "push" /\ fresh'[r] => job'[r].n = Seats'
  BY <1>1 DEF SeatsInv
<1> QED
  BY <1>2, <1>3 DEF SeatsInv

(* A request that goes on elsewhere leaves the seats as they are sent,       *)
LEMMA SeatsElsewhere ==
  ASSUME TypeOK, SeatsInv, NEW r \in Requests, NEW j, Goes(r, j), j.at # "push",
         scope' = scope, quantity' = quantity, sub' = sub, owed' = owed,
         \A q \in Requests : q # r => fresh'[q] = fresh[q]
  PROVE  SeatsInv'
<1>1. job'[r] = j /\ \A q \in Requests : q # r => job'[q] = job[q]
  BY DEF Goes, TypeOK
<1>2. \A q \in Requests : job'[q].at = "push" /\ fresh'[q] =>
        job[q].at = "push" /\ fresh[q] /\ job'[q] = job[q]
  BY <1>1
<1> QED
  BY <1>2, SeatsQuiet

(* ... and so does one that ends.                                            *)
LEMMA SeatsLeaves ==
  ASSUME TypeOK, SeatsInv, NEW r \in Requests, Leaves(r),
         scope' = scope, quantity' = quantity, sub' = sub, owed' = owed
  PROVE  SeatsInv'
<1>1. Goes(r, Idle) /\ Idle.at # "push" /\ \A q \in Requests : q # r => fresh'[q] = fresh[q]
  BY DEF Leaves, Idle, TypeOK
<1> QED
  BY <1>1, SeatsElsewhere

(* A change of the members leaves every count behind.                      *)
LEMMA SeatsChange ==
  ASSUME TypeOK, SeatsInv, NEW r \in Requests, NEW m, NEW j, Changes(r, m),
         Goes(r, j), quantity' = quantity, sub' = sub
  PROVE  SeatsInv'
<1>1. /\ scope' = m
      /\ \A q \in Requests : fresh'[q] => fresh[q] /\ q # r /\ scope' = scope
  BY ChangedLists
<1>2. \A q \in Requests : q # r => job'[q] = job[q]
  BY DEF Goes, TypeOK
<1>3. owed' = (owed \/ m # scope)
  BY DEF Changes
<1>4. CASE m = scope
  <2>1. scope' = scope
    BY <1>1, <1>4
  <2>2. owed => owed'
    BY <1>3
  <2>3. \A q \in Requests : job'[q].at = "push" /\ fresh'[q] =>
          job[q].at = "push" /\ fresh[q] /\ job'[q] = job[q]
    BY <1>1, <1>2
  <2> QED
    BY <2>1, <2>2, <2>3, SeatsQuiet
<1>5. CASE m # scope
  BY <1>1, <1>3, <1>5 DEF SeatsInv, SeatsAgree
<1> QED
  BY <1>4, <1>5

(* What is billed agrees over every step.                                  *)
LEMMA SeatsStep == TypeOK /\ SeatsInv /\ [Next]_vars => SeatsInv'
<1> SUFFICES ASSUME TypeOK, SeatsInv, [Next]_vars PROVE SeatsInv'
  OBVIOUS
<1>1. ASSUME NEW i \in Invites, NEW s \in Scopes, Invite(i, s) PROVE SeatsInv'
  BY <1>1, SeatsQuiet DEF Invite
<1>2. ASSUME NEW i \in Invites, NEW end \in {"revoked", "expired"}, Withdraw(i, end)
      PROVE SeatsInv'
  BY <1>2, SeatsQuiet DEF Withdraw
<1>3. ASSUME NEW r \in Requests, NEW q \in Persons, NEW s \in Access, Ask(r, q, s)
      PROVE  SeatsInv'
  <2> DEFINE j == [at |-> "list", who |-> q, to |-> s]
  <2>1. /\ Goes(r, j) /\ j.at # "push"
        /\ scope' = scope /\ quantity' = quantity /\ sub' = sub /\ owed' = owed /\ fresh' = fresh
    BY <1>3 DEF Ask
  <2> QED
    BY <2>1, SeatsElsewhere
<1>4. ASSUME NEW r \in Requests, NEW p \in Persons, NEW i \in Invites, Open(r, p, i)
      PROVE  SeatsInv'
  <2> DEFINE j == [at |-> "join", who |-> p, by |-> i]
  <2>1. /\ Goes(r, j) /\ j.at # "push"
        /\ scope' = scope /\ quantity' = quantity /\ sub' = sub /\ owed' = owed /\ fresh' = fresh
    BY <1>4 DEF Open
  <2> QED
    BY <2>1, SeatsElsewhere
<1>5. ASSUME NEW r \in Requests, Decide(r) PROVE SeatsInv'
  <2>1. scope' = scope /\ quantity' = quantity /\ sub' = sub /\ owed' = owed
    BY <1>5 DEF Decide
  <2>2. CASE Allowed(job[r].who, job[r].to)
    <3> DEFINE j == [job[r] EXCEPT !.at = "write"]
    <3>1. Goes(r, j) /\ fresh' = [fresh EXCEPT ![r] = TRUE]
      BY <1>5, <2>2 DEF Decide
    <3>2. j.at # "push"
      <4>1. job[r] \in Asks
        BY <1>5, JobCases DEF Decide
      <4> QED
        BY <4>1 DEF Asks
    <3>3. \A q \in Requests : q # r => fresh'[q] = fresh[q]
      BY <3>1 DEF TypeOK
    <3> QED
      BY <2>1, <3>1, <3>2, <3>3, SeatsElsewhere
  <2>3. CASE ~Allowed(job[r].who, job[r].to)
    <3>1. Leaves(r)
      BY <1>5, <2>3 DEF Decide
    <3> QED
      BY <2>1, <3>1, SeatsLeaves
  <2> QED
    BY <2>2, <2>3
<1>6. ASSUME NEW r \in Requests, Write(r) PROVE SeatsInv'
  <2> DEFINE m == [scope EXCEPT ![job[r].who] = IF @ = "none" THEN @ ELSE job[r].to]
             j == [at |-> "sync"]
  <2>1. Changes(r, m) /\ Goes(r, j) /\ quantity' = quantity /\ sub' = sub
    BY <1>6 DEF Write
  <2> QED
    BY <2>1, SeatsChange
<1>7. ASSUME NEW r \in Requests, Join(r) PROVE SeatsInv'
  <2> DEFINE m == [scope EXCEPT ![job[r].who] = IF @ = "none" THEN invite[job[r].by].scope ELSE @]
             j == [job[r] EXCEPT !.at = "stamp"]
  <2>1. Changes(r, m) /\ Goes(r, j) /\ quantity' = quantity /\ sub' = sub
    BY <1>7 DEF Join
  <2> QED
    BY <2>1, SeatsChange
<1>8. ASSUME NEW r \in Requests, Stamp(r) PROVE SeatsInv'
  <2> DEFINE j == [at |-> "sync"]
  <2>1. /\ Goes(r, j) /\ j.at # "push"
        /\ scope' = scope /\ quantity' = quantity /\ sub' = sub /\ owed' = owed /\ fresh' = fresh
    BY <1>8 DEF Stamp
  <2> QED
    BY <2>1, SeatsElsewhere
<1>9. ASSUME NEW r \in Requests, ReadSub(r) PROVE SeatsInv'
  <2> DEFINE j == IF sub = 0 THEN Idle ELSE [at |-> "count", to |-> sub]
  <2>1. /\ Goes(r, j)
        /\ scope' = scope /\ quantity' = quantity /\ sub' = sub /\ owed' = owed /\ fresh' = fresh
    BY <1>9 DEF ReadSub
  <2>2. j.at # "push"
    BY DEF Idle
  <2> QED
    BY <2>1, <2>2, SeatsElsewhere
<1>10. ASSUME NEW r \in Requests, Count(r) PROVE SeatsInv'
  <2> DEFINE j == [at |-> "push", to |-> job[r].to, n |-> Counted(r)]
  <2>1. /\ Goes(r, j) /\ j.n = Seats /\ fresh' = [fresh EXCEPT ![r] = TRUE]
        /\ scope' = scope /\ quantity' = quantity /\ sub' = sub /\ owed' = owed
    BY <1>10 DEF Count, Counted
  <2>2. job'[r] = j /\ \A q \in Requests : q # r => job'[q] = job[q] /\ fresh'[q] = fresh[q]
    BY <2>1 DEF Goes, TypeOK
  <2>3. \A q \in Requests : job'[q].at = "push" /\ fresh'[q] =>
          \/ job[q].at = "push" /\ fresh[q] /\ job'[q] = job[q]
          \/ job'[q].n = Seats
    BY <2>1, <2>2
  <2> QED
    BY <2>1, <2>3, SeatsQuiet
<1>11. ASSUME NEW r \in Requests, Push(r) PROVE SeatsInv'
  <2>1. job[r].at = "push" /\ job[r].to \in Subs
    BY <1>11, JobCases DEF Push
  <2>2. /\ Leaves(r) /\ scope' = scope /\ sub' = sub
        /\ quantity' = [quantity EXCEPT ![job[r].to] = job[r].n]
        /\ owed' = IF job[r].to = sub THEN ~fresh[r] ELSE owed
    BY <1>11 DEF Push
  <2>3. Seats' = Seats
    BY <2>2 DEF Seats, BillableSeats
  <2>4. SeatsAgree'
    <3>1. CASE job[r].to = sub
      <4> SUFFICES ASSUME ~owed' PROVE quantity'[sub'] = Seats'
        BY DEF SeatsAgree
      <4>1. fresh[r]
        BY <2>2, <3>1
      <4>2. job[r].n = Seats
        BY <2>1, <4>1 DEF SeatsInv
      <4>3. quantity'[sub] = job[r].n
        BY <2>1, <2>2, <3>1 DEF TypeOK
      <4> QED
        BY <2>2, <2>3, <4>2, <4>3
    <3>2. CASE job[r].to # sub
      <4>1. owed' = owed
        BY <2>2, <3>2
      <4>2. quantity'[sub] = quantity[sub]
        BY <2>1, <2>2, <3>2 DEF TypeOK
      <4> QED
        BY <2>2, <2>3, <4>1, <4>2 DEF SeatsInv, SeatsAgree
    <3> QED
      BY <3>1, <3>2
  <2>5. /\ job'[r].at # "push"
        /\ \A q \in Requests : q # r => job'[q] = job[q] /\ fresh'[q] = fresh[q]
    BY <2>2 DEF Leaves, Goes, Idle, TypeOK
  <2>6. \A q \in Requests : job'[q].at = "push" /\ fresh'[q] => job'[q].n = Seats'
    BY <2>3, <2>5 DEF SeatsInv
  <2> QED
    BY <2>4, <2>6 DEF SeatsInv
<1>12. ASSUME NEW r \in Requests, PushFails(r) \/ Stop(r) PROVE SeatsInv'
  <2>1. Leaves(r) /\ scope' = scope /\ quantity' = quantity /\ sub' = sub /\ owed' = owed
    BY <1>12 DEF PushFails, Stop
  <2> QED
    BY <2>1, SeatsLeaves
<1>13. CASE Subscribe
  <2>1. scope' = scope /\ quantity' = quantity /\ job' = job /\ fresh' = fresh /\ owed'
    BY <1>13 DEF Subscribe
  <2> QED
    BY <2>1, SeatsQuiet
<1>14. CASE Unsubscribe
  <2>1. scope' = scope /\ quantity' = quantity /\ job' = job /\ fresh' = fresh /\ sub' = 0 /\ owed' = owed
    BY <1>14 DEF Unsubscribe
  <2> QED
    BY <2>1, SeatsQuiet
<1>15. CASE UNCHANGED vars
  <2>1. scope' = scope /\ quantity' = quantity /\ job' = job /\ fresh' = fresh /\ sub' = sub /\ owed' = owed
    BY <1>15 DEF vars
  <2> QED
    BY <2>1, SeatsQuiet
<1>16. ASSUME NEW r \in Requests, Return(r) PROVE SeatsInv'
  <2> DEFINE m == [scope EXCEPT ![Founder] = "admin"]
             j == job[r]
  <2>1. Changes(r, m) /\ job' = job /\ quantity' = quantity /\ sub' = sub
    BY <1>16 DEF Return
  <2>2. Goes(r, j)
    BY <2>1 DEF Goes, TypeOK
  <2> QED
    BY <2>1, <2>2, SeatsChange
<1> QED
  BY <1>1, <1>2, <1>3, <1>4, <1>5, <1>6, <1>7, <1>8, <1>9, <1>10, <1>11, <1>12,
     <1>13, <1>14, <1>15, <1>16 DEF Next

(* A count that nobody overtook leaves Stripe billing the team's seats.    *)
THEOREM BilledForSeats == Spec => []SeatsAgree
<1>1. Init => SeatsInv
  BY DEF Init, SeatsInv, SeatsAgree, Idle
<1>2. SeatsInv => SeatsAgree
  BY DEF SeatsInv
<1> QED
  BY <1>1, <1>2, SeatsStep, TypeCorrect, PTL DEF Spec

-----------------------------------------------------------------------------
(* Who holds an invitation open, and who has joined by it and not marked   *)
(* it yet.                                                                 *)
Joiners(i)  == {r \in Requests : job[r].at = "join" /\ job[r].by = i}
Stampers(i) == {r \in Requests : job[r].at = "stamp" /\ job[r].by = i}

(* While an invitation may still be opened, each who joined by it is about *)
(* to mark it or was cut short; who holds it open may still join.          *)
SpentInv ==
  \A i \in Invites :
    /\ Cardinality(joined[i]) + Cardinality(Joiners(i)) <= Cardinality(Requests) + stops
    /\ invite[i].state \in {"none", "pending"} =>
         Cardinality(joined[i]) <= Cardinality(Stampers(i)) + stops

(* The people and requests of an invitation are counted by naturals.         *)
LEMMA CountsTyped ==
  ASSUME TypeOK, NEW i \in Invites
  PROVE  /\ IsFiniteSet(joined[i]) /\ Cardinality(joined[i]) \in Nat
         /\ IsFiniteSet(Joiners(i)) /\ Cardinality(Joiners(i)) \in Nat
         /\ IsFiniteSet(Stampers(i)) /\ Cardinality(Stampers(i)) \in Nat
         /\ Cardinality(Requests) \in Nat /\ stops \in Nat
<1>1. joined[i] \in SUBSET Persons
  BY DEF TypeOK
<1>2. Joiners(i) \in SUBSET Requests /\ Stampers(i) \in SUBSET Requests
  BY DEF Joiners, Stampers
<1>3. IsFiniteSet(joined[i]) /\ IsFiniteSet(Joiners(i)) /\ IsFiniteSet(Stampers(i))
      /\ IsFiniteSet(Requests)
  BY <1>1, <1>2, FS_Subset, TeamAssumption DEF TeamAssumption
<1>4. stops \in Nat
  BY TeamAssumption DEF TypeOK, TeamAssumption
<1> QED
  BY <1>3, <1>4, FS_CardinalityType

(* One request more: the sets it is not in do not change.                  *)
LEMMA SpentQuiet ==
  ASSUME SpentInv, joined' = joined, stops' = stops,
         \A i \in Invites : invite'[i].state \in {"none", "pending"} =>
           invite[i].state \in {"none", "pending"},
         \A q \in Requests : job'[q] = job[q]
           \/ {job[q].at, job'[q].at} \intersect {"join", "stamp"} = {}
  PROVE  SpentInv'
<1> SUFFICES ASSUME NEW i \in Invites
             PROVE  /\ Cardinality(joined'[i]) + Cardinality(Joiners(i)') <= Cardinality(Requests) + stops'
                    /\ invite'[i].state \in {"none", "pending"} =>
                         Cardinality(joined'[i]) <= Cardinality(Stampers(i)') + stops'
  BY DEF SpentInv
<1>1. Joiners(i)' = Joiners(i) /\ Stampers(i)' = Stampers(i)
  BY DEF Joiners, Stampers
<1> QED
  BY <1>1 DEF SpentInv

(* A request that neither joins nor marks leaves the invitation as it is.    *)
LEMMA SpentGoes ==
  ASSUME TypeOK, SpentInv, NEW r \in Requests, NEW j, Goes(r, j),
         job[r].at \notin {"join", "stamp"}, j.at \notin {"join", "stamp"},
         joined' = joined, stops' = stops, invite' = invite
  PROVE  SpentInv'
<1>1. job'[r] = j /\ \A q \in Requests : q # r => job'[q] = job[q]
  BY DEF Goes, TypeOK
<1> QED
  BY <1>1, SpentQuiet

(* The invitation lets nobody in beyond its bound over any step.           *)
LEMMA SpentStep == TypeOK /\ SpentInv /\ [Next]_vars => SpentInv'
<1> SUFFICES ASSUME TypeOK, SpentInv, [Next]_vars PROVE SpentInv'
  OBVIOUS
<1>0. TypeOK'
  BY TypeStep
<1>1. ASSUME NEW i \in Invites, NEW s \in Scopes, Invite(i, s) PROVE SpentInv'
  <2>1. \A k \in Invites : invite'[k].state \in {"none", "pending"} =>
          invite[k].state \in {"none", "pending"}
    BY <1>1 DEF Invite, TypeOK
  <2> QED
    BY <1>1, <2>1, SpentQuiet DEF Invite
<1>2. ASSUME NEW i \in Invites, NEW end \in {"revoked", "expired"}, Withdraw(i, end)
      PROVE SpentInv'
  <2>1. \A k \in Invites : invite'[k].state \in {"none", "pending"} =>
          invite[k].state \in {"none", "pending"}
    BY <1>2 DEF Withdraw, TypeOK
  <2> QED
    BY <1>2, <2>1, SpentQuiet DEF Withdraw
<1>3. ASSUME NEW r \in Requests, NEW q \in Persons, NEW s \in Access, Ask(r, q, s)
      PROVE  SpentInv'
  <2> DEFINE j == [at |-> "list", who |-> q, to |-> s]
  <2>1. /\ Goes(r, j) /\ j.at \notin {"join", "stamp"} /\ job[r].at \notin {"join", "stamp"}
        /\ joined' = joined /\ stops' = stops /\ invite' = invite
    BY <1>3 DEF Ask, Idle
  <2> QED
    BY <2>1, SpentGoes
<1>4. ASSUME NEW r \in Requests, NEW p \in Persons, NEW i \in Invites, Open(r, p, i)
      PROVE  SpentInv'
  <2>1. /\ job[r] = Idle /\ invite[i].state = "pending"
        /\ job' = [job EXCEPT ![r] = [at |-> "join", who |-> p, by |-> i]]
        /\ joined' = joined /\ stops' = stops /\ invite' = invite
    BY <1>4 DEF Open, Goes, Pending
  <2>2. job'[r] = [at |-> "join", who |-> p, by |-> i]
        /\ \A q \in Requests : q # r => job'[q] = job[q]
    BY <2>1 DEF TypeOK
  <2> SUFFICES ASSUME NEW k \in Invites
               PROVE  /\ Cardinality(joined[k]) + Cardinality(Joiners(k)') <= Cardinality(Requests) + stops
                      /\ invite[k].state \in {"none", "pending"} =>
                           Cardinality(joined[k]) <= Cardinality(Stampers(k)') + stops
    BY <2>1 DEF SpentInv
  <2>3. Stampers(k)' = Stampers(k)
    BY <2>1, <2>2 DEF Stampers, Idle
  <2>4. CASE k # i
    <3>1. Joiners(k)' = Joiners(k)
      BY <2>1, <2>2, <2>4 DEF Joiners, Idle
    <3> QED
      BY <2>3, <3>1 DEF SpentInv
  <2>5. CASE k = i
    <3>1. Joiners(k)' \in SUBSET Requests /\ Stampers(k) \in SUBSET Requests
          /\ Joiners(k)' \intersect Stampers(k) = {}
      BY <2>1, <2>2, <2>3 DEF Joiners, Stampers
    <3>2. Joiners(k)' \in SUBSET (Requests \ Stampers(k))
      BY <3>1
    <3>3. IsFiniteSet(Requests)
      BY TeamAssumption DEF TeamAssumption
    <3>4. /\ IsFiniteSet(Requests \ Stampers(k))
          /\ Cardinality(Requests \ Stampers(k)) = Cardinality(Requests) - Cardinality(Requests \intersect Stampers(k))
      BY <3>3, FS_Difference, CountsTyped
    <3>5. Requests \intersect Stampers(k) = Stampers(k)
      BY <3>1
    <3>6. Cardinality(Joiners(k)') <= Cardinality(Requests) - Cardinality(Stampers(k))
      <4>1. Cardinality(Joiners(k)') <= Cardinality(Requests \ Stampers(k))
        BY <3>2, <3>4, FS_Subset
      <4>2. Cardinality(Requests \ Stampers(k)) = Cardinality(Requests) - Cardinality(Stampers(k))
        BY <3>4, <3>5
      <4> QED
        BY <4>1, <4>2
    <3>7. Cardinality(joined[k]) <= Cardinality(Stampers(k)) + stops
      BY <2>1, <2>5 DEF SpentInv
    <3>8. Cardinality(Joiners(k)') \in Nat
      BY <1>0, CountsTyped, FS_Subset, FS_CardinalityType, <3>1, <3>3
    <3>9. /\ Cardinality(joined[k]) \in Nat /\ Cardinality(Stampers(k)) \in Nat
          /\ Cardinality(Requests) \in Nat /\ stops \in Nat
      BY CountsTyped
    <3> QED
      BY <2>3, <3>6, <3>7, <3>8, <3>9
  <2> QED
    BY <2>4, <2>5
<1>5. ASSUME NEW r \in Requests, Decide(r) PROVE SpentInv'
  <2>1. job[r] \in Asks
    BY <1>5, JobCases DEF Decide
  <2>2. /\ job[r].at \notin {"join", "stamp"}
        /\ joined' = joined /\ stops' = stops /\ invite' = invite
    BY <1>5 DEF Decide
  <2>3. CASE Allowed(job[r].who, job[r].to)
    <3> DEFINE j == [job[r] EXCEPT !.at = "write"]
    <3>1. Goes(r, j) /\ j.at \notin {"join", "stamp"}
      BY <1>5, <2>1, <2>3 DEF Decide, Asks
    <3> QED
      BY <2>2, <3>1, SpentGoes
  <2>4. CASE ~Allowed(job[r].who, job[r].to)
    <3>1. Goes(r, Idle) /\ Idle.at \notin {"join", "stamp"}
      BY <1>5, <2>4 DEF Decide, Leaves, Idle
    <3> QED
      BY <2>2, <3>1, SpentGoes
  <2> QED
    BY <2>3, <2>4
<1>6. ASSUME NEW r \in Requests, Write(r) PROVE SpentInv'
  <2> DEFINE j == [at |-> "sync"]
  <2>1. /\ Goes(r, j) /\ j.at \notin {"join", "stamp"} /\ job[r].at \notin {"join", "stamp"}
        /\ joined' = joined /\ stops' = stops /\ invite' = invite
    BY <1>6 DEF Write
  <2> QED
    BY <2>1, SpentGoes
<1>7. ASSUME NEW r \in Requests, Join(r) PROVE SpentInv'
  <2>1. job[r] \in Acceptings /\ job[r].at = "join"
    BY <1>7, JobCases DEF Join
  <2>2. /\ job' = [job EXCEPT ![r] = [job[r] EXCEPT !.at = "stamp"]]
        /\ stops' = stops /\ invite' = invite
        /\ joined' = [joined EXCEPT ![job[r].by] =
             IF scope[job[r].who] = "none" THEN @ \union {job[r].who} ELSE @]
    BY <1>7 DEF Join, Goes
  <2>3. /\ job'[r].at = "stamp" /\ job'[r].by = job[r].by
        /\ \A q \in Requests : q # r => job'[q] = job[q]
    BY <2>1, <2>2 DEF TypeOK, Acceptings
  <2> SUFFICES ASSUME NEW k \in Invites
               PROVE  /\ Cardinality(joined'[k]) + Cardinality(Joiners(k)') <= Cardinality(Requests) + stops
                      /\ invite[k].state \in {"none", "pending"} =>
                           Cardinality(joined'[k]) <= Cardinality(Stampers(k)') + stops
    BY <2>2 DEF SpentInv
  <2>4. CASE k # job[r].by
    <3>1. joined'[k] = joined[k]
      BY <2>2, <2>4 DEF TypeOK
    <3>2. Joiners(k)' = Joiners(k) /\ Stampers(k)' = Stampers(k)
      BY <2>3, <2>4 DEF Joiners, Stampers
    <3> QED
      BY <3>1, <3>2 DEF SpentInv
  <2>5. CASE k = job[r].by
    <3>1. joined'[k] = joined[k] \/ joined'[k] = joined[k] \union {job[r].who}
      BY <2>2, <2>5 DEF TypeOK
    <3>2. r \in Joiners(k) /\ Joiners(k)' = Joiners(k) \ {r}
      BY <2>1, <2>3, <2>5 DEF Joiners
    <3>3. r \notin Stampers(k) /\ Stampers(k)' = Stampers(k) \union {r}
      BY <2>1, <2>3, <2>5 DEF Stampers
    <3>4. /\ IsFiniteSet(joined[k]) /\ Cardinality(joined[k]) \in Nat
          /\ IsFiniteSet(Joiners(k)) /\ Cardinality(Joiners(k)) \in Nat
          /\ IsFiniteSet(Stampers(k)) /\ Cardinality(Stampers(k)) \in Nat
          /\ Cardinality(Requests) \in Nat /\ stops \in Nat
      BY CountsTyped
    <3>5. Cardinality(joined'[k]) \in {Cardinality(joined[k]), Cardinality(joined[k]) + 1}
      BY <3>1, <3>4, FS_AddElement
    <3>6. Cardinality(Joiners(k)') = Cardinality(Joiners(k)) - 1
      BY <3>2, <3>4, FS_RemoveElement
    <3>7. Cardinality(Stampers(k)') = Cardinality(Stampers(k)) + 1
      BY <3>3, <3>4, FS_AddElement
    <3>8. /\ Cardinality(joined[k]) + Cardinality(Joiners(k)) <= Cardinality(Requests) + stops
          /\ invite[k].state \in {"none", "pending"} =>
               Cardinality(joined[k]) <= Cardinality(Stampers(k)) + stops
      BY DEF SpentInv
    <3> QED
      BY <3>4, <3>5, <3>6, <3>7, <3>8
  <2> QED
    BY <2>4, <2>5
<1>8. ASSUME NEW r \in Requests, Stamp(r) PROVE SpentInv'
  <2>1. job[r] \in Acceptings /\ job[r].at = "stamp"
    BY <1>8, JobCases DEF Stamp
  <2>2. /\ job' = [job EXCEPT ![r] = [at |-> "sync"]]
        /\ stops' = stops /\ joined' = joined
        /\ invite' = [invite EXCEPT ![job[r].by].state = "accepted"]
    BY <1>8 DEF Stamp, Goes
  <2>3. /\ job'[r].at = "sync"
        /\ \A q \in Requests : q # r => job'[q] = job[q]
    BY <2>2 DEF TypeOK
  <2> SUFFICES ASSUME NEW k \in Invites
               PROVE  /\ Cardinality(joined[k]) + Cardinality(Joiners(k)') <= Cardinality(Requests) + stops
                      /\ invite'[k].state \in {"none", "pending"} =>
                           Cardinality(joined[k]) <= Cardinality(Stampers(k)') + stops
    BY <2>2 DEF SpentInv
  <2>4. Joiners(k)' = Joiners(k)
    BY <2>1, <2>3 DEF Joiners
  <2>5. CASE k # job[r].by
    <3>1. invite'[k] = invite[k]
      BY <2>2, <2>5 DEF TypeOK
    <3>2. Stampers(k)' = Stampers(k)
      BY <2>1, <2>3, <2>5 DEF Stampers
    <3> QED
      BY <2>4, <3>1, <3>2 DEF SpentInv
  <2>6. CASE k = job[r].by
    <3>1. invite'[k].state = "accepted"
      BY <2>2, <2>6 DEF TypeOK
    <3> QED
      BY <2>4, <3>1 DEF SpentInv
  <2> QED
    BY <2>5, <2>6
<1>9. ASSUME NEW r \in Requests, ReadSub(r) PROVE SpentInv'
  <2> DEFINE j == IF sub = 0 THEN Idle ELSE [at |-> "count", to |-> sub]
  <2>1. /\ Goes(r, j) /\ job[r].at \notin {"join", "stamp"}
        /\ joined' = joined /\ stops' = stops /\ invite' = invite
    BY <1>9 DEF ReadSub
  <2>2. j.at \notin {"join", "stamp"}
    BY DEF Idle
  <2> QED
    BY <2>1, <2>2, SpentGoes
<1>10. ASSUME NEW r \in Requests, Count(r) PROVE SpentInv'
  <2> DEFINE j == [at |-> "push", to |-> job[r].to, n |-> Counted(r)]
  <2>1. /\ Goes(r, j) /\ j.at \notin {"join", "stamp"} /\ job[r].at \notin {"join", "stamp"}
        /\ joined' = joined /\ stops' = stops /\ invite' = invite
    BY <1>10 DEF Count
  <2> QED
    BY <2>1, SpentGoes
<1>11. ASSUME NEW r \in Requests, Push(r) \/ PushFails(r) PROVE SpentInv'
  <2>1. /\ Goes(r, Idle) /\ Idle.at \notin {"join", "stamp"} /\ job[r].at \notin {"join", "stamp"}
        /\ joined' = joined /\ stops' = stops /\ invite' = invite
    BY <1>11 DEF Push, PushFails, Leaves, Idle
  <2> QED
    BY <2>1, SpentGoes
<1>12. ASSUME NEW r \in Requests, Stop(r) PROVE SpentInv'
  <2>1. /\ job' = [job EXCEPT ![r] = Idle] /\ stops' = stops + 1
        /\ joined' = joined /\ invite' = invite
    BY <1>12 DEF Stop, Leaves, Goes
  <2>2. job'[r] = Idle /\ \A q \in Requests : q # r => job'[q] = job[q]
    BY <2>1 DEF TypeOK
  <2> SUFFICES ASSUME NEW k \in Invites
               PROVE  /\ Cardinality(joined[k]) + Cardinality(Joiners(k)') <= Cardinality(Requests) + stops'
                      /\ invite[k].state \in {"none", "pending"} =>
                           Cardinality(joined[k]) <= Cardinality(Stampers(k)') + stops'
    BY <2>1 DEF SpentInv
  <2>3. Joiners(k)' = Joiners(k) \ {r} /\ Stampers(k)' = Stampers(k) \ {r}
    BY <2>2 DEF Joiners, Stampers, Idle
  <2>4. /\ IsFiniteSet(Joiners(k)) /\ Cardinality(Joiners(k)) \in Nat
        /\ IsFiniteSet(Stampers(k)) /\ Cardinality(Stampers(k)) \in Nat
        /\ Cardinality(joined[k]) \in Nat /\ Cardinality(Requests) \in Nat /\ stops \in Nat
    BY CountsTyped
  <2>5. /\ Cardinality(Joiners(k)') \in {Cardinality(Joiners(k)) - 1, Cardinality(Joiners(k))}
        /\ Cardinality(Stampers(k)') \in {Cardinality(Stampers(k)) - 1, Cardinality(Stampers(k))}
    BY <2>3, <2>4, FS_RemoveElement
  <2>6. /\ Cardinality(joined[k]) + Cardinality(Joiners(k)) <= Cardinality(Requests) + stops
        /\ invite[k].state \in {"none", "pending"} =>
             Cardinality(joined[k]) <= Cardinality(Stampers(k)) + stops
    BY DEF SpentInv
  <2> QED
    BY <2>1, <2>4, <2>5, <2>6
<1>13. CASE Subscribe \/ Unsubscribe \/ UNCHANGED vars
  <2>1. job' = job /\ joined' = joined /\ stops' = stops /\ invite' = invite
    BY <1>13 DEF Subscribe, Unsubscribe, vars
  <2> QED
    BY <2>1, SpentQuiet
<1>14. ASSUME NEW r \in Requests, Return(r) PROVE SpentInv'
  <2>1. job' = job /\ joined' = joined /\ stops' = stops /\ invite' = invite
    BY <1>14 DEF Return
  <2> QED
    BY <2>1, SpentQuiet
<1> QED
  BY <1>1, <1>2, <1>3, <1>4, <1>5, <1>6, <1>7, <1>8, <1>9, <1>10, <1>11, <1>12,
     <1>13, <1>14 DEF Next

(* No invitation has let anyone in at the start.                             *)
LEMMA SpentInit == Init => SpentInv
<1> SUFFICES ASSUME Init, NEW i \in Invites
             PROVE  /\ Cardinality(joined[i]) + Cardinality(Joiners(i)) <= Cardinality(Requests) + stops
                    /\ Cardinality(joined[i]) <= Cardinality(Stampers(i)) + stops
  BY DEF SpentInv
<1>1. joined[i] = {} /\ Joiners(i) = {} /\ Stampers(i) = {} /\ stops = 0
  BY DEF Init, Joiners, Stampers, Idle
<1>2. Cardinality(Requests) \in Nat
  BY FS_CardinalityType, TeamAssumption DEF TeamAssumption
<1> QED
  BY <1>1, <1>2, FS_EmptySet

(* An invitation lets in no more people than requests are under way at     *)
(* once, and one more for each that ended half way.                        *)
THEOREM InviteBounded == Spec => []InviteIsSpent
<1>1. TypeOK /\ SpentInv => InviteIsSpent
  <2> SUFFICES ASSUME TypeOK, SpentInv, NEW i \in Invites
               PROVE  Cardinality(joined[i]) <= Cardinality(Requests) + stops
    BY DEF InviteIsSpent
  <2>1. Cardinality(joined[i]) + Cardinality(Joiners(i)) <= Cardinality(Requests) + stops
    BY DEF SpentInv
  <2> QED
    BY <2>1, CountsTyped
<1> QED
  BY <1>1, SpentInit, SpentStep, TypeCorrect, PTL DEF Spec
=============================================================================
