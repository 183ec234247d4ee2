--------------------------- MODULE TeamPlan_proofs ---------------------------
(* What TeamPlan promises for any number of subscriptions, changes and       *)
(* deliveries made again.                                                    *)
EXTENDS TeamPlan, SequenceTheorems, TLAPS

-----------------------------------------------------------------------------
(* The type invariant alone is not inductive: a hook that is not empty names *)
(* a subscription.                                                           *)
Typed == TypeOK /\ (hook # NoHook => hook.sub \in Subs)

(* Only subscriptions that came to be have events, a hook or the team's row; *)
(* one set up in Stripe has no checkout to complete; an end is final; and a  *)
(* customer belongs to a session that was opened.                            *)
Known ==
  /\ \A k \in DOMAIN mail :
       /\ mail[k].sub \in Bought
       /\ mail[k].kind = "completed" => mail[k].sub \notin given
       /\ mail[k].kind = "deleted" => subs[mail[k].sub] = "gone"
  /\ hook # NoHook => hook.sub \in Bought \ given
  /\ subId # 0 => subId \in Bought
  /\ given \subseteq Bought
  /\ customer # 0 => subs[customer] # "none"
  /\ \A s \in Subs : custOf[s] # 0 => subs[custOf[s]] # "none"

(* The newest event about a subscription carries the state it is in.         *)
Newest == \A k \in DOMAIN mail :
  (\A i \in DOMAIN mail : i > k => mail[i].sub # mail[k].sub)
     => mail[k].state = subs[mail[k].sub]

(* What the row or the hook says of a subscription is out of date only while *)
(* an event about it waits.                                                  *)
Pending(s) == \E k \in DOMAIN mail : mail[k].sub = s
RowInStep  == hook = NoHook /\ subId # 0 /\ ~Pending(subId) => plan = PlanOf(subs[subId])
HookInStep == hook # NoHook /\ ~Pending(hook.sub) => hook.plan = PlanOf(subs[hook.sub])

(* The row names the only subscription until that one ends, or an event that *)
(* will make it do so is on its way: the completion of its checkout, or for  *)
(* one set up in Stripe any event while its customer is the team's.          *)
Completing(s) == \E k \in DOMAIN mail : mail[k].sub = s /\ mail[k].kind = "completed"
Coming(s) ==
  IF s \in given THEN custOf[s] = customer => Pending(s)
  ELSE (hook # NoHook /\ hook.sub = s) \/ Completing(s)
OnlyNamed == \A s \in Subs : Bought = {s} => subs[s] = "gone" \/ subId = s \/ Coming(s)

(* All of this holds as long as the events are handled in order.             *)
InOrder == ~reordered => Newest /\ RowInStep /\ HookInStep /\ OnlyNamed

PlanInv == Typed /\ Known /\ InOrder

-----------------------------------------------------------------------------
(* The queue of events.                                                      *)
LEMMA RemoveAtProperties ==
  ASSUME NEW S, NEW q \in Seq(S), NEW k \in 1..Len(q)
  PROVE  /\ RemoveAt(q, k) \in Seq(S)
         /\ Len(RemoveAt(q, k)) = Len(q) - 1
         /\ \A i \in 1..Len(q) - 1 : RemoveAt(q, k)[i] = IF i < k THEN q[i] ELSE q[i + 1]
<1> DEFINE a == SubSeq(q, 1, k - 1)
           b == SubSeq(q, k + 1, Len(q))
<1>0. Len(q) \in Nat /\ k \in 1..Len(q) /\ \A i \in 1..Len(q) : q[i] \in S
  BY LenProperties, ElementOfSeq
<1>1. /\ a \in Seq(S) /\ Len(a) = k - 1 /\ \A i \in 1..k - 1 : a[i] = q[i]
  <2>1. \A i \in 1..k - 1 : q[i] \in S
    BY <1>0
  <2>2. 1 \in Int /\ k - 1 \in Int
    BY <1>0
  <2>3. /\ a \in Seq(S) /\ Len(a) = IF 1 <= k - 1 THEN k - 1 - 1 + 1 ELSE 0
        /\ \A i \in 1..(k - 1) - 1 + 1 : a[i] = q[1 + i - 1]
    BY <2>1, <2>2, SubSeqProperties
  <2> QED BY <1>0, <2>3
<1>2. /\ b \in Seq(S) /\ Len(b) = Len(q) - k /\ \A i \in 1..Len(q) - k : b[i] = q[k + i]
  <2>1. \A i \in k + 1..Len(q) : q[i] \in S
    BY <1>0
  <2>2. k + 1 \in Int /\ Len(q) \in Int
    BY <1>0
  <2>3. /\ b \in Seq(S) /\ Len(b) = IF k + 1 <= Len(q) THEN Len(q) - (k + 1) + 1 ELSE 0
        /\ \A i \in 1..Len(q) - (k + 1) + 1 : b[i] = q[(k + 1) + i - 1]
    BY <2>1, <2>2, SubSeqProperties
  <2> QED BY <1>0, <2>3
<1>3. RemoveAt(q, k) = a \o b
  BY DEF RemoveAt
<1> HIDE DEF a, b
<1>4. /\ a \o b \in Seq(S) /\ Len(a \o b) = Len(a) + Len(b)
      /\ \A i \in 1..Len(a) + Len(b) : (a \o b)[i] = IF i <= Len(a) THEN a[i] ELSE b[i - Len(a)]
  BY <1>1, <1>2, ConcatProperties
<1>5. Len(a) + Len(b) = Len(q) - 1
  BY <1>0, <1>1, <1>2
<1>6. ASSUME NEW i \in 1..Len(q) - 1
      PROVE  (a \o b)[i] = IF i < k THEN q[i] ELSE q[i + 1]
  <2>1. (a \o b)[i] = IF i <= Len(a) THEN a[i] ELSE b[i - Len(a)]
    BY <1>4, <1>5
  <2>2. CASE i < k
    BY <1>0, <1>1, <2>1, <2>2
  <2>3. CASE ~(i < k)
    <3>1. i - Len(a) \in 1..Len(q) - k /\ k + (i - Len(a)) = i + 1 /\ ~(i <= Len(a))
      BY <1>0, <1>1, <2>3
    <3>2. b[i - Len(a)] = q[i + 1]
      BY <1>2, <3>1
    <3> QED BY <2>1, <2>3, <3>1, <3>2
  <2> QED BY <2>2, <2>3
<1> QED BY <1>3, <1>4, <1>5, <1>6

Kinds == {"completed", "updated", "deleted"}

(* What Stripe posts stands at the end.                                      *)
LEMMA PostsOne ==
  ASSUME Typed, NEW kind \in Kinds, NEW s \in Subs, NEW state \in States, Posts(<<kind>>, s, state)
  PROVE  /\ mail' \in Seq(Events) /\ Len(mail) \in Nat /\ Len(mail') = Len(mail) + 1
         /\ \A k \in 1..Len(mail) : mail'[k] = mail[k]
         /\ mail'[Len(mail) + 1] = [kind |-> kind, sub |-> s, state |-> state]
<1> DEFINE e == [kind |-> kind, sub |-> s, state |-> state]
           t == [k \in DOMAIN <<kind>> |-> [kind |-> <<kind>>[k], sub |-> s, state |-> state]]
<1>1. e \in Events
  BY DEF Events, Kinds
<1>2. t = <<e>>
  OBVIOUS
<1>3. <<e>> \in Seq(Events) /\ Len(<<e>>) = 1 /\ <<e>>[1] = e
  BY <1>1
<1>4. mail' = mail \o <<e>> /\ mail \in Seq(Events)
  BY <1>2 DEF Posts, Typed, TypeOK
<1> HIDE DEF e, t
<1>5. /\ mail' \in Seq(Events) /\ Len(mail') = Len(mail) + 1
      /\ \A k \in 1..Len(mail) + 1 : mail'[k] = IF k <= Len(mail) THEN mail[k] ELSE <<e>>[k - Len(mail)]
  BY <1>3, <1>4, ConcatProperties
<1>6. Len(mail) \in Nat
  BY <1>4, LenProperties
<1> QED BY <1>3, <1>5, <1>6 DEF e

(* So do the two events of a paid session.                                   *)
LEMMA PostsTwo ==
  ASSUME Typed, NEW one \in Kinds, NEW two \in Kinds, NEW s \in Subs, NEW state \in States,
         Posts(<<one, two>>, s, state)
  PROVE  /\ mail' \in Seq(Events) /\ Len(mail) \in Nat /\ Len(mail') = Len(mail) + 2
         /\ \A k \in 1..Len(mail) : mail'[k] = mail[k]
         /\ mail'[Len(mail) + 1] = [kind |-> one, sub |-> s, state |-> state]
         /\ mail'[Len(mail) + 2] = [kind |-> two, sub |-> s, state |-> state]
<1> DEFINE d == [kind |-> one, sub |-> s, state |-> state]
           e == [kind |-> two, sub |-> s, state |-> state]
           t == [k \in DOMAIN <<one, two>> |-> [kind |-> <<one, two>>[k], sub |-> s, state |-> state]]
<1>1. d \in Events /\ e \in Events
  BY DEF Events, Kinds
<1>2. t = <<d, e>>
  OBVIOUS
<1>3. <<d, e>> \in Seq(Events) /\ Len(<<d, e>>) = 2 /\ <<d, e>>[1] = d /\ <<d, e>>[2] = e
  BY <1>1
<1>4. mail' = mail \o <<d, e>> /\ mail \in Seq(Events)
  BY <1>2 DEF Posts, Typed, TypeOK
<1> HIDE DEF d, e, t
<1>5. /\ mail' \in Seq(Events) /\ Len(mail') = Len(mail) + 2
      /\ \A k \in 1..Len(mail) + 2 : mail'[k] = IF k <= Len(mail) THEN mail[k] ELSE <<d, e>>[k - Len(mail)]
  BY <1>3, <1>4, ConcatProperties
<1>6. Len(mail) \in Nat
  BY <1>4, LenProperties
<1> QED BY <1>3, <1>5, <1>6 DEF d, e

(* Handling an event leaves the others, or all of them, in their order.      *)
LEMMA TakesKeeps ==
  ASSUME Typed, NEW k \in DOMAIN mail, NEW again \in BOOLEAN, Takes(k, again)
  PROVE  /\ mail' \in Seq(Events) /\ DOMAIN mail = 1..Len(mail) /\ Len(mail) \in Nat
         /\ DOMAIN mail' = 1..Len(mail') /\ mail[k] \in Events
         /\ \A j \in DOMAIN mail' : \E i \in DOMAIN mail : mail'[j] = mail[i]
         /\ repeats' \in 0..MaxRepeats /\ reordered' \in BOOLEAN
         /\ ~reordered' => /\ ~reordered /\ k = 1 /\ hook = NoHook
                           /\ \/ mail' = mail
                              \/ /\ Len(mail') = Len(mail) - 1
                                 /\ \A j \in 1..Len(mail) - 1 : mail'[j] = mail[j + 1]
<1>1. mail \in Seq(Events) /\ DOMAIN mail = 1..Len(mail) /\ Len(mail) \in Nat /\ mail[k] \in Events
  BY LenProperties, ElementOfSeq DEF Typed, TypeOK
<1>2. repeats' \in 0..MaxRepeats /\ reordered' \in BOOLEAN
  BY TeamPlanAssumption DEF Takes, Typed, TypeOK
<1>3. ~reordered' => ~reordered /\ k = 1 /\ hook = NoHook
  BY DEF Takes
<1>4. CASE mail' = mail
  BY <1>1, <1>2, <1>3, <1>4
<1>5. CASE mail' = RemoveAt(mail, k)
  <2>1. /\ mail' \in Seq(Events) /\ Len(mail') = Len(mail) - 1
        /\ \A i \in 1..Len(mail) - 1 : mail'[i] = IF i < k THEN mail[i] ELSE mail[i + 1]
    BY <1>1, <1>5, RemoveAtProperties
  <2>2. DOMAIN mail' = 1..Len(mail')
    BY <2>1, LenProperties
  <2>3. ASSUME NEW j \in DOMAIN mail' PROVE \E i \in DOMAIN mail : mail'[j] = mail[i]
    <3>1. CASE j < k
      <4>1. j \in DOMAIN mail /\ mail'[j] = mail[j]
        BY <1>1, <2>1, <2>2, <3>1
      <4> QED BY <4>1
    <3>2. CASE ~(j < k)
      <4>1. j + 1 \in DOMAIN mail /\ mail'[j] = mail[j + 1]
        BY <1>1, <2>1, <2>2, <3>2
      <4> QED BY <4>1
    <3> QED BY <3>1, <3>2
  <2>4. k = 1 => \A j \in 1..Len(mail) - 1 : mail'[j] = mail[j + 1]
    BY <1>1, <2>1
  <2> QED BY <1>1, <1>2, <1>3, <2>1, <2>2, <2>3, <2>4
<1> QED BY <1>4, <1>5 DEF Takes

-----------------------------------------------------------------------------
(* The shape of the queue.                                                   *)
LEMMA MailDomain ==
  ASSUME Typed
  PROVE  /\ Len(mail) \in Nat /\ DOMAIN mail = 1..Len(mail)
         /\ \A k \in DOMAIN mail : mail[k] \in Events /\ mail[k].sub \in Subs
<1>1. mail \in Seq(Events)
  BY DEF Typed, TypeOK
<1>2. Len(mail) \in Nat /\ DOMAIN mail = 1..Len(mail)
  BY <1>1, LenProperties
<1>3. \A k \in 1..Len(mail) : mail[k] \in Events
  BY <1>1, ElementOfSeq
<1>4. \A e \in Events : e.sub \in Subs
  BY DEF Events
<1> QED BY <1>2, <1>3, <1>4

(* No subscription has the number 0.                                         *)
LEMMA SubNotZero == \A s \in Subs : s # 0
BY TeamPlanAssumption DEF Subs

(* A session is opened: no subscription comes to be yet.                     *)
LEMMA OpenSessionStep ==
  ASSUME PlanInv, NEW s \in Subs, NEW anew \in BOOLEAN, OpenSession(s, anew)
  PROVE  PlanInv'
<1>1. /\ subs[s] = "none" /\ subs' = [subs EXCEPT ![s] = "open"]
      /\ customer' = IF anew THEN s ELSE customer
      /\ custOf' = [custOf EXCEPT ![s] = IF anew THEN s ELSE customer]
      /\ UNCHANGED <<plan, subId, given, mail, hook, reordered, changes, repeats>>
  BY DEF OpenSession
<1>2. Typed'
  BY <1>1, TeamPlanAssumption DEF PlanInv, Typed, TypeOK, Subs, States
<1>3. /\ subs'[s] = "open" /\ \A t \in Subs \ {s} : subs'[t] = subs[t] /\ custOf'[t] = custOf[t]
      /\ custOf'[s] = customer' /\ s \notin Bought
  BY <1>1 DEF PlanInv, Typed, TypeOK, Bought
<1>4. Bought' = Bought
  BY <1>1, <1>3 DEF Bought
<1>5. Known'
  <2>1. \A c \in Subs : subs[c] # "none" => subs'[c] # "none"
    BY <1>1, <1>3
  <2>2. customer' # 0 => subs'[customer'] # "none"
    <3>1. customer \in 0..MaxSubs
      BY DEF PlanInv, Typed, TypeOK
    <3> QED BY <1>1, <1>3, <2>1, <3>1 DEF PlanInv, Known, Subs
  <2>3. \A t \in Subs : custOf'[t] # 0 => subs'[custOf'[t]] # "none"
    <3>1. \A t \in Subs : custOf[t] \in 0..MaxSubs
      BY DEF PlanInv, Typed, TypeOK
    <3> QED BY <1>3, <2>1, <2>2, <3>1 DEF PlanInv, Known, Subs
  <2>4. \A k \in DOMAIN mail : mail[k].kind = "deleted" => subs'[mail[k].sub] = "gone"
    BY <1>3, MailDomain DEF PlanInv, Known, Bought
  <2> QED BY <1>1, <1>4, <2>2, <2>3, <2>4 DEF PlanInv, Known
<1>6. ASSUME ~reordered' PROVE (Newest /\ RowInStep /\ HookInStep /\ OnlyNamed)'
  <2>0. ~reordered /\ Newest /\ RowInStep /\ HookInStep /\ OnlyNamed
    BY <1>1, <1>6 DEF PlanInv, InOrder
  <2>1. \A t \in Bought : subs'[t] = subs[t] /\ custOf'[t] = custOf[t]
    BY <1>3 DEF Bought
  <2>2. Newest'
    BY <1>1, <2>0, <2>1 DEF Newest, PlanInv, Known
  <2>3. (RowInStep /\ HookInStep)'
    BY <1>1, <2>0, <2>1 DEF RowInStep, HookInStep, Pending, PlanInv, Known
  <2>4. ASSUME NEW t \in Subs, Bought' = {t} PROVE subs'[t] = "gone" \/ subId' = t \/ Coming(t)'
    <3>1. t \in Bought /\ Bought = {t} /\ subs'[t] = subs[t] /\ custOf'[t] = custOf[t]
      BY <1>4, <2>1, <2>4
    <3>2. custOf[t] = customer' => custOf[t] = customer
      <4>1. custOf[t] # s
        BY <1>1, SubNotZero DEF PlanInv, Known
      <4> QED BY <1>1, <4>1
    <3> QED BY <1>1, <2>0, <3>1, <3>2 DEF OnlyNamed, Coming, Completing, Pending
  <2> QED BY <2>2, <2>3, <2>4 DEF OnlyNamed
<1> QED BY <1>2, <1>5, <1>6 DEF PlanInv, InOrder

-----------------------------------------------------------------------------
(* Stripe changes a subscription and posts events that carry its new state.  *)
Posted(s, state) ==
  /\ Len(mail') \in Nat /\ Len(mail') > Len(mail) /\ DOMAIN mail' = 1..Len(mail')
  /\ \A k \in 1..Len(mail) : mail'[k] = mail[k]
  /\ \A k \in Len(mail) + 1..Len(mail') :
       /\ mail'[k].sub = s /\ mail'[k].state = state
       /\ mail'[k].kind = "deleted" => state = "gone"
       /\ mail'[k].kind = "completed" => s \notin given'

(* A subscription that only now came to be is set up in Stripe, or its       *)
(* checkout's completion is posted.                                          *)
Arrives(s) ==
  IF s \in Bought THEN given' = given /\ custOf' = custOf
  ELSE s \in given' \/ Completing(s)'

(* Whatever Stripe posts, the row is out of date only until it is handled.   *)
LEMMA PostStep ==
  ASSUME PlanInv, Typed', NEW s \in Subs, NEW state \in Live \union {"gone"},
         subs[s] # "gone", subs' = [subs EXCEPT ![s] = state],
         Posted(s, state), Arrives(s), given' \in {given, given \union {s}},
         custOf' \in {custOf, [custOf EXCEPT ![s] = customer]},
         UNCHANGED <<plan, subId, customer, hook, reordered>>
  PROVE  PlanInv'
<1>0. Typed /\ Known
  BY DEF PlanInv
<1>1. /\ subs'[s] = state /\ \A t \in Subs \ {s} : subs'[t] = subs[t]
      /\ state \notin {"none", "open"}
  BY <1>0 DEF Typed, TypeOK, Live, Prices
<1>2. Bought' = Bought \union {s}
  BY <1>1 DEF Bought
<1>3. /\ Len(mail) \in Nat /\ DOMAIN mail = 1..Len(mail)
      /\ \A k \in DOMAIN mail : mail[k] \in Events /\ mail[k].sub \in Subs
  BY <1>0, MailDomain
<1>4. /\ DOMAIN mail \subseteq DOMAIN mail' /\ \A k \in DOMAIN mail : mail'[k] = mail[k]
      /\ \A k \in DOMAIN mail' \ DOMAIN mail : k \in Len(mail) + 1..Len(mail') /\ mail'[k].sub = s
  BY <1>3 DEF Posted
<1>5. Known'
  <2>1. ASSUME NEW k \in DOMAIN mail'
        PROVE  /\ mail'[k].sub \in Bought'
               /\ mail'[k].kind = "completed" => mail'[k].sub \notin given'
               /\ mail'[k].kind = "deleted" => subs'[mail'[k].sub] = "gone"
    <3>1. CASE k \in DOMAIN mail
      <4>1. mail'[k] = mail[k] /\ mail[k].sub \in Bought /\ mail[k].sub \in Subs
        BY <1>0, <1>3, <1>4, <3>1 DEF Known
      <4>2. mail[k].kind = "completed" => mail[k].sub \notin given'
        <5>1. mail[k].sub = s => given' = given
          BY <4>1 DEF Arrives
        <5> QED BY <1>0, <3>1, <5>1 DEF Known
      <4>3. mail[k].kind = "deleted" => subs'[mail[k].sub] = "gone"
        BY <1>0, <1>1, <3>1, <4>1 DEF Known
      <4> QED BY <1>2, <4>1, <4>2, <4>3
    <3>2. CASE k \notin DOMAIN mail
      BY <1>1, <1>2, <1>4, <3>2 DEF Posted
    <3> QED BY <3>1, <3>2
  <2>2. hook # NoHook => hook.sub \in Bought \ given'
    BY <1>0 DEF Known, Arrives
  <2>3. customer # 0 => subs'[customer] # "none"
    <3>1. customer \in 0..MaxSubs
      BY <1>0 DEF Typed, TypeOK
    <3> QED BY <1>0, <1>1, <3>1 DEF Known, Subs
  <2>4. \A t \in Subs : custOf'[t] # 0 => subs'[custOf'[t]] # "none"
    <3> SUFFICES ASSUME NEW t \in Subs, custOf'[t] # 0 PROVE subs'[custOf'[t]] # "none"
      OBVIOUS
    <3>1. custOf'[t] = custOf[t] \/ custOf'[t] = customer
      BY <1>0 DEF Typed, TypeOK
    <3>2. custOf[t] \in 0..MaxSubs
      BY <1>0 DEF Typed, TypeOK
    <3>3. custOf[t] # 0 => subs[custOf[t]] # "none" /\ custOf[t] \in Subs
      BY <1>0, <3>2 DEF Known, Subs
    <3> QED BY <1>1, <2>3, <3>1, <3>3
  <2>5. given' \subseteq Bought'
    BY <1>0, <1>2 DEF Known
  <2>6. subId' # 0 => subId' \in Bought'
    BY <1>0, <1>2 DEF Known
  <2> QED BY <1>2, <2>1, <2>2, <2>3, <2>4, <2>5, <2>6 DEF Known
<1>6. ASSUME ~reordered' PROVE (Newest /\ RowInStep /\ HookInStep /\ OnlyNamed)'
  <2>0. ~reordered /\ Newest /\ RowInStep /\ HookInStep /\ OnlyNamed
    BY <1>6 DEF PlanInv, InOrder
  <2>1. Pending(s)' /\ \A t : Pending(t) => Pending(t)'
    <3>1. Len(mail) + 1 \in DOMAIN mail' /\ mail'[Len(mail) + 1].sub = s
      BY <1>3 DEF Posted
    <3> QED BY <1>4, <3>1 DEF Pending
  <2>2. Newest'
    <3> SUFFICES ASSUME NEW k \in DOMAIN mail',
                        \A i \in DOMAIN mail' : i > k => mail'[i].sub # mail'[k].sub
                 PROVE  mail'[k].state = subs'[mail'[k].sub]
      BY DEF Newest
    <3>1. CASE k \in DOMAIN mail
      <4>1. Len(mail') \in DOMAIN mail' /\ Len(mail') > k /\ mail'[Len(mail')].sub = s
        BY <1>3, <3>1 DEF Posted
      <4>2. mail'[k] = mail[k] /\ mail[k].sub # s /\ mail[k].sub \in Subs
        BY <1>3, <1>4, <3>1, <4>1
      <4>3. \A i \in DOMAIN mail : i > k => mail[i].sub # mail[k].sub
        BY <1>4, <4>2
      <4> QED BY <1>1, <2>0, <3>1, <4>2, <4>3 DEF Newest
    <3>2. CASE k \notin DOMAIN mail
      BY <1>1, <1>4, <3>2 DEF Posted
    <3> QED BY <3>1, <3>2
  <2>3. RowInStep'
    <3>1. ASSUME hook = NoHook, subId # 0, subId # s, ~Pending(subId)' PROVE plan = PlanOf(subs'[subId])
      <4>1. subs'[subId] = subs[subId]
        BY <1>0, <1>1, <3>1 DEF Known, Bought
      <4> QED BY <2>0, <2>1, <3>1, <4>1 DEF RowInStep, Pending
    <3> QED BY <2>1, <3>1 DEF RowInStep, Pending
  <2>4. HookInStep'
    <3>1. ASSUME hook # NoHook, hook.sub # s, ~Pending(hook.sub)' PROVE hook.plan = PlanOf(subs'[hook.sub])
      <4>1. subs'[hook.sub] = subs[hook.sub]
        BY <1>0, <1>1, <3>1 DEF Typed
      <4> QED BY <2>0, <2>1, <3>1, <4>1 DEF HookInStep, Pending
    <3> QED BY <2>1, <3>1 DEF HookInStep, Pending
  <2>5. ASSUME NEW t \in Subs, Bought' = {t} PROVE subs'[t] = "gone" \/ subId' = t \/ Coming(t)'
    <3>1. t = s
      BY <1>2, <2>5
    <3>2. CASE s \in Bought
      <4>1. Bought = {s} /\ given' = given /\ custOf' = custOf
        BY <1>2, <2>5, <3>1, <3>2 DEF Arrives
      <4>2. subId = s \/ Coming(s)
        BY <2>0, <4>1 DEF OnlyNamed
      <4>3. Coming(s) => Coming(s)'
        BY <1>4, <2>1, <4>1 DEF Coming, Completing
      <4> QED BY <3>1, <4>2, <4>3
    <3>3. CASE s \notin Bought
      <4>1. s \in given' \/ Completing(s)'
        BY <3>3 DEF Arrives
      <4>2. Coming(s)'
        BY <2>1, <4>1 DEF Coming
      <4> QED BY <3>1, <4>2
    <3> QED BY <3>2, <3>3
  <2> QED BY <2>2, <2>3, <2>4, <2>5 DEF OnlyNamed
<1> QED BY <1>5, <1>6 DEF PlanInv, InOrder

-----------------------------------------------------------------------------
(* Stripe's steps.  A paid session makes a subscription that did not come to *)
(* be before, so it is none of those set up in Stripe.                       *)
LEMMA PayStep ==
  ASSUME PlanInv, NEW s \in Subs, NEW price \in Prices, Pay(s, price)
  PROVE  PlanInv'
<1>0. Typed /\ Known
  BY DEF PlanInv
<1>1. /\ subs[s] = "open" /\ subs' = [subs EXCEPT ![s] = price] /\ given' = given /\ custOf' = custOf
      /\ UNCHANGED <<plan, subId, customer, hook, reordered, changes, repeats>>
      /\ Posts(<<"updated", "completed">>, s, price)
  BY DEF Pay
<1>2. price \in States /\ price \in Live
  BY DEF States, Live
<1>3. /\ mail' \in Seq(Events) /\ Len(mail) \in Nat /\ Len(mail') = Len(mail) + 2
      /\ \A k \in 1..Len(mail) : mail'[k] = mail[k]
      /\ mail'[Len(mail) + 1] = [kind |-> "updated", sub |-> s, state |-> price]
      /\ mail'[Len(mail) + 2] = [kind |-> "completed", sub |-> s, state |-> price]
  <2>1. "updated" \in Kinds /\ "completed" \in Kinds
    BY DEF Kinds
  <2>2. Typed /\ price \in States /\ Posts(<<"updated", "completed">>, s, price)
    BY <1>0, <1>1, <1>2
  <2> HIDE DEF Kinds
  <2> QED BY <2>1, <2>2, PostsTwo
<1>4. Typed'
  BY <1>0, <1>1, <1>2, <1>3 DEF Typed, TypeOK
<1>5. s \notin Bought /\ s \notin given
  BY <1>0, <1>1 DEF Bought, Known
<1>6. DOMAIN mail' = 1..Len(mail')
  BY <1>3, LenProperties
<1>7. Posted(s, price)
  <2>1. \A k \in Len(mail) + 1..Len(mail') : k = Len(mail) + 1 \/ k = Len(mail) + 2
    BY <1>3
  <2> QED BY <1>1, <1>3, <1>5, <1>6, <2>1 DEF Posted
<1>8. Completing(s)'
  <2>1. Len(mail) + 2 \in DOMAIN mail'
    BY <1>3, <1>6
  <2> QED BY <1>3, <2>1 DEF Completing
<1>9. Arrives(s)
  BY <1>1, <1>8 DEF Arrives
<1> QED BY <1>1, <1>2, <1>4, <1>7, <1>9, PostStep

(* One set up in Stripe has the team's customer when it comes to be.         *)
LEMMA CompStep ==
  ASSUME PlanInv, NEW s \in Subs, NEW price \in Prices, Comp(s, price)
  PROVE  PlanInv'
<1>0. Typed /\ Known
  BY DEF PlanInv
<1>1. /\ subs[s] = "none" /\ subs' = [subs EXCEPT ![s] = price] /\ given' = given \union {s}
      /\ custOf' = [custOf EXCEPT ![s] = customer]
      /\ UNCHANGED <<plan, subId, customer, hook, reordered, changes, repeats>>
      /\ Posts(<<"updated">>, s, price)
  BY DEF Comp
<1>2. price \in States /\ price \in Live
  BY DEF States, Live
<1>3. /\ mail' \in Seq(Events) /\ Len(mail) \in Nat /\ Len(mail') = Len(mail) + 1
      /\ \A k \in 1..Len(mail) : mail'[k] = mail[k]
      /\ mail'[Len(mail) + 1] = [kind |-> "updated", sub |-> s, state |-> price]
  BY <1>0, <1>1, <1>2, PostsOne DEF Kinds
<1>4. Typed'
  BY <1>0, <1>1, <1>2, <1>3 DEF Typed, TypeOK
<1>5. s \notin Bought /\ s \in given'
  BY <1>0, <1>1 DEF Bought
<1>6. DOMAIN mail' = 1..Len(mail')
  BY <1>3, LenProperties
<1>7. Posted(s, price)
  BY <1>3, <1>6 DEF Posted
<1>8. Arrives(s)
  BY <1>5 DEF Arrives
<1> QED BY <1>1, <1>2, <1>4, <1>7, <1>8, PostStep

(* A change and an end are of a subscription that came to be before.         *)
LEMMA ChangeStep ==
  ASSUME PlanInv, NEW s \in Subs, NEW state \in Live, Change(s, state)
  PROVE  PlanInv'
<1>0. Typed /\ Known
  BY DEF PlanInv
<1>1. /\ subs[s] \in Live /\ subs' = [subs EXCEPT ![s] = state] /\ given' = given /\ custOf' = custOf
      /\ changes < MaxChanges /\ changes' = changes + 1
      /\ UNCHANGED <<plan, subId, customer, hook, reordered, repeats>>
      /\ Posts(<<"updated">>, s, state)
  BY DEF Change
<1>2. state \in States
  BY DEF States
<1>3. /\ mail' \in Seq(Events) /\ Len(mail) \in Nat /\ Len(mail') = Len(mail) + 1
      /\ \A k \in 1..Len(mail) : mail'[k] = mail[k]
      /\ mail'[Len(mail) + 1] = [kind |-> "updated", sub |-> s, state |-> state]
  BY <1>0, <1>1, <1>2, PostsOne DEF Kinds
<1>4. Typed'
  BY <1>0, <1>1, <1>2, <1>3, TeamPlanAssumption DEF Typed, TypeOK
<1>5. s \in Bought /\ subs[s] # "gone"
  BY <1>1 DEF Bought, Live, Prices
<1>6. DOMAIN mail' = 1..Len(mail')
  BY <1>3, LenProperties
<1>7. Posted(s, state)
  BY <1>3, <1>6 DEF Posted
<1>8. Arrives(s)
  BY <1>1, <1>5 DEF Arrives
<1> QED BY <1>1, <1>4, <1>5, <1>7, <1>8, PostStep

(* A subscription ends: its end is the newest event about it.                *)
LEMMA CancelStep ==
  ASSUME PlanInv, NEW s \in Subs, Cancel(s)
  PROVE  PlanInv'
<1>0. Typed /\ Known
  BY DEF PlanInv
<1>1. /\ subs[s] \in Live /\ subs' = [subs EXCEPT ![s] = "gone"] /\ given' = given /\ custOf' = custOf
      /\ UNCHANGED <<plan, subId, customer, hook, reordered, changes, repeats>>
      /\ Posts(<<"deleted">>, s, "gone")
  BY DEF Cancel
<1>2. "gone" \in States
  BY DEF States
<1>3. /\ mail' \in Seq(Events) /\ Len(mail) \in Nat /\ Len(mail') = Len(mail) + 1
      /\ \A k \in 1..Len(mail) : mail'[k] = mail[k]
      /\ mail'[Len(mail) + 1] = [kind |-> "deleted", sub |-> s, state |-> "gone"]
  BY <1>0, <1>1, <1>2, PostsOne DEF Kinds
<1>4. Typed'
  BY <1>0, <1>1, <1>2, <1>3 DEF Typed, TypeOK
<1>5. s \in Bought /\ subs[s] # "gone"
  BY <1>1 DEF Bought, Live, Prices
<1>6. DOMAIN mail' = 1..Len(mail')
  BY <1>3, LenProperties
<1>7. Posted(s, "gone")
  BY <1>3, <1>6 DEF Posted
<1>8. Arrives(s)
  BY <1>1, <1>5 DEF Arrives
<1> QED BY <1>1, <1>4, <1>5, <1>7, <1>8, PostStep

-----------------------------------------------------------------------------
(* An event that is handled tells nothing new of those that still wait, and  *)
(* when it was the last about its subscription, it carries the state it is   *)
(* in.                                                                       *)
LEMMA Handled ==
  ASSUME PlanInv, NEW k \in DOMAIN mail, NEW again \in BOOLEAN, Takes(k, again),
         UNCHANGED <<subs, given>>
  PROVE  /\ \A j \in DOMAIN mail' :
              /\ mail'[j].sub \in Bought'
              /\ mail'[j].kind = "completed" => mail'[j].sub \notin given'
              /\ mail'[j].kind = "deleted" => subs'[mail'[j].sub] = "gone"
         /\ ~reordered' =>
              /\ ~reordered /\ hook = NoHook /\ Newest'
              /\ \A s \in Subs : Pending(s) /\ s # mail[k].sub => Pending(s)'
              /\ \A s \in Subs : Completing(s) /\ mail[k].kind # "completed" => Completing(s)'
              /\ \A s \in Subs : mail[k].sub = s /\ ~Pending(s)' => mail[k].state = subs[s]
<1>1. /\ DOMAIN mail = 1..Len(mail) /\ Len(mail) \in Nat /\ DOMAIN mail' = 1..Len(mail')
      /\ \A j \in DOMAIN mail' : \E i \in DOMAIN mail : mail'[j] = mail[i]
      /\ ~reordered' => /\ ~reordered /\ k = 1 /\ hook = NoHook
                        /\ \/ mail' = mail
                           \/ /\ Len(mail') = Len(mail) - 1
                              /\ \A j \in 1..Len(mail) - 1 : mail'[j] = mail[j + 1]
  <2>1. Typed
    BY DEF PlanInv
  <2> QED BY <2>1, TakesKeeps
<1>2. ASSUME NEW j \in DOMAIN mail'
      PROVE  /\ mail'[j].sub \in Bought'
             /\ mail'[j].kind = "completed" => mail'[j].sub \notin given'
             /\ mail'[j].kind = "deleted" => subs'[mail'[j].sub] = "gone"
  <2>1. PICK i \in DOMAIN mail : mail'[j] = mail[i]
    BY <1>1
  <2> QED BY <2>1 DEF PlanInv, Known, Bought
<1>3. ASSUME ~reordered'
      PROVE  /\ ~reordered /\ hook = NoHook /\ Newest'
             /\ \A s \in Subs : Pending(s) /\ s # mail[k].sub => Pending(s)'
             /\ \A s \in Subs : Completing(s) /\ mail[k].kind # "completed" => Completing(s)'
             /\ \A s \in Subs : mail[k].sub = s /\ ~Pending(s)' => mail[k].state = subs[s]
  <2>0. ~reordered /\ hook = NoHook /\ k = 1 /\ Newest
    BY <1>1, <1>3 DEF PlanInv, InOrder
  <2>1. CASE mail' = mail
    <3>1. Newest' /\ \A s : (Pending(s)' <=> Pending(s)) /\ (Completing(s)' <=> Completing(s))
      BY <2>0, <2>1 DEF Newest, Pending, Completing
    <3>2. \A s : mail[k].sub = s => Pending(s)
      BY DEF Pending
    <3> QED BY <2>0, <3>1, <3>2
  <2>2. CASE Len(mail') = Len(mail) - 1 /\ \A j \in 1..Len(mail) - 1 : mail'[j] = mail[j + 1]
    <3>1. \A i \in DOMAIN mail : i > 1 => i - 1 \in DOMAIN mail' /\ mail'[i - 1] = mail[i]
      BY <1>1, <2>2
    <3>2. \A j \in DOMAIN mail' : j + 1 \in DOMAIN mail /\ mail'[j] = mail[j + 1]
      BY <1>1, <2>2
    <3>3. \A i \in DOMAIN mail : i = 1 \/ i > 1
      <4>1. DOMAIN mail = 1..Len(mail) /\ Len(mail) \in Nat
        BY <1>1
      <4> QED BY <4>1
    <3>4. Newest'
      <4> SUFFICES ASSUME NEW j \in DOMAIN mail',
                          \A i \in DOMAIN mail' : i > j => mail'[i].sub # mail'[j].sub
                   PROVE  mail'[j].state = subs'[mail'[j].sub]
        BY DEF Newest
      <4>1. ASSUME NEW i \in DOMAIN mail, i > j + 1 PROVE mail[i].sub # mail[j + 1].sub
        <5>0. /\ DOMAIN mail = 1..Len(mail) /\ DOMAIN mail' = 1..Len(mail')
              /\ Len(mail) \in Nat /\ Len(mail') = Len(mail) - 1
          BY <1>1, <2>2
        <5>1. i > 1 /\ i - 1 > j
          BY <4>1, <5>0
        <5> QED BY <3>1, <3>2, <5>1
      <4> QED BY <2>0, <3>2, <4>1 DEF Newest
    <3>5. \A s \in Subs : Pending(s) /\ s # mail[k].sub => Pending(s)'
      BY <2>0, <3>1, <3>3 DEF Pending
    <3>6. \A s \in Subs : Completing(s) /\ mail[k].kind # "completed" => Completing(s)'
      BY <2>0, <3>1, <3>3 DEF Completing
    <3>7. \A s \in Subs : mail[k].sub = s /\ ~Pending(s)' => mail[k].state = subs[s]
      <4> SUFFICES ASSUME NEW s \in Subs, mail[k].sub = s, ~Pending(s)' PROVE mail[k].state = subs[s]
        OBVIOUS
      <4>1. \A j \in DOMAIN mail' : mail'[j].sub # s
        BY DEF Pending
      <4>2. \A i \in DOMAIN mail : i > k => mail[i].sub # mail[k].sub
        BY <2>0, <3>1, <4>1
      <4> QED BY <2>0, <4>2 DEF Newest
    <3> QED BY <2>0, <3>4, <3>5, <3>6, <3>7
  <2> QED BY <1>1, <1>3, <2>1, <2>2
<1> QED BY <1>2, <1>3

(* The subscription is retrieved in the state it has at that moment.         *)
LEMMA RetrieveStep ==
  ASSUME PlanInv, NEW k \in DOMAIN mail, NEW again \in BOOLEAN, Retrieve(k, again)
  PROVE  PlanInv'
<1> DEFINE e == mail[k]
<1>0. Typed /\ Known
  BY DEF PlanInv
<1>1. /\ e.kind = "completed" /\ hook = NoHook /\ Takes(k, again)
      /\ hook' = [sub |-> e.sub, plan |-> PlanOf(subs[e.sub])]
      /\ UNCHANGED <<plan, subId, customer, subs, custOf, given, changes>>
  BY DEF Retrieve
<1>2. PICK s \in Subs : s = e.sub /\ s \in Bought /\ s \notin given
  BY <1>0, <1>1, MailDomain DEF Known
<1> HIDE DEF e
<1>3. hook' = [sub |-> s, plan |-> PlanOf(subs[s])] /\ hook' # NoHook /\ hook'.sub = s
  BY <1>1, <1>2, SubNotZero DEF NoHook
<1>4. Typed'
  <2>1. mail' \in Seq(Events) /\ repeats' \in 0..MaxRepeats /\ reordered' \in BOOLEAN
    BY <1>0, <1>1, TakesKeeps
  <2>2. PlanOf(subs[s]) \in Plans
    BY DEF PlanOf, Plans
  <2>3. hook' \in [sub : 0..MaxSubs, plan : Plans]
    BY <1>3, <2>2 DEF Subs
  <2> QED BY <1>0, <1>1, <1>3, <2>1, <2>3 DEF Typed, TypeOK
<1>5. Bought' = Bought
  BY <1>1 DEF Bought
<1>6. Known'
  <2>1. \A j \in DOMAIN mail' :
          /\ mail'[j].sub \in Bought'
          /\ mail'[j].kind = "completed" => mail'[j].sub \notin given'
          /\ mail'[j].kind = "deleted" => subs'[mail'[j].sub] = "gone"
    BY <1>1, Handled
  <2> QED BY <1>0, <1>1, <1>2, <1>3, <1>5, <2>1 DEF Known
<1>7. ASSUME ~reordered' PROVE (Newest /\ RowInStep /\ HookInStep /\ OnlyNamed)'
  <2>1. Newest'
    BY <1>1, <1>7, Handled
  <2>2. RowInStep'
    BY <1>3 DEF RowInStep
  <2>3. HookInStep'
    <3>1. hook'.sub = s /\ hook'.plan = PlanOf(subs'[s])
      BY <1>1, <1>3
    <3> QED BY <3>1 DEF HookInStep
  <2>4. OnlyNamed'
    <3> SUFFICES ASSUME NEW t \in Subs, Bought' = {t} PROVE Coming(t)'
      BY DEF OnlyNamed
    <3>1. t = s /\ t \notin given'
      BY <1>1, <1>2, <1>5
    <3> QED BY <1>3, <3>1 DEF Coming
  <2> QED BY <2>1, <2>2, <2>3, <2>4
<1> QED BY <1>4, <1>6, <1>7 DEF PlanInv, InOrder

(* The row takes what was retrieved: it is stale only if an event waits.     *)
LEMMA CompleteStep ==
  ASSUME PlanInv, Complete
  PROVE  PlanInv'
<1>0. Typed /\ Known
  BY DEF PlanInv
<1>1. /\ hook # NoHook /\ plan' = hook.plan /\ subId' = hook.sub /\ customer' = custOf[hook.sub]
      /\ hook' = NoHook /\ UNCHANGED <<subs, custOf, given, mail, reordered, changes, repeats>>
  BY DEF Complete
<1>2. PICK s \in Subs : s = hook.sub /\ s \in Bought /\ s \notin given
  BY <1>0, <1>1 DEF Typed, Known
<1>3. Typed'
  <2>1. NoHook \in [sub : 0..MaxSubs, plan : Plans]
    BY TeamPlanAssumption DEF NoHook, Plans
  <2>2. plan' \in Plans /\ subId' \in 0..MaxSubs /\ subId' # 0 /\ customer' \in 0..MaxSubs
    BY <1>0, <1>1, <1>2, SubNotZero DEF Typed, TypeOK, Subs
  <2> QED BY <1>0, <1>1, <2>1, <2>2 DEF Typed, TypeOK
<1>4. Bought' = Bought
  BY <1>1 DEF Bought
<1>5. Known'
  <2>1. customer' # 0 => subs[customer'] # "none"
    BY <1>0, <1>1, <1>2 DEF Known
  <2> QED BY <1>0, <1>1, <1>2, <1>4, <2>1 DEF Known
<1>6. ASSUME ~reordered' PROVE (Newest /\ RowInStep /\ HookInStep /\ OnlyNamed)'
  <2>0. Newest /\ HookInStep
    BY <1>1, <1>6 DEF PlanInv, InOrder
  <2>1. Newest'
    BY <1>1, <2>0 DEF Newest
  <2>2. RowInStep'
    BY <1>1, <2>0 DEF RowInStep, HookInStep, Pending
  <2>3. HookInStep'
    BY <1>1 DEF HookInStep
  <2>4. OnlyNamed'
    BY <1>1, <1>2, <1>4 DEF OnlyNamed
  <2> QED BY <2>1, <2>2, <2>3, <2>4
<1> QED BY <1>3, <1>5, <1>6 DEF PlanInv, InOrder

(* An update or a deletion writes the row when it finds the team, which it   *)
(* fails to do only for a subscription the row does not name.                *)
LEMMA WrittenStep ==
  ASSUME PlanInv, NEW k \in DOMAIN mail, NEW again \in BOOLEAN, Takes(k, again),
         mail[k].kind \in {"updated", "deleted"},
         Found(mail[k].sub) => IF mail[k].kind = "updated"
                              THEN plan' = PlanOf(mail[k].state) /\ subId' = mail[k].sub
                              ELSE plan' = "free" /\ subId' = 0,
         ~Found(mail[k].sub) => UNCHANGED <<plan, subId>>,
         UNCHANGED <<customer, subs, custOf, given, hook, changes>>
  PROVE  PlanInv'
<1>0. Typed /\ Known
  BY DEF PlanInv
<1>1. PICK s \in Subs : s = mail[k].sub /\ s \in Bought /\ (mail[k].kind = "deleted" => subs[s] = "gone")
  BY <1>0, MailDomain DEF Known
<1>2. PICK state : state = mail[k].state
  OBVIOUS
<1>3. \/ Found(s) /\ mail[k].kind = "updated" /\ plan' = PlanOf(state) /\ subId' = s
      \/ Found(s) /\ subs[s] = "gone" /\ plan' = "free" /\ subId' = 0
      \/ ~Found(s) /\ UNCHANGED <<plan, subId>>
  BY <1>1, <1>2
<1>4. Typed'
  <2>1. mail' \in Seq(Events) /\ repeats' \in 0..MaxRepeats /\ reordered' \in BOOLEAN
    BY <1>0, TakesKeeps
  <2>2. PlanOf(state) \in Plans /\ "free" \in Plans
    BY DEF PlanOf, Plans
  <2>3. s \in 0..MaxSubs /\ 0 \in 0..MaxSubs /\ s # 0
    BY TeamPlanAssumption DEF Subs
  <2>4. plan' \in Plans /\ subId' \in 0..MaxSubs /\ (subId' = 0 => plan' = "free")
    BY <1>0, <1>3, <2>2, <2>3 DEF Typed, TypeOK
  <2> QED BY <1>0, <2>1, <2>4 DEF Typed, TypeOK
<1>5. Bought' = Bought
  BY DEF Bought
<1>6. Known'
  <2>1. \A j \in DOMAIN mail' :
          /\ mail'[j].sub \in Bought'
          /\ mail'[j].kind = "completed" => mail'[j].sub \notin given'
          /\ mail'[j].kind = "deleted" => subs'[mail'[j].sub] = "gone"
    BY Handled
  <2>2. subId' # 0 => subId' \in Bought
    BY <1>0, <1>1, <1>3 DEF Known
  <2> QED BY <1>0, <1>5, <2>1, <2>2 DEF Known
<1>7. ASSUME ~reordered' PROVE (Newest /\ RowInStep /\ HookInStep /\ OnlyNamed)'
  <2>0. ~reordered /\ RowInStep /\ OnlyNamed
    BY <1>7, Handled DEF PlanInv, InOrder
  <2>1. /\ hook = NoHook /\ Newest'
        /\ \A t \in Subs : Pending(t) /\ t # s => Pending(t)'
        /\ \A t \in Subs : Completing(t) => Completing(t)'
        /\ ~Pending(s)' => state = subs[s]
    <3>1. mail[k].kind # "completed"
      OBVIOUS
    <3> QED BY <1>1, <1>2, <1>7, <3>1, Handled
  <2>2. RowInStep'
    <3> SUFFICES ASSUME subId' # 0, ~Pending(subId)' PROVE plan' = PlanOf(subs'[subId'])
      BY DEF RowInStep
    <3>1. CASE Found(s) /\ plan' = PlanOf(state) /\ subId' = s
      <4>1. ~Pending(s)'
        BY <3>1 DEF Pending
      <4> QED BY <2>1, <3>1, <4>1
    <3>2. CASE ~Found(s) /\ UNCHANGED <<plan, subId>>
      <4>1. subId # s /\ subId \in Subs
        BY <1>0, <3>2 DEF Found, Known, Bought
      <4>2. ~Pending(subId)
        BY <2>1, <3>2, <4>1 DEF Pending
      <4> QED BY <2>0, <2>1, <3>2, <4>2 DEF RowInStep
    <3> QED BY <1>3, <3>1, <3>2
  <2>3. HookInStep'
    BY <2>1 DEF HookInStep
  <2>4. OnlyNamed'
    <3> SUFFICES ASSUME NEW t \in Subs, Bought' = {t} PROVE subs[t] = "gone" \/ subId' = t \/ Coming(t)'
      BY DEF OnlyNamed
    <3>1. t = s /\ Bought = {s}
      BY <1>1, <1>5
    <3>2. CASE ~Found(s) /\ UNCHANGED <<plan, subId>>
      <4>1. custOf[s] # customer /\ subId # s
        BY <3>2 DEF Found, ByCustomer
      <4>2. subs[s] = "gone" \/ Coming(s)
        BY <2>0, <3>1, <4>1 DEF OnlyNamed
      <4>3. Coming(s) => Coming(s)'
        BY <2>1, <4>1 DEF Coming
      <4> QED BY <3>1, <4>2, <4>3
    <3> QED BY <1>3, <3>1, <3>2
  <2> QED BY <2>1, <2>2, <2>3, <2>4
<1> QED BY <1>4, <1>6, <1>7 DEF PlanInv, InOrder

-----------------------------------------------------------------------------
(* The first state, and any step.                                            *)
LEMMA InitPlan == Init => PlanInv
<1> SUFFICES ASSUME Init PROVE PlanInv
  OBVIOUS
<1>1. mail = <<>> /\ mail \in Seq(Events) /\ DOMAIN mail = {}
  BY DEF Init
<1>2. Typed
  <2>1. /\ plan \in Plans /\ subId \in 0..MaxSubs /\ customer \in 0..MaxSubs
        /\ changes \in 0..MaxChanges /\ repeats \in 0..MaxRepeats
    BY TeamPlanAssumption DEF Init, Plans
  <2>2. subs \in [Subs -> States] /\ custOf \in [Subs -> 0..MaxSubs]
    BY TeamPlanAssumption DEF Init, States
  <2>3. hook = NoHook /\ NoHook \in [sub : 0..MaxSubs, plan : Plans]
    BY TeamPlanAssumption DEF Init, Plans, NoHook
  <2>4. given \subseteq Subs /\ reordered \in BOOLEAN /\ plan = "free"
    BY DEF Init
  <2> QED BY <1>1, <2>1, <2>2, <2>3, <2>4 DEF Typed, TypeOK
<1>3. Bought = {}
  BY DEF Init, Bought
<1>4. Known /\ InOrder
  BY <1>1, <1>3 DEF Init, Known, InOrder, Newest, RowInStep, HookInStep, OnlyNamed
<1> QED BY <1>2, <1>4 DEF PlanInv

(* Every step keeps the invariant.                                           *)
LEMMA NextPlan ==
  ASSUME PlanInv, [Next]_vars
  PROVE  PlanInv'
<1>1. CASE UNCHANGED vars
  <2> USE <1>1 DEF vars
  <2>1. Typed'
    BY DEF PlanInv, Typed, TypeOK
  <2>2. Known'
    BY DEF PlanInv, Known, Bought
  <2>3. InOrder'
    BY DEF PlanInv, InOrder, Newest, RowInStep, HookInStep, OnlyNamed, Bought, Coming, Completing, Pending
  <2> QED BY <2>1, <2>2, <2>3 DEF PlanInv
<1>2. CASE \E s \in Subs : \E anew \in BOOLEAN : OpenSession(s, anew)
  BY <1>2, OpenSessionStep
<1>3. CASE \E s \in Subs : \E price \in Prices : Pay(s, price) \/ Comp(s, price)
  BY <1>3, PayStep, CompStep
<1>4. CASE \E s \in Subs : \E state \in Live : Change(s, state)
  BY <1>4, ChangeStep
<1>5. CASE \E s \in Subs : Cancel(s)
  BY <1>5, CancelStep
<1>6. CASE \E k \in DOMAIN mail : \E again \in BOOLEAN :
             Retrieve(k, again) \/ Update(k, again) \/ Delete(k, again)
  <2> SUFFICES ASSUME NEW k \in DOMAIN mail, NEW again \in BOOLEAN,
                      Retrieve(k, again) \/ Update(k, again) \/ Delete(k, again)
               PROVE  PlanInv'
    BY <1>6
  <2>1. CASE Retrieve(k, again)
    BY <2>1, RetrieveStep
  <2>2. CASE Update(k, again)
    BY <2>2, WrittenStep DEF Update
  <2>3. CASE Delete(k, again)
    BY <2>3, WrittenStep DEF Delete, Ended
  <2> QED BY <2>1, <2>2, <2>3
<1>7. CASE Complete
  BY <1>7, CompleteStep
<1> QED BY <1>1, <1>2, <1>3, <1>4, <1>5, <1>6, <1>7 DEF Next

(* What the row and the waiting events say together is true of Stripe's      *)
(* subscriptions at every step, for any number of them, of changes and of    *)
(* deliveries made again.                                                    *)
THEOREM PlanInductive == Spec => []PlanInv
<1>1. Init => PlanInv
  BY InitPlan
<1>2. PlanInv /\ [Next]_vars => PlanInv'
  BY NextPlan
<1> QED BY <1>1, <1>2, PTL DEF Spec

(* The team's row and the events keep their types, and a team without a      *)
(* subscription is on Free.                                                  *)
THEOREM TypeCorrect == Spec => []TypeOK
<1>1. PlanInv => TypeOK
  BY DEF PlanInv, Typed
<1> QED BY <1>1, PlanInductive, PTL

(* Once the events are handled in order, the team is on the plan of the      *)
(* subscription its row names, and of the only one it has.                   *)
THEOREM PlanFollows == Spec => []PlanInStep
<1>1. PlanInv => PlanInStep
  <2> SUFFICES ASSUME PlanInv, CaughtUp PROVE
          /\ subId # 0 => plan = PlanOf(subs[subId])
          /\ \A s \in Subs : Bought = {s} /\ (s \in given => custOf[s] = customer)
                            => plan = PlanOf(subs[s])
    BY DEF PlanInStep
  <2>1. /\ mail = <<>> /\ hook = NoHook /\ RowInStep /\ OnlyNamed /\ Known
        /\ (subId = 0 => plan = "free")
    BY DEF CaughtUp, PlanInv, InOrder, Typed, TypeOK
  <2>2. DOMAIN mail = {}
    BY <2>1
  <2>3. \A s : ~Pending(s) /\ ~Completing(s)
    BY <2>2 DEF Pending, Completing
  <2>4. subId # 0 => plan = PlanOf(subs[subId])
    BY <2>1, <2>3 DEF RowInStep
  <2>5. ASSUME NEW s \in Subs, Bought = {s}, s \in given => custOf[s] = customer
        PROVE  plan = PlanOf(subs[s])
    <3>1. subs[s] = "gone" \/ subId = s
      BY <2>1, <2>3, <2>5 DEF OnlyNamed, Coming
    <3>2. CASE subId = s
      BY <2>4, <3>2, SubNotZero
    <3>3. CASE subId # s
      <4>1. subId = 0
        BY <2>1, <2>5, <3>3 DEF Known
      <4>2. PlanOf("gone") = "free"
        BY DEF PlanOf, Prices
      <4> QED BY <2>1, <3>1, <3>3, <4>1, <4>2
    <3> QED BY <3>2, <3>3
  <2> QED BY <2>4, <2>5
<1> QED BY <1>1, PlanInductive, PTL
=============================================================================
