-------------------------- MODULE PaidCheck_proofs --------------------------
(* The safety of the paid one-off check, for any number of starters and tabs, *)
(* of calls that throw and of processes that stop.                            *)
EXTENDS PaidCheck, TLAPS

(* The form, the session and the row come in this order.                      *)
Order ==
  /\ parked = "none" <=> door = "park"
  /\ door \in {"park", "session"} => session = "none"
  /\ door = "keep" => session # "none"
  /\ session # "none" => parked # "none"
  /\ known => session # "none"
  /\ runs # <<>> => session = "paid"

(* Until a run holds them, the row and every starter on its way to the insert *)
(* hold the passwords; a starter past the insert names the run.               *)
Inserting == {"bySession", "insert"}
Starting ==
  /\ parked = "row" /\ runs = <<>> => secret
  /\ \A s \in Starters :
       /\ at[s] \in {"read", "record", "receipt", "send"} \union Inserting => session = "paid"
       /\ at[s] \in Inserting /\ runs = <<>> => job[s].secret
       /\ at[s] = "record" => job[s].run \in 1..Len(runs)
       /\ at[s] \in {"receipt", "send"} => runs # <<>> \/ parked = "gone"

(* One run, with the passwords.                                               *)
OneRun == Len(runs) <= 1 /\ RunSignsIn

(* What was answered was done.                                                *)
Answered == ReceiptOnce /\ AckedIsServed

(* The claim is held by one tab; each re-check but one is paid for by a call  *)
(* that threw.                                                                *)
Hold == {"create", "trigger", "release"}
Claims ==
  /\ \A t \in Tabs : press[t] \in Hold => claimed
  /\ \A t, u \in Tabs : press[t] \in Hold /\ press[u] \in Hold => t = u
  /\ ~claimed => retries <= faults
  /\ \A t \in Tabs : /\ press[t] \in {"create", "release"} => retries <= faults
                     /\ press[t] = "trigger" => retries > 0
  /\ RetryPerThrow /\ ClaimIsARetry

Inv == TypeOK /\ Order /\ Starting /\ OneRun /\ Answered /\ Claims
-----------------------------------------------------------------------------
USE DEF form, stripe, starter, retry, bounds, Steps, NoJob, Inserting, Hold

(* What a starter carries keeps its type, and so do its steps.                *)
LEMMA JobTyped ==
  /\ NoJob \in Job
  /\ \A j \in Job : \A b \in BOOLEAN, n \in Nat :
       /\ [j EXCEPT !.hook = b] \in Job /\ [j EXCEPT !.secret = b] \in Job
       /\ [j EXCEPT !.run = n] \in Job
  BY DEF Job

(* A starter that goes on keeps the starters typed,                          *)
LEMMA GotoTyped ==
  ASSUME at \in [Starters -> Steps], job \in [Starters -> Job], NEW s \in Starters,
         NEW step \in Steps, NEW j \in Job, Goto(s, step, j)
  PROVE  at' \in [Starters -> Steps] /\ job' \in [Starters -> Job]
  BY DEF Goto

(* one that is through,                                                      *)
LEMMA StartedTyped ==
  ASSUME at \in [Starters -> Steps], job \in [Starters -> Job], NEW s \in Starters,
         Started(s) \/ Return(s)
  PROVE  at' \in [Starters -> Steps] /\ job' \in [Starters -> Job]
<1>1. CASE Goto(s, "receipt", NoJob)
  BY <1>1, GotoTyped, JobTyped
<1>2. CASE Return(s)
  BY <1>2, GotoTyped, JobTyped DEF Return
<1> QED
  BY <1>1, <1>2 DEF Started

(* and one that goes by what it read.                                        *)
LEMMA GoTyped ==
  ASSUME at \in [Starters -> Steps], job \in [Starters -> Job], NEW s \in Starters,
         NEW case \in {"found", "new", "insert", "record"}, NEW n \in Nat, Go(s, case, n)
  PROVE  at' \in [Starters -> Steps] /\ job' \in [Starters -> Job]
<1>1. CASE Follows[case] = "done"
  BY <1>1, StartedTyped DEF Go
<1>2. CASE Follows[case] # "done"
  <2>1. Follows[case] \in Steps /\ job[s] \in Job
    BY <1>2 DEF Follows
  <2>2. [job[s] EXCEPT !.run = n] \in Job
    BY <2>1, JobTyped
  <2>3. Goto(s, Follows[case], [job[s] EXCEPT !.run = n])
    BY <1>2 DEF Go
  <2> HIDE DEF Go, Goto
  <2> QED
    BY <2>1, <2>2, <2>3, GotoTyped
<1> QED
  BY <1>1, <1>2

(* The invariant holds at the start.                                          *)
LEMMA InitInv == Init => Inv
<1> SUFFICES ASSUME Init PROVE Inv
  OBVIOUS
<1>1. TypeOK
  <2>1. runs \in Seq(BOOLEAN) /\ linked \in 0..Len(runs)
    BY DEF Init
  <2>2. job \in [Starters -> Job]
    BY JobTyped DEF Init
  <2>3. faults \in 0..MaxFaults /\ stops \in 0..MaxStops
    BY PaidAssumption DEF PaidAssumption, Init
  <2>4. /\ at \in [Starters -> Steps]
        /\ press \in [Tabs -> {"idle", "claim", "create", "trigger", "release"}]
    BY DEF Init
  <2>5. /\ door \in {"park", "session", "keep", "done"}
        /\ parked \in {"none", "row", "gone"} /\ secret \in BOOLEAN /\ known \in BOOLEAN
        /\ session \in {"none", "open", "paid", "expired"}
        /\ outcome \in {"none", "completed", "failed"}
        /\ acked \in BOOLEAN /\ claimed \in BOOLEAN
    BY DEF Init
  <2>6. clock \in 0..2 /\ receipts \in Nat /\ retries \in Nat
    BY DEF Init
  <2> QED
    BY <2>1, <2>2, <2>3, <2>4, <2>5, <2>6 DEF TypeOK
<1>2. Order /\ Starting /\ OneRun
  BY DEF Init, Order, Starting, OneRun, RunSignsIn
<1>3. Answered /\ Claims
  BY DEF Init, Answered, ReceiptOnce, AckedIsServed, Claims, RetryPerThrow, ClaimIsARetry
<1> QED
  BY <1>1, <1>2, <1>3 DEF Inv

(* The request, the visitor, time and the janitor keep it.                    *)
LEMMA WorldStep ==
  ASSUME Inv, Park \/ CreateSession \/ Keep \/ DoorFails \/ Pay \/ Expire \/ SweepPending \/ RunEnds
  PROVE  Inv'
<1> USE DEF Inv
<1>1. CASE Park
  <2>1. TypeOK'
    BY <1>1 DEF Park, TypeOK
  <2>2. (Order /\ Starting /\ OneRun)'
    BY <1>1 DEF Park, TypeOK, Order, Starting, OneRun, RunSignsIn
  <2>3. Answered'
    BY <1>1 DEF Park, TypeOK, Order, Starting, OneRun, Answered, ReceiptOnce, AckedIsServed
  <2>4. Claims'
    BY <1>1 DEF Park, TypeOK, Claims, RetryPerThrow, ClaimIsARetry
  <2> QED
    BY <2>1, <2>2, <2>3, <2>4
<1>2. CASE CreateSession
  <2>1. TypeOK'
    BY <1>2 DEF CreateSession, TypeOK
  <2>2. (Order /\ Starting /\ OneRun)'
    BY <1>2 DEF CreateSession, TypeOK, Order, Starting, OneRun, RunSignsIn
  <2>3. Answered'
    BY <1>2 DEF CreateSession, TypeOK, Order, Starting, OneRun, Answered, ReceiptOnce,
      AckedIsServed
  <2>4. Claims'
    BY <1>2 DEF CreateSession, TypeOK, Claims, RetryPerThrow, ClaimIsARetry
  <2> QED
    BY <2>1, <2>2, <2>3, <2>4
<1>3. CASE Keep
  <2>1. TypeOK'
    BY <1>3 DEF Keep, TypeOK
  <2>2. (Order /\ Starting /\ OneRun)'
    BY <1>3 DEF Keep, TypeOK, Order, Starting, OneRun, RunSignsIn
  <2>3. Answered'
    BY <1>3 DEF Keep, TypeOK, Order, Starting, OneRun, Answered, ReceiptOnce, AckedIsServed
  <2>4. Claims'
    BY <1>3 DEF Keep, TypeOK, Claims, RetryPerThrow, ClaimIsARetry
  <2> QED
    BY <2>1, <2>2, <2>3, <2>4
<1>4. CASE DoorFails
  <2>1. TypeOK'
    BY <1>4, PaidAssumption DEF DoorFails, Fault, Halt, PaidAssumption, TypeOK
  <2>2. (Order /\ Starting /\ OneRun)'
    BY <1>4, PaidAssumption DEF DoorFails, Fault, Halt, PaidAssumption, TypeOK, Order, Starting,
      OneRun, RunSignsIn
  <2>3. Answered'
    BY <1>4, PaidAssumption DEF DoorFails, Fault, Halt, PaidAssumption, TypeOK, Order, Starting,
      OneRun, Answered, ReceiptOnce, AckedIsServed
  <2>4. Claims'
    BY <1>4, PaidAssumption DEF DoorFails, Fault, Halt, PaidAssumption, TypeOK, Claims,
      RetryPerThrow, ClaimIsARetry
  <2> QED
    BY <2>1, <2>2, <2>3, <2>4
<1>5. CASE Pay
  <2>1. TypeOK'
    BY <1>5 DEF Pay, TypeOK
  <2>2. (Order /\ Starting /\ OneRun)'
    BY <1>5 DEF Pay, TypeOK, Order, Starting, OneRun, RunSignsIn
  <2>3. Answered'
    BY <1>5 DEF Pay, TypeOK, Order, Starting, OneRun, Answered, ReceiptOnce, AckedIsServed
  <2>4. Claims'
    BY <1>5 DEF Pay, TypeOK, Claims, RetryPerThrow, ClaimIsARetry
  <2> QED
    BY <2>1, <2>2, <2>3, <2>4
<1>6. CASE Expire
  <2>1. TypeOK'
    BY <1>6 DEF Expire, TypeOK
  <2>2. (Order /\ Starting /\ OneRun)'
    BY <1>6 DEF Expire, TypeOK, Order, Starting, OneRun, RunSignsIn
  <2>3. Answered'
    BY <1>6 DEF Expire, TypeOK, Order, Starting, OneRun, Answered, ReceiptOnce, AckedIsServed
  <2>4. Claims'
    BY <1>6 DEF Expire, TypeOK, Claims, RetryPerThrow, ClaimIsARetry
  <2> QED
    BY <2>1, <2>2, <2>3, <2>4
<1>7. CASE SweepPending
  <2>1. TypeOK'
    BY <1>7 DEF SweepPending, TypeOK
  <2>2. (Order /\ Starting /\ OneRun)'
    BY <1>7 DEF SweepPending, TypeOK, Order, Starting, OneRun, RunSignsIn
  <2>3. Answered'
    BY <1>7 DEF SweepPending, TypeOK, Order, Starting, OneRun, Answered, ReceiptOnce,
      AckedIsServed
  <2>4. Claims'
    BY <1>7 DEF SweepPending, TypeOK, Claims, RetryPerThrow, ClaimIsARetry
  <2> QED
    BY <2>1, <2>2, <2>3, <2>4
<1>8. CASE RunEnds
  <2>1. TypeOK'
    BY <1>8 DEF RunEnds, TypeOK
  <2>2. (Order /\ Starting /\ OneRun)'
    BY <1>8 DEF RunEnds, TypeOK, Order, Starting, OneRun, RunSignsIn
  <2>3. Answered'
    BY <1>8 DEF RunEnds, TypeOK, Order, Starting, OneRun, Answered, ReceiptOnce, AckedIsServed
  <2>4. Claims'
    BY <1>8 DEF RunEnds, TypeOK, Claims, RetryPerThrow, ClaimIsARetry
  <2> QED
    BY <2>1, <2>2, <2>3, <2>4
<1> QED
  BY <1>1, <1>2, <1>3, <1>4, <1>5, <1>6, <1>7, <1>8

(* Every step of a starter keeps it.                                          *)
LEMMA StarterStep ==
  ASSUME Inv, NEW s \in Starters, Deliver(s) \/ Poll(s) \/ Step(s) \/ Throw(s)
  PROVE  Inv'
<1> USE DEF Inv, Goto, Return, Started, Go, Follows
<1>1. CASE Deliver(s)
  <2>1. TypeOK'
    BY <1>1 DEF Deliver, Job, TypeOK
  <2>2. Starting'
    BY <1>1 DEF Deliver, Job, TypeOK, Order, Starting, OneRun
  <2>3. (Order /\ OneRun /\ Claims)'
    BY <1>1 DEF Deliver, Job, TypeOK, Order, Starting, OneRun, RunSignsIn, Claims,
      RetryPerThrow, ClaimIsARetry
  <2>4. Answered'
    BY <1>1 DEF Deliver, Job, TypeOK, Order, Starting, OneRun, Answered, ReceiptOnce,
      AckedIsServed
  <2> QED
    BY <2>1, <2>2, <2>3, <2>4
<1>2. CASE Poll(s)
  <2>1. TypeOK'
    BY <1>2 DEF Poll, Job, TypeOK
  <2>2. Starting'
    BY <1>2 DEF Poll, Job, TypeOK, Order, Starting, OneRun
  <2>3. (Order /\ OneRun /\ Claims)'
    BY <1>2 DEF Poll, Job, TypeOK, Order, Starting, OneRun, RunSignsIn, Claims, RetryPerThrow,
      ClaimIsARetry
  <2>4. Answered'
    BY <1>2 DEF Poll, Job, TypeOK, Order, Starting, OneRun, Answered, ReceiptOnce, AckedIsServed
  <2> QED
    BY <2>1, <2>2, <2>3, <2>4
<1>3. CASE Retrieve(s)
  <2>1. TypeOK'
    <3>1. at' \in [Starters -> Steps] /\ job' \in [Starters -> Job]
      <4> HIDE DEF Goto, Return, Started
      <4> QED
        BY <1>3, JobTyped, GotoTyped, StartedTyped DEF Retrieve, TypeOK
    <3> QED
      BY <1>3, <3>1 DEF Retrieve, TypeOK
  <2>2. Starting'
    BY <1>3 DEF Retrieve, TypeOK, Order, Starting, OneRun
  <2>3. (Order /\ OneRun /\ Claims)'
    BY <1>3 DEF Retrieve, TypeOK, Order, Starting, OneRun, RunSignsIn, Claims, RetryPerThrow,
      ClaimIsARetry
  <2>4. Answered'
    BY <1>3 DEF Retrieve, TypeOK, Order, Starting, OneRun, Answered, ReceiptOnce, AckedIsServed
  <2> QED
    BY <2>1, <2>2, <2>3, <2>4
<1>4. CASE Read(s)
  <2>1. TypeOK'
    <3>1. job[s] \in Job /\ [job[s] EXCEPT !.secret = secret] \in Job
      BY JobTyped DEF TypeOK
    <3>2. at' \in [Starters -> Steps] /\ job' \in [Starters -> Job]
      <4> HIDE DEF Goto, Return, Started
      <4> QED
        BY <1>4, <3>1, GotoTyped, StartedTyped DEF Read, TypeOK
    <3> QED
      BY <1>4, <3>2 DEF Read, TypeOK
  <2>2. Starting'
    <3>1. /\ [job[s] EXCEPT !.secret = secret].secret = secret
          /\ parked = "row" /\ runs = <<>> => secret
      BY DEF TypeOK, Job, Starting
    <3>2. linked \in 1..Len(runs) => runs # <<>>
      BY DEF TypeOK
    <3> QED
      <4>1. CASE parked # "row" \/ linked \in 1..Len(runs)
        BY <1>4, <4>1, <3>2 DEF Read, TypeOK, Order, Starting
      <4>2. CASE ~(parked # "row" \/ linked \in 1..Len(runs))
        <5>1. /\ at' = [at EXCEPT ![s] = "bySession"]
              /\ job' = [job EXCEPT ![s] = [job[s] EXCEPT !.secret = secret]]
          BY <1>4, <4>2 DEF Read
        <5>2. at'[s] = "bySession" /\ job'[s].secret = secret
          BY <5>1, <3>1 DEF TypeOK
        <5>3. \A u \in Starters \ {s} : at'[u] = at[u] /\ job'[u] = job[u]
          BY <5>1 DEF TypeOK
        <5> QED
          BY <1>4, <3>1, <4>2, <5>2, <5>3 DEF Read, Starting
      <4> QED
        BY <4>1, <4>2
  <2>3. (Order /\ OneRun /\ Claims)'
    BY <1>4 DEF Read, Job, TypeOK, Order, Starting, OneRun, RunSignsIn, Claims, RetryPerThrow,
      ClaimIsARetry
  <2>4. Answered'
    BY <1>4 DEF Read, Job, TypeOK, Order, Starting, OneRun, Answered, ReceiptOnce, AckedIsServed
  <2> QED
    BY <2>1, <2>2, <2>3, <2>4
<1>5. CASE BySession(s)
  <2>1. TypeOK'
    <3>1. at' \in [Starters -> Steps] /\ job' \in [Starters -> Job]
      <4> HIDE DEF Go, Goto
      <4> QED
        BY <1>5, GoTyped DEF BySession, TypeOK
    <3> QED
      BY <1>5, <3>1 DEF BySession, TypeOK
  <2>2. Starting'
    <3>1. \A n \in Nat : /\ [job[s] EXCEPT !.run = n].secret = job[s].secret
                         /\ [job[s] EXCEPT !.run = n].run = n
      BY DEF TypeOK, Job
    <3>2. runs # <<>> => 1 \in 1..Len(runs)
      BY DEF TypeOK
    <3> QED
      <4>1. CASE runs # <<>>
        <5>1. /\ at' = [at EXCEPT ![s] = "record"]
              /\ job' = [job EXCEPT ![s] = [job[s] EXCEPT !.run = 1]]
          BY <1>5, <4>1 DEF BySession
        <5>2. at'[s] = "record" /\ job'[s].run = 1
          BY <5>1, <3>1 DEF TypeOK
        <5>3. \A u \in Starters \ {s} : at'[u] = at[u] /\ job'[u] = job[u]
          BY <5>1 DEF TypeOK
        <5> QED
          BY <1>5, <3>2, <4>1, <5>2, <5>3 DEF BySession, Starting
      <4>2. CASE runs = <<>>
        <5>1. /\ at' = [at EXCEPT ![s] = "insert"]
              /\ job' = [job EXCEPT ![s] = [job[s] EXCEPT !.run = 1]]
          BY <1>5, <4>2 DEF BySession
        <5>2. at'[s] = "insert" /\ job'[s].secret = job[s].secret
          BY <5>1, <3>1 DEF TypeOK
        <5>3. \A u \in Starters \ {s} : at'[u] = at[u] /\ job'[u] = job[u]
          BY <5>1 DEF TypeOK
        <5> QED
          BY <1>5, <4>2, <5>2, <5>3 DEF BySession, Starting
      <4> QED
        BY <4>1, <4>2
  <2>3. (Order /\ OneRun /\ Claims)'
    BY <1>5 DEF BySession, Job, TypeOK, Order, Starting, OneRun, RunSignsIn, Claims,
      RetryPerThrow, ClaimIsARetry
  <2>4. Answered'
    BY <1>5 DEF BySession, Job, TypeOK, Order, Starting, OneRun, Answered, ReceiptOnce,
      AckedIsServed
  <2> QED
    BY <2>1, <2>2, <2>3, <2>4
<1>6. CASE Insert(s)
  <2>1. TypeOK'
    <3>1. at' \in [Starters -> Steps] /\ job' \in [Starters -> Job]
      <4> HIDE DEF Go, Goto
      <4> QED
        BY <1>6, GoTyped DEF Insert, TypeOK
    <3>2. job[s].secret \in BOOLEAN
      BY DEF TypeOK, Job
    <3>3. runs' = runs \/ runs' = Append(runs, job[s].secret)
      BY <1>6 DEF Insert
    <3>4. runs' \in Seq(BOOLEAN) /\ Len(runs) <= Len(runs')
      BY <3>2, <3>3 DEF TypeOK
    <3> QED
      BY <1>6, <3>1, <3>4 DEF Insert, TypeOK
  <2>2. Order'
    <3>1. session = "paid" /\ UNCHANGED <<form, stripe>>
      BY <1>6 DEF Insert, Starting
    <3> QED
      BY <3>1 DEF Order
  <2>3. Starting'
    <3>1. \A n \in Nat : [job[s] EXCEPT !.run = n].run = n
      BY DEF TypeOK, Job
    <3>2. job[s].secret \in BOOLEAN
      BY DEF TypeOK, Job
    <3>3. /\ runs' # <<>> /\ 1 \in 1..Len(runs') /\ Len(runs) <= Len(runs')
          /\ ~Taken => Len(runs) + 1 \in 1..Len(runs')
      BY <1>6, <3>2 DEF Insert, Taken, TypeOK
    <3>4. at' = [at EXCEPT ![s] = "record"] /\ UNCHANGED <<form, stripe>>
      BY <1>6 DEF Insert
    <3>5. PICK n \in Nat : n \in 1..Len(runs') /\ job' = [job EXCEPT ![s] = [job[s] EXCEPT !.run = n]]
      <4>1. CASE Taken
        <5>1. job' = [job EXCEPT ![s] = [job[s] EXCEPT !.run = 1]]
          BY <1>6, <4>1 DEF Insert
        <5> QED
          BY <5>1, <3>3
      <4>2. CASE ~Taken
        <5>1. job' = [job EXCEPT ![s] = [job[s] EXCEPT !.run = Len(runs) + 1]]
          BY <1>6, <4>2 DEF Insert
        <5>2. Len(runs) + 1 \in Nat
          BY DEF TypeOK
        <5> QED
          BY <5>1, <5>2, <3>3, <4>2
      <4> QED
        BY <4>1, <4>2
    <3>6. at'[s] = "record" /\ job'[s].run = n
      BY <3>1, <3>4, <3>5 DEF TypeOK
    <3>7. \A u \in Starters \ {s} : at'[u] = at[u] /\ job'[u] = job[u]
      BY <3>4, <3>5 DEF TypeOK
    <3>8. 1..Len(runs) \subseteq 1..Len(runs') /\ session = "paid"
      BY <1>6, <3>3 DEF Insert, Starting, TypeOK
    <3> QED
      BY <3>3, <3>4, <3>5, <3>6, <3>7, <3>8 DEF Starting
  <2>4. OneRun'
    BY <1>6 DEF Insert, Taken, Job, TypeOK, Order, Starting, OneRun, RunSignsIn
  <2>5. Answered'
    BY <1>6 DEF Insert, Taken, Job, TypeOK, Order, Starting, OneRun, Answered, ReceiptOnce,
      AckedIsServed
  <2>6. Claims'
    BY <1>6 DEF Insert, Taken, Job, TypeOK, Claims, RetryPerThrow, ClaimIsARetry
  <2> QED
    BY <2>1, <2>2, <2>3, <2>4, <2>5, <2>6
<1>7. CASE Record(s)
  <2>1. TypeOK'
    <3>1. at' \in [Starters -> Steps] /\ job' \in [Starters -> Job]
      <4>1. job[s].run \in Nat
        BY DEF TypeOK, Job
      <4> HIDE DEF Go, Goto, Return
      <4> QED
        BY <1>7, <4>1, GoTyped, StartedTyped DEF Record, TypeOK
    <3>2. linked' \in 0..Len(runs) /\ secret' \in BOOLEAN
      <4>1. CASE parked = "row"
        <5>1. linked' = job[s].run /\ secret' = FALSE /\ at[s] = "record"
          BY <1>7, <4>1 DEF Record, Emptied
        <5>2. job[s].run \in 1..Len(runs)
          BY <5>1 DEF Starting
        <5>3. linked' \in 0..Len(runs)
          BY <5>1, <5>2 DEF TypeOK
        <5> QED
          BY <5>1, <5>3
      <4>2. CASE parked # "row"
        BY <1>7, <4>2 DEF Record, TypeOK
      <4> QED
        BY <4>1, <4>2
    <3>3. UNCHANGED <<door, parked, known, stripe, runs, outcome, retry, bounds>>
      BY <1>7 DEF Record
    <3> HIDE DEF Goto, Return, Started, Go
    <3> QED
      BY <3>1, <3>2, <3>3 DEF TypeOK
  <2>2. Starting'
    BY <1>7 DEF Record, Emptied, Job, TypeOK, Order, Starting, OneRun
  <2>3. (Order /\ OneRun /\ Claims)'
    BY <1>7 DEF Record, Emptied, Job, TypeOK, Order, Starting, OneRun, RunSignsIn, Claims,
      RetryPerThrow, ClaimIsARetry
  <2>4. Answered'
    BY <1>7 DEF Record, Emptied, Job, TypeOK, Order, Starting, OneRun, Answered, ReceiptOnce,
      AckedIsServed
  <2> QED
    BY <2>1, <2>2, <2>3, <2>4
<1>8. CASE Receipt(s)
  <2>1. TypeOK'
    <3>1. at' \in [Starters -> Steps] /\ job' \in [Starters -> Job]
      <4> HIDE DEF Goto, Return, Started
      <4> QED
        BY <1>8, JobTyped, GotoTyped, StartedTyped DEF Receipt, TypeOK
    <3> QED
      <4>1. acked' \in BOOLEAN /\ UNCHANGED <<form, session, clock, receipts, runs, outcome, retry, bounds>>
        BY <1>8 DEF Receipt, TypeOK
      <4> QED
        BY <3>1, <4>1 DEF TypeOK
  <2>2. Starting'
    BY <1>8 DEF Receipt, TypeOK, Order, Starting, OneRun
  <2>3. (Order /\ OneRun /\ Claims)'
    BY <1>8 DEF Receipt, TypeOK, Order, Starting, OneRun, RunSignsIn, Claims, RetryPerThrow,
      ClaimIsARetry
  <2>4. Answered'
    BY <1>8 DEF Receipt, TypeOK, Order, Starting, OneRun, Answered, ReceiptOnce, AckedIsServed
  <2> QED
    BY <2>1, <2>2, <2>3, <2>4
<1>9. CASE Send(s)
  <2>1. TypeOK'
    BY <1>9 DEF Send, FirstUse, Job, TypeOK
  <2>2. Starting'
    BY <1>9 DEF Send, FirstUse, Job, TypeOK, Order, Starting, OneRun
  <2>3. (Order /\ OneRun /\ Claims)'
    BY <1>9 DEF Send, FirstUse, Job, TypeOK, Order, Starting, OneRun, RunSignsIn, Claims,
      RetryPerThrow, ClaimIsARetry
  <2>4. Answered'
    BY <1>9 DEF Send, FirstUse, Job, TypeOK, Order, Starting, OneRun, Answered, ReceiptOnce,
      AckedIsServed
  <2> QED
    BY <2>1, <2>2, <2>3, <2>4
<1>10. CASE Throw(s)
  <2>1. TypeOK'
    BY <1>10, PaidAssumption DEF Throw, Fault, Halt, AnswersOk, PaidAssumption, Job, TypeOK
  <2>2. Order'
    BY <1>10, PaidAssumption DEF Throw, Fault, Halt, AnswersOk, PaidAssumption, Job, TypeOK, Order
  <2>3. Starting'
    BY <1>10, PaidAssumption DEF Throw, Fault, Halt, AnswersOk, PaidAssumption, Job, TypeOK,
      Order, Starting, OneRun
  <2>4. OneRun'
    BY <1>10, PaidAssumption DEF Throw, Fault, Halt, AnswersOk, PaidAssumption, Job, TypeOK,
      Order, Starting, OneRun, RunSignsIn
  <2>5. Answered'
    BY <1>10, PaidAssumption DEF Throw, Fault, Halt, AnswersOk, PaidAssumption, Job, TypeOK,
      Order, Starting, OneRun, Answered, ReceiptOnce, AckedIsServed
  <2>6. Claims'
    BY <1>10, PaidAssumption DEF Throw, Fault, Halt, AnswersOk, PaidAssumption, Job, TypeOK,
      Claims, RetryPerThrow, ClaimIsARetry
  <2> QED
    BY <2>1, <2>2, <2>3, <2>4, <2>5, <2>6
<1> QED
  BY <1>1, <1>2, <1>3, <1>4, <1>5, <1>6, <1>7, <1>8, <1>9, <1>10 DEF Step

(* Every step of a tab keeps it.                                              *)
LEMMA TabStep ==
  ASSUME Inv, NEW t \in Tabs, Tab(t)
  PROVE  Inv'
<1> USE DEF Inv, PressGo
<1>1. CASE Press(t)
  <2>1. TypeOK'
    BY <1>1 DEF Press, TypeOK
  <2>2. (Order /\ Starting /\ OneRun /\ Answered)'
    BY <1>1 DEF Press, TypeOK, Order, Starting, OneRun, RunSignsIn, Answered, ReceiptOnce,
                AckedIsServed
  <2>3. Claims'
    BY <1>1 DEF Press, TypeOK, Claims, RetryPerThrow, ClaimIsARetry
  <2> QED
    BY <2>1, <2>2, <2>3
<1>2. CASE ClaimRetry(t)
  <2>1. TypeOK'
    <3>1. press' \in [Tabs -> {"idle", "claim", "create", "trigger", "release"}]
      BY <1>2 DEF ClaimRetry, TypeOK
    <3>2. claimed' \in BOOLEAN /\ UNCHANGED <<form, stripe, runs, outcome, starter, retries, bounds>>
      BY <1>2 DEF ClaimRetry, TypeOK
    <3> QED
      BY <3>1, <3>2 DEF TypeOK
  <2>2. (Order /\ Starting /\ OneRun /\ Answered)'
    BY <1>2 DEF ClaimRetry, Free, TypeOK, Order, Starting, OneRun, RunSignsIn, Answered,
      ReceiptOnce,
                AckedIsServed
  <2>3. Claims'
    BY <1>2 DEF ClaimRetry, Free, TypeOK, Claims, RetryPerThrow, ClaimIsARetry
  <2> QED
    BY <2>1, <2>2, <2>3
<1>3. CASE CreateRetry(t)
  <2>1. TypeOK'
    BY <1>3 DEF CreateRetry, TypeOK
  <2>2. (Order /\ Starting /\ OneRun /\ Answered)'
    BY <1>3 DEF CreateRetry, TypeOK, Order, Starting, OneRun, RunSignsIn, Answered, ReceiptOnce,
                AckedIsServed
  <2>3. Claims'
    BY <1>3 DEF CreateRetry, TypeOK, Claims, RetryPerThrow, ClaimIsARetry
  <2> QED
    BY <2>1, <2>2, <2>3
<1>4. CASE TriggerRetry(t)
  <2>1. TypeOK'
    BY <1>4 DEF TriggerRetry, TypeOK
  <2>2. (Order /\ Starting /\ OneRun /\ Answered)'
    BY <1>4 DEF TriggerRetry, TypeOK, Order, Starting, OneRun, RunSignsIn, Answered, ReceiptOnce,
                AckedIsServed
  <2>3. Claims'
    BY <1>4 DEF TriggerRetry, TypeOK, Claims, RetryPerThrow, ClaimIsARetry
  <2> QED
    BY <2>1, <2>2, <2>3
<1>5. CASE RetryThrows(t)
  <2>1. TypeOK'
    BY <1>5, PaidAssumption DEF RetryThrows, Fault, Catch, PaidAssumption, TypeOK
  <2>2. (Order /\ Starting /\ OneRun /\ Answered)'
    BY <1>5, PaidAssumption DEF RetryThrows, Fault, Catch, PaidAssumption, TypeOK, Order,
      Starting, OneRun, RunSignsIn, Answered, ReceiptOnce,
                AckedIsServed
  <2>3. Claims'
    BY <1>5, PaidAssumption DEF RetryThrows, Fault, Catch, PaidAssumption, TypeOK, Claims,
      RetryPerThrow, ClaimIsARetry
  <2> QED
    BY <2>1, <2>2, <2>3
<1>6. CASE Release(t)
  <2>1. TypeOK'
    <3>1. press' \in [Tabs -> {"idle", "claim", "create", "trigger", "release"}]
      BY <1>6 DEF Release, TypeOK
    <3>2. claimed' \in BOOLEAN /\ UNCHANGED <<form, stripe, runs, outcome, starter, retries, bounds>>
      BY <1>6 DEF Release, TypeOK
    <3> QED
      BY <3>1, <3>2 DEF TypeOK
  <2>2. (Order /\ Starting /\ OneRun /\ Answered)'
    BY <1>6 DEF Release, TypeOK, Order, Starting, OneRun, RunSignsIn, Answered, ReceiptOnce,
                AckedIsServed
  <2>3. Claims'
    BY <1>6 DEF Release, TypeOK, Claims, RetryPerThrow, ClaimIsARetry
  <2> QED
    BY <2>1, <2>2, <2>3
<1>7. CASE RetryStops(t)
  <2>1. TypeOK'
    BY <1>7, PaidAssumption DEF RetryStops, Halt, PaidAssumption, TypeOK
  <2>2. (Order /\ Starting /\ OneRun /\ Answered)'
    BY <1>7, PaidAssumption DEF RetryStops, Halt, PaidAssumption, TypeOK, Order, Starting,
      OneRun, RunSignsIn, Answered, ReceiptOnce,
                AckedIsServed
  <2>3. Claims'
    BY <1>7, PaidAssumption DEF RetryStops, Halt, PaidAssumption, TypeOK, Claims, RetryPerThrow,
      ClaimIsARetry
  <2> QED
    BY <2>1, <2>2, <2>3
<1> QED
  BY <1>1, <1>2, <1>3, <1>4, <1>5, <1>6, <1>7 DEF Tab

(* The inductive invariant.                                                   *)
THEOREM Inductive == Spec => []Inv
<1>1. Inv /\ [Next]_vars => Inv'
  <2> SUFFICES ASSUME Inv, [Next]_vars PROVE Inv'
    OBVIOUS
  <2>1. CASE Next
    BY <2>1, WorldStep, StarterStep, TabStep DEF Next
  <2>2. CASE UNCHANGED vars
    BY <2>2 DEF vars, Inv, TypeOK, Order, Starting, OneRun, RunSignsIn, Answered, ReceiptOnce,
      AckedIsServed, Claims, RetryPerThrow, ClaimIsARetry
  <2> QED
    BY <2>1, <2>2
<1> QED
  BY InitInv, <1>1, PTL DEF Spec

-----------------------------------------------------------------------------
(* The rows keep their types, and the parked row names a run that exists.     *)
THEOREM TypeCorrect == Spec => []TypeOK
<1>1. Inv => TypeOK
  BY DEF Inv
<1> QED
  BY Inductive, <1>1, PTL

(* One payment buys one run: however many deliveries and polls race, the      *)
(* unique key leaves one winner (one-check.ts, startPaidCheck).               *)
THEOREM PaymentBuysOneRun == Spec => []OneRunPerPayment
<1>1. Inv => OneRunPerPayment
  BY DEF Inv, TypeOK, Order, OneRun, OneRunPerPayment
<1> QED
  BY Inductive, <1>1, PTL

(* ... and that run signs in with what was parked.                            *)
THEOREM ParkedSignsIn == Spec => []RunSignsIn
<1>1. Inv => RunSignsIn
  BY DEF Inv, OneRun
<1> QED
  BY Inductive, <1>1, PTL

(* Stripe is answered 200 when the run is there and one receipt was sent      *)
(* (webhooks/stripe/route.ts, one-check.ts sendPaidCheckReceipt).             *)
THEOREM AnsweredIsDone == Spec => [](ReceiptOnce /\ AckedIsServed)
<1>1. Inv => ReceiptOnce /\ AckedIsServed
  BY DEF Inv, Answered
<1> QED
  BY Inductive, <1>1, PTL

(* Two tabs never share the owed re-check, and a held claim belongs to one    *)
(* (recheck.ts, claimPaidRetry).                                              *)
THEOREM RetryIsClaimed == Spec => [](RetryPerThrow /\ ClaimIsARetry)
<1>1. Inv => RetryPerThrow /\ ClaimIsARetry
  BY DEF Inv, Claims
<1> QED
  BY Inductive, <1>1, PTL
=============================================================================
