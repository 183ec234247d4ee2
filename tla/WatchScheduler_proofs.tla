----------------------- MODULE WatchScheduler_proofs ------------------------
(* What a tick holds keeps its type; a Watch is never started more often     *)
(* than there are ticks under way at one time, and once unless two of them   *)
(* raced for it: for any number of Watches, ticks, changes and faults.       *)
EXTENDS WatchScheduler, SequenceTheorems, FiniteSetTheorems, TLAPS

-----------------------------------------------------------------------------
(* The types, with any number of ticks under way.                            *)

(* A tick past its look at a Watch has that Watch at the head of its list,   *)
(* and room to start one more.                                               *)
AtWatch == \A t \in Ticks : pc[t] \notin {"off", "look"} =>
                              list[t] # <<>> /\ started[t] < MaxPerTick

Lines == line \in Seq(Watches) /\ wait \in [Watches -> Nat]
Gates == /\ on \in [Watches -> BOOLEAN] /\ late \in [Watches -> BOOLEAN]
         /\ free \in BOOLEAN /\ funded \in BOOLEAN /\ heard \in BOOLEAN
Runs  == /\ sched \in [Watches -> Nat] /\ other \in [Watches -> Nat] /\ starts \in [Watches -> Nat]
         /\ raced \subseteq Watches
Notes == /\ stamp \in {"none", "before", "now"} /\ mailed \subseteq Windows
         /\ trialStamp \in [Watches -> BOOLEAN] /\ trialMailed \subseteq Watches
TicksOK == /\ pc \in [Ticks -> Steps] /\ list \in [Ticks -> Seq(Row)]
           /\ \A t \in Ticks : Len(list[t]) <= CandidateLimit
           /\ started \in [Ticks -> 0..MaxPerTick] /\ AtWatch
Bounds == faults \in 0..MaxFaults /\ changes \in 0..MaxChanges
Typed == Lines /\ Gates /\ Runs /\ Notes /\ TicksOK /\ Bounds

(* A Watch taken out of line leaves a line of Watches.                       *)
LEMMA WithoutType ==
  ASSUME NEW w, line \in Seq(Watches) PROVE Without(w) \in Seq(Watches)
<1>1. CASE InLine(w)
  <2> DEFINE i == Place(w)
             n == Len(line)
  <2>1. i \in 1..n /\ n \in Nat
    BY <1>1 DEF InLine, Place
  <2>2. \A k \in 1..n : line[k] \in Watches
    BY ElementOfSeq
  <2>3. SubSeq(line, 1, i - 1) \in Seq(Watches)
    <3>1. \A k \in 1..(i - 1) : line[k] \in Watches
      BY <2>1, <2>2
    <3>2. i - 1 \in Int /\ 1 \in Int
      BY <2>1
    <3> HIDE DEF i
    <3> QED
      BY <3>1, <3>2, SubSeqProperties
  <2>4. SubSeq(line, i + 1, n) \in Seq(Watches)
    <3>1. \A k \in (i + 1)..n : line[k] \in Watches
      BY <2>1, <2>2
    <3>2. i + 1 \in Int /\ n \in Int
      BY <2>1
    <3> HIDE DEF i, n
    <3> QED
      BY <3>1, <3>2, SubSeqProperties
  <2> HIDE DEF i, n
  <2>5. SubSeq(line, 1, i - 1) \o SubSeq(line, i + 1, n) \in Seq(Watches)
    BY <2>3, <2>4, ConcatProperties
  <2> QED
    BY <1>1, <2>5 DEF Without, RemoveAt, i, n
<1> QED
  BY <1>1 DEF Without

(* nextRunAt set anew keeps the line and the waits typed.                    *)
LEMMA MoveType ==
  ASSUME NEW w, NEW h \in Nat, Lines, Move(w, h) PROVE Lines'
BY WithoutType DEF Lines, Move

(* A tick's next step keeps what it holds: the list as it is, while it is at *)
(* its Watch, ...                                                            *)
LEMMA GoType ==
  ASSUME NEW t \in Ticks, NEW step \in Steps, TicksOK, Go(t, step),
         step \notin {"off", "look"} => list[t] # <<>> /\ started[t] < MaxPerTick
  PROVE  TicksOK'
BY DEF TicksOK, AtWatch, Go, Steps

(* ... and the list without its head, when it is done with the Watch.        *)
LEMMA DropType ==
  ASSUME NEW t \in Ticks, TicksOK, list[t] # <<>>, Drop(t) PROVE TicksOK'
<1>1. list[t] \in Seq(Row)
  BY DEF TicksOK
<1>2. Tail(list[t]) \in Seq(Row) /\ Len(Tail(list[t])) <= Len(list[t])
  BY <1>1, HeadTailProperties
<1>3. Len(Tail(list[t])) <= CandidateLimit
  BY <1>1, <1>2, LenProperties, SchedulerAssumption DEF TicksOK
<1> QED
  BY <1>2, <1>3 DEF TicksOK, AtWatch, Drop, Steps

(* The same for the steps to a run.                                          *)
LEMMA AfterType ==
  ASSUME NEW t \in Ticks, NEW step \in {"admit", "claim", "create"}, TicksOK,
         pc[t] = step, After(t, step), started' = started
  PROVE  TicksOK'
<1>1. list' = list /\ pc' = [pc EXCEPT ![t] = Order[step]] /\ Order[step] \in Steps
  BY DEF After, Order, TicksOK, Steps
<1>2. list[t] # <<>> /\ started[t] < MaxPerTick
  BY DEF TicksOK, AtWatch
<1> QED
  BY <1>1, <1>2 DEF TicksOK, AtWatch

(* A tick that opens reads as many candidates as it may, each a row.         *)
LEMMA OpenType ==
  ASSUME NEW t \in Ticks, Typed, Open(t) PROVE TicksOK'
<1> USE DEF Typed
<1>1. PICK n \in 0..Cardinality(Due) : \E p \in [1..n -> Due] :
        Candidates(p) /\ list' = [list EXCEPT ![t] = [k \in 1..n |-> RowAt(p[k])]]
  BY DEF Open
<1>2. PICK p \in [1..n -> Due] :
        Candidates(p) /\ list' = [list EXCEPT ![t] = [k \in 1..n |-> RowAt(p[k])]]
  BY <1>1
<1> DEFINE rows == [k \in 1..n |-> RowAt(p[k])]
<1>3. n \in Nat
  BY <1>1
<1>4. \A k \in 1..n : RowAt(p[k]) \in Row
  <2> TAKE k \in 1..n
  <2>1. p[k] \in 1..Len(line)
    BY <1>2 DEF Due
  <2>2. line[p[k]] \in Watches
    BY <2>1, ElementOfSeq DEF Lines
  <2> QED
    BY <2>2 DEF RowAt, Row, Gates
<1>5. rows \in [1..n -> Row]
  BY <1>4
<1>6. rows \in Seq(Row) /\ Len(rows) = n
  <2> HIDE DEF rows
  <2> QED
    BY <1>3, <1>5, SeqDef, LenProperties
<1>7. p \in Seq(Due) /\ Len(p) = n
  BY <1>2, <1>3, SeqDef
<1>8. Len(rows) <= CandidateLimit
  BY <1>2, <1>6, <1>7 DEF Candidates
<1>9. list' = [list EXCEPT ![t] = rows]
  BY <1>2
<1> HIDE DEF rows
<1>10. /\ pc' = [pc EXCEPT ![t] = "look"]
       /\ started' = [started EXCEPT ![t] = 0]
  BY DEF Open
<1> QED
  BY <1>6, <1>8, <1>9, <1>10, SchedulerAssumption DEF TicksOK, AtWatch, Steps

(* When a tick ends, its list is empty and nothing is counted.               *)
LEMMA OffType ==
  ASSUME NEW t \in Ticks, TicksOK, pc' = [pc EXCEPT ![t] = "off"],
         list' = [list EXCEPT ![t] = <<>>], started' = [started EXCEPT ![t] = 0]
  PROVE  TicksOK'
<1>1. <<>> \in Seq(Row) /\ Len(<<>>) <= CandidateLimit
  BY EmptySeq, SchedulerAssumption
<1>2. 0 \in 0..MaxPerTick
  BY SchedulerAssumption
<1> QED
  BY <1>1, <1>2 DEF TicksOK, AtWatch, Steps

(* The Watch a tick is at is one of the team's.                              *)
LEMMA HeadType ==
  ASSUME NEW t \in Ticks, TicksOK, list[t] # <<>>
  PROVE  Head(list[t]) \in Row /\ Head(list[t]).watch \in Watches
<1>1. list[t] \in Seq(Row)
  BY DEF TicksOK
<1>2. Head(list[t]) \in Row
  BY <1>1, HeadTailProperties
<1> QED
  BY <1>2 DEF Row

(* Every step of a tick keeps the types.                                     *)
LEMMA StepTyped ==
  ASSUME NEW t \in Ticks, Typed, Step(t) \/ Throws(t) \/ Dies(t) PROVE Typed'
<1> USE DEF Typed
<1> DEFINE w == Head(list[t]).watch
<1>0. pc[t] \notin {"off", "look"} => list[t] # <<>> /\ started[t] < MaxPerTick /\ w \in Watches
  BY HeadType DEF TicksOK, AtWatch
<1>a. Cadence \in Nat /\ Recheck \in Nat
  BY SchedulerAssumption
<1> HIDE DEF w
<1> USE DEF nextRun, gates, runs, notices
<1>1. CASE Open(t)
  <2>1. TicksOK'
    BY <1>1, OpenType
  <2>2. Bounds'
    BY <1>1, SchedulerAssumption DEF Open, Change, Bounds
  <2> QED
    BY <1>1, <2>1, <2>2 DEF Open, Lines, Gates, Runs, Notes
<1>2. CASE Look(t)
  <2>1. TicksOK'
    <3>1. CASE list[t] = <<>> \/ Full(t)
      BY <1>2, <3>1, OffType DEF Look
    <3>2. CASE ~(list[t] = <<>> \/ Full(t))
      <4>1. Go(t, "trial") \/ Drop(t) \/ Go(t, "admit")
        BY <1>2, <3>2 DEF Look
      <4>2. list[t] # <<>> /\ started[t] < MaxPerTick
        BY <3>2, SchedulerAssumption DEF Full, TicksOK
      <4> QED
        BY <4>1, <4>2, GoType, DropType DEF Steps
    <3> QED
      BY <3>1, <3>2
  <2>2. raced' \subseteq Watches
    <3>1. CASE list[t] = <<>> \/ Full(t)
      BY <1>2, <3>1 DEF Look, Runs
    <3>2. CASE list[t] # <<>>
      BY <1>2, <3>2, HeadType DEF Look, Runs
    <3> QED
      BY <3>1, <3>2
  <2> QED
    BY <1>2, <2>1, <2>2 DEF Look, Lines, Gates, Runs, Notes, Bounds
<1>3. CASE Admit(t)
  <2>1. TicksOK'
    <3>1. (After(t, "admit") /\ started' = started) \/ Go(t, "dry")
      BY <1>3 DEF Admit
    <3> QED
      BY <1>0, <1>3, <3>1, AfterType, GoType DEF Admit, Steps
  <2> QED
    BY <1>3, <2>1 DEF Admit, Lines, Gates, Runs, Notes, Bounds
<1>4. CASE Claim(t)
  <2>1. TicksOK'
    BY <1>4, AfterType DEF Claim
  <2>2. Lines'
    BY <1>4, <1>a, MoveType DEF Claim
  <2>3. Runs'
    BY <1>0, <1>4 DEF Claim, Runs, w
  <2> QED
    BY <1>4, <2>1, <2>2, <2>3 DEF Claim, Gates, Notes, Bounds
<1>5. CASE CreateRun(t)
  <2>1. TicksOK'
    BY <1>5, AfterType DEF CreateRun
  <2>2. Runs'
    BY <1>0, <1>5 DEF CreateRun, Runs, w
  <2> QED
    BY <1>5, <2>1, <2>2 DEF CreateRun, Lines, Gates, Notes, Bounds
<1>6. CASE HandOff(t)
  <2>1. list[t] # <<>> /\ started[t] < MaxPerTick
    BY <1>0, <1>6 DEF HandOff
  <2>2. list[t] \in Seq(Row) /\ Tail(list[t]) \in Seq(Row) /\ Len(Tail(list[t])) <= Len(list[t])
    BY <2>1, HeadTailProperties, LenProperties DEF TicksOK
  <2>3. Len(Tail(list[t])) <= CandidateLimit
    BY <2>2, LenProperties, SchedulerAssumption DEF TicksOK
  <2>4. /\ pc' = [pc EXCEPT ![t] = "look"] /\ list' = [list EXCEPT ![t] = Tail(@)]
        /\ started' = [started EXCEPT ![t] = @ + 1]
    BY <1>6 DEF HandOff, After, Order
  <2>5. started[t] + 1 \in 0..MaxPerTick
    BY <2>1, SchedulerAssumption DEF TicksOK
  <2>6. TicksOK'
    BY <2>2, <2>3, <2>4, <2>5 DEF TicksOK, AtWatch, Steps
  <2> QED
    BY <1>6, <2>6 DEF HandOff, Lines, Gates, Runs, Notes, Bounds
<1>7. CASE PauseTrial(t)
  <2>1. Lines'
    BY <1>7, <1>a, MoveType DEF PauseTrial, OutOfLine
  <2>2. Drop(t) \/ Go(t, "trialMail")
    BY <1>7 DEF PauseTrial
  <2>3. TicksOK'
    BY <1>0, <1>7, <2>2, DropType, GoType DEF PauseTrial, Steps
  <2> QED
    BY <1>7, <2>1, <2>3 DEF PauseTrial, Gates, Runs, Notes, Bounds
<1>8. CASE MailTrial(t)
  <2>1. Drop(t) \/ Go(t, "trialStamp")
    BY <1>8 DEF MailTrial
  <2>2. TicksOK'
    BY <1>0, <1>8, <2>1, DropType, GoType DEF MailTrial, Steps
  <2>3. Notes'
    BY <1>0, <1>8 DEF MailTrial, Notes, w
  <2> QED
    BY <1>8, <2>2, <2>3 DEF MailTrial, Lines, Gates, Runs, Bounds
<1>9. CASE StampTrial(t)
  <2>1. TicksOK'
    BY <1>0, <1>9, DropType DEF StampTrial
  <2>2. Notes'
    BY <1>0, <1>9 DEF StampTrial, Notes, w
  <2> QED
    BY <1>9, <2>1, <2>2 DEF StampTrial, Lines, Gates, Runs, Bounds
<1>10. CASE PauseDry(t)
  <2>1. Lines'
    BY <1>10, <1>a, MoveType DEF PauseDry, OutOfLine
  <2>2. TicksOK'
    BY <1>0, <1>10, GoType DEF PauseDry, Steps
  <2> QED
    BY <1>10, <2>1, <2>2 DEF PauseDry, Gates, Runs, Notes, Bounds
<1>11. CASE ReadStamp(t)
  <2>1. Drop(t) \/ Go(t, "dryMail")
    BY <1>11 DEF ReadStamp
  <2>2. TicksOK'
    BY <1>0, <1>11, <2>1, DropType, GoType DEF ReadStamp, Steps
  <2> QED
    BY <1>11, <2>2 DEF ReadStamp, Lines, Gates, Runs, Notes, Bounds
<1>12. CASE MailDry(t)
  <2>1. TicksOK'
    BY <1>0, <1>12, GoType DEF MailDry, Steps
  <2>2. Notes'
    BY <1>12 DEF MailDry, Notes, Window, Windows
  <2> QED
    BY <1>12, <2>1, <2>2 DEF MailDry, Lines, Gates, Runs, Bounds
<1>13. CASE StampDry(t)
  <2>1. TicksOK'
    BY <1>0, <1>13, DropType DEF StampDry
  <2> QED
    BY <1>13, <2>1 DEF StampDry, Lines, Gates, Runs, Notes, Bounds
<1>14. CASE Throws(t)
  <2>1. TicksOK'
    BY <1>0, <1>14, DropType DEF Throws
  <2>2. Bounds'
    BY <1>14, SchedulerAssumption DEF Throws, Fault, Bounds
  <2> QED
    BY <1>14, <2>1, <2>2 DEF Throws, Lines, Gates, Runs, Notes
<1>15. CASE Dies(t)
  <2>1. TicksOK'
    BY <1>15, OffType DEF Dies
  <2>2. Bounds'
    BY <1>15, SchedulerAssumption DEF Dies, Fault, Bounds
  <2> QED
    BY <1>15, <2>1, <2>2 DEF Dies, Lines, Gates, Runs, Notes
<1> QED
  BY <1>1, <1>2, <1>3, <1>4, <1>5, <1>6, <1>7, <1>8, <1>9, <1>10, <1>11, <1>12, <1>13,
     <1>14, <1>15 DEF Step

(* So do the end of a run and an hour that passes, ...                       *)
LEMMA TimeTyped ==
  ASSUME Typed, Hour \/ \E w \in Watches : RunEnds(w) PROVE Typed'
<1> USE DEF Typed, gates, runs, notices, tick
<1>1. CASE Hour
  <2> DEFINE new == {w \in Watches : wait[w] = 1}
  <2>1. PICK s \in [1..Cardinality(new) -> new] : line' = line \o s
    BY <1>1 DEF Hour
  <2>2. Cardinality(new) \in Nat
    BY SchedulerAssumption, FS_Subset, FS_CardinalityType
  <2>3. s \in [1..Cardinality(new) -> Watches]
    BY <2>1
  <2>4. s \in Seq(Watches)
    <3> HIDE DEF new
    <3> QED
      BY <2>2, <2>3, SeqDef
  <2>5. line' \in Seq(Watches)
    BY <2>1, <2>4, ConcatProperties DEF Lines
  <2>6. wait' \in [Watches -> Nat]
    BY <1>1 DEF Hour, Lines
  <2> QED
    BY <1>1, <2>5, <2>6 DEF Hour, Lines, Gates, Runs, Notes, TicksOK, AtWatch, Bounds
<1>2. ASSUME NEW w \in Watches, RunEnds(w) PROVE Typed'
  <2>1. Runs'
    BY <1>2 DEF RunEnds, Runs
  <2>2. Lines' /\ Bounds'
    <3>1. CASE UNCHANGED <<nextRun, faults>> /\ UNCHANGED changes
      BY <3>1 DEF nextRun, Lines, Bounds
    <3>2. CASE Fault /\ Move(w, Retry) /\ UNCHANGED changes
      BY <3>2, MoveType, SchedulerAssumption DEF Fault, Bounds
    <3> QED
      BY <1>2, <3>1, <3>2 DEF RunEnds
  <2> QED
    BY <1>2, <2>1, <2>2 DEF RunEnds, Gates, Notes, TicksOK, AtWatch
<1> QED
  BY <1>1, <1>2

(* ... and what the owner, the plan, the balance and the month change.       *)
LEMMA WorldTyped ==
  ASSUME Typed, World PROVE Typed'
<1> USE DEF Typed, nextRun, gates, runs, notices, tick
<1>0. ASSUME Change, UNCHANGED faults PROVE Bounds'
  BY <1>0, SchedulerAssumption DEF Change, Bounds
<1>1. CASE PlanChanges \/ BalanceChanges \/ RecipientsChange
  <2>1. Bounds' /\ Gates'
    BY <1>0, <1>1 DEF PlanChanges, BalanceChanges, RecipientsChange, Gates
  <2>2. UNCHANGED <<nextRun, runs, notices, tick>>
    BY <1>1 DEF PlanChanges, BalanceChanges, RecipientsChange
  <2> QED
    BY <2>1, <2>2 DEF Lines, Runs, Notes, TicksOK, AtWatch
<1>2. CASE NewMonth
  BY <1>0, <1>2 DEF NewMonth, Lines, Gates, Runs, Notes, TicksOK, AtWatch
<1>3. ASSUME NEW w \in Watches, Configure(w) PROVE Typed'
  <2>1. Lines'
    BY <1>3, MoveType, SchedulerAssumption DEF Configure
  <2> QED
    BY <1>0, <1>3, <2>1 DEF Configure, Gates, Runs, Notes, TicksOK, AtWatch
<1>4. ASSUME NEW w \in Watches, Switch(w) \/ TrialEnds(w) \/ RecheckRun(w) PROVE Typed'
  <2>1. Bounds'
    BY <1>0, <1>4 DEF Switch, TrialEnds, RecheckRun
  <2>2. CASE Switch(w)
    <3>1. on' \in [Watches -> BOOLEAN]
      BY <2>2 DEF Switch, Gates
    <3> QED
      BY <2>1, <2>2, <3>1 DEF Switch, Lines, Gates, Runs, Notes, TicksOK, AtWatch
  <2>3. CASE TrialEnds(w)
    BY <2>1, <2>3 DEF TrialEnds, Lines, Gates, Runs, Notes, TicksOK, AtWatch
  <2>4. CASE RecheckRun(w)
    BY <2>1, <2>4 DEF RecheckRun, Lines, Gates, Runs, Notes, TicksOK, AtWatch
  <2> QED
    BY <1>4, <2>2, <2>3, <2>4
<1>5. ASSUME NEW w \in Watches, MakeManual(w) PROVE Typed'
  <2>1. Without(w) \in Seq(Watches) /\ <<w>> \in Seq(Watches)
    BY WithoutType DEF Lines
  <2>2. <<w>> \o Without(w) \in Seq(Watches)
    BY <2>1, ConcatProperties
  <2>3. Lines'
    BY <1>5, <2>2 DEF MakeManual, Lines
  <2> QED
    BY <1>0, <1>5, <2>3 DEF MakeManual, Gates, Runs, Notes, TicksOK, AtWatch
<1> QED
  BY <1>1, <1>2, <1>3, <1>4, <1>5 DEF World

(* The types hold at the start ...                                           *)
LEMMA TypedInit == Init => Typed
<1> SUFFICES ASSUME Init PROVE Typed
  OBVIOUS
<1>1. line \in Seq(Watches)
  BY SeqDef DEF Init
<1>2. Lines
  BY <1>1, SchedulerAssumption DEF Init, Lines
<1>3. TicksOK
  BY EmptySeq, SchedulerAssumption DEF Init, TicksOK, AtWatch, Steps
<1> QED
  BY <1>2, <1>3, SchedulerAssumption DEF Init, Typed, Gates, Runs, Notes, Bounds

(* ... and every step keeps them.                                            *)
LEMMA TypedStep == Typed /\ [Next]_vars => Typed'
<1>1. ASSUME Typed, UNCHANGED vars PROVE Typed'
  BY <1>1 DEF Typed, vars, nextRun, gates, runs, notices, tick, Lines, Gates, Runs,
              Notes, TicksOK, AtWatch, Bounds
<1> QED
  BY <1>1, StepTyped, TimeTyped, WorldTyped DEF Next

(* The rows and the ticks keep their types; a tick holds no more candidates  *)
(* than it may read, and starts no more runs than it may (CANDIDATE_LIMIT    *)
(* and MAX_PER_TICK, agent/scheduler.ts), however many ticks overlap.        *)
THEOREM TypeCorrect == Spec => []TypeOK
<1>1. Typed => TypeOK
  BY DEF Typed, TypeOK, Lines, Gates, Runs, Notes, TicksOK, Bounds
<1> QED
  BY <1>1, TypedInit, TypedStep, PTL DEF Spec

-----------------------------------------------------------------------------
(* How often a Watch is started.                                             *)

(* The ticks about to start the Watch that have claimed it.                   *)
Claimed(w) == {t \in Ticks : pc[t] = "create" /\ Head(list[t]).watch = w}

(* Each scheduled run in flight, and each run about to be, is that of another *)
(* tick; so is each run since the Watch was last claimed.                     *)
InFlightBound == \A w \in Watches : sched[w] + Cardinality(Pending(w)) <= Cardinality(Ticks)
ClaimBound == \A w \in Watches : starts[w] + Cardinality(Claimed(w)) <= Cardinality(Ticks)

(* A Watch that ticks did not race for has one run in flight or one tick about *)
(* to start it, and no more of either since its claim.                        *)
AloneBound == \A w \in Watches \ raced : /\ sched[w] + Cardinality(Pending(w)) <= 1
                                         /\ starts[w] + Cardinality(Claimed(w)) <= 1
Inv == Typed /\ InFlightBound /\ ClaimBound /\ AloneBound

(* However many ticks overlap, a Watch has no more scheduled runs in flight,  *)
(* and is started no more often per claim, than there are ticks at one time.  *)
OneStartPerTick ==
  \A w \in Watches : sched[w] <= Cardinality(Ticks) /\ starts[w] <= Cardinality(Ticks)

(* Sets of ticks are counted by naturals, a smaller one by no more.           *)
LEMMA Counted ==
  /\ Cardinality(Ticks) \in Nat
  /\ \A S \in SUBSET Ticks : Cardinality(S) \in Nat /\ Cardinality(S) <= Cardinality(Ticks)
  /\ \A S \in SUBSET Ticks : \A T \in SUBSET S : Cardinality(T) <= Cardinality(S)
  /\ \A S \in SUBSET Ticks : \A t \in S : Cardinality(S \ {t}) = Cardinality(S) - 1
<1>1. IsFiniteSet(Ticks)
  BY SchedulerAssumption, FS_Interval DEF Ticks
<1> QED
  BY <1>1, FS_Subset, FS_CardinalityType, FS_RemoveElement

(* A set of ticks with nobody but one in it.                                  *)
LEMMA AtMostOne ==
  ASSUME NEW t \in Ticks, NEW S \in SUBSET {t}
  PROVE  Cardinality(S) \in Nat /\ Cardinality(S) <= 1
<1>1. CASE S = {}
  <2>1. Cardinality(S) = 0
    BY <1>1, FS_EmptySet
  <2> QED
    BY <2>1
<1>2. CASE S = {t}
  <2>1. Cardinality(S) = 1
    BY <1>2, FS_Singleton
  <2> QED
    BY <2>1
<1> QED
  BY <1>1, <1>2

(* A step that starts no run and looks at no Watch keeps the bounds.          *)
LEMMA Quiet ==
  ASSUME Inv, Typed',
         raced' = raced,
         \A w \in Watches : /\ sched'[w] <= sched[w] /\ Pending(w)' \subseteq Pending(w)
                            /\ starts'[w] <= starts[w] /\ Claimed(w)' \subseteq Claimed(w)
  PROVE  InFlightBound' /\ ClaimBound' /\ AloneBound'
<1> SUFFICES ASSUME NEW w \in Watches
             PROVE  /\ sched'[w] + Cardinality(Pending(w)') <= Cardinality(Ticks)
                    /\ starts'[w] + Cardinality(Claimed(w)') <= Cardinality(Ticks)
                    /\ w \notin raced => /\ sched'[w] + Cardinality(Pending(w)') <= 1
                                         /\ starts'[w] + Cardinality(Claimed(w)') <= 1
  BY DEF InFlightBound, ClaimBound, AloneBound
<1>1. Pending(w) \in SUBSET Ticks /\ Claimed(w) \in SUBSET Ticks
  BY DEF Pending, Claimed
<1>2. /\ Pending(w)' \in SUBSET Ticks /\ Claimed(w)' \in SUBSET Ticks
      /\ Pending(w)' \in SUBSET Pending(w) /\ Claimed(w)' \in SUBSET Claimed(w)
  BY <1>1
<1>3. /\ sched[w] \in Nat /\ sched'[w] \in Nat /\ starts[w] \in Nat /\ starts'[w] \in Nat
      /\ sched'[w] <= sched[w] /\ starts'[w] <= starts[w]
  BY DEF Inv, Typed, Runs
<1>4. /\ Cardinality(Pending(w)') <= Cardinality(Pending(w))
      /\ Cardinality(Claimed(w)') <= Cardinality(Claimed(w))
      /\ Cardinality(Pending(w)) \in Nat /\ Cardinality(Claimed(w)) \in Nat
      /\ Cardinality(Pending(w)') \in Nat /\ Cardinality(Claimed(w)') \in Nat
      /\ Cardinality(Ticks) \in Nat
  BY <1>1, <1>2, Counted
<1>5. /\ sched[w] + Cardinality(Pending(w)) <= Cardinality(Ticks)
      /\ starts[w] + Cardinality(Claimed(w)) <= Cardinality(Ticks)
      /\ w \notin raced => /\ sched[w] + Cardinality(Pending(w)) <= 1
                           /\ starts[w] + Cardinality(Claimed(w)) <= 1
  BY DEF Inv, InFlightBound, ClaimBound, AloneBound
<1> QED
  BY <1>3, <1>4, <1>5

(* A tick that leaves off, or goes on to a step outside the start of a run,   *)
(* is no more pending than it was.                                            *)
LEMMA Leaves ==
  ASSUME Inv, Typed', NEW t \in Ticks, runs' = runs,
         \A u \in Ticks \ {t} : pc'[u] = pc[u] /\ list'[u] = list[u],
         pc'[t] \notin {"admit", "claim", "create"}
  PROVE  InFlightBound' /\ ClaimBound' /\ AloneBound'
<1>1. \A w \in Watches : Pending(w)' \subseteq Pending(w) /\ Claimed(w)' \subseteq Claimed(w)
  BY DEF Pending, Claimed
<1>2. raced' = raced /\ \A w \in Watches : sched'[w] <= sched[w] /\ starts'[w] <= starts[w]
  BY DEF runs, Inv, Typed, Runs
<1> QED
  BY <1>1, <1>2, Quiet

(* The look: a Watch without a scheduled run in flight gets its tick.         *)
LEMMA LookBounds ==
  ASSUME Inv, Typed', NEW t \in Ticks, Look(t)
  PROVE  InFlightBound' /\ ClaimBound' /\ AloneBound'
<1> DEFINE row == Head(list[t])
<1>1. /\ sched' = sched /\ other' = other /\ starts' = starts
      /\ pc \in [Ticks -> Steps] /\ list \in [Ticks -> Seq(Row)]
  BY DEF Look, Inv, Typed, TicksOK
<1>2. CASE list[t] = <<>> \/ Full(t)
  <2>1. /\ runs' = runs /\ pc'[t] \notin {"admit", "claim", "create"}
        /\ \A u \in Ticks \ {t} : pc'[u] = pc[u] /\ list'[u] = list[u]
    BY <1>1, <1>2 DEF Look, runs
  <2> QED
    BY <2>1, Leaves
<1> DEFINE raced2 == IF Pending(row.watch) = {} THEN raced ELSE raced \union {row.watch}
<1>3. CASE ~(list[t] = <<>> \/ Full(t)) /\ ~(~Busy(row.watch) /\ Go(t, "admit") /\ raced' = raced2)
  <2>1. (Go(t, "trial") \/ Drop(t)) /\ runs' = runs
    BY <1>1, <1>3 DEF Look, runs
  <2> QED
    BY <1>1, <2>1, Leaves DEF Go, Drop
<1>4. CASE ~Busy(row.watch) /\ Go(t, "admit") /\ raced' = raced2
  <2>1. \A w \in Watches \ {row.watch} : Pending(w)' = Pending(w)
    BY <1>1, <1>4 DEF Go, Pending, Look
  <2>2. \A w \in Watches : Claimed(w)' = Claimed(w)
    BY <1>1, <1>4 DEF Go, Claimed, Look
  <2>3. ClaimBound'
    BY <1>1, <2>2 DEF Inv, ClaimBound
  <2>4. ASSUME NEW w \in Watches PROVE sched'[w] + Cardinality(Pending(w)') <= Cardinality(Ticks)
    <3>1. CASE w # row.watch
      BY <1>1, <2>1, <3>1 DEF Inv, InFlightBound
    <3>2. CASE w = row.watch
      <4>1. sched'[w] = 0
        BY <1>1, <1>4, <3>2 DEF Busy, Inv, Typed, Runs
      <4>2. Pending(w)' \in SUBSET Ticks
        BY DEF Pending
      <4> QED
        BY <4>1, <4>2, Counted
    <3> QED
      BY <3>1, <3>2
  <2>5. ASSUME NEW w \in Watches \ raced'
        PROVE  sched'[w] + Cardinality(Pending(w)') <= 1 /\ starts'[w] + Cardinality(Claimed(w)') <= 1
    <3>1. w \notin raced
      BY <1>4, <2>5
    <3>2. CASE w # row.watch
      BY <1>1, <2>1, <2>2, <3>1, <3>2 DEF Inv, AloneBound
    <3>3. CASE w = row.watch
      <4>1. Pending(w) = {}
        BY <1>4, <2>5, <3>3
      <4>2. sched'[w] = 0
        BY <1>1, <1>4, <3>3 DEF Busy, Inv, Typed, Runs
      <4>3. Pending(w)' \subseteq {t}
        BY <1>1, <1>4, <4>1 DEF Go, Pending
      <4>4. Cardinality(Pending(w)') <= 1 /\ Cardinality(Pending(w)') \in Nat
        BY <4>3, Counted, AtMostOne
      <4> QED
        BY <1>1, <2>2, <3>1, <4>2, <4>4 DEF Inv, AloneBound
    <3> QED
      BY <3>2, <3>3
  <2> QED
    BY <2>3, <2>4, <2>5 DEF InFlightBound, AloneBound
<1> QED
  BY <1>2, <1>3, <1>4

(* The claim counts from nothing.                                             *)
LEMMA ClaimBounds ==
  ASSUME Inv, Typed', NEW t \in Ticks, Claim(t)
  PROVE  InFlightBound' /\ ClaimBound' /\ AloneBound'
<1> DEFINE u == Head(list[t]).watch
<1>1. /\ pc \in [Ticks -> Steps] /\ starts \in [Watches -> Nat]
      /\ list' = list /\ pc' = [pc EXCEPT ![t] = "create"] /\ pc[t] = "claim"
      /\ sched' = sched /\ starts' = [starts EXCEPT ![u] = 0] /\ sched \in [Watches -> Nat]
      /\ raced' = IF Pending(u) = {t} /\ sched[u] = 0 THEN raced \ {u} ELSE raced
  BY DEF Claim, After, Order, Inv, Typed, TicksOK, Runs
<1>2. \A w \in Watches : Pending(w)' = Pending(w)
  BY <1>1 DEF Pending
<1>3. InFlightBound'
  BY <1>1, <1>2 DEF Inv, InFlightBound
<1>4. ASSUME NEW w \in Watches PROVE starts'[w] + Cardinality(Claimed(w)') <= Cardinality(Ticks)
  <2>1. CASE w # u
    <3>1. Claimed(w)' = Claimed(w) /\ starts'[w] = starts[w]
      BY <1>1, <2>1 DEF Claimed
    <3> QED
      BY <3>1 DEF Inv, ClaimBound
  <2>2. CASE w = u
    <3>1. starts'[w] = 0 /\ Claimed(w)' \in SUBSET Ticks
      BY <1>1, <2>2 DEF Claimed
    <3> QED
      BY <3>1, Counted
  <2> QED
    BY <2>1, <2>2
<1>5. ASSUME NEW w \in Watches \ raced'
      PROVE  sched'[w] + Cardinality(Pending(w)') <= 1 /\ starts'[w] + Cardinality(Claimed(w)') <= 1
  <2>1. CASE w # u
    <3>1. w \notin raced
      BY <1>1, <1>5, <2>1
    <3>2. Claimed(w)' = Claimed(w) /\ starts'[w] = starts[w]
      BY <1>1, <2>1 DEF Claimed
    <3> QED
      BY <1>1, <1>2, <3>1, <3>2 DEF Inv, AloneBound
  <2>2. CASE w = u
    <3>1. sched[w] + Cardinality(Pending(w)) <= 1
      <4>1. CASE w \notin raced
        BY <4>1 DEF Inv, AloneBound
      <4>2. CASE Pending(w) = {t} /\ sched[w] = 0
        BY <4>2, AtMostOne
      <4> QED
        BY <1>1, <1>5, <2>2, <4>1, <4>2
    <3>2. /\ Pending(w) \in SUBSET Ticks /\ Claimed(w)' \in SUBSET Pending(w)
          /\ sched[w] \in Nat /\ starts'[w] = 0
      BY <1>1, <1>2, <2>2 DEF Pending, Claimed
    <3>3. /\ Cardinality(Claimed(w)') <= Cardinality(Pending(w))
          /\ Cardinality(Claimed(w)') \in Nat /\ Cardinality(Pending(w)) \in Nat
      <4>1. Claimed(w)' \in SUBSET Ticks
        BY <3>2
      <4> QED
        BY <3>2, <4>1, Counted
    <3> QED
      BY <1>1, <1>2, <3>1, <3>2, <3>3
  <2> QED
    BY <2>1, <2>2
<1> QED
  BY <1>3, <1>4, <1>5 DEF ClaimBound, AloneBound

(* A run is created by a tick that stops being about to create it.            *)
LEMMA CreateBounds ==
  ASSUME Inv, Typed', NEW t \in Ticks, CreateRun(t)
  PROVE  InFlightBound' /\ ClaimBound' /\ AloneBound'
<1> DEFINE u == Head(list[t]).watch
<1>1. /\ pc \in [Ticks -> Steps] /\ starts \in [Watches -> Nat] /\ sched \in [Watches -> Nat]
      /\ list' = list /\ pc' = [pc EXCEPT ![t] = "hand"] /\ pc[t] = "create"
      /\ sched' = [sched EXCEPT ![u] = @ + 1] /\ starts' = [starts EXCEPT ![u] = @ + 1]
      /\ raced' = raced
  BY DEF CreateRun, After, Order, Inv, Typed, TicksOK, Runs
<1> SUFFICES ASSUME NEW w \in Watches
             PROVE  /\ sched'[w] + Cardinality(Pending(w)') <= Cardinality(Ticks)
                    /\ starts'[w] + Cardinality(Claimed(w)') <= Cardinality(Ticks)
                    /\ w \notin raced => /\ sched'[w] + Cardinality(Pending(w)') <= 1
                                         /\ starts'[w] + Cardinality(Claimed(w)') <= 1
  BY <1>1 DEF InFlightBound, ClaimBound, AloneBound
<1>2. /\ sched[w] + Cardinality(Pending(w)) <= Cardinality(Ticks)
      /\ starts[w] + Cardinality(Claimed(w)) <= Cardinality(Ticks)
      /\ w \notin raced => /\ sched[w] + Cardinality(Pending(w)) <= 1
                           /\ starts[w] + Cardinality(Claimed(w)) <= 1
  BY DEF Inv, InFlightBound, ClaimBound, AloneBound
<1>3. CASE w # u
  <2>1. /\ Pending(w)' = Pending(w) /\ sched'[w] = sched[w]
        /\ Claimed(w)' = Claimed(w) /\ starts'[w] = starts[w]
    BY <1>1, <1>3 DEF Pending, Claimed
  <2> QED
    BY <1>2, <2>1
<1>4. CASE w = u
  <2>1. /\ Pending(w) \in SUBSET Ticks /\ t \in Pending(w) /\ Pending(w)' = Pending(w) \ {t}
        /\ Claimed(w) \in SUBSET Ticks /\ t \in Claimed(w) /\ Claimed(w)' = Claimed(w) \ {t}
    BY <1>1, <1>4 DEF Pending, Claimed
  <2>2. sched'[w] = sched[w] + 1 /\ starts'[w] = starts[w] + 1
    BY <1>1, <1>4
  <2>3. /\ Cardinality(Pending(w)') = Cardinality(Pending(w)) - 1
        /\ Cardinality(Claimed(w)') = Cardinality(Claimed(w)) - 1
        /\ Cardinality(Pending(w)) \in Nat /\ Cardinality(Claimed(w)) \in Nat
        /\ Cardinality(Ticks) \in Nat
    BY <2>1, Counted
  <2>4. sched[w] \in Nat /\ starts[w] \in Nat
    BY <1>1
  <2> QED
    BY <1>2, <2>2, <2>3, <2>4
<1> QED
  BY <1>3, <1>4

(* Every step keeps the bounds.                                               *)
LEMMA StepBounds == Inv /\ [Next]_vars => Inv'
<1> SUFFICES ASSUME Inv, [Next]_vars PROVE Inv'
  OBVIOUS
<1>1. Typed'
  BY TypedStep DEF Inv
<1>2. /\ pc \in [Ticks -> Steps] /\ sched \in [Watches -> Nat] /\ starts \in [Watches -> Nat]
      /\ list \in [Ticks -> Seq(Row)]
  BY DEF Inv, Typed, TicksOK, Runs
<1>3. ASSUME NEW t \in Ticks, Step(t) \/ Throws(t) \/ Dies(t) PROVE InFlightBound' /\ ClaimBound' /\ AloneBound'
  <2>1. CASE Open(t) \/ HandOff(t) \/ Throws(t) \/ Dies(t)
    <3>1. /\ runs' = runs /\ pc'[t] \notin {"admit", "claim", "create"}
          /\ \A u \in Ticks \ {t} : pc'[u] = pc[u] /\ list'[u] = list[u]
      BY <1>2, <2>1 DEF Open, HandOff, Throws, Dies, Drop, After, Order
    <3> QED
      BY <1>1, <3>1, Leaves
  <2>2. CASE PauseTrial(t) \/ MailTrial(t) \/ StampTrial(t)
    <3>1. Drop(t) \/ Go(t, "trialMail") \/ Go(t, "trialStamp")
      BY <2>2 DEF PauseTrial, MailTrial, StampTrial
    <3>2. runs' = runs
      BY <2>2 DEF PauseTrial, MailTrial, StampTrial
    <3> QED
      BY <1>1, <1>2, <3>1, <3>2, Leaves DEF Go, Drop
  <2>3. CASE PauseDry(t) \/ ReadStamp(t) \/ MailDry(t) \/ StampDry(t)
    <3>1. Drop(t) \/ Go(t, "dryRead") \/ Go(t, "dryMail") \/ Go(t, "dryStamp")
      BY <2>3 DEF PauseDry, ReadStamp, MailDry, StampDry
    <3>2. runs' = runs
      BY <2>3 DEF PauseDry, ReadStamp, MailDry, StampDry
    <3> QED
      BY <1>1, <1>2, <3>1, <3>2, Leaves DEF Go, Drop
  <2>4. CASE Admit(t)
    <3>1. CASE Go(t, "dry")
      <4>1. /\ runs' = runs /\ pc'[t] = "dry"
            /\ \A u \in Ticks \ {t} : pc'[u] = pc[u] /\ list'[u] = list[u]
        BY <1>2, <2>4, <3>1 DEF Admit, Go
      <4> QED
        BY <1>1, <4>1, Leaves
    <3>2. CASE After(t, "admit")
      <4>1. /\ pc' = [pc EXCEPT ![t] = "claim"] /\ pc[t] = "admit" /\ list' = list
            /\ sched' = sched /\ starts' = starts /\ raced' = raced
        BY <1>2, <2>4, <3>2 DEF Admit, After, Order, runs
      <4>2. \A w \in Watches : Pending(w)' = Pending(w) /\ Claimed(w)' = Claimed(w)
        BY <1>2, <4>1 DEF Pending, Claimed
      <4> QED
        BY <4>1, <4>2 DEF Inv, InFlightBound, ClaimBound, AloneBound
    <3> QED
      BY <2>4, <3>1, <3>2 DEF Admit
  <2> QED
    BY <1>1, <1>3, <2>1, <2>2, <2>3, <2>4, LookBounds, ClaimBounds, CreateBounds DEF Step
<1>4. CASE UNCHANGED <<tick, starts, raced>> /\ \A w \in Watches : sched'[w] <= sched[w]
  <2>1. \A w \in Watches : Pending(w)' = Pending(w) /\ Claimed(w)' = Claimed(w)
    BY <1>4 DEF tick, Pending, Claimed
  <2> QED
    BY <1>1, <1>2, <1>4, <2>1, Quiet DEF Inv
<1>5. (Hour \/ World \/ UNCHANGED vars) => UNCHANGED <<tick, starts, raced>> /\ sched' = sched
  <2>1. (Hour \/ UNCHANGED vars) => UNCHANGED <<tick, starts, raced>> /\ sched' = sched
    BY DEF Hour, vars, runs
  <2>2. World => UNCHANGED <<tick, starts, raced>> /\ sched' = sched
    BY DEF World, PlanChanges, BalanceChanges, RecipientsChange, NewMonth, Configure, Switch,
           MakeManual, TrialEnds, RecheckRun, runs
  <2> QED
    BY <2>1, <2>2
<1>6. ASSUME NEW w \in Watches, RunEnds(w)
      PROVE  UNCHANGED <<tick, starts, raced>> /\ \A v \in Watches : sched'[v] <= sched[v]
  <2>1. UNCHANGED <<tick, starts, raced>>
    BY <1>6 DEF RunEnds
  <2>2. sched' = sched \/ sched' = [sched EXCEPT ![w] = @ - 1]
    BY <1>6 DEF RunEnds
  <2>3. \A v \in Watches : sched'[v] <= sched[v]
    <3>1. TAKE v \in Watches
    <3>2. sched[v] \in Nat /\ sched[v] - 1 <= sched[v] /\ sched[v] <= sched[v]
      BY <1>2
    <3>3. sched'[v] = sched[v] \/ sched'[v] = sched[v] - 1
      BY <1>2, <2>2
    <3> QED
      BY <3>2, <3>3
  <2> QED
    BY <2>1, <2>3
<1> QED
  <2>1. \A v \in Watches : sched[v] <= sched[v]
    BY <1>2
  <2>2. CASE Hour \/ World \/ UNCHANGED vars
    BY <1>1, <1>4, <1>5, <2>1, <2>2 DEF Inv
  <2>3. CASE \E w \in Watches : RunEnds(w)
    BY <1>1, <1>4, <1>6, <2>3 DEF Inv
  <2>4. CASE \E t \in Ticks : Step(t) \/ Throws(t) \/ Dies(t)
    BY <1>1, <1>3, <2>4 DEF Inv
  <2> QED
    BY <2>2, <2>3, <2>4 DEF Next

(* The bounds hold of every behaviour.                                        *)
LEMMA BoundsInductive == Spec => []Inv
<1>1. Init => Inv
  <2> SUFFICES ASSUME Init PROVE Inv
    OBVIOUS
  <2>1. ASSUME NEW w \in Watches
        PROVE  sched[w] = 0 /\ starts[w] = 0 /\ Pending(w) = {} /\ Claimed(w) = {}
    BY DEF Init, Pending, Claimed
  <2>2. InFlightBound /\ ClaimBound /\ AloneBound
    BY <2>1, Counted, FS_EmptySet DEF InFlightBound, ClaimBound, AloneBound
  <2> QED
    BY <2>2, TypedInit DEF Inv
<1> QED
  BY <1>1, StepBounds, PTL DEF Spec

(* The bounds say what is in flight and what a claim was good for.            *)
LEMMA BoundsMean == Inv => OneStartPerTick
<1> SUFFICES ASSUME Inv, NEW w \in Watches
             PROVE  sched[w] <= Cardinality(Ticks) /\ starts[w] <= Cardinality(Ticks)
  BY DEF OneStartPerTick
<1>1. /\ Cardinality(Pending(w)) \in Nat /\ Cardinality(Claimed(w)) \in Nat
      /\ Cardinality(Ticks) \in Nat
  <2>1. Pending(w) \in SUBSET Ticks /\ Claimed(w) \in SUBSET Ticks
    BY DEF Pending, Claimed
  <2> QED
    BY <2>1, Counted
<1>2. sched[w] \in Nat /\ starts[w] \in Nat
  BY DEF Inv, Typed, Runs
<1>3. /\ sched[w] + Cardinality(Pending(w)) <= Cardinality(Ticks)
      /\ starts[w] + Cardinality(Claimed(w)) <= Cardinality(Ticks)
  BY DEF Inv, InFlightBound, ClaimBound
<1> QED
  BY <1>1, <1>2, <1>3

(* However many ticks overlap, each of them starts a Watch at most once: no   *)
(* more scheduled runs of it are in flight, and no more follow one claim,     *)
(* than there are ticks at one time (agent/scheduler.ts, the tick's loop).    *)
THEOREM StartedOncePerTick == Spec => []OneStartPerTick
BY BoundsInductive, BoundsMean, PTL

(* What holds of a Watch that ticks did not race for.                         *)
LEMMA AloneMeans == Inv => OneScheduledRun /\ OneStartPerClaim
<1> SUFFICES ASSUME Inv, NEW w \in Watches \ raced PROVE sched[w] <= 1 /\ starts[w] <= 1
  BY DEF OneScheduledRun, OneStartPerClaim
<1>1. Cardinality(Pending(w)) \in Nat /\ Cardinality(Claimed(w)) \in Nat
  <2>1. Pending(w) \in SUBSET Ticks /\ Claimed(w) \in SUBSET Ticks
    BY DEF Pending, Claimed
  <2> QED
    BY <2>1, Counted
<1>2. sched[w] \in Nat /\ starts[w] \in Nat
  BY DEF Inv, Typed, Runs
<1>3. sched[w] + Cardinality(Pending(w)) <= 1 /\ starts[w] + Cardinality(Claimed(w)) <= 1
  BY DEF Inv, AloneBound
<1> QED
  BY <1>1, <1>2, <1>3

(* However many ticks overlap, a Watch has one scheduled run in flight unless *)
(* two of them found it free before either had created a run: a tick that     *)
(* comes after the run is created finds it (agent/scheduler.ts:165-172).      *)
THEOREM ScheduledOnce == Spec => []OneScheduledRun
BY BoundsInductive, AloneMeans, PTL

(* ... and, with the same exception, a claim is followed by one run at most,  *)
(* wherever a tick stops (agent/scheduler.ts:197-205).                        *)
THEOREM StartedOncePerClaim == Spec => []OneStartPerClaim
BY BoundsInductive, AloneMeans, PTL
=============================================================================
