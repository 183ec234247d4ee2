--------------------------- MODULE CheckRun_proofs --------------------------
(* Type correctness of CheckRun, and the safety of a run's ends, for any     *)
(* number of re-runs, failing steps and outages.                             *)
EXTENDS CheckRun, TLAPS

(* Before a door's request is through, no sweep looks at its run; before the *)
(* hand-off there is no instance, and the row waits.                         *)
HandOff ==
  /\ door = "insert" => status = "none"
  /\ door \in {"insert", "bind", "trigger"} => pc = "none"
  /\ door # "done" => age = 0
  /\ sweep # "idle" => age # 0
  /\ status = "none" => door = "insert"
  /\ door \in {"bind", "trigger"} => status = "queued"

(* The steps after the verdict find a finished run, and only they tell it.   *)
Told ==
  /\ pc \in Tail \union {"priceFinished"} => status \in Finished
  /\ told => /\ status \in Finished
             /\ pc \in {"notify", "answer", "cleanup", "fail", "priceFinished"} \union Over

(* Which journeys are listed is decided by the walk.                         *)
Listed ==
  /\ carries /\ status \in Finished => landed
  /\ pc \in {"none", "load", "early", "replay", "connecting", "surface_scan", "door", "discovery"}
       => ~carries

(* After the last clearing step a one-off run's passwords are gone.          *)
Secrets ==
  pc \in {"priceFinished", "voidFailed", "answerFailed", "returned"} /\ ~watched => ~creds

(* While the platform answers, the price of the work is only ever on a       *)
(* finished run that is past its verdict.                                    *)
Charged ==
  outages = 0 /\ price = "cost" =>
    /\ status \in Finished
    /\ pc \in Tail \union {"fail", "priceFinished"} \union Over

(* A sweep that can ask about instances ends a run nobody works on.          *)
Alone ==
  outages = 0 =>
    /\ sweep \in {"end", "price", "void", "after"} => pc \in {"none"} \union Over
    /\ sweep \in {"price", "void", "after"} => status = "failed"

(* Until a step runs again, an ended run is past every step that would write *)
(* another status.                                                           *)
Final ==
  reruns = 0 /\ outages = 0 =>
    /\ pc = "none" /\ sweep \in {"create", "get", "end"} => status = "queued"
    /\ status \in Terminal => pc \in {"none"} \union Tail \union Handler \union Over

(* A run that came to its end has its price, unless a second step failed;    *)
(* the handler is there because a first one did.                             *)
Settled ==
  /\ pc \in Handler \union {"lost"} => throws > 0
  /\ pc \in {"none", "load"} => status \notin Finished
  /\ pc \in {"voidFailed", "answerFailed"} => status = "failed"
  /\ pc \in {"notify", "answer", "cleanup"} => price # "null"
  /\ pc \in Over /\ status \in Finished /\ throws <= 1 => pc # "lost" /\ price # "null"

(* While GitHub and the platform answer, the commit of a run no step of      *)
(* which failed has the verdict before the last step, and that of a run the handler or    *)
(* the sweep ended has the neutral answer when they are through.             *)
Replied ==
  missed = 0 /\ outages = 0 /\ bound =>
    /\ throws = 0 /\ pc \in {"cleanup", "returned"} => status \in Finished /\ answered = "verdict"
    /\ pc = "returned" /\ status = "failed" /\ sweep \notin {"price", "void", "after"}
         => answered = "neutral"

Inv == TypeOK /\ HandOff /\ Told /\ Listed /\ Secrets
CInv == Inv /\ Alone /\ Charged /\ Final /\ Settled /\ Replied
-----------------------------------------------------------------------------
USE DEF kind, list, row, commit, faults,
        Phases, Finished, Terminal, Tail, Handler, Steps, Over

(* The inductive invariant holds at the start.                               *)
LEMMA InitInv == Init => CInv
<1> SUFFICES ASSUME Init PROVE CInv
  OBVIOUS
<1>1. TypeOK
  <2>1. reruns \in 0..MaxReruns /\ throws \in 0..MaxThrows /\ outages \in 0..MaxOutages /\ missed \in 0..MaxMissed /\ age \in 0..2
    BY CheckRunAssumption DEF CheckRunAssumption, Init
  <2>2. status \in {"none", "queued"} \union Phases \union Terminal
    BY DEF Init
  <2>3. pc \in {"none"} \union Steps \union Over
    BY DEF Init
  <2> QED
    BY <2>1, <2>2, <2>3, Zenon DEF Init, TypeOK
<1>2. HandOff /\ Told /\ Listed /\ Secrets
  BY DEF Init, HandOff, Told, Listed, Secrets
<1>3. Alone /\ Charged /\ Final
  BY DEF Init, Alone, Charged, Final
<1>4. Settled /\ Replied
  BY DEF Init, Settled, Replied
<1> QED
  BY <1>1, <1>2, <1>3, <1>4 DEF CInv, Inv

(* Every step keeps the types.                                               *)
LEMMA TypeStep == TypeOK /\ [Next]_vars => TypeOK'
<1> SUFFICES ASSUME TypeOK, [Next]_vars PROVE TypeOK'
  OBVIOUS
<1> USE CheckRunAssumption DEF TypeOK, CheckRunAssumption
<1>1. CASE Door
  <2>1. CASE Insert
    BY <2>1 DEF Insert
  <2>2. CASE Bind
    BY <2>2 DEF Bind
  <2>3. CASE Trigger
    BY <2>3 DEF Trigger
  <2>4. CASE OpenCheck
    BY <2>4 DEF OpenCheck
  <2>5. CASE RecordCheck
    BY <2>5 DEF RecordCheck
  <2> QED
    BY <1>1, <2>1, <2>2, <2>3, <2>4, <2>5 DEF Door
<1>2. CASE Load
  BY <1>2 DEF Load, Outcome, Goes, Again, Fails, Spends
<1>3. CASE ChooseMode
  BY <1>3 DEF ChooseMode, Outcome, Goes, Again, Fails, Spends
<1>4. CASE ReplayComplete
  BY <1>4 DEF ReplayComplete, Outcome, Goes, Again, Fails, Spends
<1>5. CASE Phase
  BY <1>5 DEF Phase, Outcome, Goes, Again, Fails, Spends, After
<1>6. CASE ClosedDoor
  BY <1>6 DEF ClosedDoor, Outcome, Goes, Again, Fails, Spends
<1>7. CASE Publish
  BY <1>7 DEF Publish, Goes, Again, Fails, Spends, Published
<1>8. CASE ListKnown
  BY <1>8 DEF ListKnown, Outcome, Goes, Again, Fails, Spends
<1>9. CASE Price
  BY <1>9 DEF Price, Outcome, Goes, Again, Fails, Spends, Priced
<1>10. CASE Notify
  BY <1>10 DEF Notify, Outcome, Goes, Again, Fails, Spends
<1>11. CASE Answer
  BY <1>11 DEF Answer, Goes, Again, AnswerGitHub, Shown, Conclusion
<1>12. CASE Cleanup
  BY <1>12 DEF Cleanup, Outcome, Goes, Again, Fails, Spends, Cleared
<1>13. CASE Fail
  BY <1>13 DEF Fail, Cleared, AfterVerdict
<1>14. CASE PriceFinished
  BY <1>14 DEF PriceFinished, Goes, Again, Priced, Repriced
<1>15. CASE VoidFailed
  BY <1>15 DEF VoidFailed, Goes, Again
<1>16. CASE AnswerFailed
  BY <1>16 DEF AnswerFailed, Goes, Again, AnswerGitHub, Shown, Conclusion
<1>17. CASE Throw
  BY <1>17 DEF Throw, Fails, Spends
<1>18. CASE Tick
  BY <1>18 DEF Tick
<1>19. CASE Sweep
  BY <1>19 DEF Sweep, SweepFind, SweepCreate, SweepGet, OverFor, SweepEnd, Cleared, SweepPrice, Priced, SweepVoid, SweepAfter, AnswerGitHub, Shown, Conclusion
<1>20. CASE UNCHANGED vars
  BY <1>20 DEF vars
<1> QED
  BY <1>1, <1>2, <1>3, <1>4, <1>5, <1>6, <1>7, <1>8, <1>9, <1>10, <1>11, <1>12, <1>13, <1>14, <1>15, <1>16, <1>17, <1>18, <1>19, <1>20 DEF Next, Instance

(* Every step keeps the hand-off in order.                                   *)
LEMMA HandOffStep == TypeOK /\ HandOff /\ [Next]_vars => HandOff'
<1> SUFFICES ASSUME TypeOK /\ HandOff, [Next]_vars PROVE HandOff'
  OBVIOUS
<1> USE DEF TypeOK, HandOff
<1>1. CASE Door
  BY <1>1 DEF Door, Insert, Bind, Trigger, OpenCheck, RecordCheck
<1>2. CASE Load \/ ChooseMode \/ ReplayComplete
  BY <1>2 DEF Load, Outcome, Goes, Again, Fails, Spends, ChooseMode, ReplayComplete
<1>3. CASE Phase
  BY <1>3 DEF Phase, Outcome, Goes, Again, Fails, Spends, After
<1>4. CASE ClosedDoor \/ Publish \/ ListKnown
  BY <1>4 DEF ClosedDoor, Outcome, Goes, Again, Fails, Spends, Publish, Published, ListKnown
<1>5. CASE Price \/ Notify \/ Answer \/ Cleanup
  BY <1>5 DEF Price, Outcome, Goes, Again, Fails, Spends, Priced, Notify, Answer, AnswerGitHub, Shown, Conclusion, Cleanup, Cleared
<1>6. CASE Fail \/ PriceFinished \/ VoidFailed \/ AnswerFailed
  BY <1>6 DEF Fail, Cleared, AfterVerdict, PriceFinished, Goes, Again, Priced, Repriced, VoidFailed, AnswerFailed, AnswerGitHub, Shown, Conclusion
<1>7. CASE Throw
  BY <1>7 DEF Throw, Fails, Spends
<1>8. CASE Tick
  BY <1>8 DEF Tick
<1>9. CASE Sweep
  BY <1>9 DEF Sweep, SweepFind, SweepCreate, SweepGet, OverFor, SweepEnd, Cleared, SweepPrice, Priced, SweepVoid, SweepAfter, AnswerGitHub, Shown, Conclusion
<1>10. CASE UNCHANGED vars
  BY <1>10 DEF vars
<1> QED
  BY <1>1, <1>2, <1>3, <1>4, <1>5, <1>6, <1>7, <1>8, <1>9, <1>10 DEF Next, Instance

(* Every step keeps what was told true.                                      *)
LEMMA ToldStep == TypeOK /\ HandOff /\ Told /\ [Next]_vars => Told'
<1> SUFFICES ASSUME TypeOK /\ HandOff /\ Told, [Next]_vars PROVE Told'
  OBVIOUS
<1> USE DEF TypeOK, HandOff, Told
<1>1. CASE Door
  BY <1>1 DEF Door, Insert, Bind, Trigger, OpenCheck, RecordCheck
<1>2. CASE Load \/ ChooseMode \/ ReplayComplete
  BY <1>2 DEF Load, Outcome, Goes, Again, Fails, Spends, ChooseMode, ReplayComplete
<1>3. CASE Phase
  BY <1>3 DEF Phase, Outcome, Goes, Again, Fails, Spends, After
<1>4. CASE ClosedDoor \/ Publish \/ ListKnown
  BY <1>4 DEF ClosedDoor, Outcome, Goes, Again, Fails, Spends, Publish, Published, ListKnown
<1>5. CASE Price \/ Notify \/ Answer \/ Cleanup
  BY <1>5 DEF Price, Outcome, Goes, Again, Fails, Spends, Priced, Notify, Answer, AnswerGitHub, Shown, Conclusion, Cleanup, Cleared
<1>6. CASE Fail \/ PriceFinished \/ VoidFailed \/ AnswerFailed
  BY <1>6 DEF Fail, Cleared, AfterVerdict, PriceFinished, Goes, Again, Priced, Repriced, VoidFailed, AnswerFailed, AnswerGitHub, Shown, Conclusion
<1>7. CASE Throw
  BY <1>7 DEF Throw, Fails, Spends
<1>8. CASE Tick
  BY <1>8 DEF Tick
<1>9. CASE Sweep
  BY <1>9 DEF Sweep, SweepFind, SweepCreate, SweepGet, OverFor, SweepEnd, Cleared, SweepPrice, Priced, SweepVoid, SweepAfter, AnswerGitHub, Shown, Conclusion
<1>10. CASE UNCHANGED vars
  BY <1>10 DEF vars
<1> QED
  BY <1>1, <1>2, <1>3, <1>4, <1>5, <1>6, <1>7, <1>8, <1>9, <1>10 DEF Next, Instance

(* Every step keeps the list of a finished run whole.                        *)
LEMMA ListedStep == TypeOK /\ HandOff /\ Listed /\ [Next]_vars => Listed'
<1> SUFFICES ASSUME TypeOK /\ HandOff /\ Listed, [Next]_vars PROVE Listed'
  OBVIOUS
<1> USE DEF TypeOK, HandOff, Listed
<1>1. CASE Door
  BY <1>1 DEF Door, Insert, Bind, Trigger, OpenCheck, RecordCheck
<1>2. CASE Load \/ ChooseMode \/ ReplayComplete
  BY <1>2 DEF Load, Outcome, Goes, Again, Fails, Spends, ChooseMode, ReplayComplete
<1>3. CASE Phase
  BY <1>3 DEF Phase, Outcome, Goes, Again, Fails, Spends, After
<1>4. CASE ClosedDoor \/ Publish \/ ListKnown
  BY <1>4 DEF ClosedDoor, Outcome, Goes, Again, Fails, Spends, Publish, Published, ListKnown
<1>5. CASE Price \/ Notify \/ Answer \/ Cleanup
  BY <1>5 DEF Price, Outcome, Goes, Again, Fails, Spends, Priced, Notify, Answer, AnswerGitHub, Shown, Conclusion, Cleanup, Cleared
<1>6. CASE Fail \/ PriceFinished \/ VoidFailed \/ AnswerFailed
  BY <1>6 DEF Fail, Cleared, AfterVerdict, PriceFinished, Goes, Again, Priced, Repriced, VoidFailed, AnswerFailed, AnswerGitHub, Shown, Conclusion
<1>7. CASE Throw
  BY <1>7 DEF Throw, Fails, Spends
<1>8. CASE Tick
  BY <1>8 DEF Tick
<1>9. CASE Sweep
  BY <1>9 DEF Sweep, SweepFind, SweepCreate, SweepGet, OverFor, SweepEnd, Cleared, SweepPrice, Priced, SweepVoid, SweepAfter, AnswerGitHub, Shown, Conclusion
<1>10. CASE UNCHANGED vars
  BY <1>10 DEF vars
<1> QED
  BY <1>1, <1>2, <1>3, <1>4, <1>5, <1>6, <1>7, <1>8, <1>9, <1>10 DEF Next, Instance

(* Every step keeps a cleared password cleared.                              *)
LEMMA SecretsStep == TypeOK /\ HandOff /\ Secrets /\ [Next]_vars => Secrets'
<1> SUFFICES ASSUME TypeOK /\ HandOff /\ Secrets, [Next]_vars PROVE Secrets'
  OBVIOUS
<1> USE DEF TypeOK, HandOff, Secrets
<1>1. CASE Door
  BY <1>1 DEF Door, Insert, Bind, Trigger, OpenCheck, RecordCheck
<1>2. CASE Load \/ ChooseMode \/ ReplayComplete
  BY <1>2 DEF Load, Outcome, Goes, Again, Fails, Spends, ChooseMode, ReplayComplete
<1>3. CASE Phase
  BY <1>3 DEF Phase, Outcome, Goes, Again, Fails, Spends, After
<1>4. CASE ClosedDoor \/ Publish \/ ListKnown
  BY <1>4 DEF ClosedDoor, Outcome, Goes, Again, Fails, Spends, Publish, Published, ListKnown
<1>5. CASE Price \/ Notify \/ Answer \/ Cleanup
  BY <1>5 DEF Price, Outcome, Goes, Again, Fails, Spends, Priced, Notify, Answer, AnswerGitHub, Shown, Conclusion, Cleanup, Cleared
<1>6. CASE Fail \/ PriceFinished \/ VoidFailed \/ AnswerFailed
  BY <1>6 DEF Fail, Cleared, AfterVerdict, PriceFinished, Goes, Again, Priced, Repriced, VoidFailed, AnswerFailed, AnswerGitHub, Shown, Conclusion
<1>7. CASE Throw
  BY <1>7 DEF Throw, Fails, Spends
<1>8. CASE Tick
  BY <1>8 DEF Tick
<1>9. CASE Sweep
  BY <1>9 DEF Sweep, SweepFind, SweepCreate, SweepGet, OverFor, SweepEnd, Cleared, SweepPrice, Priced, SweepVoid, SweepAfter, AnswerGitHub, Shown, Conclusion
<1>10. CASE UNCHANGED vars
  BY <1>10 DEF vars
<1> QED
  BY <1>1, <1>2, <1>3, <1>4, <1>5, <1>6, <1>7, <1>8, <1>9, <1>10 DEF Next, Instance

(* While the platform answers, the sweep ends only what nobody works on.     *)
LEMMA AloneStep == TypeOK /\ HandOff /\ Alone /\ [Next]_vars => Alone'
<1> SUFFICES ASSUME TypeOK /\ HandOff /\ Alone, [Next]_vars PROVE Alone'
  OBVIOUS
<1> USE DEF TypeOK, HandOff, Alone
<1>1. CASE Door
  BY <1>1 DEF Door, Insert, Bind, Trigger, OpenCheck, RecordCheck
<1>2. CASE Load \/ ChooseMode \/ ReplayComplete
  BY <1>2 DEF Load, Outcome, Goes, Again, Fails, Spends, ChooseMode, ReplayComplete
<1>3. CASE Phase
  BY <1>3 DEF Phase, Outcome, Goes, Again, Fails, Spends, After
<1>4. CASE ClosedDoor \/ Publish \/ ListKnown
  BY <1>4 DEF ClosedDoor, Outcome, Goes, Again, Fails, Spends, Publish, Published, ListKnown
<1>5. CASE Price \/ Notify \/ Answer \/ Cleanup
  BY <1>5 DEF Price, Outcome, Goes, Again, Fails, Spends, Priced, Notify, Answer, AnswerGitHub, Shown, Conclusion, Cleanup, Cleared
<1>6. CASE Fail \/ PriceFinished \/ VoidFailed \/ AnswerFailed
  BY <1>6 DEF Fail, Cleared, AfterVerdict, PriceFinished, Goes, Again, Priced, Repriced, VoidFailed, AnswerFailed, AnswerGitHub, Shown, Conclusion
<1>7. CASE Throw
  BY <1>7 DEF Throw, Fails, Spends
<1>8. CASE Tick
  BY <1>8 DEF Tick
<1>9. CASE Sweep
  BY <1>9 DEF Sweep, SweepFind, SweepCreate, SweepGet, OverFor, SweepEnd, Cleared, SweepPrice, Priced, SweepVoid, SweepAfter, AnswerGitHub, Shown, Conclusion
<1>10. CASE UNCHANGED vars
  BY <1>10 DEF vars
<1> QED
  BY <1>1, <1>2, <1>3, <1>4, <1>5, <1>6, <1>7, <1>8, <1>9, <1>10 DEF Next, Instance

(* While the platform answers, the price of the work stays with the verdict. *)
LEMMA ChargedStep == TypeOK /\ HandOff /\ Told /\ Alone /\ Charged /\ [Next]_vars => Charged'
<1> SUFFICES ASSUME TypeOK /\ HandOff /\ Told /\ Alone /\ Charged, [Next]_vars PROVE Charged'
  OBVIOUS
<1> USE DEF TypeOK, HandOff, Told, Alone, Charged
<1>1. CASE Door
  BY <1>1 DEF Door, Insert, Bind, Trigger, OpenCheck, RecordCheck
<1>2. CASE Load \/ ChooseMode \/ ReplayComplete
  BY <1>2 DEF Load, Outcome, Goes, Again, Fails, Spends, ChooseMode, ReplayComplete
<1>3. CASE Phase
  BY <1>3 DEF Phase, Outcome, Goes, Again, Fails, Spends, After
<1>4. CASE ClosedDoor \/ Publish \/ ListKnown
  BY <1>4 DEF ClosedDoor, Outcome, Goes, Again, Fails, Spends, Publish, Published, ListKnown
<1>5. CASE Price \/ Notify \/ Answer \/ Cleanup
  BY <1>5 DEF Price, Outcome, Goes, Again, Fails, Spends, Priced, Notify, Answer, AnswerGitHub, Shown, Conclusion, Cleanup, Cleared
<1>6. CASE Fail \/ PriceFinished \/ VoidFailed \/ AnswerFailed
  BY <1>6 DEF Fail, Cleared, AfterVerdict, PriceFinished, Goes, Again, Priced, Repriced, VoidFailed, AnswerFailed, AnswerGitHub, Shown, Conclusion
<1>7. CASE Throw
  BY <1>7 DEF Throw, Fails, Spends
<1>8. CASE Tick
  BY <1>8 DEF Tick
<1>9. CASE Sweep
  BY <1>9 DEF Sweep, SweepFind, SweepCreate, SweepGet, OverFor, SweepEnd, Cleared, SweepPrice, Priced, SweepVoid, SweepAfter, AnswerGitHub, Shown, Conclusion
<1>10. CASE UNCHANGED vars
  BY <1>10 DEF vars
<1> QED
  BY <1>1, <1>2, <1>3, <1>4, <1>5, <1>6, <1>7, <1>8, <1>9, <1>10 DEF Next, Instance

(* Until a step runs again, an ended run stays past the steps that write.    *)
LEMMA FinalStep == TypeOK /\ HandOff /\ Told /\ Alone /\ Final /\ [Next]_vars => Final'
<1> SUFFICES ASSUME TypeOK /\ HandOff /\ Told /\ Alone /\ Final, [Next]_vars PROVE Final'
  OBVIOUS
<1> USE CheckRunAssumption DEF TypeOK, HandOff, Told, Alone, Final, CheckRunAssumption
<1>1. CASE Door
  <2>1. CASE Insert
    BY <2>1 DEF Insert
  <2>2. CASE Bind
    BY <2>2 DEF Bind
  <2>3. CASE Trigger
    BY <2>3 DEF Trigger
  <2>4. CASE OpenCheck
    BY <2>4 DEF OpenCheck
  <2>5. CASE RecordCheck
    BY <2>5 DEF RecordCheck
  <2> QED
    BY <1>1, <2>1, <2>2, <2>3, <2>4, <2>5 DEF Door
<1>2. CASE Load
  BY <1>2 DEF Load, Outcome, Goes, Again, Fails, Spends
<1>3. CASE ChooseMode
  BY <1>3 DEF ChooseMode, Outcome, Goes, Again, Fails, Spends
<1>4. CASE ReplayComplete
  BY <1>4 DEF ReplayComplete, Outcome, Goes, Again, Fails, Spends
<1>5. CASE Phase
  BY <1>5 DEF Phase, Outcome, Goes, Again, Fails, Spends, After
<1>6. CASE ClosedDoor
  BY <1>6 DEF ClosedDoor, Outcome, Goes, Again, Fails, Spends
<1>7. CASE Publish
  BY <1>7 DEF Publish, Goes, Again, Fails, Spends, Published
<1>8. CASE ListKnown
  BY <1>8 DEF ListKnown, Outcome, Goes, Again, Fails, Spends
<1>9. CASE Price
  BY <1>9 DEF Price, Outcome, Goes, Again, Fails, Spends, Priced
<1>10. CASE Notify
  BY <1>10 DEF Notify, Outcome, Goes, Again, Fails, Spends
<1>11. CASE Answer
  BY <1>11 DEF Answer, Goes, Again, AnswerGitHub, Shown, Conclusion
<1>12. CASE Cleanup
  BY <1>12 DEF Cleanup, Outcome, Goes, Again, Fails, Spends, Cleared
<1>13. CASE Fail
  BY <1>13 DEF Fail, Cleared, AfterVerdict
<1>14. CASE PriceFinished
  BY <1>14 DEF PriceFinished, Goes, Again, Priced, Repriced
<1>15. CASE VoidFailed
  BY <1>15 DEF VoidFailed, Goes, Again
<1>16. CASE AnswerFailed
  BY <1>16 DEF AnswerFailed, Goes, Again, AnswerGitHub, Shown, Conclusion
<1>17. CASE Throw
  BY <1>17 DEF Throw, Fails, Spends
<1>18. CASE Tick
  BY <1>18 DEF Tick
<1>19. CASE Sweep
  BY <1>19 DEF Sweep, SweepFind, SweepCreate, SweepGet, OverFor, SweepEnd, Cleared, SweepPrice, Priced, SweepVoid, SweepAfter, AnswerGitHub, Shown, Conclusion
<1>20. CASE UNCHANGED vars
  BY <1>20 DEF vars
<1> QED
  BY <1>1, <1>2, <1>3, <1>4, <1>5, <1>6, <1>7, <1>8, <1>9, <1>10, <1>11, <1>12, <1>13, <1>14, <1>15, <1>16, <1>17, <1>18, <1>19, <1>20 DEF Next, Instance

(* Every step keeps the settlement of an ended run.                          *)
LEMMA SettledStep == TypeOK /\ HandOff /\ Told /\ Settled /\ [Next]_vars => Settled'
<1> SUFFICES ASSUME TypeOK /\ HandOff /\ Told /\ Settled, [Next]_vars PROVE Settled'
  OBVIOUS
<1> USE CheckRunAssumption DEF TypeOK, HandOff, Told, Settled, CheckRunAssumption
<1>1. CASE Door
  <2>1. CASE Insert
    BY <2>1 DEF Insert
  <2>2. CASE Bind
    BY <2>2 DEF Bind
  <2>3. CASE Trigger
    BY <2>3 DEF Trigger
  <2>4. CASE OpenCheck
    BY <2>4 DEF OpenCheck
  <2>5. CASE RecordCheck
    BY <2>5 DEF RecordCheck
  <2> QED
    BY <1>1, <2>1, <2>2, <2>3, <2>4, <2>5 DEF Door
<1>2. CASE Load
  BY <1>2 DEF Load, Outcome, Goes, Again, Fails, Spends
<1>3. CASE ChooseMode
  BY <1>3 DEF ChooseMode, Outcome, Goes, Again, Fails, Spends
<1>4. CASE ReplayComplete
  BY <1>4 DEF ReplayComplete, Outcome, Goes, Again, Fails, Spends
<1>5. CASE Phase
  BY <1>5 DEF Phase, Outcome, Goes, Again, Fails, Spends, After
<1>6. CASE ClosedDoor
  BY <1>6 DEF ClosedDoor, Outcome, Goes, Again, Fails, Spends
<1>7. CASE Publish
  BY <1>7 DEF Publish, Goes, Again, Fails, Spends, Published
<1>8. CASE ListKnown
  BY <1>8 DEF ListKnown, Outcome, Goes, Again, Fails, Spends
<1>9. CASE Price
  BY <1>9 DEF Price, Outcome, Goes, Again, Fails, Spends, Priced
<1>10. CASE Notify
  BY <1>10 DEF Notify, Outcome, Goes, Again, Fails, Spends
<1>11. CASE Answer
  BY <1>11 DEF Answer, Goes, Again, AnswerGitHub, Shown, Conclusion
<1>12. CASE Cleanup
  BY <1>12 DEF Cleanup, Outcome, Goes, Again, Fails, Spends, Cleared
<1>13. CASE Fail
  BY <1>13 DEF Fail, Cleared, AfterVerdict
<1>14. CASE PriceFinished
  BY <1>14 DEF PriceFinished, Goes, Again, Priced, Repriced
<1>15. CASE VoidFailed
  BY <1>15 DEF VoidFailed, Goes, Again
<1>16. CASE AnswerFailed
  BY <1>16 DEF AnswerFailed, Goes, Again, AnswerGitHub, Shown, Conclusion
<1>17. CASE Throw
  BY <1>17 DEF Throw, Fails, Spends
<1>18. CASE Tick
  BY <1>18 DEF Tick
<1>19. CASE Sweep
  <2>1. CASE SweepFind
    BY <2>1 DEF SweepFind
  <2>2. CASE SweepCreate
    BY <2>2 DEF SweepCreate
  <2>3. CASE SweepGet
    BY <2>3 DEF SweepGet, OverFor
  <2>4. CASE SweepEnd
    BY <2>4 DEF SweepEnd, Cleared
  <2>5. CASE SweepPrice
    BY <2>5 DEF SweepPrice, Priced
  <2>6. CASE SweepVoid
    BY <2>6 DEF SweepVoid
  <2>7. CASE SweepAfter
    BY <2>7 DEF SweepAfter, AnswerGitHub, Shown, Conclusion
  <2> QED
    BY <1>19, <2>1, <2>2, <2>3, <2>4, <2>5, <2>6, <2>7 DEF Sweep
<1>20. CASE UNCHANGED vars
  BY <1>20 DEF vars
<1> QED
  BY <1>1, <1>2, <1>3, <1>4, <1>5, <1>6, <1>7, <1>8, <1>9, <1>10, <1>11, <1>12, <1>13, <1>14, <1>15, <1>16, <1>17, <1>18, <1>19, <1>20 DEF Next, Instance

(* An answer that GitHub took shows on the commit.                           *)
LEMMA Taken ==
  ASSUME NEW s, TypeOK, AnswerGitHub(s), missed' = 0, bound'
  PROVE  bound /\ missed = 0 /\ answered' = Conclusion(s)
<1>1. missed \in Nat
  BY DEF TypeOK
<1>2. missed' # missed + 1
  BY <1>1
<1> QED
  BY <1>2 DEF AnswerGitHub, Shown

(* Every step keeps the answer on the commit true.                           *)
LEMMA RepliedStep ==
  TypeOK /\ HandOff /\ Told /\ Alone /\ Settled /\ Replied /\ [Next]_vars => Replied'
<1> SUFFICES ASSUME TypeOK /\ HandOff /\ Told /\ Alone /\ Settled /\ Replied, [Next]_vars
             PROVE  Replied'
  OBVIOUS
<1> USE CheckRunAssumption DEF TypeOK, HandOff, Told, Alone, Settled, Replied, CheckRunAssumption
<1>1. CASE Door
  <2>1. CASE Insert
    BY <2>1 DEF Insert
  <2>2. CASE Bind
    BY <2>2 DEF Bind
  <2>3. CASE Trigger
    BY <2>3 DEF Trigger
  <2>4. CASE OpenCheck
    BY <2>4 DEF OpenCheck
  <2>5. CASE RecordCheck
    BY <2>5 DEF RecordCheck
  <2> QED
    BY <1>1, <2>1, <2>2, <2>3, <2>4, <2>5 DEF Door
<1>2. CASE Load
  BY <1>2 DEF Load, Outcome, Goes, Again, Fails, Spends
<1>3. CASE ChooseMode
  BY <1>3 DEF ChooseMode, Outcome, Goes, Again, Fails, Spends
<1>4. CASE ReplayComplete
  BY <1>4 DEF ReplayComplete, Outcome, Goes, Again, Fails, Spends
<1>5. CASE Phase
  BY <1>5 DEF Phase, Outcome, Goes, Again, Fails, Spends, After
<1>6. CASE ClosedDoor
  BY <1>6 DEF ClosedDoor, Outcome, Goes, Again, Fails, Spends
<1>7. CASE Publish
  BY <1>7 DEF Publish, Goes, Again, Fails, Spends, Published
<1>8. CASE ListKnown
  BY <1>8 DEF ListKnown, Outcome, Goes, Again, Fails, Spends
<1>9. CASE Price
  BY <1>9 DEF Price, Outcome, Goes, Again, Fails, Spends, Priced
<1>10. CASE Notify
  BY <1>10 DEF Notify, Outcome, Goes, Again, Fails, Spends
<1>11. CASE Answer
  <2>1. status \in Finished /\ status' = status
    BY <1>11 DEF Answer
  <2>2. missed' = 0 /\ bound' => bound /\ answered' = "verdict"
    <3>1. AnswerGitHub(status)
      BY <1>11 DEF Answer
    <3>2. Conclusion(status) = "verdict"
      BY <2>1 DEF Conclusion
    <3> QED
      BY <3>1, <3>2, Taken
  <2>3. outages' = outages /\ pc' \in {"answer", "cleanup"}
    BY <1>11 DEF Answer, Goes, Again
  <2> QED
    BY <2>1, <2>2, <2>3
<1>12. CASE Cleanup
  BY <1>12 DEF Cleanup, Outcome, Goes, Again, Fails, Spends, Cleared
<1>13. CASE Fail
  BY <1>13 DEF Fail, Cleared, AfterVerdict
<1>14. CASE PriceFinished
  BY <1>14 DEF PriceFinished, Goes, Again, Priced, Repriced
<1>15. CASE VoidFailed
  BY <1>15 DEF VoidFailed, Goes, Again
<1>16. CASE AnswerFailed
  <2>1. status = "failed" /\ status' = status
    BY <1>16 DEF AnswerFailed
  <2>2. missed' = 0 /\ bound' => bound /\ answered' = "neutral"
    <3>1. AnswerGitHub(status)
      BY <1>16 DEF AnswerFailed
    <3>2. Conclusion(status) = "neutral"
      BY <2>1 DEF Conclusion
    <3> QED
      BY <3>1, <3>2, Taken
  <2>3. outages' = outages /\ throws' = throws /\ pc' \in {"answerFailed", "returned"}
    BY <1>16 DEF AnswerFailed, Goes, Again
  <2>4. throws > 0
    BY <1>16 DEF AnswerFailed
  <2> QED
    BY <2>1, <2>2, <2>3, <2>4
<1>17. CASE Throw
  BY <1>17 DEF Throw, Fails, Spends
<1>18. CASE Tick
  BY <1>18 DEF Tick
<1>19. CASE Sweep
  <2>1. CASE SweepFind
    BY <2>1 DEF SweepFind
  <2>2. CASE SweepCreate
    BY <2>2 DEF SweepCreate
  <2>3. CASE SweepGet
    BY <2>3 DEF SweepGet, OverFor
  <2>4. CASE SweepEnd
    BY <2>4 DEF SweepEnd, Cleared
  <2>5. CASE SweepPrice
    BY <2>5 DEF SweepPrice, Priced
  <2>6. CASE SweepVoid
    BY <2>6 DEF SweepVoid
  <2>7. CASE SweepAfter
    <3>1. status' = status /\ pc' = pc /\ outages' = outages /\ throws' = throws /\ sweep = "after"
      BY <2>7 DEF SweepAfter
    <3>2. outages = 0 => status = "failed"
      BY <3>1
    <3>3. missed' = 0 /\ outages = 0 /\ bound' => bound /\ answered' = "neutral"
      <4>1. AnswerGitHub(status)
        BY <2>7 DEF SweepAfter
      <4>2. outages = 0 => Conclusion(status) = "neutral"
        BY <3>2 DEF Conclusion
      <4> QED
        BY <4>1, <4>2, Taken
    <3>4. status = "failed" => status \notin Finished
      OBVIOUS
    <3>5. outages' = 0 /\ missed' = 0 /\ bound' =>
             ~(throws' = 0 /\ pc' \in {"cleanup", "returned"})
      <4>1. SUFFICES ASSUME outages = 0, missed' = 0, bound', throws = 0, pc \in {"cleanup", "returned"}
                     PROVE  FALSE
        BY <3>1
      <4>2. missed = 0 /\ bound
        <5>1. AnswerGitHub(status)
          BY <2>7 DEF SweepAfter
        <5> QED
          BY <4>1, <5>1, Taken
      <4> QED
        BY <4>1, <4>2, <3>2, <3>4
    <3> QED
      BY <3>1, <3>3, <3>5
  <2> QED
    BY <1>19, <2>1, <2>2, <2>3, <2>4, <2>5, <2>6, <2>7 DEF Sweep
<1>20. CASE UNCHANGED vars
  BY <1>20 DEF vars
<1> QED
  BY <1>1, <1>2, <1>3, <1>4, <1>5, <1>6, <1>7, <1>8, <1>9, <1>10, <1>11, <1>12, <1>13, <1>14, <1>15, <1>16, <1>17, <1>18, <1>19, <1>20 DEF Next, Instance

(* The inductive invariant.                                                  *)
THEOREM Inductive == Spec => []CInv
<1>1. CInv /\ [Next]_vars => CInv'
  BY TypeStep, HandOffStep, ToldStep, ListedStep, SecretsStep, AloneStep, ChargedStep, FinalStep,
     SettledStep, RepliedStep
  DEF CInv, Inv
<1> QED
  BY InitInv, <1>1, PTL DEF Spec

-----------------------------------------------------------------------------
(* The row, the commit and the counters keep their types.                    *)
THEOREM TypeCorrect == Spec => []TypeOK
<1>1. CInv => TypeOK
  BY DEF CInv, Inv
<1> QED
  BY Inductive, <1>1, PTL

(* A mailed verdict stands, however many steps fail or run again and         *)
(* whatever the sweep does (agent/workflow.ts, the "fail" step).             *)
THEOREM VerdictStands == Spec => []ToldVerdictStands
<1>1. CInv => ToldVerdictStands
  BY DEF CInv, Inv, Told, ToldVerdictStands
<1> QED
  BY Inductive, <1>1, PTL

(* A finished run shows its known journeys ("list-known-journeys").          *)
THEOREM WholeWhenFinished == Spec => []FinishedIsWhole
<1>1. CInv => FinishedIsWhole
  BY DEF CInv, Inv, Listed, FinishedIsWhole
<1> QED
  BY Inductive, <1>1, PTL

(* A one-off run that was seen through holds no test password.               *)
THEOREM PasswordsGone == Spec => []PasswordGone
<1>1. CInv => PasswordGone
  BY DEF CInv, Inv, Secrets, PasswordGone
<1> QED
  BY Inductive, <1>1, PTL

(* While the platform can be asked about instances, a failed run costs       *)
(* nothing.                                                                  *)
THEOREM FreeWhenFailed == Spec => []FailedIsFree
<1>1. CInv => FailedIsFree
  BY DEF CInv, Charged, FailedIsFree
<1> QED
  BY Inductive, <1>1, PTL

(* A run that ended finished has its price, unless a second step failed for  *)
(* good (agent/workflow.ts, price-run and the "fail" step).                  *)
THEOREM PricedWhenFinished == Spec => []FinishedIsPriced
<1>1. CInv => FinishedIsPriced
  BY DEF CInv, Settled, Ended, FinishedIsPriced
<1> QED
  BY Inductive, <1>1, PTL

(* While the platform can be asked about instances and GitHub takes every    *)
(* answer it is given, a deploy's commit ends with the answer that says how  *)
(* its run ended, unless a step failed for good after the verdict, or the    *)
(* handler itself did.                                                       *)
THEOREM UncutAnswered == Spec => []UncutIsAnswered
<1>1. CInv => UncutIsAnswered
  BY DEF CInv, Inv, TypeOK, Settled, Replied, Ended, CommitAnswered, Conclusion, UncutIsAnswered
<1> QED
  BY Inductive, <1>1, PTL

(* While the platform can be asked about instances, the sweep ends no run    *)
(* whose instance is alive (agent/orphan-runs.ts).                           *)
THEOREM LiveIsSpared == Spec => SweepSparesLive
<1>1. CInv /\ [Next]_vars
        => [outages = 0 /\ sweep = "end" /\ status = "queued" /\ status' = "failed"
              => pc \in Over \union {"none"}]_vars
  BY DEF CInv, Alone
<1> QED
  BY Inductive, <1>1, PTL DEF Spec, SweepSparesLive

(* ... and, until a step runs again, a terminal status is final.             *)
THEOREM EndedStaysEnded == Spec => TerminalIsFinal
<1>1. ASSUME CInv, [Next]_vars, outages = 0, reruns = 0, status \in Terminal PROVE status' \in Terminal
  <2> USE <1>1 DEF CInv, Inv, HandOff, Told, Alone, Final
  <2>1. CASE Door
    BY <2>1 DEF Door, Insert, Bind, Trigger, OpenCheck, RecordCheck
  <2>2. CASE Load \/ ChooseMode \/ ReplayComplete \/ Phase \/ ClosedDoor \/ Publish \/ ListKnown
    BY <2>2 DEF Load, ChooseMode, ReplayComplete, Phase, ClosedDoor, Publish, ListKnown
  <2>3. CASE Price \/ Notify \/ Answer \/ Cleanup \/ Fail \/ PriceFinished \/ VoidFailed \/ AnswerFailed
    BY <2>3 DEF Price, Notify, Answer, Cleanup, Fail, PriceFinished, VoidFailed, AnswerFailed
  <2>4. CASE Throw \/ Tick
    BY <2>4 DEF Throw, Tick
  <2>5. CASE Sweep
    BY <2>5 DEF Sweep, SweepFind, SweepCreate, SweepGet, SweepEnd, SweepPrice, SweepVoid, SweepAfter
  <2>6. CASE UNCHANGED vars
    BY <2>6 DEF vars
  <2> QED
    BY <2>1, <2>2, <2>3, <2>4, <2>5, <2>6 DEF Next, Instance
<1>2. CInv /\ [Next]_vars
        => [outages = 0 /\ reruns = 0 /\ status \in Terminal => status' \in Terminal]_vars
  BY <1>1
<1> QED
  BY Inductive, <1>2, PTL DEF Spec, TerminalIsFinal
=============================================================================
