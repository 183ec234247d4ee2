------------------------------ MODULE CheckRun ------------------------------
(* One check, from the row a door inserts to the end of the Workflow         *)
(* instance that carries it out: the door (lib/start-check.ts,               *)
(* lib/start-saved-app.ts, lib/github-webhook.ts), the instance              *)
(* (agent/workflow.ts), and the sweep of runs whose hand-off did not land    *)
(* (agent/orphan-runs.ts), which work on the same row.  A step of the        *)
(* instance may be run again after it took effect (Workflows run a step at   *)
(* least once) and may fail for good; both are bounded.                      *)
EXTENDS Naturals, FiniteSets

CONSTANTS
  MaxReruns,   \* bound: step bodies run again after they took effect
  MaxThrows,   \* bound: steps that fail for good (their retries used up)
  MaxOutages,  \* bound: times the platform cannot be asked about an instance
  MaxMissed    \* bound: answers GitHub does not take, retries and all

ASSUME CheckRunAssumption == /\ MaxReruns \in Nat
                             /\ MaxThrows \in Nat
                             /\ MaxOutages \in Nat
                             /\ MaxMissed \in Nat

VARIABLES
  watched,   \* the run belongs to a Watch (a one-off check otherwise)
  deploy,    \* the GitHub App started it for a deploy
  carries,   \* known journeys it did not walk go onto its verdict
  status,    \* Run.status, "none" before the insert
  price,     \* Run.priceUsd: "null", "zero", or the "cost" of the work
  creds,     \* the run holds test passwords
  landed,    \* the known journeys are listed on the verdict
  spent,     \* Run.costUsd is written, and is not 0
  soon,      \* Watch.nextRunAt was moved to two hours from now
  told,      \* the verdict was mailed
  door,      \* what the door does next
  bound,     \* the deploy's claim names the run
  checkId,   \* the Check Run the claim names: "none", "opened", "created"
  opened,    \* the Check Run the door opened on the commit
  answered,  \* the last answer given on the commit
  missed,    \* history: answers given up on, the commit left as it was or not
  pc,        \* the instance's step; "none" while there is no instance
  budget,    \* the instance died of our model budget
  age,       \* 0 young, 1 older than REHAND_AFTER, 2 past GIVE_UP_AFTER
  sweep,     \* what the sweep does next
  reruns, throws, outages

kind   == <<watched, deploy>>
list   == <<carries, landed>>
row    == <<status, price, creds, spent, list>>
commit == <<bound, checkId, opened, answered, missed>>
faults == <<reruns, throws, outages>>
vars   == <<kind, row, soon, told, door, commit, pc, budget, age, sweep, faults>>

Phases   == {"connecting", "surface_scan", "discovery", "walking", "anatomy", "writing"}
Finished == {"completed", "partial"}
Terminal == Finished \union {"failed"}
Tail     == {"price", "notify", "answer", "cleanup"}
Handler  == {"fail", "priceFinished", "voidFailed", "answerFailed"}
Steps    == {"load", "early", "replay", "door", "publish", "list"}
              \union Phases \union Tail \union Handler
Over     == {"lost", "returned"}     \* errored outside the handler, or through
                                     \* with it (returned or rethrown)

Init == /\ watched \in BOOLEAN /\ deploy \in BOOLEAN
        /\ ~(watched /\ deploy)
        /\ status = "none" /\ price = "null" /\ creds = FALSE /\ spent = FALSE
        /\ carries = FALSE /\ landed = FALSE
        /\ soon = FALSE /\ told = FALSE
        /\ door = "insert"
        /\ bound = FALSE /\ checkId = "none" /\ opened = "none" /\ answered = "none"
        /\ missed = 0
        /\ pc = "none" /\ budget = FALSE
        /\ age = 0 /\ sweep = "idle"
        /\ reruns = 0 /\ throws = 0 /\ outages = 0

-----------------------------------------------------------------------------
(* The door.                                                                 *)

Insert ==
  /\ door = "insert"
  /\ status' = "queued" /\ creds' = TRUE
  /\ door' = IF deploy THEN "bind" ELSE "trigger"
  /\ UNCHANGED <<kind, price, spent, list, soon, told, commit, pc, budget, age, sweep, faults>>

(* bindThenTrigger: the claim names the run before the run is handed off.    *)
Bind ==
  /\ door = "bind"
  /\ bound' = TRUE /\ door' = "trigger"
  /\ UNCHANGED <<kind, row, soon, told, checkId, opened, answered, missed, pc, budget, age, sweep, faults>>

(* The hand-off lands, fails, or lands and looks failed.  A door that threw  *)
(* goes no further: a redelivered deploy finds its claim taken.              *)
Trigger ==
  /\ door = "trigger"
  /\ pc' \in {"load", pc}
  /\ \/ door' = "done"
     \/ deploy /\ pc' = "load" /\ door' = "open"
  /\ UNCHANGED <<kind, row, soon, told, commit, budget, age, sweep, faults>>

(* The Check Run "in progress" on the commit, opened on GitHub ...           *)
OpenCheck ==
  /\ door = "open"
  /\ \/ opened' = "in_progress" /\ door' = "record"
     \/ opened' = opened /\ door' = "done"
  /\ UNCHANGED <<kind, row, soon, told, bound, checkId, answered, missed, pc, budget, age, sweep, faults>>

(* ... and its id kept on the claim.                                         *)
RecordCheck ==
  /\ door = "record"
  /\ checkId' = "opened" /\ door' = "done"
  /\ UNCHANGED <<kind, row, soon, told, bound, opened, answered, missed, pc, budget, age, sweep, faults>>

-----------------------------------------------------------------------------
(* answerGitHub and priceRun, shared by the instance and the sweep.          *)

RunStatus(s) == s

(* conclusionFor: our failure is neutral.                                    *)
Conclusion(s) == IF s \in Finished THEN "verdict" ELSE "neutral"

AnswerOpened(s) ==
  IF bound /\ checkId = "opened"
  THEN answered' = Conclusion(s) /\ opened' = "completed" /\ UNCHANGED <<bound, checkId, missed>>
  ELSE UNCHANGED commit

(* The commit shows how the run ended: on the Check Run the claim names, or  *)
(* on one created completed.                                                 *)
Shown(s) == /\ answered' = Conclusion(s)
            /\ opened' = IF checkId = "opened" THEN "completed" ELSE opened

(* GitHub takes the answer; or the call fails for good, before the commit    *)
(* shows it or after, and nobody asks again.                                 *)
AnswerGitHub(s) ==
  \/ /\ bound /\ Shown(s)
     /\ checkId' = IF checkId = "none" THEN "created" ELSE checkId
     /\ UNCHANGED <<bound, missed>>
  \/ /\ bound /\ missed < MaxMissed /\ missed' = missed + 1
     /\ Shown(s) \/ UNCHANGED <<answered, opened>>
     /\ UNCHANGED <<bound, checkId>>
  \/ ~bound /\ UNCHANGED commit

(* The price stays once written; a failed run, and one without a cost, is 0. *)
Priced(s) == IF price # "null" THEN price
             ELSE IF spent /\ s # "failed" THEN "cost" ELSE "zero"

(* clearedCredentials, unless a Watch keeps them for its next run.           *)
Cleared == watched /\ creds

-----------------------------------------------------------------------------
(* The instance.  A step that took effect goes on, runs again, or fails for  *)
(* good; Throw is a step that fails for good without having taken effect.    *)

Goes(next) == pc' = next /\ UNCHANGED <<reruns, throws, budget>>
Again(p) == reruns < MaxReruns /\ reruns' = reruns + 1 /\ pc' = p
            /\ UNCHANGED <<throws, budget>>
Spends(p) == p \in Phases      \* phases that call a model
Fails(p) == /\ throws < MaxThrows /\ throws' = throws + 1
            /\ pc' = IF p \in {"load", "fail"} THEN "lost" ELSE "fail"
            /\ budget' \in IF Spends(p) THEN BOOLEAN ELSE {budget}
            /\ UNCHANGED reruns
Outcome(next) == Goes(next) \/ Again(pc) \/ Fails(pc)

Throw ==
  /\ pc \in Steps \ {"answer", "answerFailed", "priceFinished", "voidFailed"}
  /\ Fails(pc)
  /\ UNCHANGED <<kind, row, soon, told, door, commit, age, sweep, outages>>

(* load-run, the survey and the rungs of the ladder: the row stays queued.   *)
(* Only a run of a Watch is ever settled by replaying its baseline.          *)
Load ==
  /\ pc = "load" /\ Outcome("early")
  /\ UNCHANGED <<kind, row, soon, told, door, commit, age, sweep, outages>>

ChooseMode ==
  /\ pc = "early"
  /\ \/ Outcome("connecting")
     \/ watched /\ Outcome("replay")
  /\ UNCHANGED <<kind, row, soon, told, door, commit, age, sweep, outages>>

(* replay-complete: a quick check ends here with the baseline's verdict.     *)
ReplayComplete ==
  /\ pc = "replay" /\ status' = "completed" /\ spent' = TRUE /\ Outcome("price")
  /\ UNCHANGED <<kind, price, creds, list, soon, told, door, commit, age, sweep, outages>>

After(p) == CASE p = "connecting"   -> {"surface_scan"}
              [] p = "surface_scan" -> {"door", "discovery", "walking"}
              [] p = "discovery"    -> {"walking"}
              [] p = "walking"      -> {"anatomy"}
              [] p = "anatomy"      -> {"writing"}
              [] OTHER              -> {"publish"}

(* transition: the status is written whatever the row says.  Which known     *)
(* journeys the run did not cover is planned once it has walked.             *)
Phase ==
  /\ pc \in Phases
  /\ status' = pc
  /\ carries' \in IF pc = "walking" THEN BOOLEAN ELSE {carries}
  /\ \E next \in After(pc) : Outcome(next)
  /\ UNCHANGED <<kind, price, creds, spent, landed, soon, told, door, commit, age, sweep, outages>>

(* closed-door and signed-out: the app turned the check away at its first    *)
(* page.                                                                     *)
ClosedDoor ==
  /\ pc = "door" /\ status' = "partial" /\ Outcome("price")
  /\ UNCHANGED <<kind, price, creds, spent, list, soon, told, door, commit, age, sweep, outages>>

Published(s) == IF carries THEN s ELSE "completed"

(* The end of the writing step.  A run with journeys still to list stays in  *)
(* "writing"; run again, the step starts from its transition.                *)
Publish ==
  /\ pc = "publish"
  /\ \/ status' = Published(status)
     \/ ~carries /\ status' = "partial"
  /\ spent' = TRUE
  /\ \/ Goes(IF carries THEN "list" ELSE "price")
     \/ Again("writing")
     \/ Fails(pc)
  /\ UNCHANGED <<kind, price, creds, list, soon, told, door, commit, age, sweep, outages>>

(* list-known-journeys: the copies first, the terminal status last.          *)
ListKnown ==
  /\ pc = "list"
  /\ landed' = TRUE /\ status' = "completed" /\ Outcome("price")
  /\ UNCHANGED <<kind, price, creds, spent, carries, soon, told, door, commit, age, sweep, outages>>

Price ==
  /\ pc = "price" /\ price' = Priced(status) /\ Outcome("notify")
  /\ UNCHANGED <<kind, status, creds, spent, list, soon, told, door, commit, age, sweep, outages>>

Notify ==
  /\ pc = "notify" /\ told' = TRUE /\ Outcome("answer")
  /\ UNCHANGED <<kind, row, soon, door, commit, age, sweep, outages>>

(* answerGitHubSafely never throws: after a final 4xx, or with its retries   *)
(* spent, the run goes on and the commit's Check Run stays in progress.      *)
Answer ==
  /\ pc = "answer" /\ AnswerGitHub(status)
  /\ Goes("cleanup") \/ Again(pc)
  /\ UNCHANGED <<kind, row, soon, told, door, age, sweep, outages>>

Cleanup ==
  /\ pc = "cleanup" /\ creds' = Cleared /\ Outcome("returned")
  /\ UNCHANGED <<kind, status, price, spent, list, soon, told, door, commit, age, sweep, outages>>

-----------------------------------------------------------------------------
(* The failure handler.                                                      *)

(* The verdict was already written: the run stays finished.                  *)
NotRead(s) == FALSE
AfterVerdict(s) == s \in Finished

Fail ==
  /\ pc = "fail"
  /\ creds' = Cleared
  /\ IF AfterVerdict(status)
     THEN status' = status /\ pc' = "priceFinished"
     ELSE status' = "failed" /\ pc' = "voidFailed"
  /\ UNCHANGED <<kind, price, spent, list, soon, told, door, commit, budget, age, sweep, faults>>

(* The end of "fail": pricing that fails is caught, and the step may run     *)
(* again.                                                                    *)
PriceUnread(s) == price
Repriced(s) == Priced(s)

PriceFinished ==
  /\ pc = "priceFinished"
  /\ \/ price' = Repriced(status) /\ (Goes("returned") \/ Again("fail"))
     \/ throws < MaxThrows /\ throws' = throws + 1 /\ pc' = "returned"
        /\ UNCHANGED <<price, reruns, budget>>
  /\ UNCHANGED <<kind, status, creds, spent, list, soon, told, door, commit, age, sweep, outages>>

VoidFailed ==
  /\ pc = "voidFailed"
  /\ soon' = (soon \/ (budget /\ watched))
  /\ \/ price' = "zero" /\ (Goes("answerFailed") \/ Again("fail"))
     \/ throws < MaxThrows /\ throws' = throws + 1 /\ pc' = "answerFailed"
        /\ UNCHANGED <<price, reruns, budget>>
  /\ UNCHANGED <<kind, status, creds, spent, list, told, door, commit, age, sweep, outages>>

(* answer-github-failed, which gives up in the same way, and the rethrow.    *)
AnswerFailed ==
  /\ pc = "answerFailed" /\ AnswerGitHub(status)
  /\ Goes("returned") \/ Again(pc)
  /\ UNCHANGED <<kind, row, soon, told, door, age, sweep, outages>>

Instance == \/ Load \/ ChooseMode \/ ReplayComplete \/ Phase \/ ClosedDoor \/ Publish
            \/ ListKnown \/ Price \/ Notify \/ Answer \/ Cleanup
            \/ Fail \/ PriceFinished \/ VoidFailed \/ AnswerFailed

-----------------------------------------------------------------------------
(* The sweep, on every scheduler tick.  A door is one request: what it does  *)
(* to the row it has done long before a run is REHAND_AFTER_MINUTES old.     *)

Tick ==
  /\ status # "none" /\ door = "done" /\ age < 2
  /\ age' = age + 1
  /\ UNCHANGED <<kind, row, soon, told, door, commit, pc, budget, sweep, faults>>

SweepFind ==
  /\ sweep = "idle" /\ status = "queued" /\ age >= 1
  /\ sweep' = "create"
  /\ UNCHANGED <<kind, row, soon, told, door, commit, pc, budget, age, faults>>

(* recover: create, under the run's own id; refused when there is an         *)
(* instance, and it may fail when there is none ...                          *)
SweepCreate ==
  /\ sweep = "create"
  /\ \/ pc = "none" /\ pc' = "load" /\ sweep' = "idle"
     \/ pc' = pc /\ sweep' = "get"
  /\ UNCHANGED <<kind, row, soon, told, door, commit, budget, age, faults>>

(* ... then ask about the instance.  Any error reads as "no instance".       *)
AgeOnly(p) == TRUE
NeverOver(p) == FALSE
OverFor(p) == p \in Over

SweepGet ==
  /\ sweep = "get"
  /\ LET verdict(over) == IF over /\ age = 2 THEN "end" ELSE "idle"
     IN \/ pc # "none" /\ sweep' = verdict(OverFor(pc)) /\ UNCHANGED outages
        \/ pc = "none" /\ sweep' = verdict(TRUE) /\ UNCHANGED outages
        \/ /\ pc # "none" /\ outages < MaxOutages
           /\ outages' = outages + 1 /\ sweep' = verdict(TRUE)
  /\ UNCHANGED <<kind, row, soon, told, door, commit, pc, budget, age, reruns, throws>>

(* endOrphan: conditional on the row still being queued.                     *)
SweepEnd ==
  /\ sweep = "end"
  /\ IF status = "queued"
     THEN status' = "failed" /\ creds' = Cleared /\ sweep' = "price"
     ELSE sweep' = "idle" /\ UNCHANGED <<status, creds>>
  /\ UNCHANGED <<kind, price, spent, list, soon, told, door, commit, pc, budget, age, faults>>

SweepPrice ==
  /\ sweep = "price" /\ price' = Priced(status) /\ sweep' = "void"
  /\ UNCHANGED <<kind, status, creds, spent, list, soon, told, door, commit, pc, budget, age, faults>>

SweepVoid ==
  /\ sweep = "void" /\ price' = "zero" /\ sweep' = "after"
  /\ UNCHANGED <<kind, status, creds, spent, list, soon, told, door, commit, pc, budget, age, faults>>

(* The Watch tries again soon and the commit is answered: once each, and     *)
(* what fails is caught.                                                     *)
SweepAfter ==
  /\ sweep = "after" /\ sweep' = "idle"
  /\ soon' \in {soon, soon \/ watched}
  /\ AnswerGitHub(status)
  /\ UNCHANGED <<kind, row, told, door, pc, budget, age, faults>>

Door == Insert \/ Bind \/ Trigger \/ OpenCheck \/ RecordCheck
Sweep == SweepFind \/ SweepCreate \/ SweepGet \/ SweepEnd \/ SweepPrice \/ SweepVoid \/ SweepAfter
Next == Door \/ Instance \/ Throw \/ Tick \/ Sweep

Spec == Init /\ [][Next]_vars

(* The door's request finishes, the engine carries an instance on, time      *)
(* passes and the cron ticks.  That a step fails, or is run again, is        *)
(* nobody's promise.                                                         *)
Fairness == WF_vars(Door) /\ WF_vars(Instance) /\ WF_vars(Tick) /\ WF_vars(Sweep)
FairSpec == Spec /\ Fairness

-----------------------------------------------------------------------------
(* Properties.                                                               *)

(* The columns, the steps and the counters keep their types.                 *)
TypeOK ==
  /\ watched \in BOOLEAN /\ deploy \in BOOLEAN /\ carries \in BOOLEAN
  /\ status \in {"none", "queued"} \union Phases \union Terminal
  /\ price \in {"null", "zero", "cost"}
  /\ creds \in BOOLEAN /\ spent \in BOOLEAN /\ landed \in BOOLEAN
  /\ soon \in BOOLEAN /\ told \in BOOLEAN
  /\ door \in {"insert", "bind", "trigger", "open", "record", "done"}
  /\ bound \in BOOLEAN
  /\ checkId \in {"none", "opened", "created"}
  /\ opened \in {"none", "in_progress", "completed"}
  /\ answered \in {"none", "neutral", "verdict"} /\ missed \in 0..MaxMissed
  /\ pc \in {"none"} \union Steps \union Over
  /\ budget \in BOOLEAN /\ age \in 0..2
  /\ sweep \in {"idle", "create", "get", "end", "price", "void", "after"}
  /\ reruns \in 0..MaxReruns /\ throws \in 0..MaxThrows /\ outages \in 0..MaxOutages

Ended == pc \in Over /\ sweep = "idle" /\ door = "done"

(* A verdict that was mailed stays on a finished run: no later failure, no   *)
(* re-run step and no sweep hides it.                                        *)
ToldVerdictStands == told => status \in Finished

(* While the platform can be asked about its instances, a failed run never   *)
(* carries the price of its work.                                            *)
FailedIsFree == outages = 0 /\ status = "failed" => price # "cost"

(* A finished run shows its known journeys: the terminal status waits for    *)
(* the copies.                                                               *)
FinishedIsWhole == carries /\ status \in Finished => landed

(* When the handler or the last step is through, a one-off run holds no test *)
(* password, however it ended.                                               *)
PasswordGone == pc = "returned" /\ ~watched => ~creds

(* A run that ended finished has its price, though one step failed for good. *)
FinishedIsPriced == Ended /\ status \in Finished /\ throws <= 1 => price # "null"

(* A deploy's commit ends with an answer that says how its run ended         *)
(* (workflow.ts:1562-1565).                                                  *)
CommitAnswered ==
  Ended /\ bound /\ status \in Terminal => answered = Conclusion(status)

(* ... while GitHub takes the answers it is given (none of them is repeated  *)
(* once it was given up), when no step failed for good, and for a run that   *)
(* the failure handler ended.  What is left is an answer given up on         *)
(* (workflow.ts:102-109, orphan-runs.ts:156) and a step that fails between   *)
(* the verdict and its answer.                                               *)
UncutIsAnswered ==
  missed = 0 /\ outages = 0 /\ (throws = 0 \/ (status = "failed" /\ pc # "lost"))
    => CommitAnswered

(* While the platform can be asked about its instances, a run whose instance *)
(* is at work is never ended by the sweep.                                   *)
SweepSparesLive ==
  [][outages = 0 /\ sweep = "end" /\ status = "queued" /\ status' = "failed"
       => pc \in Over \union {"none"}]_vars

(* ... and, until a step runs again, a terminal status is final: nothing     *)
(* that read the run as ended sees it working.                               *)
TerminalIsFinal ==
  [][outages = 0 /\ reruns = 0 /\ status \in Terminal => status' \in Terminal]_vars

(* A run that was started ends, so that its Watch and its app are free for   *)
(* the next one, unless a second step fails for good (the handler's own).    *)
InFlightEnds == status # "none" ~> (status \in Terminal \/ throws > 1)
=============================================================================
