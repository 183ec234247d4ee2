--------------------------- MODULE WatchScheduler ---------------------------
(* The cron tick that starts due Watches (agent/scheduler.ts) and the owner's *)
(* switches on a Watch (lib/watch-enable.ts, lib/app-settings.ts).  A tick is *)
(* a process that stops between any two database calls; ticks may overlap.    *)
EXTENDS Naturals, SequencesExt

CONSTANTS
  Watches,         \* the Watches of one team
  Stuck,           \* those on a private address, or a Shopify app not chosen
  MaxTicks,        \* bound: ticks under way at one time
  CandidateLimit,  \* CANDIDATE_LIMIT: rows a tick reads
  MaxPerTick,      \* MAX_PER_TICK: runs a tick starts
  Cadence,         \* INTERVAL_HOURS, in hours of this model
  Recheck,         \* TRIAL_RECHECK_HOURS
  Retry,           \* WATCH_RETRY_HOURS, after a failure of ours
  MaxFaults,       \* bound: ticks cut short, calls that throw, mails refused
  MaxChanges       \* bound: changes by the owner, the plan, the balance ..., and
                   \* ticks that begin before the one before is over

ASSUME SchedulerAssumption ==
  /\ IsFiniteSet(Watches) /\ Stuck \subseteq Watches /\ MaxTicks \in Nat \ {0}
  /\ CandidateLimit \in Nat \ {0} /\ MaxPerTick \in Nat \ {0}
  /\ Cadence \in Nat \ {0} /\ Recheck \in Nat \ {0} /\ Retry \in Nat \ {0}
  /\ MaxFaults \in Nat /\ MaxChanges \in Nat

VARIABLES
  line,     \* the due Watches, by nextRunAt
  wait,     \* hours until a Watch is due; 0 for those in line
  on,       \* active, and its frequency is not manual
  late,     \* its free trial is over
  free,     \* the team is on Free
  funded,   \* admitTeamCheck admits another check
  heard,    \* there is an address to tell
  sched,    \* scheduled runs of the Watch in flight
  other,    \* its runs in flight that another door started
  starts,   \* scheduled runs since the Watch was last claimed
  raced,    \* history: Watches two ticks were about to start at one time
  stamp,    \* Team.balanceNoticeSentAt: "none", "before" this month, or "now"
  mailed,   \* idempotency keys under which the balance mail went out
  trialStamp, trialMailed,   \* the trial notice of a Watch
  pc, list, started,         \* per tick: next step, candidates left, runs started
  faults, changes

nextRun == <<line, wait>>
gates   == <<on, late, free, funded, heard>>
runs    == <<sched, other, starts, raced>>
notices == <<stamp, mailed, trialStamp, trialMailed>>
tick    == <<pc, list, started>>
vars    == <<nextRun, gates, runs, notices, tick, faults, changes>>

Ticks   == 1..MaxTicks           \* a tick takes the first number that is free
Windows == {"ever", "month"}     \* Free's credit never renews, a paid plan's does
Row     == [watch : Watches, free : BOOLEAN, late : BOOLEAN]

InLine(w) == \E i \in 1..Len(line) : line[i] = w
Place(w) == CHOOSE i \in 1..Len(line) : line[i] = w
Without(w) == IF InLine(w) THEN RemoveAt(line, Place(w)) ELSE line

(* nextRunAt is set to h hours from now.                                     *)
Move(w, h) == line' = Without(w) /\ wait' = [wait EXCEPT ![w] = h]

(* A Watch that is enabled first runs a cadence later.                       *)
Init ==
  /\ line = <<>> /\ wait = [w \in Watches |-> Cadence]
  /\ on = [w \in Watches |-> TRUE] /\ late \in [Watches -> BOOLEAN]
  /\ free \in BOOLEAN /\ funded \in BOOLEAN /\ heard = TRUE
  /\ sched = [w \in Watches |-> 0] /\ other = [w \in Watches |-> 0]
  /\ starts = [w \in Watches |-> 0] /\ raced = {}
  /\ stamp = "none" /\ mailed = {}
  /\ trialStamp = [w \in Watches |-> FALSE] /\ trialMailed = {}
  /\ pc = [t \in Ticks |-> "off"] /\ list = [t \in Ticks |-> <<>>]
  /\ started = [t \in Ticks |-> 0]
  /\ faults = 0 /\ changes = 0

-----------------------------------------------------------------------------
(* The tick.                                                                 *)

Go(t, step) == pc' = [pc EXCEPT ![t] = step] /\ UNCHANGED <<list, started>>
Drop(t) == /\ pc' = [pc EXCEPT ![t] = "look"]
           /\ list' = [list EXCEPT ![t] = Tail(@)]
           /\ UNCHANGED started
Fault == faults < MaxFaults /\ faults' = faults + 1
Change == changes < MaxChanges /\ changes' = changes + 1

(* The places in line of the due Watches that are switched on; a tick reads *)
(* the first of them, with the plan and the trial as they are now.           *)
Due == {i \in 1..Len(line) : on[line[i]]}
InOrder(p) == \A i, j \in 1..Len(p) : i < j => p[i] < p[j]
AllDue(p) == Len(p) = Cardinality(Due) /\ InOrder(p)
Candidates(p) ==
  /\ Len(p) <= CandidateLimit /\ InOrder(p)
  /\ \A i \in Due : (\E k \in 1..Len(p) : p[k] = i)
                   \/ (Len(p) = CandidateLimit /\ p[Len(p)] < i)
RowAt(i) == [watch |-> line[i], free |-> free, late |-> late[line[i]]]

Between == \A t \in Ticks : pc[t] = "off"

Open(t) ==
  /\ pc[t] = "off" /\ \A u \in Ticks : u < t => pc[u] # "off"
  /\ \/ Between /\ UNCHANGED changes
     \/ ~Between /\ Change
  /\ pc' = [pc EXCEPT ![t] = "look"]
  /\ \E n \in 0..Cardinality(Due) : \E p \in [1..n -> Due] :
       Candidates(p) /\ list' = [list EXCEPT ![t] = [k \in 1..n |-> RowAt(p[k])]]
  /\ started' = [started EXCEPT ![t] = 0]
  /\ UNCHANGED <<nextRun, gates, runs, notices, faults>>

(* shouldSkipWatch                                                           *)
TrialOver(row) == row.free /\ row.late

NeverBusy(w) == FALSE
Busy(w) == sched[w] + other[w] > 0

Full(t) == started[t] >= MaxPerTick

(* The ticks that found the Watch with no run in flight and have not started *)
(* it yet.                                                                   *)
Pending(w) == {t \in Ticks : pc[t] \in {"admit", "claim", "create"} /\ Head(list[t]).watch = w}

(* A Watch that is stuck or has a run in flight stays where it is in line.   *)
Look(t) ==
  /\ pc[t] = "look"
  /\ IF list[t] = <<>> \/ Full(t)
     THEN /\ pc' = [pc EXCEPT ![t] = "off"] /\ list' = [list EXCEPT ![t] = <<>>]
          /\ started' = [started EXCEPT ![t] = 0]
          /\ UNCHANGED raced
     ELSE LET row == Head(list[t])
          IN \/ TrialOver(row) /\ Go(t, "trial") /\ UNCHANGED raced
             \/ /\ ~TrialOver(row) /\ (row.watch \in Stuck \/ Busy(row.watch))
                /\ Drop(t) /\ UNCHANGED raced
             \/ /\ ~TrialOver(row) /\ row.watch \notin Stuck /\ ~Busy(row.watch)
                /\ Go(t, "admit")
                /\ raced' = IF Pending(row.watch) = {} THEN raced ELSE raced \union {row.watch}
  /\ UNCHANGED <<nextRun, gates, sched, other, starts, notices, faults, changes>>

(* The claim comes before the run.                                           *)
ClaimLast == [admit |-> "create", create |-> "hand", hand |-> "claim", claim |-> "look"]
Order == [admit |-> "claim", claim |-> "create", create |-> "hand", hand |-> "look"]
After(t, step) ==
  /\ pc' = [pc EXCEPT ![t] = Order[step]]
  /\ list' = [list EXCEPT ![t] = IF Order[step] = "look" THEN Tail(@) ELSE @]

Admit(t) ==
  /\ pc[t] = "admit"
  /\ IF funded THEN After(t, "admit") /\ UNCHANGED started ELSE Go(t, "dry")
  /\ UNCHANGED <<nextRun, gates, runs, notices, faults, changes>>

Claim(t) ==
  /\ pc[t] = "claim"
  /\ LET w == Head(list[t]).watch
     IN /\ Move(w, Cadence)
        /\ starts' = [starts EXCEPT ![w] = 0]
        /\ raced' = IF Pending(w) = {t} /\ sched[w] = 0 THEN raced \ {w} ELSE raced
  /\ After(t, "claim")
  /\ UNCHANGED <<started, gates, sched, other, notices, faults, changes>>

CreateRun(t) ==
  /\ pc[t] = "create"
  /\ sched' = [sched EXCEPT ![Head(list[t]).watch] = @ + 1]
  /\ starts' = [starts EXCEPT ![Head(list[t]).watch] = @ + 1]
  /\ After(t, "create")
  /\ UNCHANGED <<started, nextRun, gates, other, raced, notices, faults, changes>>

(* CHECK_RUN.create.  A run it does not take stays queued, and is found by   *)
(* the sweep of orphaned runs.                                               *)
HandOff(t) ==
  /\ pc[t] = "hand"
  /\ After(t, "hand")
  /\ started' = [started EXCEPT ![t] = @ + 1]
  /\ UNCHANGED <<nextRun, gates, runs, notices, faults, changes>>

(* pauseExpiredTrial: out of the head of the line, then the notice, once.    *)
InPlace(w) == UNCHANGED nextRun
OutOfLine(w) == Move(w, Recheck)

PauseTrial(t) ==
  /\ pc[t] = "trial"
  /\ LET w == Head(list[t]).watch
     IN /\ OutOfLine(w)
        /\ IF trialStamp[w] THEN Drop(t) ELSE Go(t, "trialMail")
  /\ UNCHANGED <<gates, runs, notices, faults, changes>>

MailTrial(t) ==
  /\ pc[t] = "trialMail"
  /\ IF heard
     THEN trialMailed' = trialMailed \union {Head(list[t]).watch} /\ Go(t, "trialStamp")
     ELSE trialMailed' = trialMailed /\ Drop(t)
  /\ UNCHANGED <<nextRun, gates, runs, stamp, mailed, trialStamp, faults, changes>>

StampTrial(t) ==
  /\ pc[t] = "trialStamp"
  /\ trialStamp' = [trialStamp EXCEPT ![Head(list[t]).watch] = TRUE]
  /\ Drop(t)
  /\ UNCHANGED <<nextRun, gates, runs, stamp, mailed, trialMailed, faults, changes>>

(* pauseBalanceUsedUp: the same, for the team, once per window.              *)
PauseDry(t) ==
  /\ pc[t] = "dry"
  /\ OutOfLine(Head(list[t]).watch)
  /\ Go(t, "dryRead")
  /\ UNCHANGED <<gates, runs, notices, faults, changes>>

Window(row) == IF row.free THEN "ever" ELSE "month"
StampedOnce(k) == stamp # "none"
Stamped(k) == stamp = "now" \/ (k = "ever" /\ stamp = "before")

ReadStamp(t) ==
  /\ pc[t] = "dryRead"
  /\ LET k == Window(Head(list[t]))
     IN IF Stamped(k) THEN Drop(t) ELSE Go(t, "dryMail")
  /\ UNCHANGED <<nextRun, gates, runs, notices, faults, changes>>

(* One mail per address and key, however often it is sent.  With nobody to   *)
(* tell the window is stamped all the same.                                  *)
MailDry(t) ==
  /\ pc[t] = "dryMail"
  /\ mailed' = IF heard THEN mailed \union {Window(Head(list[t]))} ELSE mailed
  /\ Go(t, "dryStamp")
  /\ UNCHANGED <<nextRun, gates, runs, stamp, trialStamp, trialMailed, faults, changes>>

StampDry(t) ==
  /\ pc[t] = "dryStamp"
  /\ stamp' = "now"
  /\ Drop(t)
  /\ UNCHANGED <<nextRun, gates, runs, mailed, trialStamp, trialMailed, faults, changes>>

(* A call throws and the loop goes on with the next Watch (a mail that every *)
(* address refused among them), or the whole invocation ends.                *)
Throws(t) ==
  /\ pc[t] \notin {"off", "look"} /\ Fault /\ Drop(t)
  /\ UNCHANGED <<nextRun, gates, runs, notices, changes>>

Dies(t) ==
  /\ pc[t] # "off" /\ Fault
  /\ pc' = [pc EXCEPT ![t] = "off"] /\ list' = [list EXCEPT ![t] = <<>>]
  /\ started' = [started EXCEPT ![t] = 0]
  /\ UNCHANGED <<nextRun, gates, runs, notices, changes>>

Step(t) == \/ Open(t) \/ Look(t) \/ Admit(t) \/ Claim(t) \/ CreateRun(t) \/ HandOff(t)
           \/ PauseTrial(t) \/ MailTrial(t) \/ StampTrial(t)
           \/ PauseDry(t) \/ ReadStamp(t) \/ MailDry(t) \/ StampDry(t)

-----------------------------------------------------------------------------
(* Runs end; a failure of ours asks for the next try soon.                   *)
RunEnds(w) ==
  /\ \/ sched[w] > 0 /\ sched' = [sched EXCEPT ![w] = @ - 1] /\ UNCHANGED other
     \/ other[w] > 0 /\ other' = [other EXCEPT ![w] = @ - 1] /\ UNCHANGED sched
  /\ \/ UNCHANGED <<nextRun, faults>>
     \/ Fault /\ Move(w, Retry)
  /\ UNCHANGED <<starts, raced, gates, notices, tick, changes>>

(* An hour passes, longer than any tick takes.                               *)
Hour ==
  /\ Between
  /\ \E w \in Watches : wait[w] > 0
  /\ wait' = [w \in Watches |-> IF wait[w] > 0 THEN wait[w] - 1 ELSE 0]
  /\ LET new == {w \in Watches : wait[w] = 1}
     IN \E s \in [1..Cardinality(new) -> new] :
          /\ \A i, j \in DOMAIN s : s[i] = s[j] => i = j
          /\ line' = line \o s
  /\ UNCHANGED <<gates, runs, notices, tick, faults, changes>>

(* What else changes: the owner's switches, the plan, the balance, the       *)
(* month, the list of people told, a re-check of one of the Watch's runs.    *)
(* configureWatch sets nextRunAt anew ...                                    *)
Configure(w) ==
  /\ Change /\ on' = [on EXCEPT ![w] = TRUE] /\ Move(w, Cadence)
  /\ UNCHANGED <<late, free, funded, heard, runs, notices, tick, faults>>

(* ... except when it pauses; the settings form leaves it alone too.         *)
Switch(w) ==
  /\ Change /\ on' = [on EXCEPT ![w] = ~@]
  /\ UNCHANGED <<nextRun, late, free, funded, heard, runs, notices, tick, faults>>

(* Made manual, a Watch loses its nextRunAt, which sorts first.              *)
MakeManual(w) ==
  /\ Change /\ on' = [on EXCEPT ![w] = FALSE]
  /\ line' = <<w>> \o Without(w) /\ wait' = [wait EXCEPT ![w] = 0]
  /\ UNCHANGED <<late, free, funded, heard, runs, notices, tick, faults>>

TrialEnds(w) ==
  /\ Change /\ late' = [late EXCEPT ![w] = TRUE]
  /\ UNCHANGED <<nextRun, on, free, funded, heard, runs, notices, tick, faults>>

PlanChanges ==
  /\ Change /\ free' = ~free
  /\ UNCHANGED <<nextRun, on, late, funded, heard, runs, notices, tick, faults>>

BalanceChanges ==
  /\ Change /\ funded' = ~funded
  /\ UNCHANGED <<nextRun, on, late, free, heard, runs, notices, tick, faults>>

RecipientsChange ==
  /\ Change /\ heard' = ~heard
  /\ UNCHANGED <<nextRun, on, late, free, funded, runs, notices, tick, faults>>

NewMonth ==
  /\ Change /\ Between
  /\ stamp' = IF stamp = "now" THEN "before" ELSE stamp
  /\ mailed' = mailed \ {"month"}
  /\ UNCHANGED <<nextRun, gates, runs, trialStamp, trialMailed, tick, faults>>

(* createRecheckRun does not ask whether a run is in flight.                 *)
RecheckRun(w) ==
  /\ Change /\ other' = [other EXCEPT ![w] = @ + 1]
  /\ UNCHANGED <<nextRun, gates, sched, starts, raced, notices, tick, faults>>

World == \/ PlanChanges \/ BalanceChanges \/ RecipientsChange \/ NewMonth
         \/ \E w \in Watches : \/ Configure(w) \/ Switch(w) \/ MakeManual(w)
                               \/ TrialEnds(w) \/ RecheckRun(w)

Next == \/ \E t \in Ticks : Step(t) \/ Throws(t) \/ Dies(t)
        \/ \E w \in Watches : RunEnds(w)
        \/ Hour \/ World

Spec == Init /\ [][Next]_vars

(* The cron fires and a tick goes on, runs end (CheckRun: InFlightEnds), and *)
(* time passes between the ticks, four of which fill an hour.               *)
Fairness == /\ \A t \in Ticks : WF_vars(Step(t))
            /\ \A w \in Watches : WF_vars(RunEnds(w))
            /\ SF_vars(Hour)
FairSpec == Spec /\ Fairness

-----------------------------------------------------------------------------
(* Properties.                                                               *)

Steps == {"off", "look", "admit", "claim", "create", "hand", "trial", "trialMail",
          "trialStamp", "dry", "dryRead", "dryMail", "dryStamp"}

(* The rows and the ticks keep their types; a tick holds no more candidates  *)
(* than it may read.                                                         *)
TypeOK ==
  /\ line \in Seq(Watches) /\ wait \in [Watches -> Nat]
  /\ on \in [Watches -> BOOLEAN] /\ late \in [Watches -> BOOLEAN]
  /\ free \in BOOLEAN /\ funded \in BOOLEAN /\ heard \in BOOLEAN
  /\ sched \in [Watches -> Nat] /\ other \in [Watches -> Nat] /\ starts \in [Watches -> Nat]
  /\ raced \subseteq Watches
  /\ stamp \in {"none", "before", "now"} /\ mailed \subseteq Windows
  /\ trialStamp \in [Watches -> BOOLEAN] /\ trialMailed \subseteq Watches
  /\ pc \in [Ticks -> Steps] /\ list \in [Ticks -> Seq(Row)]
  /\ \A t \in Ticks : Len(list[t]) <= CandidateLimit
  /\ started \in [Ticks -> 0..MaxPerTick]
  /\ faults \in 0..MaxFaults /\ changes \in 0..MaxChanges

(* A Watch has one scheduled run in flight, however late the run is and      *)
(* however early the Watch comes due again, whichever ticks overlap: unless  *)
(* two of them counted its runs before either had created one.  The claim    *)
(* takes the row without looking at it, so it does not settle that race      *)
(* (scheduler.ts:197-204 says it does).                                      *)
OneScheduledRun == \A w \in Watches \ raced : sched[w] <= 1

(* ... and, with the same exception, it is started once per claim: a tick    *)
(* that stops anywhere, retried or not, costs a cycle and never a second run.*)
OneStartPerClaim == \A w \in Watches \ raced : starts[w] <= 1

(* A Watch that should run is run: no paused, stuck or busy Watch ahead of   *)
(* it keeps it from its turn.                                                *)
Runnable(w) == on[w] /\ funded /\ ~(free /\ late[w])
RunnableStarts ==
  \A w \in Watches \ Stuck : Runnable(w) ~> (sched[w] > 0 \/ ~Runnable(w))

(* A pause is told, though a tick dies or a mail is refused: a balance that   *)
(* is dry between two ticks of a window that was not told or written off for  *)
(* want of an address (scheduler.ts:320-351), and a trial that ended.         *)
Dry == ~funded /\ heard /\ \E w \in Watches \ Stuck : on[w] /\ ~(free /\ late[w])
Untold == mailed = {} /\ (stamp = "none" \/ (stamp = "before" /\ ~free))
TrialPaused(w) == on[w] /\ free /\ late[w] /\ heard
PausedIsTold ==
  /\ (Dry /\ Between /\ Untold) ~> (mailed # {} \/ ~Dry \/ (stamp = "before" /\ free))
  /\ \A w \in Watches : TrialPaused(w) ~> (w \in trialMailed \/ ~TrialPaused(w))
=============================================================================
