----------------------------- MODULE PaidCheck ------------------------------
(* The paid one-off check (lib/one-check.ts): the form parked while the       *)
(* visitor pays, the run started from it by Stripe's webhook or by the        *)
(* success page's poll, whichever comes first, the receipt, the sweep of      *)
(* parked rows (agent/janitor.ts), and the re-check owed for a paid run that  *)
(* failed (lib/recheck.ts).  Every database call and every call to Stripe is  *)
(* a step; starters and browser tabs interleave between any two, a call may   *)
(* throw, and a process may stop.  What becomes of a run that was not handed  *)
(* off is CheckRun's.                                                         *)
EXTENDS Naturals, Sequences

CONSTANTS
  Starters,   \* webhook deliveries and polls that may be under way at once
  Tabs,       \* browser tabs that show the failed run
  MaxFaults,  \* bound: calls that throw
  MaxStops    \* bound: processes that stop between two calls

ASSUME PaidAssumption == MaxFaults \in Nat /\ MaxStops \in Nat

VARIABLES
  door,      \* what POST /api/billing/one-check does next
  parked,    \* the PendingCheck row: "none", "row", "gone"
  secret,    \* it holds the encrypted passwords
  linked,    \* its runId: 0 while null, else the number of the run
  session,   \* the Checkout Session: "none", "open", "paid", "expired"
  known,     \* the row names it, and the visitor has its address
  clock,     \* 0, 1: past the row's expiresAt, 2: past the session's
  runs,      \* the runs inserted for the session; TRUE holds the passwords
  outcome,   \* how the first of them ended
  receipts,  \* receipts Stripe sent
  acked,     \* a delivery was answered 200: Stripe retries no more
  at, job,   \* per starter: its next step, and what it carries there
  claimed,   \* the Counter row of the owed re-check
  retries,   \* owed re-checks inserted
  press,     \* per tab: the next step
  faults, stops

form    == <<door, parked, secret, linked, known>>
stripe  == <<session, clock, receipts, acked>>
starter == <<at, job>>
retry   == <<claimed, retries, press>>
bounds  == <<faults, stops>>
vars    == <<form, stripe, runs, outcome, starter, retry, bounds>>

Job   == [hook : BOOLEAN, secret : BOOLEAN, run : Nat]
NoJob == [hook |-> FALSE, secret |-> FALSE, run |-> 0]

Init == /\ door = "park" /\ parked = "none" /\ secret = FALSE /\ linked = 0 /\ known = FALSE
        /\ session = "none" /\ clock = 0 /\ receipts = 0 /\ acked = FALSE
        /\ runs = <<>> /\ outcome = "none"
        /\ at = [s \in Starters |-> "idle"] /\ job = [s \in Starters |-> NoJob]
        /\ claimed = FALSE /\ retries = 0 /\ press = [t \in Tabs |-> "idle"]
        /\ faults = 0 /\ stops = 0

Fault == faults < MaxFaults /\ faults' = faults + 1 /\ UNCHANGED stops
Halt  == stops < MaxStops /\ stops' = stops + 1 /\ UNCHANGED faults

-----------------------------------------------------------------------------
(* The form is parked, the session created, and its id kept on the row before *)
(* the visitor is sent to pay.  A request that goes no further leaves a row   *)
(* nobody can pay for.                                                        *)
Park ==
  /\ door = "park" /\ door' = "session"
  /\ parked' = "row" /\ secret' = TRUE
  /\ UNCHANGED <<linked, known, stripe, runs, outcome, starter, retry, bounds>>

CreateSession ==
  /\ door = "session" /\ door' = "keep"
  /\ session' = "open"
  /\ UNCHANGED <<parked, secret, linked, known, clock, receipts, acked, runs, outcome, starter, retry, bounds>>

Keep ==
  /\ door = "keep" /\ door' = "done"
  /\ parked = "row" /\ known' = TRUE
  /\ UNCHANGED <<parked, secret, linked, stripe, runs, outcome, starter, retry, bounds>>

DoorFails ==
  /\ door \in {"session", "keep"} /\ door' = "done"
  /\ Fault \/ Halt
  /\ UNCHANGED <<parked, secret, linked, known, stripe, runs, outcome, starter, retry>>

Pay ==
  /\ session = "open" /\ known /\ session' = "paid"
  /\ UNCHANGED <<form, clock, receipts, acked, runs, outcome, starter, retry, bounds>>

(* The row was made first: it expires before the session does.                *)
Expire ==
  /\ clock < 2 /\ door = "done"
  /\ clock' = clock + 1
  /\ session' = IF clock' = 2 /\ session = "open" THEN "expired" ELSE session
  /\ UNCHANGED <<form, receipts, acked, runs, outcome, starter, retry, bounds>>

(* sweepExpiredPendingChecks: past its expiry and without a run.              *)
SweepPending ==
  /\ parked = "row" /\ linked = 0 /\ clock > 0
  /\ parked' = "gone" /\ secret' = FALSE
  /\ UNCHANGED <<door, linked, known, stripe, runs, outcome, starter, retry, bounds>>

-----------------------------------------------------------------------------
(* The starters.                                                              *)

Goto(s, step, j) == at' = [at EXCEPT ![s] = step] /\ job' = [job EXCEPT ![s] = j]
Return(s) == Goto(s, "idle", NoJob)

(* Stripe delivers checkout.session.completed until it is answered 200, and   *)
(* sometimes again.                                                           *)
Deliver(s) ==
  /\ at[s] = "idle" /\ session = "paid"
  /\ Goto(s, "read", [NoJob EXCEPT !.hook = TRUE])
  /\ UNCHANGED <<form, stripe, runs, outcome, retry, bounds>>

(* paidCheckState: a row that names its run says so; else Stripe is asked.    *)
Poll(s) ==
  /\ at[s] = "idle" /\ known /\ parked = "row" /\ linked = 0
  /\ Goto(s, "retrieve", NoJob)
  /\ UNCHANGED <<form, stripe, runs, outcome, retry, bounds>>

Retrieve(s) ==
  /\ at[s] = "retrieve"
  /\ IF session = "paid" THEN Goto(s, "read", NoJob) ELSE Return(s)
  /\ UNCHANGED <<form, stripe, runs, outcome, retry, bounds>>

(* startPaidCheck, and what follows it in its caller.                         *)
Started(s) == IF job[s].hook THEN Goto(s, "receipt", NoJob) ELSE Return(s)

(* A row that is gone starts nothing; one whose run exists is done.           *)
Read(s) ==
  /\ at[s] = "read"
  /\ IF parked # "row" \/ linked \in 1..Len(runs)
     THEN Started(s)
     ELSE Goto(s, "bySession", [job[s] EXCEPT !.secret = secret])
  /\ UNCHANGED <<form, stripe, runs, outcome, retry, bounds>>

(* A run is inserted before the row is told of it.                            *)
RecordFirst == [found |-> "record", new |-> "record", record |-> "insert", insert |-> "done"]
Follows == [found |-> "record", new |-> "insert", insert |-> "record", record |-> "done"]
Go(s, case, n) ==
  IF Follows[case] = "done" THEN Started(s)
  ELSE Goto(s, Follows[case], [job[s] EXCEPT !.run = n])

BySession(s) ==
  /\ at[s] = "bySession"
  /\ IF runs # <<>> THEN Go(s, "found", 1) ELSE Go(s, "new", 1)
  /\ UNCHANGED <<form, stripe, runs, outcome, retry, bounds>>

(* startCheck.  paidCheckoutSessionId is unique: the loser of a race takes    *)
(* the winner's run.  The hand-off after the insert may throw (Throw).        *)
NeverTaken == FALSE
Taken == runs # <<>>

Insert(s) ==
  /\ at[s] = "insert"
  /\ IF Taken
     THEN runs' = runs /\ Go(s, "insert", 1)
     ELSE runs' = Append(runs, job[s].secret) /\ Go(s, "insert", Len(runs) + 1)
  /\ UNCHANGED <<form, stripe, outcome, retry, bounds>>

(* recordStarted: the passwords leave the row.  The update of a row that was  *)
(* swept throws.                                                              *)
Kept == secret
Emptied == FALSE

Record(s) ==
  /\ at[s] = "record"
  /\ IF parked = "row"
     THEN linked' = job[s].run /\ secret' = Emptied /\ Go(s, "record", job[s].run)
     ELSE Return(s) /\ UNCHANGED <<linked, secret>>
  /\ UNCHANGED <<door, parked, known, stripe, runs, outcome, retry, bounds>>

(* sendPaidCheckReceipt: the charge is read, and updated under an idempotency *)
(* key of its own, so that Stripe performs the update once.                   *)
Receipt(s) ==
  /\ at[s] = "receipt"
  /\ IF receipts = 0
     THEN Goto(s, "send", NoJob) /\ UNCHANGED acked
     ELSE Return(s) /\ acked' = TRUE
  /\ UNCHANGED <<form, session, clock, receipts, runs, outcome, retry, bounds>>

FirstUse == receipts = 0

Send(s) ==
  /\ at[s] = "send"
  /\ receipts' = IF FirstUse THEN receipts + 1 ELSE receipts
  /\ Return(s) /\ acked' = TRUE
  /\ UNCHANGED <<form, session, clock, runs, outcome, retry, bounds>>

(* A starter that throws answers 500.                                         *)
Swallows == TRUE
AnswersOk == FALSE

Throw(s) ==
  /\ at[s] # "idle" /\ Return(s) /\ (Fault \/ Halt)
  /\ acked' = (acked \/ (AnswersOk /\ (job[s].hook \/ at[s] \in {"receipt", "send"})))
  /\ UNCHANGED <<form, session, clock, receipts, runs, outcome, retry>>

Step(s) == \/ Retrieve(s) \/ Read(s) \/ BySession(s) \/ Insert(s) \/ Record(s)
           \/ Receipt(s) \/ Send(s)

RunEnds ==
  /\ runs # <<>> /\ outcome = "none" /\ outcome' \in {"completed", "failed"}
  /\ UNCHANGED <<form, stripe, runs, starter, retry, bounds>>

-----------------------------------------------------------------------------
(* The owed re-check: paidRetryOwed, claimPaidRetry, and the start.  A tab    *)
(* that is owed nothing goes through the gates of any anonymous press.        *)
PressGo(t, step) == press' = [press EXCEPT ![t] = step]

Press(t) ==
  /\ press[t] = "idle" /\ outcome = "failed" /\ ~claimed
  /\ PressGo(t, "claim")
  /\ UNCHANGED <<form, stripe, runs, outcome, starter, claimed, retries, bounds>>

AlwaysFree == TRUE
Free == ~claimed

ClaimRetry(t) ==
  /\ press[t] = "claim"
  /\ IF Free THEN claimed' = TRUE /\ PressGo(t, "create")
             ELSE claimed' = claimed /\ PressGo(t, "idle")
  /\ UNCHANGED <<form, stripe, runs, outcome, starter, retries, bounds>>

CreateRetry(t) ==
  /\ press[t] = "create" /\ retries' = retries + 1 /\ PressGo(t, "trigger")
  /\ UNCHANGED <<form, stripe, runs, outcome, starter, claimed, bounds>>

TriggerRetry(t) ==
  /\ press[t] = "trigger" /\ PressGo(t, "idle")
  /\ UNCHANGED <<form, stripe, runs, outcome, starter, claimed, retries, bounds>>

(* The insert or the hand-off throws: the claim goes back.                    *)
Catch == "release"

RetryThrows(t) ==
  /\ press[t] \in {"create", "trigger"} /\ Fault /\ PressGo(t, Catch)
  /\ UNCHANGED <<form, stripe, runs, outcome, starter, claimed, retries>>

Release(t) ==
  /\ press[t] = "release" /\ claimed' = FALSE /\ PressGo(t, "idle")
  /\ UNCHANGED <<form, stripe, runs, outcome, starter, retries, bounds>>

(* The process stops; a release that throws is only logged, which is the same. *)
RetryStops(t) ==
  /\ press[t] # "idle" /\ Halt /\ PressGo(t, "idle")
  /\ UNCHANGED <<form, stripe, runs, outcome, starter, claimed, retries>>

Tab(t) == Press(t) \/ ClaimRetry(t) \/ CreateRetry(t) \/ TriggerRetry(t)
          \/ RetryThrows(t) \/ Release(t) \/ RetryStops(t)

Next == \/ Park \/ CreateSession \/ Keep \/ DoorFails \/ Pay \/ Expire \/ SweepPending
        \/ RunEnds
        \/ \E s \in Starters : Deliver(s) \/ Poll(s) \/ Step(s) \/ Throw(s)
        \/ \E t \in Tabs : Tab(t)

Spec == Init /\ [][Next]_vars

(* The request and the starters go on, and Stripe delivers until it is        *)
(* answered.  Nobody has to poll, pay or press, and time may stand still.     *)
Redeliver == ~acked /\ \E s \in Starters : Deliver(s)
Fairness == /\ WF_vars(Park \/ CreateSession \/ Keep)
            /\ \A s \in Starters : WF_vars(Step(s))
            /\ SF_vars(Redeliver)
FairSpec == Spec /\ Fairness

(* Time passes, and the janitor runs on every tick.                           *)
TimePasses == WF_vars(Expire) /\ WF_vars(SweepPending)

-----------------------------------------------------------------------------
(* Properties.                                                                *)

Steps == {"idle", "retrieve", "read", "bySession", "insert", "record", "receipt", "send"}

(* The rows keep their types, and the parked row names a run that exists.     *)
TypeOK ==
  /\ door \in {"park", "session", "keep", "done"}
  /\ parked \in {"none", "row", "gone"} /\ secret \in BOOLEAN /\ known \in BOOLEAN
  /\ session \in {"none", "open", "paid", "expired"} /\ clock \in 0..2
  /\ runs \in Seq(BOOLEAN) /\ linked \in 0..Len(runs)
  /\ outcome \in {"none", "completed", "failed"}
  /\ receipts \in Nat /\ acked \in BOOLEAN
  /\ at \in [Starters -> Steps] /\ job \in [Starters -> Job]
  /\ claimed \in BOOLEAN /\ retries \in Nat
  /\ press \in [Tabs -> {"idle", "claim", "create", "trigger", "release"}]
  /\ faults \in 0..MaxFaults /\ stops \in 0..MaxStops

(* One payment buys one run, however many deliveries and polls start it at    *)
(* once, and nothing runs that was not paid.                                  *)
OneRunPerPayment == Len(runs) <= (IF session = "paid" THEN 1 ELSE 0)

(* The run holds the passwords that were typed, though an earlier start       *)
(* stopped half way.                                                          *)
RunSignsIn == \A i \in 1..Len(runs) : runs[i]

(* Stripe sends one receipt.                                                  *)
ReceiptOnce == receipts <= 1

(* Stripe stops retrying when the run is there and the receipt is sent, and   *)
(* not before (but for a row the janitor has swept).                          *)
AckedIsServed == acked => (runs # <<>> \/ parked = "gone") /\ receipts > 0

(* One re-check is owed (recheck.ts:157-162), and another is only ever        *)
(* granted for one whose start threw, never to two tabs.                      *)
RetryPerThrow == retries <= 1 + faults

(* A claim that is held belongs to a re-check that was started, or is about   *)
(* to be: a start that threw is still owed.                                   *)
ClaimIsARetry ==
  claimed /\ stops = 0 => \/ retries > 0
                          \/ \E t \in Tabs : press[t] \in {"create", "trigger", "release"}

(* What is swept was never paid for (janitor.ts:74-78): a paid check that has  *)
(* no run yet keeps its row.                                                  *)
PaidRowKept == session = "paid" /\ runs = <<>> => parked = "row"

(* A paid check is started, however late the webhook and whatever throws, as  *)
(* long as the janitor has not swept its row.                                 *)
PaidIsServed == session = "paid" ~> (runs # <<>> \/ parked = "gone")

(* The parked passwords go: when the check starts, or when the row expires.   *)
PasswordsLeave == TimePasses => (secret ~> ~secret)
=============================================================================
