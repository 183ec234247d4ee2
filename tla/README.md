# CheckMyApp: specifications

CheckMyApp takes the address of a web app, walks it with a browser and a model, and publishes a
verdict. It runs as two Cloudflare workers over one D1 database: `checkmyapp-web` (Next.js, the
doors through which checks are started and money comes in) and `checkmyapp-agent` (a durable
Workflow per check, and a cron tick every 15 minutes). D1 has no interactive transactions, Workflow
steps run at least once, Stripe and GitHub deliver their webhooks at least once, and every process
can stop between two calls. The correctness of the program therefore rests on the *order* of its
single-row writes and on the conditions they carry. These modules are about that order.

Paths below are relative to the repository root. `PROJECT.json` maps every definition to the lines
it stands for.

## Inventory

| Component | State it keeps | Operations | What makes it hard |
|---|---|---|---|
| Team balance (`src/agent/pricing.ts`, `src/lib/plans.ts`) | `Run.priceUsd`, `Run.priceFromTopupUsd`, `Team.topupUsd`; the plan's credit is a sum over rows | admit a check, price a finished run, void a failed one | read, conditional claim, then a second write that moves money; the step, the failure handler and the sweep price one run |
| Top-ups (`src/lib/topup.ts`, `src/app/api/webhooks/stripe/route.ts`) | `BalanceTopUp` receipt, `Team.topupUsd` | credit a paid session | redelivery, two deliveries at once, a stop between the claim and the increment |
| A check's life (`src/agent/workflow.ts`, `src/agent/orphan-runs.ts`, `src/lib/start-check.ts`) | `Run.status`, price, credentials, mail, the Workflow instance | door, phases, publish, price, notify, cleanup, failure handler, sweep | steps run again, steps failing for good, a hand-off that does not land, a sweep that works on the same row |
| GitHub App (`src/lib/github-webhook.ts`, `src/lib/github-app.ts`) | a deploy's claim, the Check Run on the commit | claim, bind, open, answer | the door and the run both write the commit's answer |
| Watches (`src/agent/scheduler.ts`, `src/lib/watch-enable.ts`, `src/lib/app-settings.ts`) | `Watch.nextRunAt`, switches, trial and balance stamps | the tick, its two pauses and notices, the owner's switches | a bounded read of a sorted queue, overlapping ticks, ticks that die, mail refused |
| Paid one-off check (`src/lib/one-check.ts`, `src/app/api/billing/one-check/route.ts`) | `PendingCheck`, the Checkout Session, the run's unique session id | park, pay, start, receipt, sweep | the webhook and the poll start the same check; the sweep deletes by age |
| Re-check (`src/lib/recheck.ts`) | a `Counter` row per owed re-check | claim, start, release | two tabs; a start that fails half way |
| Members, invites, seats (`src/lib/membership.ts`, `invites.ts`, `seats.ts`, `billing-sync.ts`, `src/app/team/actions.ts`) | `Membership`, `TeamInvite`, the subscription's quantity | scope change, removal, leaving, inviting, accepting, seat sync | check-then-write on the list of admins, two writes of one acceptance, counts sent late |
| Team plan (`src/app/api/webhooks/stripe/route.ts`, `src/app/api/billing/checkout/route.ts`) | `Team.plan`, `stripeSubscriptionId`, `stripeCustomerId` | checkout, four kinds of event | events late, out of order, again; more than one subscription |
| Session host (`spikes/shopify-session/`, `src/agent/session-browser.ts`) | the lease book, one connection, a chain of upgrades | lease, renew, release, upgrade, sweep; a person's view | checks take turns in one browser with a person; Workers die, leases lapse, tabs do not close |
| Saved app's doors (`src/lib/start-saved-app.ts`) | the app's run in flight | start | check-then-insert by several doors |
| Issue ledger (`src/lib/tracker/file.ts`, `src/agent/autofile.ts`, `src/agent/reconcile.ts`) | `IssueLink`, `SettledSignature`, the tracker's tickets | file, comment, settle, reverify | a ticket is created before the row that remembers it |
| Journey catalog (`src/agent/journey-catalog.ts`) | `AppJourney` rows, aliases, funnels, miss counts | resolve, record, retire | identity across runs, grace periods |
| The rest | | | discovery, judging and synthesis are calls to a model and a browser; see *Not modelled* |

How they meet: a **door** inserts a run (through the balance's gate) and hands it to the
**Workflow**; the Workflow prices it, mails it, answers its commit and may move its Watch's
`nextRunAt`; the **scheduler** is a door that also waits for a Watch's earlier runs to end; the
**sweep** runs on the scheduler's tick; the **Stripe webhook** starts paid checks, credits top-ups
and sets plans. `CheckRun`'s `InFlightEnds` (every run ends) is what `WatchScheduler` assumes of
`RunEnds`; `Balance` takes "the run ended", with the sweep-then-complete case, from what `CheckRun`
allows.

## Modules

| Module | Models |
|---|---|
| `Ledger` | the abstract promise of a balance: every run is charged once, a charge is given back at most once and in full, every paid top-up is credited once |
| `Balance` | the database calls behind it, each a step; workers interleave between any two |
| `CheckRun` | one check from the door's insert to the end of its instance, with the orphan sweep and the commit's answer |
| `WatchScheduler` | the cron tick, its pauses and notices, the owner's and the plan's changes |
| `PaidCheck` | the parked form, its payment, the two starters, the receipt, the sweep, the owed re-check |
| `SessionHost` | the lease book of the signed-in browser, its upgrades and connections, the person, the runs that take turns |
| `IssueLedger` | one problem's link, settlements and tickets under overlapping checks and presses |
| `Team` | members, invitations and seats, every call of a door a step |
| `TeamPlan` | subscriptions, their events, and the plan the webhook writes |
| `*_proofs` | the inductive invariants and the theorems of a module |
| `MC*` | the model values and symmetry of the runs; most extend the proof module, the others the specification itself, so that the runs also evaluate the assumptions |

### Balance and Ledger

A worker (`at[w]`, `job[w]`) is one invocation that makes its database calls one after another and
carries what it read between them: `PriceRun, ReadBalance, ClaimPrice, Debit` is `priceRun`,
`VoidRead, VoidClaim, Refund` is `voidRunPrice`, `DeliverTopUp, CreditClaim, Increment` is
`creditTopUp`. `Unpriced`, `AsRead` and `Uncredited` are the conditions of the three `updateMany`
claims. `Stop` ends an invocation between two calls; since a stopped step or delivery may be run
again, any worker may start any operation at any time. Months pass (`NextMonth`), and the plan's
credit is the sum over the rows of the window (`planSpent`). `charged, took, gave, moved, acked,
ledger, overtaken` are history; `overtaken` are the runs whose pricing had read the balance and not yet
claimed when another run's claim went through.

`LedgerSpec` is the refinement: a *charge* is the claim on a null price, a *give-back* the claim on
the values read, a *credit* the claim on the receipt. The movement of `Team.topupUsd` is a later
write, so `bought` in the abstract module is what the entries say, and `BalanceMatchesRows` is how
far `Team.topupUsd` is from it: by exactly what claimed movements are still on their way, until a
worker stops.

### CheckRun

`pc` is the step of the Workflow instance; every `step.do` of `workflow.ts` that changes the row or
tells somebody is an action, and a step's outcome is *goes on*, *runs again after it took effect*
(`Again`, at-least-once execution), or *fails for good* (`Fails`, `Throw`), the last two bounded by
`MaxReruns` and `MaxThrows`. The writes of status are unconditional in the code and in the model. The
handler (`Fail`, `PriceFinished`, `VoidFailed`, `AnswerFailed`) is the `catch` around the phases,
with its own failures: pricing errors are caught, the fail step's own are not. The sweep
(`SweepFind` to `SweepAfter`) is `orphan-runs.ts`, call by call; any error of the status call reads as
"no instance", which is what `MaxOutages` bounds. An answer that GitHub does not take, retries and all, is
swallowed and the Check Run left as it is, by the instance's steps and by the sweep
(`src/agent/workflow.ts:102-135`, `src/agent/orphan-runs.ts:156`); `missed` counts those, up to `MaxMissed`. What a phase finds out is left out, down to the two
facts the control depends on: whether known journeys are still to be listed (`carries`), and whether
the app turned the check away at the door.

### WatchScheduler

`line` is the due Watches by `nextRunAt`, each in one place; a claim or a pause takes a Watch out of it for
so many hours (`Move`). A tick reads the first `CandidateLimit` places that are switched on (`Candidates`) once, with the plan and the trial as they were then,
and works through them in order, every database call and mail a step. Ticks are numbered, and one takes the
first number that is free; one that begins before the one before is over counts as a change (`MaxChanges`).
As the claim is an update by id, two such ticks can both find a Watch free and both start it: `raced` is the
Watches that was true of, each until a tick alone claims it with none of its runs in flight. `Throws` is the `catch` around
one Watch, `Dies` the end of the invocation. An `Hour` passes only between ticks. The notices are keyed:
`mailed` is the set of idempotency keys under which the balance mail went out, `stamp` is
`Team.balanceNoticeSentAt` relative to the month. A Watch starts out a cadence before its first run.

### PaidCheck

`Park, CreateSession, Keep` is `POST /api/billing/one-check`. A starter is a webhook delivery
(`job.hook`) or a poll of the success page; both run `startPaidCheck` (`Read, BySession, Insert,
Record`), the delivery also sends the receipt and is answered 200 only at its end (`acked`). `Taken`
is the unique key on `Run.paidCheckoutSessionId`. A `Throw` after the insert stands for a hand-off
that failed, a starter that stopped, and a `recordStarted` that found no row. `Expire` moves the clock
past the row's expiry and then past the session's: the row is created first, with the same 24 hours,
so it expires first. Tabs press re-check on the failed run: `Press` is `paidRetryOwed`, `ClaimRetry`
the insert of the `Counter` row, `RetryThrows, Release` the `catch` of `createRecheckRun`.

### SessionHost

`holder` and `session` are `LeaseBook.lease`; `Lapse` is its time running out, at any moment. A socket's
`stage` follows its upgrade through `serialised` (`queued`, `ending` the connection before it, `opening`
the browser), to `live`, and out again: `end` forgets the connection at once and closes its tabs
afterwards (`closing`, `bare`), unless it was the browser that broke off (`BrowserGone`), and `LetGo` stands both for tabs that are gone and for `closeWaitMs`
that is over. `Attach` looks at the lease a second time, after the browser has answered. A run (`pc`)
asks for its turn before a phase, leases again, dials, works, closes; `Dies` is a Worker that closes
nothing, and a dead run's release may still come late. The look of a handler and its write are one step
where the server has no `await` between them.

### IssueLedger

An actor is a check of the app or a person's press; `at` is its next call to the database or the tracker,
`job` what it has read. `Sync` to `Settle` is `reconcileIssueLinks`, `Look` to `Upsert` is `autoFileFindings`
and `fileFindingTicket`, `ReadFixed` to `Seal` is `verifyFixedLinks`. `Update` is a write by the row's id,
which throws when the row went with its app. `Throws` is a call that fails, `Again` a step of the Workflow
that runs once more, `Readd` the app removed and added again under its slug, which keeps the settlements
and nothing else. `stale` counts the writes that met another row than the one the actor had read.

### Team

A request (`job`) makes its calls one after another: `Ask, Decide, Write` is a scope change, a removal or a
leaving; `Open, Join, Stamp` an acceptance; both end with `ReadSub, Count, Push`, which is `syncTeamSeats`.
`fresh[r]` says that the members are still those the request has read, `owed` that no count known to be the
team's has been sent since the members or the subscription changed. A scope change writes whatever string
its form held (`src/app/team/actions.ts:122-133`); `other` stands for each that names no scope. A person who has
one can do nothing, not even leave, until an admin changes it. `Return` is `activeTeamContext`, which makes a person with no membership the admin of
their personal team, removed from it or not. `Subscribe` and `Unsubscribe` are what `TeamPlan`'s webhook
does to the team's row.

### TeamPlan

`subs` and `custOf` are what Stripe holds, `mail` the events it has not had an answer for. `Retrieve` and
`Complete` are the two calls of a completed checkout, which writes what the subscription was when it
was retrieved; `Update` and `Delete` write what the event says. `Comp` is a subscription set up in Stripe
without a checkout, of which there are at most `MaxGiven`. An event is handled in any order and, within
`MaxRepeats`, again; `reordered` says that one was handled before an older one was done, `given` which
subscriptions were set up in Stripe without a checkout. `PlanInStep` makes an exception of those: no
completion names them to the team, so one whose customer another checkout has replaced is never found. With
two subscriptions that cannot happen; the proof needed the case, and three show it.

## Runs

`tlc -config <cfg> <module>`; times are of a two-worker run.

| Run | Bounds | What it shows |
|---|---|---|
| `MCBalance.cfg` | 2 runs priced 2 and 3 against a credit of 2, 2 top-ups, 3 workers, 1 stop, 2 months; 1.7M states, 2.5 min | `TakenOnce`, the refinement `LedgerSpec`; `OverspendBounded`: a window's credit is spent once, and once more only for each run whose pricing another one overtook; `BalanceMatchesRows` |
| `MCBalance_stop.cfg` | 1 run, 1 top-up, 2 workers, 1 stop | **violated**: `AckedIsCredited`. See *Findings* |
| `MCCheckRun.cfg` | 2 re-runs, 2 steps failing for good, 1 answer GitHub does not take, 1 platform outage; all kinds of check; 78k states | `ToldVerdictStands`, `FailedIsFree`, `FinishedIsPriced`, `UncutIsAnswered`, `TerminalIsFinal`; live: `InFlightEnds` |
| `MCWatchScheduler.cfg` | 2 Watches, 2 ticks, 1 row per read, 1 run per tick, 1 fault, 1 change or overlap; 165k states, 2 min | `OneScheduledRun`, `OneStartPerClaim`, of every Watch that no two ticks raced for; live: `RunnableStarts` (no paused or busy Watch starves another, with a read one row deep), `PausedIsTold` |
| `MCPaidCheck.cfg` | 2 starters, 2 tabs, 1 call that throws, 1 process that stops; 126k states | `OneRunPerPayment`, `RunSignsIn`, `AckedIsServed`, `RetryPerThrow`; live: `PaidIsServed`, `PasswordsLeave` |
| `MCPaidCheck_swept.cfg` | 1 starter, no stop | **violated**: `PaidRowKept` |
| `MCSessionHost.cfg` | 2 runs, 2 sockets, 4 session ids; 198k states, 80 s | `OneVisitor`, `TurnIsKept`, `PersonUndisturbed`; live: `LapsedIsEnded`, `UpgradeAnswered` |
| `MCIssueLedger.cfg` | 2 actors, 2 tickets, 4 checks, 1 upset, escalation at the second occurrence; 1.8M states, 70 s | `TicketsRemembered`, `RejectedIsFinal`, `ResolvedIsVerified` |
| `MCTeam.cfg` | 3 people, 2 requests, 1 invitation, 1 subscription, 1 stop; 5.0M states, 3 min | `AdminIsKept`, `InviteIsSpent`, `SeatsAgree` |
| `MCTeam_admin.cfg` | the same without subscriptions and stops | **violated**: `TeamHasAdmin` |
| `MCTeamPlan.cfg` | 3 subscriptions, 1 change, 1 repeat, at most 2 events waiting (`Waiting`); 3.9M states, 2 min | `PlanInStep` |
| `MCTeamPlan_second.cfg` | 2 subscriptions, both by checkout (`MaxGiven` = 0), no change, no repeat | **violated**: `PayingIsServed` |

Why these bounds are enough. The races are between two actors over one row; a third actor (the third
worker of `MCBalance`, the third person of `MCTeam`) lets one interfere while two race: with two workers
nothing is priced or voided between the read and the claim of each of two others. Two runs are enough for
the credit to be shared, since the bound grows with the pricings that were overtaken and not with the runs: a
run priced after another one has to make do with what that left. Two ticks are a slow one and the one that does
not wait for it. A stop, a fault or a
failing step occurs at every place it can; two of them show what the first one's recovery is worth
(`CheckRun`), and where one is the bound, the property's statement or the proof says what a second one
does. Prices straddle the credit, so that each split (all credit, all bought, some of both) occurs.
`CandidateLimit` and `MaxPerTick` are 1, below the number of Watches, so that the limits bite. Two
tickets are a ticket and the one that supersedes it, four checks are two that overlap and two that come
after. Three people are two admins who judge each other and a third who joins meanwhile. A third
subscription replaces the team's customer under the one that was set up in Stripe; with three, `MCTeamPlan`
is finite but large, so its state constraint `Waiting` looks no further where three events wait; `PlanFollows`
is proved without it. No other run has a state constraint. Deadlock is not checked: a finished check, or one that nobody pays for,
really stops.

### Fairness

- `CheckRun`: a door's request finishes, the engine carries an instance on, time passes, the cron
  ticks (weak fairness on each). That a step fails or is run again is promised by nobody, so those have
  none.
- `WatchScheduler`: a tick goes on and runs end (weak). `Hour` is strong: it is enabled only between
  two ticks, and back-to-back ticks disable it again and again, but a quarter of an hour lies between
  two ticks whatever they do.
- `PaidCheck`: the request and each starter go on (weak), and Stripe delivers until it is answered
  200 (strong: a delivery needs a free starter, and a poll can take it). Nobody has to poll, pay or
  press, and time may stand still; only `PasswordsLeave` assumes that time passes and that the janitor
  runs, in its own antecedent.
- `SessionHost`: the server's timers fire, its chain of upgrades goes on, and the browser answers an
  upgrade in one way or the other (weak). Nobody's browser has to close a tab, no Worker to close its
  socket, no release to arrive.
- `Balance`, `IssueLedger`, `Team` and `TeamPlan` state no fairness: their properties are safety.

## Findings

Each is one violating run; the trace is short.

- **A top-up can be lost** (`MCBalance_stop`): a webhook that stops after claiming the receipt and
  before the increment leaves a receipt that says credited; the retry is answered 200 and moves
  nothing.
- **A paid check's row can be swept** (`MCPaidCheck_swept`): the janitor asks for age and a null `runId`,
  not whether the session was paid; what is left answers the next delivery 200 with no run.
- **A team can be left without an admin** (`MCTeam_admin`): the rule about the last admin is judged on a
  list read before the write, and the write carries no condition; two admins who step down at once both
  may.
- **A paying team can be put on Free** (`MCTeamPlan_second`): checkout opens a session for a team that has a
  subscription, or another session, already; of a team that pays for both, the end of the first takes the plan
  away, whichever subscription the team names.

Seen while modelling, without a run of their own:

- *Checks.* A step that fails between the verdict and `answer-github` leaves the commit unanswered
  (`src/agent/workflow.ts:1566`); an answer that GitHub does not take leaves the Check Run in progress for good
  (`src/agent/workflow.ts:102`, `src/agent/orphan-runs.ts:156`); a run that answers before the door has recorded its Check Run's id leaves
  that in progress (`src/lib/github-webhook.ts:184`); a check that crosses the month's end is split against
  one month's credit and counted in the other's; a sweep that cannot ask about an instance ends a run at
  work, whose instance then writes over the failure; a writing step that runs again takes a finished run
  back to writing for a while.
- *Watches.* Overlapping ticks start a Watch twice, for the claim is an update by id
  (`src/agent/scheduler.ts:201`), though the comment above it says that they do not; a balance mail that every address refused is counted again by the next tick;
  a notice with nobody to tell stamps its window; a Watch paused while a tick works through its list
  still runs; as many Watches on private addresses as a tick reads rows hide all others.
- *Re-check.* An owed re-check can be had twice, for the claim goes back although the run was inserted and
  only its hand-off threw (`src/lib/recheck.ts:264`), and not at all after a stop between claim and insert.
- *Session host.* The next check connects while the last one's tabs are still closing
  (`spikes/shopify-session/session-server.mjs:198`).
- *Issues.* A row that is re-pointed at a new ticket keeps its escalation, so the threshold is never said
  on the new one (`src/lib/tracker/file.ts:240`).
- *Teams.* A scope change writes the form's string unread (`src/app/team/actions.ts:122`), and a person whose
  scope is none of the three can neither act nor leave; only invitations are gated by seats, so a Free team grows by promoting readers; a team that
  subscribes again starts at one seat, and nothing syncs until its members change
  (`src/app/api/billing/checkout/route.ts:70`); a founder removed from their personal team is its admin
  again at their next request if they are on no other (`src/lib/teams.ts:119`).

## Proofs

`tlapm <module>`; everything is checked for every value of the constants.

**`Balance_proofs`.** `IInv` ties, for each run, its price and part to what was charged, taken and given
back (`RunInv`), and says what a worker between two writes carries: a pricing's claim is in the future
(`ClaimInv`), a debit is the only thing missing from `took` and no other worker has it (`DebitInv`),
likewise a refund and an increment. `TakenOnce` alone is not inductive: nothing in it keeps two workers
from standing before the same debit. From `IInv` follow `TypeCorrect`, `ChargedOnce`, `TopUpOnce`,
`FinalPrice`, and `ImplementsLedger`: initial states map to initial states and every step to a charge,
a give-back, a credit or a stutter. The properties about sums need a second invariant (`SumInv`), and sums
themselves a form a proof can use: `Total` counts the units of an amount, a set of pairs, so that the laws of
cardinality take the place of an induction over the summed set. `OverspendBounded` is not inductive, for a
pricing that has read the balance will add to what is spent; `SpendInv` counts it in: what is spent, with
what the pricings on their way to the claim were given, is at most the credit once per worker, because
a worker that reads the balance is given at most the credit that is left, and every other at most the credit.
`OvertakenInv` counts by who was overtaken instead: what is spent is at most the credit once and once more per
overtaken pricing, and what a pricing that was not overtaken has been given still fits beside what is spent. From both,
and from no run's part of the plan exceeding the credit, `CreditOverspendBounded`. `BoughtMatchesRows` is inductive beside `IInv`.

**`CheckRun_proofs`.** The invariant says where each fact can hold: the hand-off comes after the door's
writes, only the steps after the verdict tell it, the steps after a clearing have no passwords; and,
while the platform answers, that a sweep about to end a run finds nobody at work on it (`Alone`), and that
only a finished run past its verdict is priced (`Charged`). `Settled` follows one failing step through the
handler: whoever is in it is there because a step failed, and a run that left it finished was priced on the
way. `Replied` says at which step the commit has which answer, as long as GitHub took each. Theorems: `TypeCorrect`, `VerdictStands`,
`WholeWhenFinished`, `PasswordsGone`, `FreeWhenFailed`, `PricedWhenFinished`, `UncutAnswered`, `LiveIsSpared`,
`EndedStaysEnded`.

**`WatchScheduler_proofs`.** `Typed` adds to the types that a tick past its look has a candidate left and room
for one more start (`AtWatch`); from it `TypeCorrect`. Ticks that overlap do start a Watch twice, so what holds of
them is a bound: the scheduled runs of a Watch in flight, together with the ticks that found it free and have not
started it yet, are no more than there are ticks (`InFlightBound`), since a tick passes its look only where no run is
in flight, and starting one uses up its place; likewise for what follows a claim (`ClaimBound`). From these
`StartedOncePerTick`. For a Watch that no two ticks raced for, both sums are at most one (`AloneBound`), whatever
overlaps elsewhere: `ScheduledOnce` and `StartedOncePerClaim`. All of it holds for any number of Watches, ticks, faults
and changes.

**`PaidCheck_proofs`.** The form, the session and the row come in one order (`Order`); until a run holds
the passwords the row and every starter on its way to the insert hold them, and a starter past it names
the run (`Starting`); the claim is held by one tab, and each re-check but one is paid for by a call that
threw (`Claims`). Theorems: `TypeCorrect`, `PaymentBuysOneRun`, `ParkedSignsIn`, `AnsweredIsDone`,
`RetryIsClaimed`.

**`SessionHost_proofs`.** `OneVisitor` and `TurnIsKept` are not inductive alone: a second connection is kept
out because an upgrade is in service only at the head of the chain and only while there is no connection
(`OneAtATime`), and a turn is kept because a person and a lease exclude each other (`PersonOrLease`).
Theorems: `TypeCorrect`, `OneAtOnce`, `TurnsAreKept`, `NobodyWalksIn`.

**`IssueLedger_proofs`.** `Sound` adds to the types that an actor that read a row still meets one while its
app is there. `Verified` says of an actor about to resolve that its ticket was told; `Settled` that once a
rejection has gone through, the ruling is on the books, the row is gone or suppressed, and no check is
about to file over the row as it is. `Remembered` pays for each forgotten ticket: a press under way may forget
one and has been counted (`Bounded`), a ticket is carried from its making to the row (`Carrying`), and a check that
is about to replace the row's ticket has settled it before (`Superseded`). Theorems: `TypeCorrect`,
`ResolvedHolds`, `RejectedHolds`, `NoneForgotten`.

**`Team_proofs`.** A request whose list is still the list would be allowed its change now (`AdminInv`), so the
write that takes away the last admin is of a request whose list is not (`AdminGoes`); a
fresh count about to be sent is the team's seats (`SeatsInv`); while an invitation may still be opened,
each who came by it is about to mark it or was cut short, and who holds it open may still come
(`SpentInv`, by cardinalities). Theorems: `TypeCorrect`, `AdminStays`, `BilledForSeats`, `InviteBounded`.

**`TeamPlan_proofs`.** `PlanInStep` speaks of an empty mail box; `PlanInv` says what holds while events wait, as long as
they are handled in order: the newest event about a subscription carries its state (`Newest`), the row and a
retrieved checkout are out of date only while an event about their subscription waits (`RowInStep`, `HookInStep`),
and until the only subscription ends the row names it or an event that will name it is on its way (`OnlyNamed`).
Beside it `Known`: events, hook and row name only subscriptions that came to be, and an end is final. Theorems:
`PlanInductive`, `TypeCorrect`, `PlanFollows`.

The assumptions are those the modules name: the bounds are naturals, and the sets that are counted (runs, workers,
Watches, people, requests) are finite.

Some properties are theorems only, without a run: `OneStartPerTick`, `CreditedOnce` and `PriceIsFinal` (also implied by
`LedgerSpec`), `FinishedIsWhole`, `PasswordGone`, `SweepSparesLive`, `ReceiptOnce`, `ClaimIsARetry`.

Model-checked only: every liveness property (the prover has no rule for fairness or ENABLED). Every invariant,
every action property and the refinement of `Ledger` that a passing run checks is also a theorem. The four
violated properties have a counterexample each.

## Not modelled

- Calls to a model and to a browser (discovery, walking, judging, synthesis, the extension runner): what
  they find is data to the run's life.
- Rules about the text of a verdict (findings gate, verdict integrity, summaries): decided item by item,
  without state; the repository has a script of examples for each.
- Authentication, scopes, the MCP front end, the web interface: fronts to operations that are modelled
  with their components, or static tables.
- Analytics, metrics, releases: nothing the program decides depends on what was delivered.
- Of modelled components: a Watch without a team and Free's one-Watch cap; the gates of an anonymous
  press of re-check; redelivered deploys between a run's insert and its bind; a Checkout without an email;
  the filter on DevTools messages and the pictures of the person's view; which findings share a key, and
  the statuses and board tickets copied from the ledger; the address of an invitation and its resending; a
  price id the program does not know.

## Plan

1. **`SavedApp`**: the doors of a saved app (dashboard, API, MCP, deploy hook) as check-then-insert over
   the run in flight, composed with the deploy claims of `github-webhook.ts` and their redelivery.
2. **`JourneyCatalog`**: the identity and retirement of journeys over runs, its text matching abstracted
   to a relation, as operators checked against a reference definition.
3. **`EvidenceSweep`**: the retention of screenshots and recordings against runs that still show them.
4. Proofs: the safety of `SavedApp` with its module; what holds of `WatchScheduler`'s pauses whatever is
   scheduled (a notice is stamped only once it was mailed or there is nobody to tell).
