---------------------------- MODULE IssueLedger ----------------------------
(* One problem of one app on the owner's tracker: the row that links it to    *)
(* its ticket and the settlements that outlive the app (lib/tracker/file.ts,  *)
(* agent/autofile.ts, agent/reconcile.ts, api/findings/[id]/ticket).  A check *)
(* of a Watch reads the ticket's outcome, walks the app, files what it saw    *)
(* and verifies a fix; a person may press "file" on a verdict.  Checks of an  *)
(* app can overlap, and a call to the tracker or the database can fail.       *)
EXTENDS Naturals, Sequences, FiniteSets

CONSTANTS
  Actors,         \* checks and presses that may be under way at one time
  EscalateAfter,  \* TicketPolicy.escalateAfterRuns
  MaxTickets,     \* bound: tickets the tracker takes; the next is refused
  MaxChecks,      \* bound: checks of the app
  MaxUpsets       \* bound: failed and repeated calls, presses and removals, together

ASSUME LedgerAssumption ==
  /\ EscalateAfter \in Nat \ {0} /\ MaxTickets \in Nat /\ MaxChecks \in Nat
  /\ MaxUpsets \in Nat

VARIABLES
  link,      \* the IssueLink row
  settled,   \* SettledSignature rows: <<ticket, "suppressed" or "closed">>, the
             \* latter for a ticket resolved or superseded
  board,     \* the tracker: the outcome of each ticket, in order of creation
  comments,  \* what the tickets were told: <<ticket, "escalated" or "verified">>
  era,       \* how often the app was removed; its links go with it
  at, job,   \* per actor: next call, and what it carries
  checks, faults, clicks,   \* started, failed or repeated, pressed
  told,      \* a rejection went through the ledger
  stale      \* writes that met another row than the one read

ledger == <<link, settled>>
tracker == <<board, comments>>
counts == <<checks, faults, clicks>>
vars == <<ledger, tracker, era, at, job, counts, told, stale>>

NoLink == [ticket |-> 0, status |-> "none", occurrences |-> 1, escalated |-> FALSE]
Outcomes == {"open", "done", "canceled"}
Sights == {"qualifies", "absent", "unsure"}
Idle == [kind |-> "none", era |-> 0, read |-> NoLink, ticket |-> 0, sees |-> "unsure",
         knew |-> FALSE]

Init ==
  /\ link = NoLink /\ settled = {} /\ board = <<>> /\ comments = {} /\ era = 0
  /\ at = [a \in Actors |-> "idle"] /\ job = [a \in Actors |-> Idle]
  /\ checks = 0 /\ faults = 0 /\ clicks = 0 /\ told = FALSE /\ stale = 0

-----------------------------------------------------------------------------
Upset == faults + clicks + era < MaxUpsets
Go(a, step) == at' = [at EXCEPT ![a] = step]
Stay(a) == UNCHANGED job

(* An actor is done with what it read; a press is then over, a check goes on. *)
After(a, step) == IF job[a].kind = "click" THEN "idle" ELSE step
Leave(a, step) ==
  /\ at' = [at EXCEPT ![a] = After(a, step)]
  /\ job' = [job EXCEPT ![a] =
       IF After(a, step) = "idle" THEN Idle ELSE [@ EXCEPT !.read = NoLink, !.ticket = 0,
                                                       !.knew = FALSE]]

(* The app row that the actor loaded is still there, and so are its links.    *)
Present(a) == job[a].era = era

(* An update by id, of whatever the row holds by now; it throws when the row  *)
(* went with its app, as an upsert does.  Counted: what is not as it was read.*)
AsRead(a) == Present(a) /\ link = job[a].read
Meets(a) == stale' = IF AsRead(a) \/ stale = MaxTickets THEN stale ELSE stale + 1
Update(a, new, next, thrown) ==
  /\ Meets(a)
  /\ IF Present(a) THEN link' = new /\ next ELSE link' = link /\ Leave(a, thrown)

-----------------------------------------------------------------------------
(* Before the walk: the ticket's outcome goes into the row.                   *)

Start(a) ==
  /\ at[a] = "idle" /\ checks < MaxChecks /\ checks' = checks + 1 /\ Go(a, "sync")
  /\ job' = [job EXCEPT ![a] = [Idle EXCEPT !.kind = "check", !.era = era]]
  /\ UNCHANGED <<ledger, tracker, era, faults, clicks, told, stale>>

(* A fixed row is read again too: a reopened ticket withdraws the fix.        *)
Reread == {"open", "fixed"}

Answer(outcome, status) ==
  CASE outcome = "canceled" -> "suppress"
    [] outcome = "done" /\ status = "open" -> "fix"
    [] outcome = "open" /\ status = "fixed" -> "reopen"
    [] OTHER -> "walk"

(* A vanished ticket is nobody's verdict, and one that cannot be read is left *)
(* for the next check.                                                        *)
Unread(a) ==
  /\ at[a] = "sync" /\ Leave(a, "walk")
  /\ UNCHANGED <<ledger, tracker, era, counts, told, stale>>

Sync(a) ==
  /\ at[a] = "sync"
  /\ LET step == IF Present(a) /\ link.status \in Reread
                 THEN Answer(board[link.ticket], link.status) ELSE "walk"
     IN IF step = "walk" THEN Leave(a, step)
        ELSE Go(a, step) /\ job' = [job EXCEPT ![a].read = link]
  /\ UNCHANGED <<ledger, tracker, era, counts, told, stale>>

Fix(a) ==
  /\ at[a] = "fix"
  /\ Update(a, [link EXCEPT !.status = "fixed"], Leave(a, "walk"), "walk")
  /\ UNCHANGED <<settled, tracker, era, counts, told>>

Reopen(a) ==
  /\ at[a] = "reopen"
  /\ Update(a, [link EXCEPT !.status = "open"], Leave(a, "walk"), "walk")
  /\ UNCHANGED <<settled, tracker, era, counts, told>>

(* Ruled not a bug: the row is suppressed, then the owner's answer is settled *)
(* for good.                                                                  *)
Suppress(a) ==
  /\ at[a] = "suppress"
  /\ Update(a, [link EXCEPT !.status = "suppressed"], Go(a, "settle") /\ Stay(a), "walk")
  /\ UNCHANGED <<settled, tracker, era, counts, told>>

Settle(a) ==
  /\ at[a] = "settle" /\ Leave(a, "walk")
  /\ settled' = settled \union {<<job[a].read.ticket, "suppressed">>}
  /\ told' = (told \/ Present(a))
  /\ UNCHANGED <<link, tracker, era, counts, stale>>

(* What the walk shows of the problem: there, and worth a ticket; gone; or    *)
(* neither: below the bar or the cap, or on a journey that was not walked.    *)
Walk(a) ==
  /\ at[a] = "walk"
  /\ \E s \in Sights :
       /\ job' = [job EXCEPT ![a].sees = s]
       /\ Go(a, IF s = "qualifies" THEN "look" ELSE "verify")
  /\ UNCHANGED <<ledger, tracker, era, counts, told, stale>>

-----------------------------------------------------------------------------
(* Filing: draft, decide, file.                                               *)

Click(a) ==
  /\ at[a] = "idle" /\ Upset /\ clicks' = clicks + 1
  /\ Go(a, "look") /\ job' = [job EXCEPT ![a] = [Idle EXCEPT !.kind = "click", !.era = era]]
  /\ UNCHANGED <<ledger, tracker, era, checks, faults, told, stale>>

(* The ticket, then its predecessor's settlement, then the row.               *)
RowFirst == [start |-> "link", link |-> "create", create |-> "keep", keep |-> "verify"]
Filing == [start |-> "create", create |-> "keep", keep |-> "link", link |-> "verify"]

(* A check leaves a suppressed problem alone, and without a row it asks the   *)
(* settlements of the app's slug; a press is an override.                     *)
NeverRuled == FALSE
Ruled == \E t \in 1..Len(board) : <<t, "suppressed">> \in settled
Decide(kind) ==
  CASE link.status = "open" -> "comment"
    [] link.status = "none" /\ kind = "check" /\ Ruled -> "verify"
    [] link.status = "suppressed" /\ kind = "check" -> "verify"
    [] OTHER -> Filing.start

Look(a) ==
  /\ at[a] = "look"
  /\ LET step == Decide(job[a].kind)
     IN IF ~Present(a) \/ step = "verify" THEN Leave(a, "verify")
        ELSE Go(a, step) /\ job' = [job EXCEPT ![a].read = link, ![a].knew = told]
  /\ UNCHANGED <<ledger, tracker, era, counts, told, stale>>

(* An open ticket is told again, and once past the threshold that it is.  A   *)
(* press never escalates.  Past the threshold occurrences need no counting.   *)
Escalates(a) == /\ job[a].kind = "check" /\ ~job[a].read.escalated
                /\ job[a].read.occurrences + 1 >= EscalateAfter

Comment(a) ==
  /\ at[a] = "comment" /\ Go(a, "count") /\ Stay(a)
  /\ comments' = IF Escalates(a) THEN comments \union {<<job[a].read.ticket, "escalated">>}
                                  ELSE comments
  /\ UNCHANGED <<ledger, board, era, counts, told, stale>>

Counted(l) == IF l.occurrences < EscalateAfter THEN l.occurrences + 1 ELSE l.occurrences
Count(a) ==
  /\ at[a] = "count"
  /\ Update(a, [link EXCEPT !.occurrences = Counted(link), !.escalated = @ \/ Escalates(a)],
            Leave(a, "verify"), "verify")
  /\ UNCHANGED <<settled, tracker, era, counts, told>>

CreateIssue(a) ==
  /\ at[a] = "create"
  /\ IF Len(board) < MaxTickets
     THEN /\ board' = Append(board, "open")
          /\ job' = [job EXCEPT ![a].ticket = Len(board) + 1]
          /\ Go(a, Filing.create)
     ELSE board' = board /\ Leave(a, "verify")
  /\ UNCHANGED <<ledger, comments, era, counts, told, stale>>

(* The button forgets the ticket it replaces.                                 *)
Lost(kind, l) == {}
Outgoing(kind, l) ==
  IF kind = "click" \/ l.status = "none" THEN {} ELSE {<<l.ticket, "closed">>}

Supersede(a) ==
  /\ at[a] = "keep" /\ Go(a, Filing.keep) /\ Stay(a)
  /\ settled' = settled \union Outgoing(job[a].kind, job[a].read)
  /\ UNCHANGED <<link, tracker, era, counts, told, stale>>

(* The upsert; occurrences and escalatedAt of a row that is there stay.       *)
Upsert(a) ==
  /\ at[a] = "link"
  /\ Update(a, [link EXCEPT !.ticket = job[a].ticket, !.status = "open"],
            Leave(a, Filing.link), "verify")
  /\ UNCHANGED <<settled, tracker, era, counts, told>>

-----------------------------------------------------------------------------
(* After filing: a fix whose journey was walked and whose failure is gone.    *)

(* Resolved only after the comment has landed.                                *)
ResolveFirst == [start |-> "resolve", resolve |-> "confirm", confirm |-> "seal"]
Verifying == [start |-> "confirm", confirm |-> "resolve", resolve |-> "seal"]

Confirms(sees) == sees = "absent"

ReadFixed(a) ==
  /\ at[a] = "verify"
  /\ IF Present(a) /\ link.status = "fixed" /\ Confirms(job[a].sees)
     THEN Go(a, Verifying.start) /\ job' = [job EXCEPT ![a].read = link]
     ELSE Leave(a, "idle")
  /\ UNCHANGED <<ledger, tracker, era, counts, told, stale>>

Confirm(a) ==
  /\ at[a] = "confirm" /\ Go(a, Verifying.confirm) /\ Stay(a)
  /\ comments' = comments \union {<<job[a].read.ticket, "verified">>}
  /\ UNCHANGED <<ledger, board, era, counts, told, stale>>

Resolve(a) ==
  /\ at[a] = "resolve"
  /\ Update(a, [link EXCEPT !.status = "resolved"], Go(a, Verifying.resolve) /\ Stay(a), "idle")
  /\ UNCHANGED <<settled, tracker, era, counts, told>>

Seal(a) ==
  /\ at[a] = "seal" /\ Leave(a, "idle")
  /\ settled' = settled \union {<<job[a].read.ticket, "closed">>}
  /\ UNCHANGED <<link, tracker, era, counts, told, stale>>

Step(a) ==
  \/ Start(a) \/ Sync(a) \/ Unread(a) \/ Fix(a) \/ Reopen(a) \/ Suppress(a) \/ Settle(a)
  \/ Walk(a) \/ Look(a) \/ Comment(a) \/ Count(a)
  \/ CreateIssue(a) \/ Supersede(a) \/ Upsert(a)
  \/ ReadFixed(a) \/ Confirm(a) \/ Resolve(a) \/ Seal(a)

-----------------------------------------------------------------------------
Syncing == {"fix", "reopen", "suppress", "settle"}
File == {"comment", "count", "create", "keep", "link"}
Verify == {"confirm", "resolve", "seal"}
Fault == Upset /\ faults' = faults + 1

(* A call throws, is caught, and the check goes on; a press answers 502.      *)
Throws(a) ==
  /\ Fault
  /\ \/ at[a] \in Syncing /\ Leave(a, "walk")
     \/ at[a] \in File /\ Leave(a, "verify")
     \/ at[a] \in Verify /\ Leave(a, "idle")
  /\ UNCHANGED <<ledger, tracker, era, checks, clicks, told, stale>>

(* A step of the Workflow runs again from its start, wherever it was cut, the *)
(* instant after its last call included.                                      *)
Again(a) ==
  /\ Fault /\ job[a].kind = "check"
  /\ \/ at[a] \in Syncing \union {"walk"} /\ Leave(a, "sync")
     \/ at[a] \in File /\ Leave(a, "look")
     \/ at[a] = "verify" /\ job[a].sees = "qualifies" /\ Leave(a, "look")
     \/ at[a] \in Verify /\ Leave(a, "verify")
  /\ UNCHANGED <<ledger, tracker, era, checks, clicks, told, stale>>

(* The tracker's people move a ticket as they like.                           *)
Move(t) ==
  /\ \E o \in Outcomes \ {board[t]} : board' = [board EXCEPT ![t] = o]
  /\ UNCHANGED <<ledger, comments, era, at, job, counts, told, stale>>

(* The app is removed with its links, and added again under its slug.         *)
Readd ==
  /\ Upset /\ era' = era + 1 /\ link' = NoLink
  /\ UNCHANGED <<settled, tracker, at, job, counts, told, stale>>

Next == \/ \E a \in Actors : Step(a) \/ Click(a) \/ Throws(a) \/ Again(a)
        \/ \E t \in 1..Len(board) : Move(t)
        \/ Readd

Spec == Init /\ [][Next]_vars

-----------------------------------------------------------------------------
(* Properties.                                                                *)

(* The row names a ticket of the tracker, as do the settlements and whatever  *)
(* an actor carries from one call to the next.                                *)
Tickets == 1..Len(board)
LinkType == [ticket : Nat, status : {"none", "open", "fixed", "resolved", "suppressed"},
             occurrences : 1..EscalateAfter, escalated : BOOLEAN]
Names(l) == IF l.status = "none" THEN l = NoLink ELSE l.ticket \in Tickets
TypeOK ==
  /\ link \in LinkType /\ Names(link)
  /\ settled \subseteq Tickets \X {"suppressed", "closed"}
  /\ board \in Seq(Outcomes) /\ Len(board) <= MaxTickets
  /\ comments \subseteq Tickets \X {"escalated", "verified"}
  /\ era \in 0..MaxUpsets /\ told \in BOOLEAN /\ stale \in 0..MaxTickets
  /\ at \in [Actors -> {"idle", "sync", "walk", "look", "verify"}
                          \union Syncing \union File \union Verify]
  /\ job \in [Actors -> [kind : {"none", "check", "click"}, era : 0..MaxUpsets,
                         read : LinkType, ticket : Tickets \union {0},
                         sees : Sights, knew : BOOLEAN]]
  /\ \A a \in Actors : Names(job[a].read)
  /\ checks \in 0..MaxChecks /\ faults \in Nat /\ clicks \in Nat /\ faults + clicks + era <= MaxUpsets

(* Every ticket on the board can be read back, by the row, by a settlement or *)
(* by the actor that has just made it.  One is forgotten only to a failed or  *)
(* repeated call, to a press, to the app's removal, or to a write over a row  *)
(* that is not as it was read, each costing one (file.ts:216-219, 251-252).   *)
Named(t) == \/ link.ticket = t
            \/ <<t, "suppressed">> \in settled \/ <<t, "closed">> \in settled
            \/ \E a \in Actors : job[a].ticket = t
Forgotten == {t \in Tickets : ~Named(t)}
TicketsRemembered == Cardinality(Forgotten) <= faults + clicks + era + stale

(* A problem that was ruled not a bug is not filed again by a later check,    *)
(* not even for an app that was removed and added anew (file.ts:152-155): but *)
(* for a call that failed, a person's press, or a write over a changed row.   *)
Unruffled == faults = 0 /\ clicks = 0 /\ stale = 0
RejectedIsFinal ==
  Unruffled => \A a \in Actors : at[a] = "create" => ~job[a].knew

(* A resolved row names a ticket that was told so, by a check that walked it  *)
(* and did not see the failure, unless the row was written over unread        *)
(* (reconcile.ts:314-315).                                                    *)
ResolvedIsVerified ==
  stale = 0 /\ link.status = "resolved" => <<link.ticket, "verified">> \in comments
=============================================================================
