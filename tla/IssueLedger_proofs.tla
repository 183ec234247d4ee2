------------------------ MODULE IssueLedger_proofs ------------------------
(* The safety of the issue ledger, for any number of checks and presses at    *)
(* once, tickets and failed or repeated calls.                                *)
EXTENDS IssueLedger, FiniteSetTheorems, TLAPS

Steps == {"idle", "sync", "walk", "look", "verify"} \union Syncing \union File \union Verify
JobType == [kind : {"none", "check", "click"}, era : 0..MaxUpsets, read : LinkType,
            ticket : Nat, sees : Sights, knew : BOOLEAN]

(* A job at step s, with n tickets on the board in era e: what the row that   *)
(* it read must have been, for each of the calls it may be about to make.     *)
NamedBy(n, l) == IF l.status = "none" THEN l = NoLink ELSE l.ticket \in 1..n
JobOK(n, e, s, j) ==
  /\ s \in Steps /\ j \in JobType /\ NamedBy(n, j.read) /\ j.era <= e
  /\ j.ticket \in 0..n
  /\ s # "idle" => j.kind # "none"
  /\ s \in {"fix", "comment", "count"} => j.read.status = "open"
  /\ s \in {"reopen"} \union Verify => j.read.status = "fixed"
  /\ s \in {"suppress", "settle"} => j.read.status \in {"open", "fixed"}
  /\ s \in {"create", "keep", "link"} /\ j.kind = "check" => j.read.status # "suppressed"
  /\ s \in {"keep", "link"} => j.ticket \in 1..n

JobsOK ==
  /\ at \in [Actors -> Steps] /\ job \in [Actors -> JobType]
  /\ \A a \in Actors : JobOK(Len(board), era, at[a], job[a])

RowsOK ==
  /\ link \in LinkType /\ Names(link)
  /\ settled \subseteq Tickets \X {"suppressed", "closed"}
  /\ board \in Seq(Outcomes) /\ Len(board) <= MaxTickets
  /\ comments \subseteq Tickets \X {"escalated", "verified"}

CountsOK ==
  /\ era \in 0..MaxUpsets /\ told \in BOOLEAN /\ stale \in 0..MaxTickets
  /\ checks \in 0..MaxChecks /\ faults \in Nat /\ clicks \in Nat
  /\ faults + clicks + era <= MaxUpsets

Typed == JobsOK /\ RowsOK /\ CountsOK

(* The types proved are those the run checks.                                *)
LEMMA TypedIsTypeOK == Typed => TypeOK
<1> SUFFICES ASSUME Typed PROVE TypeOK
  OBVIOUS
<1>1. job \in [Actors -> [kind : {"none", "check", "click"}, era : 0..MaxUpsets,
                          read : LinkType, ticket : Tickets \union {0},
                          sees : Sights, knew : BOOLEAN]]
  <2>1. \A a \in Actors : job[a] \in [kind : {"none", "check", "click"}, era : 0..MaxUpsets,
                          read : LinkType, ticket : Tickets \union {0},
                          sees : Sights, knew : BOOLEAN]
    BY DEF Typed, JobsOK, JobOK, JobType, Tickets
  <2> QED
    BY <2>1 DEF Typed, JobsOK
<1>2. \A a \in Actors : Names(job[a].read)
  BY DEF Typed, JobsOK, JobOK, NamedBy, Names, Tickets
<1>3. at \in [Actors -> {"idle", "sync", "walk", "look", "verify"}
                          \union Syncing \union File \union Verify]
  BY DEF Typed, JobsOK, Steps
<1> QED
  BY <1>1, <1>2, <1>3 DEF Typed, RowsOK, CountsOK, TypeOK

(* The app without a row and an actor without a job are typed.               *)
LEMMA IdleOK ==
  ASSUME NEW n \in Nat, NEW e \in Nat
  PROVE  NoLink \in LinkType /\ JobOK(n, e, "idle", Idle)
<1>1. NoLink \in LinkType
  BY LedgerAssumption DEF LedgerAssumption, NoLink, LinkType
<1>2. Idle \in JobType
  BY <1>1, LedgerAssumption DEF LedgerAssumption, Idle, JobType, Sights
<1>3. NamedBy(n, Idle.read) /\ Idle.era <= e /\ Idle.ticket \in 0..n
  BY DEF Idle, NamedBy, NoLink
<1> QED
  BY <1>1, <1>2, <1>3 DEF JobOK, Steps, Verify

(* The types hold at the start.                                              *)
LEMMA InitTyped == Init => Typed
<1> SUFFICES ASSUME Init PROVE Typed
  OBVIOUS
<1>1. Len(board) = 0 /\ board \in Seq(Outcomes)
  BY DEF Init
<1>2. JobsOK
  <2>1. JobOK(0, 0, "idle", Idle)
    BY IdleOK
  <2>2. \A a \in Actors : at[a] = "idle" /\ job[a] = Idle
    BY DEF Init
  <2>3. era = 0
    BY DEF Init
  <2>4. at \in [Actors -> Steps] /\ job \in [Actors -> JobType]
    BY <2>1 DEF Init, JobOK
  <2> QED
    BY <1>1, <2>1, <2>2, <2>3, <2>4 DEF JobsOK
<1>3. RowsOK
  <2>1. link = NoLink /\ NoLink.status = "none" /\ NoLink \in LinkType
    BY IdleOK DEF Init, NoLink
  <2>2. settled = {} /\ comments = {}
    BY DEF Init
  <2> QED
    BY <1>1, <2>1, <2>2, LedgerAssumption DEF RowsOK, Names, LedgerAssumption
<1>4. CountsOK
  <2>1. told \in BOOLEAN
    BY DEF Init
  <2>2. era = 0 /\ stale = 0 /\ checks = 0 /\ faults = 0 /\ clicks = 0
    BY DEF Init
  <2> QED
    BY <2>1, <2>2, LedgerAssumption DEF CountsOK, LedgerAssumption
<1> QED
  BY <1>2, <1>3, <1>4 DEF Typed

(* Jobs stay right as the board and the era grow.                             *)
LEMMA Grown ==
  ASSUME NEW n \in Nat, NEW m \in Nat, n <= m, NEW e \in Nat, NEW f \in Nat, e <= f,
         NEW s, NEW j, JobOK(n, e, s, j)
  PROVE  JobOK(m, f, s, j)
<1>1. NamedBy(m, j.read)
  BY DEF JobOK, NamedBy
<1>2. j.era \in Nat /\ j.era <= f /\ j.ticket \in 0..m
  BY LedgerAssumption DEF JobOK, JobType, LedgerAssumption
<1> QED
  BY <1>1, <1>2 DEF JobOK

(* One actor takes a step.                                                    *)
LEMMA Moves ==
  ASSUME JobsOK, NEW a \in Actors, NEW s, NEW j,
         at' = [at EXCEPT ![a] = s], job' = [job EXCEPT ![a] = j],
         Len(board) \in Nat, Len(board') \in Nat, Len(board) <= Len(board'),
         era \in Nat, era' \in Nat, era <= era',
         JobOK(Len(board'), era', s, j)
  PROVE  JobsOK'
<1>1. at' \in [Actors -> Steps] /\ job' \in [Actors -> JobType]
  BY DEF JobsOK, JobOK
<1>2. ASSUME NEW b \in Actors PROVE JobOK(Len(board'), era', at'[b], job'[b])
  <2>1. CASE b = a
    BY <2>1 DEF JobsOK
  <2>2. CASE b # a
    <3>1. at'[b] = at[b] /\ job'[b] = job[b]
      BY <2>2 DEF JobsOK
    <3>2. JobOK(Len(board), era, at[b], job[b])
      BY DEF JobsOK
    <3> QED
      BY <3>1, <3>2, Grown
  <2> QED
    BY <2>1, <2>2
<1> QED
  BY <1>1, <1>2 DEF JobsOK

(* The tracker and the era have natural sizes.                               *)
LEMMA Sizes ==
  ASSUME Typed
  PROVE  Len(board) \in Nat /\ era \in Nat
  BY LedgerAssumption DEF Typed, RowsOK, CountsOK, LedgerAssumption

(* An actor that is done with what it read.                                   *)
Rests == {"idle", "sync", "walk", "look", "verify"}
(* An actor that rests keeps the jobs typed.                                 *)
LEMMA Leaves ==
  ASSUME Typed, NEW a \in Actors, NEW s \in Rests, at[a] # "idle", Leave(a, s),
         board' = board, era' = era
  PROVE  JobsOK'
<1>1. Len(board) \in Nat /\ era \in Nat
  BY Sizes
<1>2. CASE After(a, s) = "idle"
  <2>1. at' = [at EXCEPT ![a] = "idle"] /\ job' = [job EXCEPT ![a] = Idle]
    BY <1>2 DEF Leave
  <2>2. JobOK(Len(board'), era', "idle", Idle)
    BY <1>1, IdleOK
  <2> QED
    <3>1. JobsOK /\ Len(board') \in Nat /\ Len(board) <= Len(board')
          /\ era' \in Nat /\ era <= era'
      BY <1>1 DEF Typed
    <3> QED
      BY <1>1, <2>1, <2>2, <3>1, Moves
<1>3. CASE After(a, s) # "idle"
  <2> DEFINE j == [job[a] EXCEPT !.read = NoLink, !.ticket = 0, !.knew = FALSE]
  <2>1. After(a, s) = s
    BY <1>3 DEF After
  <2>2. at' = [at EXCEPT ![a] = s] /\ job' = [job EXCEPT ![a] = j]
    BY <1>3, <2>1 DEF Leave
  <2>3. JobOK(Len(board), era, at[a], job[a]) /\ job[a] \in JobType
    BY DEF Typed, JobsOK
  <2>4. j \in JobType /\ j.read = NoLink /\ j.ticket = 0 /\ j.kind = job[a].kind /\ j.era = job[a].era
    BY <2>3, IdleOK, <1>1 DEF JobType
  <2>5. JobOK(Len(board'), era', s, j)
    BY <1>1, <2>3, <2>4 DEF JobOK, NamedBy, NoLink, Steps, Rests, Syncing, File, Verify
  <2> QED
    <3>1. JobsOK /\ Len(board') \in Nat /\ Len(board) <= Len(board')
          /\ era' \in Nat /\ era <= era'
      BY <1>1 DEF Typed
    <3> HIDE DEF j
    <3> QED
      BY <1>1, <2>2, <2>5, <3>1, Moves
<1> QED
  BY <1>2, <1>3

(* A row that an actor has read goes only with its app.                       *)
Kept == \A a \in Actors : Present(a) /\ job[a].read.status # "none" => link.status # "none"

Sound == Typed /\ Kept

(* An actor goes on to a call with its job as it is, or with another.         *)
LEMMA GoesOn ==
  ASSUME Typed, NEW a \in Actors, NEW s, NEW j,
         at' = [at EXCEPT ![a] = s], job' = [job EXCEPT ![a] = j],
         Len(board') = Len(board), era' = era, JobOK(Len(board), era, s, j)
  PROVE  JobsOK'
<1>1. JobsOK /\ Len(board) \in Nat /\ Len(board') \in Nat /\ Len(board) <= Len(board')
      /\ era \in Nat /\ era' \in Nat /\ era <= era'
  BY Sizes DEF Typed
<1>2. JobOK(Len(board'), era', s, j)
  OBVIOUS
<1> QED
  BY <1>1, <1>2, Moves

(* An actor that goes on with its job keeps the jobs typed.                  *)
LEMMA GoesStay ==
  ASSUME Typed, NEW a \in Actors, NEW s, Go(a, s), Stay(a),
         board' = board, era' = era, JobOK(Len(board), era, s, job[a])
  PROVE  JobsOK'
<1>1. at' = [at EXCEPT ![a] = s]
  BY DEF Go
<1>2. job' = [job EXCEPT ![a] = job[a]]
  BY DEF Stay, Typed, JobsOK
<1> QED
  BY <1>1, <1>2, GoesOn

(* An actor at work has a job of its kind.                                   *)
LEMMA OwnJob ==
  ASSUME Typed, NEW a \in Actors
  PROVE  JobOK(Len(board), era, at[a], job[a]) /\ job[a] \in JobType /\ at[a] \in Steps
  BY DEF Typed, JobsOK

(* A write of the row, by an actor to whom it may be another row by now.      *)
LEMMA Updated ==
  ASSUME Sound, NEW a \in Actors, NEW new \in LinkType, Meets(a),
         IF Present(a) THEN link' = new ELSE link' = link,
         Present(a) => new.status # "none" /\ new.ticket \in Tickets,
         UNCHANGED <<settled, tracker, era, counts, told>>
  PROVE  RowsOK' /\ CountsOK'
<1>1. link' \in LinkType /\ Names(link')
  BY DEF Sound, Typed, RowsOK, Names
<1>2. board' = board /\ comments' = comments /\ settled' = settled /\ Tickets' = Tickets
  BY DEF tracker, Tickets
<1>3. RowsOK'
  BY <1>1, <1>2 DEF Sound, Typed, RowsOK, Names
<1>4. stale' \in 0..MaxTickets
  BY LedgerAssumption DEF Meets, Sound, Typed, CountsOK, LedgerAssumption
<1>5. told' \in BOOLEAN
  BY DEF Sound, Typed, CountsOK
<1>6. CountsOK'
  BY <1>4, <1>5 DEF Sound, Typed, CountsOK, counts
<1> QED
  BY <1>3, <1>6

(* What an actor has read in this era is still a row with a ticket.           *)
LEMMA StillThere ==
  ASSUME Sound, NEW a \in Actors, Present(a), job[a].read.status # "none"
  PROVE  link.status # "none" /\ link.ticket \in Tickets
<1>1. link.status # "none"
  BY DEF Sound, Kept
<1> QED
  BY <1>1 DEF Sound, Typed, RowsOK, Names

(* Steps that leave the rows alone.                                           *)
LEMMA RowsStay ==
  ASSUME Typed, UNCHANGED <<ledger, tracker>>
  PROVE  RowsOK'
  BY DEF Typed, RowsOK, Names, Tickets, ledger, tracker

(* Untouched counts stay typed,                                              *)
LEMMA CountsStay ==
  ASSUME Typed, UNCHANGED <<era, counts, told, stale>>
  PROVE  CountsOK'
<1>1. told' \in BOOLEAN
  BY DEF Typed, CountsOK
<1> QED
  BY <1>1 DEF Typed, CountsOK, counts

(* ... and so does the count of faults.                                      *)
LEMMA Faulted ==
  ASSUME Typed, Fault, UNCHANGED <<era, checks, clicks, told, stale>>
  PROVE  CountsOK'
<1>1. told' \in BOOLEAN
  BY DEF Typed, CountsOK
<1>2. faults' = faults + 1 /\ faults + clicks + era < MaxUpsets
  BY DEF Fault, Upset
<1> QED
  BY <1>1, <1>2, LedgerAssumption DEF Typed, CountsOK, LedgerAssumption

(* The four calls that write the row and then are done with it.               *)
LEMMA WritesTyped ==
  ASSUME Sound, NEW a \in Actors, NEW new, NEW s \in Rests, NEW t \in Rests,
         at[a] # "idle", new \in LinkType,
         Present(a) => new.status # "none" /\ new.ticket \in Tickets,
         Meets(a),
         IF Present(a) THEN link' = new /\ Leave(a, s) ELSE link' = link /\ Leave(a, t),
         UNCHANGED <<settled, tracker, era, counts, told>>
  PROVE  Typed'
<1>1. RowsOK' /\ CountsOK'
  <2>1. IF Present(a) THEN link' = new ELSE link' = link
    OBVIOUS
  <2> QED
    BY <2>1, Updated
<1>2. board' = board /\ era' = era /\ (Leave(a, s) \/ Leave(a, t))
  BY DEF tracker
<1>3. JobsOK'
  BY <1>2, Leaves DEF Sound
<1> QED
  BY <1>1, <1>3 DEF Typed

-----------------------------------------------------------------------------
(* Every call of a check, a press and the tracker keeps the types.            *)

(* Each step keeps the types: a check starts,                                *)
LEMMA StartTyped == ASSUME Sound, NEW a \in Actors, Start(a) PROVE Typed'
<1> DEFINE j == [Idle EXCEPT !.kind = "check", !.era = era]
<1>1. at' = [at EXCEPT ![a] = "sync"] /\ job' = [job EXCEPT ![a] = j]
      /\ checks < MaxChecks /\ checks' = checks + 1
      /\ UNCHANGED <<ledger, tracker, era, faults, clicks, told, stale>>
  BY DEF Start, Go
<1>2. Len(board) \in Nat /\ era \in Nat /\ era \in 0..MaxUpsets
  BY Sizes DEF Sound, Typed, CountsOK
<1>3. Idle \in JobType /\ JobOK(Len(board), era, "idle", Idle)
  BY <1>2, IdleOK DEF JobOK
<1>4. j \in JobType /\ j.kind = "check" /\ j.era = era /\ j.read = NoLink /\ j.ticket = 0
  BY <1>2, <1>3 DEF JobType, Idle
<1>5. JobOK(Len(board), era, "sync", j)
  BY <1>2, <1>4 DEF JobOK, NamedBy, NoLink, Steps, Verify
<1>6. JobsOK'
  <2> HIDE DEF j
  <2>1. Typed /\ board' = board /\ era' = era
    BY <1>1 DEF Sound, tracker
  <2> QED
    BY <1>1, <1>5, <2>1, GoesOn
<1>7. RowsOK'
  BY <1>1, RowsStay DEF Sound
<1>8. CountsOK'
  <2>1. told' \in BOOLEAN
    BY <1>1 DEF Sound, Typed, CountsOK
  <2> QED
    BY <1>1, <2>1, LedgerAssumption DEF Sound, Typed, CountsOK, LedgerAssumption
<1> QED
  BY <1>6, <1>7, <1>8 DEF Typed

(* a person presses,                                                         *)
LEMMA ClickTyped == ASSUME Sound, NEW a \in Actors, Click(a) PROVE Typed'
<1> DEFINE j == [Idle EXCEPT !.kind = "click", !.era = era]
<1>1. at' = [at EXCEPT ![a] = "look"] /\ job' = [job EXCEPT ![a] = j]
      /\ clicks' = clicks + 1 /\ faults + clicks + era < MaxUpsets
      /\ UNCHANGED <<ledger, tracker, era, checks, faults, told, stale>>
  BY DEF Click, Go, Upset
<1>2. Len(board) \in Nat /\ era \in Nat /\ era \in 0..MaxUpsets
  BY Sizes DEF Sound, Typed, CountsOK
<1>3. Idle \in JobType /\ JobOK(Len(board), era, "idle", Idle)
  BY <1>2, IdleOK DEF JobOK
<1>4. j \in JobType /\ j.kind = "click" /\ j.era = era /\ j.read = NoLink /\ j.ticket = 0
  BY <1>2, <1>3 DEF JobType, Idle
<1>5. JobOK(Len(board), era, "look", j)
  BY <1>2, <1>4 DEF JobOK, NamedBy, NoLink, Steps, Verify
<1>6. JobsOK'
  <2> HIDE DEF j
  <2>1. Typed /\ board' = board /\ era' = era
    BY <1>1 DEF Sound, tracker
  <2> QED
    BY <1>1, <1>5, <2>1, GoesOn
<1>7. RowsOK'
  BY <1>1, RowsStay DEF Sound
<1>8. CountsOK'
  <2>1. told' \in BOOLEAN
    BY <1>1 DEF Sound, Typed, CountsOK
  <2> QED
    BY <1>1, <2>1, LedgerAssumption DEF Sound, Typed, CountsOK, LedgerAssumption
<1> QED
  BY <1>6, <1>7, <1>8 DEF Typed

(* An actor that is about to act on the row it has just read.                 *)
LEMMA Takes ==
  ASSUME Sound, NEW a \in Actors, NEW s \in Steps, NEW k \in BOOLEAN,
         LET j == [job[a] EXCEPT !.read = link, !.knew = k] IN
           at' = [at EXCEPT ![a] = s] /\ job' = [job EXCEPT ![a] = j],
         at[a] # "idle", s \notin {"keep", "link"},
         s \in {"fix", "comment", "count"} => link.status = "open",
         s \in {"reopen"} \union Verify => link.status = "fixed",
         s \in {"suppress", "settle"} => link.status \in {"open", "fixed"},
         s = "create" /\ job[a].kind = "check" => link.status # "suppressed",
         board' = board, era' = era
  PROVE  JobsOK'
<1> DEFINE j == [job[a] EXCEPT !.read = link, !.knew = k]
<1>1. JobOK(Len(board), era, at[a], job[a]) /\ job[a] \in JobType
  BY OwnJob DEF Sound
<1>2. /\ j \in JobType /\ j.read = link /\ j.ticket = job[a].ticket
      /\ j.kind = job[a].kind /\ j.era = job[a].era
  BY <1>1 DEF JobType, Sound, Typed, RowsOK
<1>3. NamedBy(Len(board), link)
  BY DEF Sound, Typed, RowsOK, Names, NamedBy, Tickets
<1>4. JobOK(Len(board), era, s, j)
  BY <1>1, <1>2, <1>3 DEF JobOK
<1>5. at' = [at EXCEPT ![a] = s] /\ job' = [job EXCEPT ![a] = j] /\ Typed
      /\ Len(board') = Len(board)
  BY DEF Sound
<1> HIDE DEF j
<1> QED
  BY <1>4, <1>5, GoesOn

(* an actor reads,                                                           *)
LEMMA ReadTyped ==
  ASSUME Sound, NEW a \in Actors, Sync(a) \/ Unread(a) \/ ReadFixed(a) \/ Look(a)
  PROVE  Typed'
<1>1. UNCHANGED <<ledger, tracker, era, counts, told, stale>> /\ at[a] # "idle"
      /\ board' = board /\ era' = era
  BY DEF Sync, Unread, ReadFixed, Look, tracker
<1>2. RowsOK' /\ CountsOK'
  BY <1>1, RowsStay, CountsStay DEF Sound
<1>3. JobsOK'
  <2>1. CASE \E s \in Rests : Leave(a, s)
    BY <1>1, <2>1, Leaves DEF Sound
  <2>2. CASE Sync(a) /\ ~\E s \in Rests : Leave(a, s)
    <3> DEFINE s == Answer(board[link.ticket], link.status)
    <3>1. Present(a) /\ link.status \in Reread /\ s # "walk" /\ Go(a, s)
          /\ job' = [job EXCEPT ![a].read = link]
      BY <2>2 DEF Sync, Rests
    <3>2. \/ s = "suppress"
          \/ s = "fix" /\ link.status = "open"
          \/ s = "reopen" /\ link.status = "fixed"
      BY <3>1 DEF Answer
    <3>3. job[a].knew \in BOOLEAN /\ job[a] \in JobType
      BY OwnJob DEF Sound, JobType
    <3>4. [job[a] EXCEPT !.read = link] = [job[a] EXCEPT !.read = link, !.knew = job[a].knew]
      BY <3>3 DEF JobType
    <3>5. s \in Steps /\ s \notin {"keep", "link", "create", "comment", "count"}
          /\ s \notin Verify
      BY <3>2 DEF Steps, Syncing, Verify
    <3>6. at' = [at EXCEPT ![a] = s]
          /\ job' = [job EXCEPT ![a] = [job[a] EXCEPT !.read = link, !.knew = job[a].knew]]
      BY <3>1, <3>4 DEF Go
    <3>7. link.status \in {"open", "fixed"}
      BY <3>1 DEF Reread
    <3> HIDE DEF s
    <3> QED
      BY <1>1, <3>2, <3>3, <3>5, <3>6, <3>7, Takes
  <2>3. CASE ReadFixed(a) /\ ~\E s \in Rests : Leave(a, s)
    <3>1. link.status = "fixed" /\ Go(a, "confirm") /\ job' = [job EXCEPT ![a].read = link]
      BY <2>3 DEF ReadFixed, Rests, Verifying
    <3>3. job[a].knew \in BOOLEAN /\ job[a] \in JobType
      BY OwnJob DEF Sound, JobType
    <3>4. [job[a] EXCEPT !.read = link] = [job[a] EXCEPT !.read = link, !.knew = job[a].knew]
      BY <3>3 DEF JobType
    <3>5. "confirm" \in Steps
      BY DEF Steps, Verify
    <3>6. at' = [at EXCEPT ![a] = "confirm"]
          /\ job' = [job EXCEPT ![a] = [job[a] EXCEPT !.read = link, !.knew = job[a].knew]]
      BY <3>1, <3>4 DEF Go
    <3> QED
      BY <1>1, <3>1, <3>3, <3>5, <3>6, Takes
  <2>4. CASE Look(a) /\ ~\E s \in Rests : Leave(a, s)
    <3> DEFINE s == Decide(job[a].kind)
    <3>1. s # "verify" /\ Go(a, s) /\ job' = [job EXCEPT ![a].read = link, ![a].knew = told]
      BY <2>4 DEF Look, Rests
    <3>2. \/ s = "comment" /\ link.status = "open"
          \/ s = "create" /\ (job[a].kind = "check" => link.status # "suppressed")
      BY <3>1 DEF Decide, Filing
    <3>3. told \in BOOLEAN /\ job[a] \in JobType
      BY OwnJob DEF Sound, Typed, CountsOK
    <3>5. s \in Steps /\ s \notin {"fix", "reopen", "suppress", "settle", "count", "keep", "link"}
          /\ s \notin Verify
      BY <3>2 DEF Steps, File, Verify
    <3>6. at' = [at EXCEPT ![a] = s]
          /\ job' = [job EXCEPT ![a] = [job[a] EXCEPT !.read = link, !.knew = told]]
      <4>1. job \in [Actors -> JobType]
        BY DEF Sound, Typed, JobsOK
      <4> QED
        BY <3>1, <4>1 DEF Go
    <3> HIDE DEF s
    <3> QED
      BY <1>1, <3>2, <3>3, <3>5, <3>6, Takes
  <2>5. Unread(a) => \E s \in Rests : Leave(a, s)
    BY DEF Unread, Rests
  <2> QED
    BY <2>1, <2>2, <2>3, <2>4, <2>5
<1> QED
  BY <1>2, <1>3 DEF Typed

(* a row of another status is a row,                                       *)
LEMMA LinkTyped ==
  ASSUME Typed
  PROVE  /\ link \in LinkType
         /\ \A st \in {"open", "fixed", "resolved", "suppressed"} :
              /\ [link EXCEPT !.status = st] \in LinkType
              /\ [link EXCEPT !.status = st].status = st
              /\ [link EXCEPT !.status = st].ticket = link.ticket
  BY DEF Typed, RowsOK, LinkType

(* a fix is marked or found undone,                                          *)
LEMMA FixTyped ==
  ASSUME Sound, NEW a \in Actors, Fix(a) \/ Reopen(a) PROVE Typed'
<1>1. PICK st \in {"fixed", "open"} :
        /\ at[a] \in {"fix", "reopen"}
        /\ Update(a, [link EXCEPT !.status = st], Leave(a, "walk"), "walk")
        /\ UNCHANGED <<settled, tracker, era, counts, told>>
  BY DEF Fix, Reopen
<1>2. job[a].read.status # "none"
  BY <1>1, OwnJob DEF Sound, JobOK
<1>3. Present(a) => link.ticket \in Tickets
  BY <1>2, StillThere
<1> DEFINE new == [link EXCEPT !.status = st]
<1>4. new \in LinkType /\ new.status # "none" /\ new.ticket = link.ticket
  BY LinkTyped DEF Sound
<1>5. Meets(a) /\ IF Present(a) THEN link' = new /\ Leave(a, "walk") ELSE link' = link /\ Leave(a, "walk")
  BY <1>1 DEF Update
<1>6. "walk" \in Rests /\ at[a] # "idle"
  BY <1>1 DEF Rests
<1> HIDE DEF new
<1> QED
  BY <1>1, <1>3, <1>4, <1>5, <1>6, WritesTyped

(* a finding is counted again,                                               *)
LEMMA CountTyped == ASSUME Sound, NEW a \in Actors, Count(a) PROVE Typed'
<1> DEFINE new == [link EXCEPT !.occurrences = Counted(link), !.escalated = @ \/ Escalates(a)]
<1>1. at[a] = "count" /\ Update(a, new, Leave(a, "verify"), "verify")
      /\ UNCHANGED <<settled, tracker, era, counts, told>>
  BY DEF Count
<1>2. job[a].read.status # "none"
  BY <1>1, OwnJob DEF Sound, JobOK
<1>3. Present(a) => link.status # "none" /\ link.ticket \in Tickets
  BY <1>2, StillThere
<1>4. new \in LinkType /\ new.status = link.status /\ new.ticket = link.ticket
  <2>1. link \in LinkType
    BY LinkTyped DEF Sound
  <2>2. Counted(link) \in 1..EscalateAfter
    BY <2>1, LedgerAssumption DEF LinkType, Counted, LedgerAssumption
  <2>3. (link.escalated \/ Escalates(a)) \in BOOLEAN
    BY <2>1 DEF LinkType, Escalates
  <2> QED
    BY <2>1, <2>2, <2>3 DEF LinkType
<1>5. Meets(a) /\ IF Present(a) THEN link' = new /\ Leave(a, "verify") ELSE link' = link /\ Leave(a, "verify")
  BY <1>1 DEF Update
<1>6. "verify" \in Rests /\ at[a] # "idle"
  BY <1>1 DEF Rests
<1> HIDE DEF new
<1> QED
  BY <1>1, <1>3, <1>4, <1>5, <1>6, WritesTyped

(* a row is written,                                                         *)
LEMMA UpsertTyped == ASSUME Sound, NEW a \in Actors, Upsert(a) PROVE Typed'
<1> DEFINE new == [link EXCEPT !.ticket = job[a].ticket, !.status = "open"]
<1>1. at[a] = "link" /\ Update(a, new, Leave(a, "verify"), "verify")
      /\ UNCHANGED <<settled, tracker, era, counts, told>>
  BY DEF Upsert, Filing
<1>2. job[a].ticket \in Tickets
  BY <1>1, OwnJob DEF Sound, JobOK, Tickets
<1>4. new \in LinkType /\ new.status = "open" /\ new.ticket = job[a].ticket
  <2>1. link \in LinkType /\ job[a].ticket \in Nat
    BY LinkTyped, OwnJob DEF Sound, JobType
  <2> QED
    BY <2>1 DEF LinkType
<1>5. Meets(a) /\ IF Present(a) THEN link' = new /\ Leave(a, "verify") ELSE link' = link /\ Leave(a, "verify")
  BY <1>1 DEF Update
<1>6. "verify" \in Rests /\ at[a] # "idle"
  BY <1>1 DEF Rests
<1> HIDE DEF new
<1> QED
  BY <1>1, <1>2, <1>4, <1>5, <1>6, WritesTyped

(* Suppressed or resolved, and on to the settlement.                          *)
LEMMA RuledTyped ==
  ASSUME Sound, NEW a \in Actors, Suppress(a) \/ Resolve(a) PROVE Typed'
<1>1. PICK st \in {"suppressed", "resolved"}, s \in {"settle", "seal"}, t \in {"walk", "idle"} :
        /\ \/ at[a] = "suppress" /\ s = "settle"
           \/ at[a] = "resolve" /\ s = "seal"
        /\ Update(a, [link EXCEPT !.status = st], Go(a, s) /\ Stay(a), t)
        /\ UNCHANGED <<settled, tracker, era, counts, told>>
  BY DEF Suppress, Resolve, Verifying
<1> DEFINE new == [link EXCEPT !.status = st]
<1>2. JobOK(Len(board), era, at[a], job[a]) /\ job[a].read.status # "none"
  BY <1>1, OwnJob DEF Sound, JobOK, Verify
<1>3. Present(a) => link.ticket \in Tickets
  BY <1>2, StillThere
<1>4. new \in LinkType /\ new.status # "none" /\ new.ticket = link.ticket
  BY LinkTyped DEF Sound
<1>5. Meets(a) /\ IF Present(a) THEN link' = new /\ Go(a, s) /\ Stay(a) ELSE link' = link /\ Leave(a, t)
  BY <1>1 DEF Update
<1>6. t \in Rests /\ at[a] # "idle"
  BY <1>1 DEF Rests
<1> HIDE DEF new
<1>7. RowsOK' /\ CountsOK'
  BY <1>1, <1>3, <1>4, <1>5, Updated
<1>8. board' = board /\ era' = era
  BY <1>1 DEF tracker
<1>9. JobsOK'
  <2>1. CASE Present(a)
    <3>1. JobOK(Len(board), era, s, job[a])
      BY <1>1, <1>2 DEF JobOK, Steps, Syncing, Verify
    <3> QED
      BY <1>5, <1>8, <2>1, <3>1, GoesStay DEF Sound
  <2>2. CASE ~Present(a)
    BY <1>5, <1>6, <1>8, <2>2, Leaves DEF Sound
  <2> QED
    BY <2>1, <2>2
<1> QED
  BY <1>7, <1>9 DEF Typed

(* A ticket that an actor has read is one of the board's.                     *)
LEMMA ReadTicket ==
  ASSUME Typed, NEW a \in Actors,
         at[a] \in {"suppress", "settle", "comment", "count"} \union Verify
  PROVE  job[a].read.ticket \in Tickets
  BY OwnJob DEF JobOK, NamedBy, Tickets

(* a ticket is settled or sealed,                                            *)
LEMMA SettleTyped == ASSUME Sound, NEW a \in Actors, Settle(a) \/ Seal(a) PROVE Typed'
<1>1. /\ at[a] \in {"settle"} \union Verify /\ at[a] # "idle"
      /\ \E s \in Rests : Leave(a, s)
      /\ \E w \in {"suppressed", "closed"} : settled' = settled \union {<<job[a].read.ticket, w>>}
      /\ UNCHANGED <<link, tracker, era, counts, stale>>
      /\ told' = told \/ told' = (told \/ Present(a))
  BY DEF Settle, Seal, Rests, Verify
<1>2. job[a].read.ticket \in Tickets
  BY <1>1, ReadTicket DEF Sound
<1>3. RowsOK'
  <2>1. Tickets' = Tickets /\ board' = board /\ comments' = comments /\ link' = link
    BY <1>1 DEF tracker, Tickets
  <2>2. settled' \subseteq Tickets \X {"suppressed", "closed"}
    BY <1>1, <1>2 DEF Sound, Typed, RowsOK
  <2> QED
    BY <2>1, <2>2 DEF Sound, Typed, RowsOK, Names
<1>4. told' \in BOOLEAN
  <2>1. told \in BOOLEAN /\ Present(a) \in BOOLEAN
    BY DEF Sound, Typed, CountsOK, Present
  <2> QED
    BY <1>1, <2>1
<1>5. CountsOK'
  BY <1>1, <1>4 DEF Sound, Typed, CountsOK, counts
<1>6. JobsOK'
  BY <1>1, Leaves DEF Sound, tracker
<1> QED
  BY <1>3, <1>5, <1>6 DEF Typed

(* a check ends its walk,                                                    *)
LEMMA WalkTyped == ASSUME Sound, NEW a \in Actors, Walk(a) PROVE Typed'
<1>1. PICK v \in Sights : /\ job' = [job EXCEPT ![a].sees = v]
                          /\ Go(a, IF v = "qualifies" THEN "look" ELSE "verify")
  BY DEF Walk
<1>2. /\ at[a] = "walk" /\ UNCHANGED <<ledger, tracker, era, counts, told, stale>>
      /\ board' = board /\ era' = era
  BY DEF Walk, tracker
<1>3. RowsOK' /\ CountsOK'
  BY <1>2, RowsStay, CountsStay DEF Sound
<1> DEFINE j == [job[a] EXCEPT !.sees = v]
           s == IF v = "qualifies" THEN "look" ELSE "verify"
<1>4. JobOK(Len(board), era, at[a], job[a]) /\ job[a] \in JobType
  BY OwnJob DEF Sound
<1>5. /\ j \in JobType /\ j.read = job[a].read /\ j.ticket = job[a].ticket
      /\ j.kind = job[a].kind /\ j.era = job[a].era
  BY <1>4 DEF JobType
<1>6. JobOK(Len(board), era, s, j)
  BY <1>2, <1>4, <1>5 DEF JobOK, Steps, Verify
<1>7. at' = [at EXCEPT ![a] = s] /\ job' = [job EXCEPT ![a] = j]
  BY <1>1 DEF Go
<1> HIDE DEF j, s
<1>8. JobsOK'
  BY <1>2, <1>6, <1>7, GoesOn DEF Sound
<1> QED
  BY <1>3, <1>8 DEF Typed

(* the tracker is told,                                                      *)
LEMMA SayTyped == ASSUME Sound, NEW a \in Actors, Comment(a) \/ Confirm(a) PROVE Typed'
<1>1. /\ \/ at[a] = "comment" /\ Go(a, "count")
         \/ at[a] = "confirm" /\ Go(a, "resolve")
      /\ Stay(a)
      /\ \/ comments' = comments
         \/ \E w \in {"escalated", "verified"} : comments' = comments \union {<<job[a].read.ticket, w>>}
      /\ UNCHANGED <<ledger, board, era, counts, told, stale>>
  BY DEF Comment, Confirm, Verifying
<1>2. job[a].read.ticket \in Tickets
  BY <1>1, ReadTicket DEF Sound, Verify
<1>3. RowsOK'
  BY <1>1, <1>2 DEF Sound, Typed, RowsOK, Names, Tickets, ledger
<1>4. CountsOK'
  BY <1>1, CountsStay DEF Sound
<1>5. JobOK(Len(board), era, at[a], job[a])
  BY OwnJob DEF Sound
<1>6. PICK s \in {"count", "resolve"} : Go(a, s) /\ at[a] = (IF s = "count" THEN "comment" ELSE "confirm")
  BY <1>1
<1>7. JobOK(Len(board), era, s, job[a])
  BY <1>5, <1>6 DEF JobOK, Steps, File, Verify
<1>8. JobsOK'
  BY <1>1, <1>6, <1>7, GoesStay DEF Sound
<1> QED
  BY <1>3, <1>4, <1>8 DEF Typed

(* a ticket is created,                                                      *)
LEMMA CreateTyped == ASSUME Sound, NEW a \in Actors, CreateIssue(a) PROVE Typed'
<1>1. /\ at[a] = "create" /\ at[a] # "idle"
      /\ UNCHANGED <<ledger, comments, era, counts, told, stale>> /\ era' = era
  BY DEF CreateIssue
<1>2. CountsOK'
  BY <1>1, CountsStay DEF Sound
<1>3. CASE Len(board) < MaxTickets
  <2> DEFINE j == [job[a] EXCEPT !.ticket = Len(board) + 1]
  <2>1. board' = Append(board, "open") /\ job' = [job EXCEPT ![a] = j]
        /\ at' = [at EXCEPT ![a] = "keep"]
    BY <1>3 DEF CreateIssue, Go, Filing
  <2>2. board \in Seq(Outcomes) /\ "open" \in Outcomes
    BY DEF Sound, Typed, RowsOK, Outcomes
  <2>3. /\ board' \in Seq(Outcomes) /\ Len(board') = Len(board) + 1
        /\ Len(board) \in Nat /\ era \in Nat
    BY <2>1, <2>2, Sizes DEF Sound
  <2>4. Len(board') <= MaxTickets /\ Tickets \subseteq Tickets'
    BY <1>3, <2>3, LedgerAssumption DEF LedgerAssumption, Tickets
  <2>5. RowsOK'
    BY <1>1, <2>3, <2>4 DEF Sound, Typed, RowsOK, Names, ledger
  <2>6. JobOK(Len(board), era, at[a], job[a]) /\ job[a] \in JobType
    BY OwnJob DEF Sound
  <2>7. JobOK(Len(board'), era, at[a], job[a])
    BY <2>3, <2>6, Grown
  <2>8. /\ j \in JobType /\ j.read = job[a].read /\ j.ticket = Len(board) + 1
        /\ j.kind = job[a].kind /\ j.era = job[a].era
    BY <2>3, <2>6 DEF JobType
  <2>9. JobOK(Len(board'), era', "keep", j)
    BY <1>1, <2>3, <2>7, <2>8 DEF JobOK, Steps, File, Verify
  <2> HIDE DEF j
  <2>10. JobsOK /\ Len(board') \in Nat /\ Len(board) <= Len(board') /\ era' \in Nat /\ era <= era'
    BY <1>1, <2>3 DEF Sound, Typed
  <2>11. JobsOK'
    BY <2>1, <2>3, <2>9, <2>10, Moves
  <2> QED
    BY <1>2, <2>5, <2>11 DEF Typed
<1>4. CASE ~(Len(board) < MaxTickets)
  <2>1. board' = board /\ Leave(a, "verify") /\ "verify" \in Rests
    BY <1>4 DEF CreateIssue, Rests
  <2>2. JobsOK'
    BY <1>1, <2>1, Leaves DEF Sound
  <2>3. RowsOK'
    BY <1>1, <2>1, RowsStay DEF Sound, tracker
  <2> QED
    BY <1>2, <2>2, <2>3 DEF Typed
<1> QED
  BY <1>3, <1>4

(* a ticket is superseded,                                                   *)
LEMMA SupersedeTyped == ASSUME Sound, NEW a \in Actors, Supersede(a) PROVE Typed'
<1>1. /\ at[a] = "keep" /\ Go(a, "link") /\ Stay(a)
      /\ settled' = settled \union Outgoing(job[a].kind, job[a].read)
      /\ UNCHANGED <<link, tracker, era, counts, told, stale>>
  BY DEF Supersede, Filing
<1>2. board' = board /\ comments' = comments /\ era' = era /\ Tickets' = Tickets
  BY <1>1 DEF tracker, Tickets
<1>3. JobOK(Len(board), era, at[a], job[a]) /\ job[a] \in JobType
  BY OwnJob DEF Sound
<1>4. Outgoing(job[a].kind, job[a].read) \subseteq Tickets \X {"suppressed", "closed"}
  BY <1>3 DEF Outgoing, JobOK, NamedBy, Tickets
<1>5. RowsOK'
  BY <1>1, <1>2, <1>4 DEF Sound, Typed, RowsOK, Names
<1>6. CountsOK'
  BY <1>1, CountsStay DEF Sound
<1>7. JobOK(Len(board), era, "link", job[a])
  BY <1>1, <1>3 DEF JobOK, Steps, File, Verify
<1>8. JobsOK'
  BY <1>1, <1>2, <1>7, GoesStay DEF Sound
<1> QED
  BY <1>5, <1>6, <1>8 DEF Typed

(* A call that throws, and a step that runs again.                            *)
LEMMA FaultTyped == ASSUME Sound, NEW a \in Actors, Throws(a) \/ Again(a) PROVE Typed'
<1>1. /\ Fault /\ UNCHANGED <<ledger, tracker, era, checks, clicks, told, stale>>
      /\ at[a] # "idle" /\ \E s \in Rests : Leave(a, s)
  BY DEF Throws, Again, Rests, Syncing, File, Verify
<1>2. RowsOK' /\ CountsOK'
  BY <1>1, RowsStay, Faulted DEF Sound
<1>3. JobsOK'
  BY <1>1, Leaves DEF Sound, tracker
<1> QED
  BY <1>2, <1>3 DEF Typed

(* people move a ticket,                                                     *)
LEMMA MoveTyped == ASSUME Sound, NEW t \in 1..Len(board), Move(t) PROVE Typed'
<1>1. PICK o \in Outcomes : board' = [board EXCEPT ![t] = o]
  BY DEF Move
<1>2. UNCHANGED <<ledger, comments, era, at, job, counts, told, stale>>
  BY DEF Move
<1>3. board' \in Seq(Outcomes) /\ Len(board') = Len(board)
  BY <1>1 DEF Sound, Typed, RowsOK
<1>4. Tickets' = Tickets
  BY <1>3 DEF Tickets
<1>5. RowsOK'
  BY <1>2, <1>3, <1>4 DEF Sound, Typed, RowsOK, Names, ledger
<1>6. CountsOK'
  BY <1>2, CountsStay DEF Sound
<1>7. JobsOK'
  BY <1>2, <1>3 DEF Sound, Typed, JobsOK
<1> QED
  BY <1>5, <1>6, <1>7 DEF Typed

(* the app is removed and added again,                                       *)
LEMMA ReaddTyped == ASSUME Sound, Readd PROVE Typed'
<1>1. /\ era' = era + 1 /\ faults + clicks + era < MaxUpsets /\ link' = NoLink
      /\ UNCHANGED <<settled, tracker, at, job, counts, told, stale>>
  BY DEF Readd, Upset
<1>2. Len(board) \in Nat /\ era \in Nat /\ board' = board /\ Tickets' = Tickets
  BY <1>1, Sizes DEF Sound, tracker, Tickets
<1>3. NoLink \in LinkType /\ NoLink.status = "none"
  BY IdleOK, <1>2 DEF NoLink
<1>4. RowsOK'
  BY <1>1, <1>2, <1>3 DEF Sound, Typed, RowsOK, Names, tracker
<1>5. told' \in BOOLEAN
  BY <1>1 DEF Sound, Typed, CountsOK
<1>6. CountsOK'
  BY <1>1, <1>2, <1>5, LedgerAssumption DEF Sound, Typed, CountsOK, LedgerAssumption, counts
<1>7. \A b \in Actors : JobOK(Len(board), era + 1, at[b], job[b])
  <2> TAKE b \in Actors
  <2>1. JobOK(Len(board), era, at[b], job[b])
    BY OwnJob DEF Sound
  <2> QED
    BY <1>2, <2>1, Grown
<1>8. JobsOK'
  BY <1>1, <1>2, <1>7 DEF Sound, Typed, JobsOK
<1> QED
  BY <1>4, <1>6, <1>8 DEF Typed

(* nothing happens.                                                          *)
LEMMA StutterTyped == ASSUME Typed, UNCHANGED vars PROVE Typed'
<1>1. RowsOK' /\ CountsOK'
  BY RowsStay, CountsStay DEF vars
<1>2. JobsOK'
  BY DEF Typed, JobsOK, vars, tracker
<1> QED
  BY <1>1, <1>2 DEF Typed

(* Every step keeps the types.                                               *)
LEMMA TypedStep == ASSUME Sound, [Next]_vars PROVE Typed'
<1>1. ASSUME NEW a \in Actors, Step(a) PROVE Typed'
  BY <1>1, StartTyped, ReadTyped, FixTyped, RuledTyped, SettleTyped, WalkTyped, SayTyped,
     CountTyped, CreateTyped, SupersedeTyped, UpsertTyped DEF Step
<1>2. ASSUME NEW a \in Actors, Click(a) \/ Throws(a) \/ Again(a) PROVE Typed'
  BY <1>2, ClickTyped, FaultTyped
<1> QED
  BY <1>1, <1>2, MoveTyped, ReaddTyped, StutterTyped DEF Next, Sound

-----------------------------------------------------------------------------
(* A row that an actor has read is there until its app goes.                  *)

(* What the actors carry after a step: nothing, the row, or what they had.    *)
Carried(l) == \A b \in Actors :
  \/ job'[b].read.status = "none"
  \/ job'[b].read = l
  \/ job'[b].read = job[b].read /\ job'[b].era = job[b].era

(* An actor that rests carries no read row any more,                         *)
LEMMA LeaveCarries ==
  ASSUME Typed, NEW a \in Actors, NEW s, Leave(a, s)
  PROVE  Carried(link)
<1>1. Idle.read.status = "none" /\ NoLink.status = "none"
  BY DEF Idle, NoLink
<1>2. job \in [Actors -> JobType]
  BY DEF Typed, JobsOK
<1>3. CASE After(a, s) = "idle"
  BY <1>1, <1>2, <1>3 DEF Leave, Carried
<1>4. CASE After(a, s) # "idle"
  <2> DEFINE j == [job[a] EXCEPT !.read = NoLink, !.ticket = 0, !.knew = FALSE]
  <2>1. job' = [job EXCEPT ![a] = j]
    BY <1>4 DEF Leave
  <2>2. j.read = NoLink
    BY <1>2 DEF JobType
  <2> HIDE DEF j
  <2> QED
    BY <1>1, <1>2, <2>1, <2>2 DEF Carried
<1> QED
  BY <1>3, <1>4

(* and jobs that stay carry what they carried.                               *)
LEMMA StayCarries == ASSUME job' = job PROVE Carried(link)
  BY DEF Carried

(* A row that is there stays for those who read it.                          *)
LEMMA KeptBy ==
  ASSUME Sound, Carried(link), era' = era,
         link' = link \/ link'.status # "none"
  PROVE  Kept'
<1> SUFFICES ASSUME NEW b \in Actors, job'[b].era = era', job'[b].read.status # "none"
             PROVE  link'.status # "none"
  BY DEF Kept, Present
<1>1. CASE job'[b].read = link
  BY <1>1
<1>2. CASE job'[b].read = job[b].read /\ job'[b].era = job[b].era
  BY <1>2 DEF Sound, Kept, Present
<1> QED
  BY <1>1, <1>2 DEF Carried

(* Every step keeps the read rows.                                           *)
LEMMA KeptStep == ASSUME Sound, [Next]_vars PROVE Kept'
<1>1. job \in [Actors -> JobType] /\ link \in LinkType /\ Typed
  BY LinkTyped DEF Sound, Typed, JobsOK
<1>2. NoLink.status = "none" /\ Idle.read = NoLink
  BY DEF NoLink, Idle
<1>3. ASSUME NEW a \in Actors, Start(a) \/ Click(a) PROVE Kept'
  <2>1. PICK k \in {"check", "click"} :
           job' = [job EXCEPT ![a] = [Idle EXCEPT !.kind = k, !.era = era]]
    BY <1>3 DEF Start, Click
  <2>2. [Idle EXCEPT !.kind = k, !.era = era].read = NoLink
    BY DEF Idle
  <2>3. Carried(link)
    BY <1>1, <1>2, <2>1, <2>2 DEF Carried
  <2> QED
    BY <1>3, <2>3, KeptBy DEF Start, Click, ledger
<1>4. ASSUME NEW a \in Actors, Sync(a) \/ ReadFixed(a) \/ Look(a) PROVE Kept'
  <2>1. \/ \E s \in Rests : Leave(a, s)
        \/ job' = [job EXCEPT ![a].read = link]
        \/ job' = [job EXCEPT ![a].read = link, ![a].knew = told]
    BY <1>4 DEF Sync, ReadFixed, Look, Rests
  <2>2. link' = link /\ era' = era
    BY <1>4 DEF Sync, ReadFixed, Look, ledger
  <2>3. Carried(link)
    <3>1. CASE \E s \in Rests : Leave(a, s)
      BY <3>1, <1>1, LeaveCarries
    <3>2. CASE job' = [job EXCEPT ![a].read = link]
      BY <1>1, <3>2 DEF Carried, JobType
    <3>3. CASE job' = [job EXCEPT ![a].read = link, ![a].knew = told]
      <4>1. told \in BOOLEAN
        BY DEF Sound, Typed, CountsOK
      <4>2. \A b \in Actors : job'[b] = IF b = a THEN [job[b] EXCEPT !.read = link, !.knew = told] ELSE job[b]
        BY <1>1, <3>3
      <4>3. job'[a].read = link
        BY <1>1, <4>2 DEF JobType
      <4> QED
        BY <4>2, <4>3 DEF Carried
    <3> QED
      BY <2>1, <3>1, <3>2, <3>3
  <2> QED
    BY <2>2, <2>3, KeptBy
<1>5. ASSUME NEW a \in Actors,
             Unread(a) \/ Settle(a) \/ Seal(a) \/ Comment(a) \/ Confirm(a) \/ Supersede(a)
             \/ Throws(a) \/ Again(a)
      PROVE  Kept'
  <2>1. link' = link /\ era' = era /\ ((\E s \in Rests : Leave(a, s)) \/ job' = job)
    BY <1>5 DEF Unread, Settle, Seal, Comment, Confirm, Supersede, Throws, Again, ledger, Stay,
                Rests
  <2> QED
    BY <1>1, <2>1, LeaveCarries, StayCarries, KeptBy
<1>6. ASSUME NEW a \in Actors, Walk(a) \/ CreateIssue(a) PROVE Kept'
  <2>1. /\ link' = link /\ era' = era
        /\ \/ \E s \in Rests : Leave(a, s)
           \/ \E v : job' = [job EXCEPT ![a].sees = v]
           \/ \E v : job' = [job EXCEPT ![a].ticket = v]
    BY <1>6 DEF Walk, CreateIssue, ledger, Rests
  <2>2. Carried(link)
    <3>1. CASE \E s \in Rests : Leave(a, s)
      BY <3>1, <1>1, LeaveCarries
    <3>2. CASE \E v : job' = [job EXCEPT ![a].sees = v]
      BY <1>1, <3>2 DEF Carried, JobType
    <3>3. CASE \E v : job' = [job EXCEPT ![a].ticket = v]
      BY <1>1, <3>3 DEF Carried, JobType
    <3> QED
      BY <2>1, <3>1, <3>2, <3>3
  <2> QED
    BY <2>1, <2>2, KeptBy
<1>7. ASSUME NEW a \in Actors, Fix(a) \/ Reopen(a) \/ Suppress(a) \/ Resolve(a) PROVE Kept'
  <2>1. era' = era
    BY <1>7 DEF Fix, Reopen, Suppress, Resolve
  <2>2. \A s : Leave(a, s) => Carried(link)
    BY <1>1, LeaveCarries
  <2>3. \A s : Go(a, s) /\ Stay(a) => Carried(link)
    BY StayCarries DEF Stay
  <2>4. PICK st \in {"open", "fixed", "resolved", "suppressed"} : \E s, t :
          \/ Update(a, [link EXCEPT !.status = st], Leave(a, s), t)
          \/ Update(a, [link EXCEPT !.status = st], Go(a, s) /\ Stay(a), t)
    BY <1>7 DEF Fix, Reopen, Suppress, Resolve
  <2>5. PICK s, t :
          \/ Update(a, [link EXCEPT !.status = st], Leave(a, s), t)
          \/ Update(a, [link EXCEPT !.status = st], Go(a, s) /\ Stay(a), t)
    BY <2>4
  <2>6. [link EXCEPT !.status = st].status # "none"
    BY <1>1, LinkTyped
  <2>7. link' = link \/ link' = [link EXCEPT !.status = st]
    BY <2>5 DEF Update
  <2>8. Carried(link)
    BY <2>2, <2>3, <2>5 DEF Update
  <2> QED
    BY <2>1, <2>6, <2>7, <2>8, KeptBy
<1>8. ASSUME NEW a \in Actors, Count(a) \/ Upsert(a) PROVE Kept'
  <2>1. era' = era /\ at[a] \in {"count", "link"}
    BY <1>8 DEF Count, Upsert
  <2>2. ASSUME NEW s, Leave(a, s) PROVE Carried(link)
    BY <1>1, <2>2, LeaveCarries
  <2>3. CASE Count(a) /\ Present(a)
    <3>1. job[a].read.status # "none"
      BY <2>3, OwnJob DEF Sound, JobOK, Count
    <3>2. link.status # "none"
      BY <2>3, <3>1, StillThere
    <3>3. link'.status = link.status /\ Leave(a, "verify")
      BY <1>1, <2>3 DEF Count, Update, LinkType
    <3> QED
      BY <2>1, <2>2, <3>2, <3>3, KeptBy
  <2>4. CASE Upsert(a) /\ Present(a)
    <3>1. link'.status = "open" /\ Leave(a, Filing.link)
      BY <1>1, <2>4 DEF Upsert, Update, LinkType
    <3> QED
      BY <2>1, <2>2, <3>1, KeptBy
  <2>5. CASE ~Present(a)
    <3>1. link' = link /\ Leave(a, "verify")
      BY <1>8, <2>5 DEF Count, Upsert, Update
    <3> QED
      BY <2>1, <2>2, <3>1, KeptBy
  <2> QED
    BY <1>8, <2>3, <2>4, <2>5
<1>9. ASSUME Readd PROVE Kept'
  <2>1. era' = era + 1 /\ job' = job /\ era \in Nat
    BY <1>9, Sizes DEF Readd, Sound
  <2>2. \A b \in Actors : job[b].era \in Nat /\ job[b].era <= era
    BY <1>1, OwnJob, LedgerAssumption DEF JobOK, JobType, LedgerAssumption
  <2>3. \A b \in Actors : job'[b].era # era'
    BY <2>1, <2>2
  <2> QED
    BY <2>3 DEF Kept, Present
<1>10. ASSUME NEW t \in 1..Len(board), Move(t) PROVE Kept'
  BY <1>10, StayCarries, KeptBy DEF Move, ledger
<1>11. CASE UNCHANGED vars
  BY <1>11, StayCarries, KeptBy DEF vars, ledger
<1> QED
  BY <1>3, <1>4, <1>5, <1>6, <1>7, <1>8, <1>9, <1>10, <1>11 DEF Next, Step

(* The rows, the settlements and what the checks carry keep their types, and  *)
(* what they name are tickets of the tracker.                                 *)
THEOREM TypeCorrect == Spec => []TypeOK
<1>1. Init => Sound
  <2>1. Init => Kept
    BY DEF Init, Kept, Idle, NoLink
  <2> QED
    BY <2>1, InitTyped DEF Sound
<1>2. Sound /\ [Next]_vars => Sound'
  BY TypedStep, KeptStep DEF Sound
<1>3. Sound => TypeOK
  BY TypedIsTypeOK DEF Sound
<1> QED
  BY <1>1, <1>2, <1>3, PTL DEF Spec

-----------------------------------------------------------------------------
(* A fix is verified before it is resolved.                                   *)

Writers == {"fix", "reopen", "suppress", "count", "link", "resolve"}

(* A write that leaves the count of surprises at nought met what it had read. *)
LEMMA Fresh ==
  ASSUME Typed, NEW a \in Actors, at[a] \in Writers, Meets(a), stale' = 0
  PROVE  Present(a) /\ link = job[a].read
<1>1. \E t \in Nat : t \in Tickets
  <2>1. JobOK(Len(board), era, at[a], job[a])
    BY OwnJob
  <2>2. Len(board) \in Nat
    BY DEF Typed, RowsOK
  <2>3. job[a].read.status # "none" \/ at[a] = "link"
    BY <2>1 DEF JobOK, Writers, Verify
  <2>4. job[a].read.ticket \in Tickets \/ job[a].ticket \in Tickets
    BY <2>1, <2>3 DEF JobOK, NamedBy, Tickets
  <2> QED
    BY <2>2, <2>4 DEF Tickets
<1>2. MaxTickets >= 1
  <2>1. Len(board) \in Nat /\ Len(board) <= MaxTickets
    BY DEF Typed, RowsOK
  <2> QED
    BY <1>1, <2>1, LedgerAssumption DEF Tickets, LedgerAssumption
<1>3. stale \in 0..MaxTickets
  BY DEF Typed, CountsOK
<1>4. AsRead(a)
  BY <1>2, <1>3, LedgerAssumption DEF Meets, LedgerAssumption
<1> QED
  BY <1>4 DEF AsRead

Told(t) == <<t, "verified">> \in comments
Verified ==
  /\ ResolvedIsVerified
  /\ \A b \in Actors : at[b] = "resolve" => Told(job[b].read.ticket)

(* A step that resolves nothing.                                              *)
LEMMA StillVerified ==
  ASSUME Verified, comments \subseteq comments',
         stale' = 0 => stale = 0 /\ (\/ link'.status # "resolved"
                                     \/ link'.status = link.status /\ link'.ticket = link.ticket),
         \A b \in Actors : at'[b] = "resolve" => at[b] = "resolve" /\ job'[b] = job[b]
  PROVE  Verified'
<1>1. ResolvedIsVerified'
  BY DEF Verified, ResolvedIsVerified
<1>2. \A b \in Actors : at'[b] = "resolve" => Told(job[b].read.ticket)'
  BY DEF Verified, Told
<1> QED
  BY <1>1, <1>2 DEF Verified

(* The actor that takes the step is not about to resolve after it.            *)
LEMMA OthersResolve ==
  ASSUME Typed, NEW a \in Actors, NEW s, NEW j, s # "resolve",
         at' = [at EXCEPT ![a] = s], job' = [job EXCEPT ![a] = j]
  PROVE  \A b \in Actors : at'[b] = "resolve" => at[b] = "resolve" /\ job'[b] = job[b]
  BY DEF Typed, JobsOK

(* An actor that rests is not about to resolve.                              *)
LEMMA LeaverResolves ==
  ASSUME Typed, NEW a \in Actors, NEW s \in Rests, Leave(a, s)
  PROVE  \A b \in Actors : at'[b] = "resolve" => at[b] = "resolve" /\ job'[b] = job[b]
<1>1. After(a, s) # "resolve"
  BY DEF After, Rests
<1>2. \E j : job' = [job EXCEPT ![a] = j]
  BY DEF Leave, Typed, JobsOK
<1> QED
  BY <1>1, <1>2, OthersResolve DEF Leave

(* Every step keeps what a resolved row needs.                               *)
LEMMA VerifiedStep == ASSUME Sound, Verified, [Next]_vars PROVE Verified'
<1>1. /\ Typed /\ at \in [Actors -> Steps] /\ job \in [Actors -> JobType] /\ link \in LinkType
      /\ stale \in 0..MaxTickets
  BY LinkTyped DEF Sound, Typed, JobsOK, CountsOK
<1>2. ASSUME NEW a \in Actors, Meets(a), stale' = 0 PROVE stale = 0
  BY <1>1, <1>2, LedgerAssumption DEF Meets, LedgerAssumption
<1>3. ASSUME NEW a \in Actors,
             \/ Start(a) \/ Click(a) \/ Sync(a) \/ ReadFixed(a) \/ Look(a) \/ Unread(a)
             \/ Settle(a) \/ Seal(a) \/ Comment(a) \/ Supersede(a) \/ Walk(a) \/ CreateIssue(a)
             \/ Throws(a) \/ Again(a)
      PROVE  Verified'
  <2>1. link' = link /\ stale' = stale /\ comments \subseteq comments'
    BY <1>3 DEF Start, Click, Sync, ReadFixed, Look, Unread, Settle, Seal, Comment, Supersede,
                Walk, CreateIssue, Throws, Again, ledger, tracker
  <2>2. \/ \E s \in Rests : Leave(a, s)
        \/ \E s : s # "resolve" /\ Go(a, s) /\ \E j : job' = [job EXCEPT ![a] = j]
    <3>1. CASE Start(a) \/ Click(a)
      BY <3>1 DEF Start, Click
    <3>2. CASE Sync(a)
      BY <3>2 DEF Sync, Answer, Rests
    <3>3. CASE ReadFixed(a)
      BY <3>3 DEF ReadFixed, Rests, Verifying
    <3>4. CASE Look(a)
      <4>1. Decide(job[a].kind) # "resolve"
        BY DEF Decide, Filing
      <4>2. CASE Leave(a, "verify")
        BY <4>2 DEF Rests
      <4>3. CASE /\ Go(a, Decide(job[a].kind))
                 /\ job' = [job EXCEPT ![a].read = link, ![a].knew = told]
        <5>1. job' = [job EXCEPT ![a] = [job[a] EXCEPT !.read = link, !.knew = told]]
          BY <1>1, <4>3
        <5> QED
          BY <4>1, <4>3, <5>1
      <4> QED
        BY <3>4, <4>2, <4>3 DEF Look
    <3>5. CASE Comment(a) \/ Supersede(a)
      <4>1. job' = [job EXCEPT ![a] = job[a]]
        BY <1>1, <3>5 DEF Comment, Supersede, Stay
      <4>2. Go(a, "count") \/ Go(a, "link")
        BY <3>5 DEF Comment, Supersede, Filing
      <4> QED
        BY <4>1, <4>2
    <3>6. CASE Walk(a)
      BY <3>6 DEF Walk
    <3>7. CASE CreateIssue(a)
      BY <3>7 DEF CreateIssue, Rests, Filing
    <3>8. CASE Unread(a) \/ Settle(a) \/ Seal(a) \/ Throws(a) \/ Again(a)
      BY <3>8 DEF Unread, Settle, Seal, Throws, Again, Rests
    <3> QED
      BY <1>3, <3>1, <3>2, <3>3, <3>4, <3>5, <3>6, <3>7, <3>8
  <2>3. \A b \in Actors : at'[b] = "resolve" => at[b] = "resolve" /\ job'[b] = job[b]
    BY <1>1, <2>2, LeaverResolves, OthersResolve DEF Go
  <2> QED
    BY <2>1, <2>3, StillVerified
<1>4. ASSUME NEW a \in Actors, Fix(a) \/ Reopen(a) \/ Suppress(a) \/ Count(a) \/ Upsert(a)
      PROVE  Verified'
  <2>1. comments' = comments /\ Meets(a)
    BY <1>4 DEF Fix, Reopen, Suppress, Count, Upsert, Update, tracker
  <2>2. \/ link'.status # "resolved"
        \/ link'.status = link.status /\ link'.ticket = link.ticket
    BY <1>1, <1>4 DEF Fix, Reopen, Suppress, Count, Upsert, Update, LinkType
  <2>3. (\E s \in Rests : Leave(a, s)) \/ (Go(a, "settle") /\ Stay(a))
    BY <1>4 DEF Fix, Reopen, Suppress, Count, Upsert, Update, Rests, Filing
  <2>4. Stay(a) => job' = [job EXCEPT ![a] = job[a]]
    BY <1>1 DEF Stay
  <2>5. \A b \in Actors : at'[b] = "resolve" => at[b] = "resolve" /\ job'[b] = job[b]
    BY <1>1, <2>3, <2>4, LeaverResolves, OthersResolve DEF Go
  <2> QED
    BY <1>2, <2>1, <2>2, <2>5, StillVerified
<1>5. ASSUME NEW a \in Actors, Confirm(a) PROVE Verified'
  <2>1. /\ comments' = comments \union {<<job[a].read.ticket, "verified">>}
        /\ job' = job /\ at' = [at EXCEPT ![a] = "resolve"] /\ link' = link /\ stale' = stale
    BY <1>5 DEF Confirm, Go, Stay, ledger, Verifying
  <2>2. ResolvedIsVerified'
    BY <2>1 DEF Verified, ResolvedIsVerified
  <2>3. ASSUME NEW b \in Actors, at'[b] = "resolve" PROVE Told(job[b].read.ticket)'
    <3>1. CASE b = a
      BY <2>1, <3>1 DEF Told
    <3>2. CASE b # a
      BY <1>1, <2>1, <2>3, <3>2 DEF Verified, Told
    <3> QED
      BY <3>1, <3>2
  <2> QED
    BY <2>2, <2>3 DEF Verified
<1>6. ASSUME NEW a \in Actors, Resolve(a) PROVE Verified'
  <2>1. at[a] = "resolve" /\ comments' = comments /\ Meets(a)
    BY <1>6 DEF Resolve, Update, tracker
  <2>2. Told(job[a].read.ticket)
    BY <2>1 DEF Verified
  <2>3. CASE Present(a)
    <3>1. /\ link' = [link EXCEPT !.status = "resolved"] /\ at' = [at EXCEPT ![a] = "seal"]
          /\ job' = [job EXCEPT ![a] = job[a]]
      BY <1>1, <1>6, <2>3 DEF Resolve, Update, Go, Stay, Verifying
    <3>2. link'.ticket = link.ticket
      BY <1>1, <3>1 DEF LinkType
    <3>3. stale' = 0 => link = job[a].read
      BY <1>1, <2>1, Fresh DEF Writers
    <3>4. ResolvedIsVerified'
      BY <2>1, <2>2, <3>2, <3>3 DEF ResolvedIsVerified, Told
    <3>5. \A b \in Actors : at'[b] = "resolve" => at[b] = "resolve" /\ job'[b] = job[b]
      BY <1>1, <3>1, OthersResolve
    <3>6. \A b \in Actors : at'[b] = "resolve" => Told(job[b].read.ticket)'
      BY <2>1, <3>5 DEF Verified, Told
    <3> QED
      BY <3>4, <3>6 DEF Verified
  <2>4. CASE ~Present(a)
    <3>1. link' = link /\ Leave(a, "idle") /\ "idle" \in Rests
      BY <1>6, <2>4 DEF Resolve, Update, Rests
    <3> QED
      BY <1>1, <1>2, <2>1, <3>1, LeaverResolves, StillVerified
  <2> QED
    BY <2>3, <2>4
<1>7. ASSUME Readd PROVE Verified'
  BY <1>7, StillVerified DEF Readd, tracker, NoLink
<1>8. ASSUME NEW t \in 1..Len(board), Move(t) PROVE Verified'
  BY <1>8, StillVerified DEF Move, ledger
<1>9. CASE UNCHANGED vars
  BY <1>9, StillVerified DEF vars, ledger, tracker
<1> QED
  BY <1>3, <1>4, <1>5, <1>6, <1>7, <1>8, <1>9 DEF Next, Step

(* A resolved row names a ticket that was told of the verified fix, unless a  *)
(* row was written over unread.                                               *)
THEOREM ResolvedHolds == Spec => []ResolvedIsVerified
<1>1. Init => Sound /\ Verified
  <2>1. Init => Kept
    BY DEF Init, Kept, Idle, NoLink
  <2>2. Init => Verified
    BY DEF Init, Verified, ResolvedIsVerified, NoLink
  <2> QED
    BY <2>1, <2>2, InitTyped DEF Sound
<1>2. (Sound /\ Verified) /\ [Next]_vars => (Sound /\ Verified)'
  BY TypedStep, KeptStep, VerifiedStep DEF Sound
<1>3. Sound /\ Verified => ResolvedIsVerified
  BY DEF Verified
<1> QED
  BY <1>1, <1>2, <1>3, PTL DEF Spec

-----------------------------------------------------------------------------
(* A problem ruled not a bug stays unfiled.                                   *)

Filers == {"create", "keep", "link"}

(* While nothing failed, no one pressed and nothing was written over unread:  *)
(* a check that settles has the row suppressed, and once one has settled, the *)
(* ruling is on the books and no check of the app is about to file over it.   *)
Settled ==
  /\ \A b \in Actors :
       /\ job[b].kind # "click"
       /\ at[b] = "create" => ~job[b].knew
       /\ at[b] = "settle" /\ Present(b) => link.status = "suppressed"
       /\ told => ~(at[b] \in Filers /\ Present(b) /\ job[b].read = link)
  /\ told => Ruled /\ link.status \in {"none", "suppressed"}
Rejected == Unruffled => Settled

(* What an actor that files or settles carries is what it carried before.     *)
AsBefore(b) ==
  /\ job'[b].kind # "click"
  /\ at'[b] = "create" => ~job'[b].knew
  /\ at'[b] = "settle" => at[b] = "settle" /\ job'[b].era = job[b].era
  /\ at'[b] \in Filers => /\ at[b] \in Filers /\ job'[b].era = job[b].era
                          /\ job'[b].read = job[b].read

(* A step that leaves row and settlements alone keeps a rejection settled.   *)
LEMMA QuietSettled ==
  ASSUME Settled, link' = link, era' = era, told' = told, Ruled => Ruled',
         \A b \in Actors : AsBefore(b)
  PROVE  Settled'
<1>1. ASSUME NEW b \in Actors
      PROVE  /\ job'[b].kind # "click"
             /\ at'[b] = "create" => ~job'[b].knew
             /\ at'[b] = "settle" /\ Present(b)' => link'.status = "suppressed"
             /\ told' => ~(at'[b] \in Filers /\ Present(b)' /\ job'[b].read = link')
  <2>1. AsBefore(b)
    OBVIOUS
  <2>2. at'[b] = "settle" /\ Present(b)' => link'.status = "suppressed"
    BY <2>1 DEF AsBefore, Present, Settled
  <2>3. told' => ~(at'[b] \in Filers /\ Present(b)' /\ job'[b].read = link')
    BY <2>1 DEF AsBefore, Present, Settled
  <2> QED
    BY <2>1, <2>2, <2>3 DEF AsBefore
<1>2. told' => Ruled' /\ link'.status \in {"none", "suppressed"}
  BY DEF Settled
<1> QED
  BY <1>1, <1>2 DEF Settled

(* A ruling on the books stays there.                                        *)
LEMMA RuledStays ==
  ASSUME Ruled, Len(board) \in Nat, Len(board') \in Nat, Len(board) <= Len(board'),
         settled \subseteq settled'
  PROVE  Ruled'
  BY DEF Ruled

(* An actor that goes on leaves the others where they were,                  *)
LEMMA OthersAsBefore ==
  ASSUME Typed, Settled, NEW a \in Actors, NEW s, NEW j,
         at' = [at EXCEPT ![a] = s], job' = [job EXCEPT ![a] = j],
         j.kind # "click", s \notin Filers \union {"settle"}
  PROVE  \A b \in Actors : AsBefore(b)
<1> TAKE b \in Actors
<1>1. at \in [Actors -> Steps] /\ job \in [Actors -> JobType]
  BY DEF Typed, JobsOK
<1>2. CASE b = a
  <2>1. at'[b] = s /\ job'[b] = j
    BY <1>1, <1>2
  <2> QED
    BY <2>1 DEF AsBefore, Filers
<1>3. CASE b # a
  <2>1. at'[b] = at[b] /\ job'[b] = job[b]
    BY <1>1, <1>3
  <2> QED
    BY <2>1 DEF AsBefore, Settled
<1> QED
  BY <1>2, <1>3

(* ... and so does one that rests.                                           *)
LEMMA LeaverAsBefore ==
  ASSUME Typed, Settled, NEW a \in Actors, NEW s \in Rests, Leave(a, s)
  PROVE  \A b \in Actors : AsBefore(b)
<1>1. After(a, s) \notin Filers \union {"settle"}
  BY DEF After, Rests, Filers
<1>2. job[a] \in JobType /\ job[a].kind # "click" /\ Idle.kind # "click"
  BY OwnJob DEF Settled, Idle
<1> DEFINE j == IF After(a, s) = "idle" THEN Idle
                ELSE [job[a] EXCEPT !.read = NoLink, !.ticket = 0, !.knew = FALSE]
<1>3. j.kind # "click"
  BY <1>2 DEF JobType
<1>4. at' = [at EXCEPT ![a] = After(a, s)] /\ job' = [job EXCEPT ![a] = j]
  BY DEF Leave
<1> HIDE DEF j
<1> QED
  BY <1>1, <1>3, <1>4, OthersAsBefore

(* An actor that files goes on with what it has read.                         *)
LEMMA FilerAsBefore ==
  ASSUME Typed, Settled, NEW a \in Actors, NEW s \in {"keep", "link"}, NEW j, at[a] \in Filers,
         at' = [at EXCEPT ![a] = s], job' = [job EXCEPT ![a] = j],
         j.kind = job[a].kind, j.era = job[a].era, j.read = job[a].read
  PROVE  \A b \in Actors : AsBefore(b)
<1> TAKE b \in Actors
<1>1. at \in [Actors -> Steps] /\ job \in [Actors -> JobType]
  BY DEF Typed, JobsOK
<1>2. CASE b = a
  <2>1. at'[b] = s /\ job'[b] = j /\ job[b].kind # "click"
    BY <1>1, <1>2 DEF Settled
  <2> QED
    BY <1>2, <2>1 DEF AsBefore, Filers
<1>3. CASE b # a
  <2>1. at'[b] = at[b] /\ job'[b] = job[b]
    BY <1>1, <1>3
  <2> QED
    BY <2>1 DEF AsBefore, Settled
<1> QED
  BY <1>2, <1>3

(* The writes that leave nothing to settle.                                   *)
LEMMA WriteRejected ==
  ASSUME Sound, Settled, Unruffled', NEW a \in Actors,
         Fix(a) \/ Reopen(a) \/ Count(a) \/ Upsert(a) \/ Resolve(a)
  PROVE  Settled'
<1>1. /\ Typed /\ at \in [Actors -> Steps] /\ job \in [Actors -> JobType] /\ link \in LinkType
  BY LinkTyped DEF Sound, Typed, JobsOK
<1>2. /\ at[a] \in {"fix", "reopen", "count", "link", "resolve"} /\ Meets(a)
      /\ UNCHANGED <<settled, board, era>> /\ told' = told
  BY DEF Fix, Reopen, Count, Upsert, Resolve, Update, tracker
<1>3. Present(a) /\ link = job[a].read
  BY <1>1, <1>2, Fresh DEF Unruffled, Writers
<1>4. JobOK(Len(board), era, at[a], job[a])
  BY <1>1, OwnJob
<1>5. job[a].kind = "check"
  <2>1. job[a].kind \in {"none", "check", "click"} /\ job[a].kind # "none"
    BY <1>2, <1>4 DEF JobOK, JobType
  <2> QED
    BY <2>1 DEF Settled
<1>6. link.status # "suppressed" /\ (at[a] # "link" => link.status \in {"open", "fixed"})
  BY <1>2, <1>3, <1>4, <1>5 DEF JobOK, Verify
<1>7. ~told
  <2>1. CASE at[a] = "link"
    BY <1>3, <2>1 DEF Settled, Filers
  <2>2. CASE at[a] # "link"
    BY <1>6, <2>2 DEF Settled
  <2> QED
    BY <2>1, <2>2
<1>8. \/ \E s \in Rests : Leave(a, s)
      \/ Go(a, "seal") /\ Stay(a)
  BY DEF Fix, Reopen, Count, Upsert, Resolve, Update, Rests, Filing, Verifying
<1>9. \A b \in Actors : AsBefore(b)
  <2>1. CASE \E s \in Rests : Leave(a, s)
    BY <1>1, <2>1, LeaverAsBefore
  <2>2. CASE Go(a, "seal") /\ Stay(a)
    <3>1. at' = [at EXCEPT ![a] = "seal"] /\ job' = [job EXCEPT ![a] = job[a]]
      BY <1>1, <2>2 DEF Go, Stay
    <3>2. "seal" \notin Filers \union {"settle"}
      BY DEF Filers
    <3> QED
      BY <1>1, <1>5, <3>1, <3>2, OthersAsBefore
  <2> QED
    BY <1>8, <2>1, <2>2
<1>10. ASSUME NEW b \in Actors
       PROVE  /\ job'[b].kind # "click"
              /\ at'[b] = "create" => ~job'[b].knew
              /\ ~(at'[b] = "settle" /\ Present(b)')
  <2>1. AsBefore(b)
    BY <1>9
  <2>2. ~(at'[b] = "settle" /\ Present(b)')
    BY <1>2, <1>6, <2>1 DEF AsBefore, Present, Settled
  <2> QED
    BY <2>1, <2>2 DEF AsBefore
<1> QED
  BY <1>2, <1>7, <1>10 DEF Settled

(* The suppression of the row keeps a rejection settled;                     *)
LEMMA SuppressRejected ==
  ASSUME Sound, Settled, Unruffled', NEW a \in Actors, Suppress(a)
  PROVE  Settled'
<1>1. /\ Typed /\ at \in [Actors -> Steps] /\ job \in [Actors -> JobType] /\ link \in LinkType
  BY LinkTyped DEF Sound, Typed, JobsOK
<1>2. at[a] = "suppress" /\ Meets(a) /\ era' = era /\ told' = told
  BY DEF Suppress, Update
<1>3. Present(a) /\ link = job[a].read
  BY <1>1, <1>2, Fresh DEF Unruffled, Writers
<1>4. link.status \in {"open", "fixed"}
  BY <1>1, <1>2, <1>3, OwnJob DEF JobOK
<1>5. ~told
  BY <1>4 DEF Settled
<1>6. /\ link' = [link EXCEPT !.status = "suppressed"]
      /\ at' = [at EXCEPT ![a] = "settle"] /\ job' = job
  BY <1>3 DEF Suppress, Update, Go, Stay
<1>7. link'.status = "suppressed"
  BY <1>1, <1>6 DEF LinkType
<1>8. \A b \in Actors : at'[b] = "create" => at[b] = "create"
  BY <1>1, <1>6
<1> QED
  BY <1>2, <1>5, <1>6, <1>7, <1>8 DEF Settled

(* so does the settlement for good,                                          *)
LEMMA SettleRejected ==
  ASSUME Sound, Settled, NEW a \in Actors, Settle(a)
  PROVE  Settled'
<1>1. /\ at[a] = "settle" /\ Leave(a, "walk") /\ link' = link /\ era' = era /\ board' = board
      /\ settled' = settled \union {<<job[a].read.ticket, "suppressed">>}
      /\ told' = (told \/ Present(a))
  BY DEF Settle, tracker
<1>2. Typed /\ "walk" \in Rests
  BY DEF Sound, Rests
<1>3. \A b \in Actors : AsBefore(b)
  BY <1>1, <1>2, LeaverAsBefore
<1>4. job[a].read.ticket \in Tickets
  BY <1>1, <1>2, ReadTicket
<1>5. Ruled'
  BY <1>1, <1>4 DEF Ruled, Tickets
<1>6. CASE Present(a)
  <2>1. link.status = "suppressed"
    BY <1>1, <1>6 DEF Settled
  <2>2. ASSUME NEW b \in Actors
        PROVE  /\ job'[b].kind # "click"
               /\ at'[b] = "create" => ~job'[b].knew
               /\ ~(at'[b] \in Filers /\ job'[b].read = link')
    <3>1. AsBefore(b)
      BY <1>3
    <3>2. ASSUME at[b] \in Filers PROVE job[b].read.status # "suppressed"
      <4>1. JobOK(Len(board), era, at[b], job[b])
        BY <1>2, OwnJob
      <4>2. job[b].kind = "check"
        <5>1. job[b].kind \in {"none", "check", "click"} /\ job[b].kind # "none"
          BY <3>2, <4>1 DEF JobOK, JobType, Filers
        <5> QED
          BY <5>1 DEF Settled
      <4> QED
        BY <3>2, <4>1, <4>2 DEF JobOK, Filers
    <3>3. ~(at'[b] \in Filers /\ job'[b].read = link')
      BY <1>1, <2>1, <3>1, <3>2 DEF AsBefore
    <3> QED
      BY <3>1, <3>3 DEF AsBefore
  <2>3. link'.status = "suppressed"
    BY <1>1, <2>1
  <2> QED
    BY <1>5, <2>2, <2>3 DEF Settled
<1>7. CASE ~Present(a)
  <2>1. told' = told
    <3>1. told \in BOOLEAN
      BY <1>2 DEF Typed, CountsOK
    <3> QED
      BY <1>1, <1>7, <3>1
  <2> QED
    BY <1>1, <1>3, <1>5, <2>1, QuietSettled
<1> QED
  BY <1>6, <1>7

(* the look of a check about to file,                                        *)
LEMMA LookRejected ==
  ASSUME Sound, Settled, NEW a \in Actors, Look(a)
  PROVE  Settled'
<1>1. /\ Typed /\ at \in [Actors -> Steps] /\ job \in [Actors -> JobType] /\ link \in LinkType
  BY LinkTyped DEF Sound, Typed, JobsOK
<1>2. /\ at[a] = "look" /\ link' = link /\ era' = era /\ told' = told /\ board' = board
      /\ settled' = settled
  BY DEF Look, ledger, tracker
<1>3. Ruled' = Ruled
  BY <1>2 DEF Ruled
<1>4. CASE Leave(a, "verify")
  <2>1. \A b \in Actors : AsBefore(b)
    BY <1>1, <1>4, LeaverAsBefore DEF Rests
  <2> QED
    BY <1>2, <1>3, <2>1, QuietSettled
<1>5. CASE ~Leave(a, "verify")
  <2> DEFINE s == Decide(job[a].kind)
             j == [job[a] EXCEPT !.read = link, !.knew = told]
  <2>1. s # "verify" /\ Go(a, s) /\ job' = [job EXCEPT ![a].read = link, ![a].knew = told]
    BY <1>5 DEF Look
  <2>2. at' = [at EXCEPT ![a] = s] /\ job' = [job EXCEPT ![a] = j]
    BY <1>1, <2>1 DEF Go
  <2>3. job[a].kind = "check"
    <3>1. job[a].kind \in {"none", "check", "click"} /\ job[a].kind # "none"
      BY <1>1, <1>2, OwnJob DEF JobOK, JobType
    <3> QED
      BY <3>1 DEF Settled
  <2>4. (s = "comment" /\ link.status = "open") \/ (s = "create" /\ ~told)
    BY <2>1, <2>3 DEF Decide, Filing, Settled
  <2>5. told \in BOOLEAN
    BY <1>1 DEF Typed, CountsOK
  <2>6. j.kind = "check" /\ j.knew = told
    BY <1>1, <2>3, <2>5 DEF JobType
  <2> HIDE DEF s, j
  <2>7. CASE s = "comment"
    <3>1. \A b \in Actors : AsBefore(b)
      BY <1>1, <2>2, <2>6, <2>7, OthersAsBefore DEF Filers
    <3> QED
      BY <1>2, <1>3, <3>1, QuietSettled
  <2>8. CASE s = "create" /\ ~told
    <3>1. ASSUME NEW b \in Actors
          PROVE  /\ job'[b].kind # "click"
                 /\ at'[b] = "create" => ~job'[b].knew
                 /\ at'[b] = "settle" /\ Present(b)' => link'.status = "suppressed"
      <4>1. CASE b = a
        <5>1. at'[b] = "create" /\ job'[b] = j
          BY <1>1, <2>2, <2>8, <4>1
        <5> QED
          BY <2>6, <2>8, <5>1
      <4>2. CASE b # a
        <5>1. at'[b] = at[b] /\ job'[b] = job[b]
          BY <1>1, <2>2, <4>2
        <5>2. at'[b] = "settle" /\ Present(b)' => link'.status = "suppressed"
          BY <1>2, <5>1 DEF Settled, Present
        <5> QED
          BY <5>1, <5>2 DEF Settled
      <4> QED
        BY <4>1, <4>2
    <3> QED
      BY <1>2, <2>8, <3>1 DEF Settled
  <2> QED
    BY <2>4, <2>7, <2>8
<1> QED
  BY <1>4, <1>5

(* and every step that writes no row.                                        *)
LEMMA RestRejected ==
  ASSUME Sound, Settled, NEW a \in Actors,
         \/ Start(a) \/ Sync(a) \/ Unread(a) \/ ReadFixed(a) \/ Walk(a) \/ Comment(a)
         \/ CreateIssue(a) \/ Supersede(a) \/ Confirm(a) \/ Seal(a)
  PROVE  Settled'
<1>1. /\ Typed /\ at \in [Actors -> Steps] /\ job \in [Actors -> JobType] /\ link \in LinkType
      /\ board \in Seq(Outcomes)
  BY LinkTyped DEF Sound, Typed, JobsOK, RowsOK
<1>2. /\ link' = link /\ era' = era /\ told' = told /\ settled \subseteq settled'
  BY DEF Start, Sync, Unread, ReadFixed, Walk, Comment, CreateIssue, Supersede, Confirm, Seal,
         ledger, tracker
<1>3. Ruled => Ruled'
  <2>1. board' = board \/ board' = Append(board, "open")
    BY DEF Start, Sync, Unread, ReadFixed, Walk, Comment, CreateIssue, Supersede, Confirm, Seal,
           tracker
  <2>2. Len(board) \in Nat /\ Len(board') \in Nat /\ Len(board) <= Len(board')
    BY <1>1, <2>1 DEF Outcomes
  <2> QED
    BY <1>2, <2>2, RuledStays
<1>4. job[a] \in JobType /\ job[a].kind # "click" /\ Idle.kind # "click"
  BY <1>1 DEF Settled, Idle
<1>5. \A b \in Actors : AsBefore(b)
  <2>1. CASE \E s \in Rests : Leave(a, s)
    BY <1>1, <2>1, LeaverAsBefore
  <2>2. CASE Start(a)
    <3> DEFINE j == [Idle EXCEPT !.kind = "check", !.era = era]
    <3>1. j.kind = "check"
      BY DEF Idle
    <3>2. at' = [at EXCEPT ![a] = "sync"] /\ job' = [job EXCEPT ![a] = j]
      BY <2>2 DEF Start, Go
    <3> HIDE DEF j
    <3> QED
      BY <1>1, <3>1, <3>2, OthersAsBefore DEF Filers
  <2>3. CASE (Sync(a) \/ ReadFixed(a)) /\ ~\E s \in Rests : Leave(a, s)
    <3>1. PICK s \in {"suppress", "fix", "reopen", "confirm"} :
             Go(a, s) /\ job' = [job EXCEPT ![a].read = link]
      BY <2>3 DEF Sync, ReadFixed, Answer, Rests, Verifying
    <3> DEFINE j == [job[a] EXCEPT !.read = link]
    <3>2. j.kind = job[a].kind
      BY <1>4 DEF JobType
    <3>3. at' = [at EXCEPT ![a] = s] /\ job' = [job EXCEPT ![a] = j]
      BY <1>1, <3>1 DEF Go
    <3> HIDE DEF j
    <3> QED
      BY <1>1, <1>4, <3>2, <3>3, OthersAsBefore DEF Filers
  <2>4. CASE Walk(a)
    <3>1. PICK v \in Sights : job' = [job EXCEPT ![a].sees = v]
                              /\ Go(a, IF v = "qualifies" THEN "look" ELSE "verify")
      BY <2>4 DEF Walk
    <3> DEFINE j == [job[a] EXCEPT !.sees = v]
               s == IF v = "qualifies" THEN "look" ELSE "verify"
    <3>2. j.kind = job[a].kind /\ s \notin Filers \union {"settle"}
      BY <1>4 DEF JobType, Filers
    <3>3. at' = [at EXCEPT ![a] = s] /\ job' = [job EXCEPT ![a] = j]
      BY <1>1, <3>1 DEF Go
    <3> HIDE DEF j, s
    <3> QED
      BY <1>1, <1>4, <3>2, <3>3, OthersAsBefore
  <2>5. CASE Comment(a) \/ Confirm(a)
    <3>1. PICK s \in {"count", "resolve"} : Go(a, s) /\ Stay(a)
      BY <2>5 DEF Comment, Confirm, Verifying
    <3>2. at' = [at EXCEPT ![a] = s] /\ job' = [job EXCEPT ![a] = job[a]]
      BY <1>1, <3>1 DEF Go, Stay
    <3> QED
      BY <1>1, <1>4, <3>2, OthersAsBefore DEF Filers
  <2>6. CASE CreateIssue(a) /\ ~\E s \in Rests : Leave(a, s)
    <3> DEFINE j == [job[a] EXCEPT !.ticket = Len(board) + 1]
    <3>1. /\ at[a] \in Filers /\ at' = [at EXCEPT ![a] = "keep"]
          /\ job' = [job EXCEPT ![a] = j] /\ "keep" \in {"keep", "link"}
      BY <1>1, <2>6 DEF CreateIssue, Go, Rests, Filing, Filers
    <3>2. j.kind = job[a].kind /\ j.era = job[a].era /\ j.read = job[a].read
      BY <1>4 DEF JobType
    <3> HIDE DEF j
    <3> QED
      BY <1>1, <3>1, <3>2, FilerAsBefore
  <2>7. CASE Supersede(a)
    <3>1. /\ at[a] \in Filers /\ at' = [at EXCEPT ![a] = "link"]
          /\ job' = [job EXCEPT ![a] = job[a]] /\ "link" \in {"keep", "link"}
      BY <1>1, <2>7 DEF Supersede, Go, Stay, Filing, Filers
    <3> QED
      BY <1>1, <3>1, FilerAsBefore
  <2>8. Unread(a) \/ Seal(a) => \E s \in Rests : Leave(a, s)
    BY DEF Unread, Seal, Rests
  <2> QED
    BY <2>1, <2>2, <2>3, <2>4, <2>5, <2>6, <2>7, <2>8
<1> QED
  BY <1>2, <1>3, <1>5, QuietSettled

(* Every step keeps it.                                                      *)
LEMMA RejectedStep == ASSUME Sound, Rejected, [Next]_vars PROVE Rejected'
<1> SUFFICES ASSUME Unruffled' PROVE Settled'
  BY DEF Rejected
<1>1. /\ Typed /\ at \in [Actors -> Steps] /\ job \in [Actors -> JobType]
      /\ faults \in Nat /\ clicks \in Nat /\ stale \in 0..MaxTickets
  BY DEF Sound, Typed, JobsOK, CountsOK
<1>2. ASSUME UNCHANGED <<faults, clicks>>, stale' = stale PROVE Settled
  BY <1>2 DEF Unruffled, Rejected
<1>3. ASSUME UNCHANGED <<faults, clicks>>, NEW a \in Actors, Meets(a) PROVE Settled
  <2>1. stale = 0
    BY <1>1, <1>3, LedgerAssumption DEF Meets, Unruffled, LedgerAssumption
  <2> QED
    BY <1>3, <2>1 DEF Unruffled, Rejected
<1>4. ASSUME NEW a \in Actors, Step(a) PROVE Settled'
  <2>1. UNCHANGED <<faults, clicks>>
    BY <1>4 DEF Step, Start, Sync, Unread, Fix, Reopen, Suppress, Settle, Walk, Look, Comment,
                Count, CreateIssue, Supersede, Upsert, ReadFixed, Confirm, Resolve, Seal, counts
  <2>2. CASE Fix(a) \/ Reopen(a) \/ Count(a) \/ Upsert(a) \/ Resolve(a) \/ Suppress(a)
    <3>1. Meets(a)
      BY <2>2 DEF Fix, Reopen, Count, Upsert, Resolve, Suppress, Update
    <3>2. Settled
      BY <1>3, <2>1, <3>1
    <3> QED
      BY <2>2, <3>2, WriteRejected, SuppressRejected
  <2>3. CASE Settle(a)
    <3>1. stale' = stale
      BY <2>3 DEF Settle
    <3> QED
      BY <1>2, <2>1, <2>3, <3>1, SettleRejected
  <2>4. CASE Look(a)
    <3>1. stale' = stale
      BY <2>4 DEF Look
    <3> QED
      BY <1>2, <2>1, <2>4, <3>1, LookRejected
  <2>5. CASE \/ Start(a) \/ Sync(a) \/ Unread(a) \/ ReadFixed(a) \/ Walk(a) \/ Comment(a)
             \/ CreateIssue(a) \/ Supersede(a) \/ Confirm(a) \/ Seal(a)
    <3>1. stale' = stale
      BY <2>5 DEF Start, Sync, Unread, ReadFixed, Walk, Comment, CreateIssue, Supersede, Confirm,
                  Seal
    <3> QED
      BY <1>2, <2>1, <2>5, <3>1, RestRejected
  <2> QED
    BY <1>4, <2>2, <2>3, <2>4, <2>5 DEF Step
<1>5. ASSUME NEW a \in Actors PROVE ~Click(a) /\ ~Throws(a) /\ ~Again(a)
  BY <1>1 DEF Click, Throws, Again, Fault, Unruffled
<1>6. ASSUME NEW t \in 1..Len(board), Move(t) PROVE Settled'
  <2>1. Settled
    BY <1>2, <1>6 DEF Move, counts
  <2>2. /\ link' = link /\ era' = era /\ told' = told /\ settled' = settled
        /\ at' = at /\ job' = job
    BY <1>6 DEF Move, ledger
  <2>3. Ruled' = Ruled
    <3>1. board \in Seq(Outcomes) /\ \E o : board' = [board EXCEPT ![t] = o]
      BY <1>1, <1>6 DEF Move, Typed, RowsOK
    <3>2. Len(board') = Len(board)
      BY <3>1
    <3> QED
      BY <2>2, <3>2 DEF Ruled
  <2>4. \A b \in Actors : AsBefore(b)
    BY <2>1, <2>2 DEF AsBefore, Settled
  <2> QED
    BY <2>1, <2>2, <2>3, <2>4, QuietSettled
<1>7. ASSUME Readd PROVE Settled'
  <2>1. Settled
    BY <1>2, <1>7 DEF Readd, counts
  <2>2. /\ era' = era + 1 /\ at' = at /\ job' = job /\ told' = told /\ settled' = settled
        /\ board' = board /\ link'.status = "none"
    BY <1>7 DEF Readd, tracker, NoLink
  <2>3. era \in Nat
    BY Sizes DEF Sound
  <2>4. ASSUME NEW b \in Actors PROVE ~Present(b)'
    <3>1. job[b].era \in Nat /\ job[b].era <= era
      BY <1>1, OwnJob, LedgerAssumption DEF JobOK, JobType, LedgerAssumption
    <3> QED
      BY <2>2, <2>3, <3>1 DEF Present
  <2>5. Ruled' = Ruled
    BY <2>2 DEF Ruled
  <2> QED
    BY <2>1, <2>2, <2>4, <2>5 DEF Settled
<1>8. CASE UNCHANGED vars
  <2>1. Settled
    BY <1>2, <1>8 DEF vars, counts
  <2>2. /\ link' = link /\ era' = era /\ told' = told /\ settled' = settled
        /\ at' = at /\ job' = job /\ board' = board
    BY <1>8 DEF vars, ledger, tracker
  <2>3. Ruled' = Ruled
    BY <2>2 DEF Ruled
  <2>4. \A b \in Actors : AsBefore(b)
    BY <2>1, <2>2 DEF AsBefore, Settled
  <2> QED
    BY <2>1, <2>2, <2>3, <2>4, QuietSettled
<1> QED
  BY <1>4, <1>5, <1>6, <1>7, <1>8 DEF Next

(* What was ruled not a bug is not filed again by a later check, while        *)
(* nothing failed, no one pressed and no row was written over unread.         *)
THEOREM RejectedHolds == Spec => []RejectedIsFinal
<1>1. Init => Sound /\ Rejected
  <2>1. Init => Kept
    BY DEF Init, Kept, Idle, NoLink
  <2>2. Init => Rejected
    BY DEF Init, Rejected, Settled, Idle, Filers
  <2> QED
    BY <2>1, <2>2, InitTyped DEF Sound
<1>2. (Sound /\ Rejected) /\ [Next]_vars => (Sound /\ Rejected)'
  BY TypedStep, KeptStep, RejectedStep DEF Sound
<1>3. Sound /\ Rejected => RejectedIsFinal
  BY DEF Rejected, Settled, RejectedIsFinal
<1> QED
  BY <1>1, <1>2, <1>3, PTL DEF Spec

-----------------------------------------------------------------------------
(* No ticket is forgotten for nothing.                                        *)

(* A press under way may forget one ticket and has been paid for.             *)
Clicking == {a \in Actors : job[a].kind = "click"}
Owed == faults + clicks + era + stale
Bounded ==
  /\ IsFiniteSet(Clicking) /\ Cardinality(Clicking) <= clicks
  /\ Cardinality(Forgotten) + Cardinality(Clicking) <= Owed

(* A ticket is carried from its making to the row, and by then a check has    *)
(* settled the one it replaces.                                               *)
Carrying == \A a \in Actors : at[a] \notin {"keep", "link"} => job[a].ticket = 0
Superseded == \A a \in Actors :
  at[a] = "link" /\ job[a].kind = "check" /\ job[a].read.status # "none"
    => <<job[a].read.ticket, "closed">> \in settled

Remembered == Carrying /\ Superseded /\ Bounded

(* A set that has at most one element more.                                   *)
LEMMA OneMore ==
  ASSUME NEW S, IsFiniteSet(S), NEW x, NEW T, T \subseteq S \union {x}
  PROVE  /\ IsFiniteSet(T) /\ Cardinality(S) \in Nat /\ Cardinality(T) \in Nat
         /\ Cardinality(T) <= Cardinality(S) + 1
<1>1. IsFiniteSet(S \union {x}) /\ Cardinality(S \union {x}) <= Cardinality(S) + 1
  <2>1. Cardinality(S) \in Nat
    BY FS_CardinalityType
  <2> QED
    BY <2>1, FS_AddElement
<1>2. IsFiniteSet(T) /\ Cardinality(T) <= Cardinality(S \union {x})
  BY <1>1, FS_Subset
<1>3. Cardinality(S) \in Nat /\ Cardinality(T) \in Nat /\ Cardinality(S \union {x}) \in Nat
  BY <1>1, <1>2, FS_CardinalityType
<1> QED
  BY <1>1, <1>2, <1>3

(* There are no more forgotten tickets than tickets.                          *)
LEMMA FewForgotten ==
  Typed => /\ IsFiniteSet(Forgotten) /\ Cardinality(Forgotten) \in Nat
           /\ Cardinality(Forgotten) <= MaxTickets
<1> SUFFICES ASSUME Typed
             PROVE  /\ IsFiniteSet(Forgotten) /\ Cardinality(Forgotten) \in Nat
                    /\ Cardinality(Forgotten) <= MaxTickets
  OBVIOUS
<1>1. Len(board) \in Nat /\ Len(board) <= MaxTickets /\ MaxTickets \in Nat
  BY LedgerAssumption DEF Typed, RowsOK, LedgerAssumption
<1>2. IsFiniteSet(1..Len(board)) /\ Cardinality(1..Len(board)) = Len(board)
  <2>1. 1 \in Int /\ Len(board) \in Int
    BY <1>1
  <2>2. /\ IsFiniteSet(1..Len(board))
        /\ Cardinality(1..Len(board)) = IF 1 > Len(board) THEN 0 ELSE Len(board) - 1 + 1
    BY <2>1, FS_Interval
  <2> QED
    BY <1>1, <2>2
<1>3. Forgotten \in SUBSET (1..Len(board))
  BY DEF Forgotten, Tickets
<1>4. IsFiniteSet(Forgotten) /\ Cardinality(Forgotten) <= Cardinality(1..Len(board))
  BY <1>2, <1>3, FS_Subset
<1>5. Cardinality(Forgotten) \in Nat
  BY <1>4, FS_CardinalityType
<1> QED
  BY <1>1, <1>2, <1>4, <1>5

(* The arithmetic of it: g and d are f and c after a step, o and p what was   *)
(* owed before and after it.                                                  *)
LEMMA Balances ==
  ASSUME NEW f \in Nat, NEW g \in Nat, NEW c \in Nat, NEW d \in Nat, NEW k \in Nat, NEW l \in Nat,
         NEW o \in Nat, NEW p \in Nat, NEW m \in Nat, NEW s,
         c <= k, k <= l, f + c <= o, o <= p, g <= m, g <= f + 1, d <= c, s = m => l + m <= p,
         g <= f \/ o < p \/ s = m \/ d # c
  PROVE  d <= l /\ g + d <= p
  OBVIOUS

(* Whoever forgets a ticket has paid: with a failed call, a removal, a write  *)
(* over a row it had not read, or with the press that is now over.            *)
LEMMA BoundedBy ==
  ASSUME Typed, Typed', Bounded, clicks <= clicks', Clicking' \subseteq Clicking, Owed <= Owed',
         NEW x, Forgotten' \subseteq Forgotten \union {x},
         \/ Forgotten' \subseteq Forgotten
         \/ Owed < Owed' \/ stale' = MaxTickets
         \/ \E c : c \in Clicking /\ c \notin Clicking'
  PROVE  Bounded'
<1>1. /\ clicks \in Nat /\ clicks' \in Nat /\ Owed \in Nat /\ Owed' \in Nat
      /\ stale' = MaxTickets => clicks' + MaxTickets <= Owed'
  <2>1. faults \in Nat /\ clicks \in Nat /\ era \in Nat /\ stale \in Nat
    BY LedgerAssumption DEF Typed, CountsOK, LedgerAssumption
  <2>2. faults' \in Nat /\ clicks' \in Nat /\ era' \in Nat /\ stale' \in Nat
    BY LedgerAssumption DEF Typed, CountsOK, LedgerAssumption
  <2>3. Owed = faults + clicks + era + stale /\ Owed' = faults' + clicks' + era' + stale'
    BY DEF Owed
  <2>4. \A f, c, e, s \in Nat : f + c + e + s \in Nat /\ c + s <= f + c + e + s
    OBVIOUS
  <2> HIDE DEF Owed
  <2>5. Owed \in Nat /\ Owed' \in Nat /\ clicks' + stale' <= Owed'
    BY <2>1, <2>2, <2>3, <2>4
  <2> QED
    BY <2>1, <2>2, <2>5
<1>2. /\ IsFiniteSet(Forgotten) /\ Cardinality(Forgotten) \in Nat
      /\ IsFiniteSet(Clicking) /\ Cardinality(Clicking) \in Nat
      /\ Cardinality(Clicking) <= clicks /\ Cardinality(Forgotten) + Cardinality(Clicking) <= Owed
  BY FewForgotten, FS_CardinalityType DEF Bounded
<1> DEFINE f == Cardinality(Forgotten)
           g == Cardinality(Forgotten')
           c == Cardinality(Clicking)
           d == Cardinality(Clicking')
<1>3. g \in Nat /\ g <= MaxTickets
  <2>1. Typed' => (/\ IsFiniteSet(Forgotten) /\ Cardinality(Forgotten) \in Nat
                   /\ Cardinality(Forgotten) <= MaxTickets)'
    BY FewForgotten, PTL
  <2> QED
    BY <2>1
<1>4. IsFiniteSet(Clicking') /\ d \in Nat /\ d <= c
  <2>1. IsFiniteSet(Clicking') /\ d <= c
    BY <1>2, FS_Subset
  <2> QED
    BY <2>1, FS_CardinalityType
<1>5. g <= f + 1
  BY <1>2, OneMore
<1>6. Forgotten' \subseteq Forgotten => g <= f
  BY <1>2, FS_Subset
<1>7. (\E a : a \in Clicking /\ a \notin Clicking') => d # c
  BY <1>2, FS_Subset
<1>8. g <= f \/ Owed < Owed' \/ stale' = MaxTickets \/ d # c
  BY <1>6, <1>7
<1>9. f \in Nat /\ c \in Nat /\ c <= clicks /\ f + c <= Owed /\ MaxTickets \in Nat
  BY <1>2, LedgerAssumption DEF LedgerAssumption
<1> HIDE DEF f, g, c, d
<1>10. d <= clicks' /\ g + d <= Owed'
  <2>1. PICK k, l, o, p, s : k = clicks /\ l = clicks' /\ o = Owed /\ p = Owed' /\ s = stale'
    OBVIOUS
  <2>2. /\ f \in Nat /\ g \in Nat /\ c \in Nat /\ d \in Nat /\ k \in Nat /\ l \in Nat
        /\ o \in Nat /\ p \in Nat /\ MaxTickets \in Nat
    BY <1>1, <1>3, <1>4, <1>9, <2>1
  <2>3. /\ c <= k /\ k <= l /\ f + c <= o /\ o <= p /\ g <= MaxTickets /\ g <= f + 1 /\ d <= c
        /\ s = MaxTickets => l + MaxTickets <= p
        /\ g <= f \/ o < p \/ s = MaxTickets \/ d # c
    BY <1>1, <1>3, <1>4, <1>5, <1>8, <1>9, <2>1
  <2>4. d <= l /\ g + d <= p
    BY <2>2, <2>3, Balances
  <2> QED
    BY <2>1, <2>4
<1> QED
  BY <1>4, <1>10 DEF Bounded, g, d

(* What one actor's step does to the names of the tickets, while the row      *)
(* keeps its own: at most the one it carried goes.                            *)
LEMMA NamesKept ==
  ASSUME Typed, NEW a \in Actors, NEW j, job' = [job EXCEPT ![a] = j],
         settled \subseteq settled', Tickets' = Tickets, link'.ticket = link.ticket
  PROVE  /\ Forgotten' \subseteq Forgotten \union {job[a].ticket}
         /\ j.ticket = job[a].ticket \/ job[a].ticket = 0 => Forgotten' \subseteq Forgotten
<1>1. \A b \in Actors \ {a} : job'[b].ticket = job[b].ticket
  BY DEF Typed, JobsOK
<1>2. job'[a].ticket = j.ticket
  BY DEF Typed, JobsOK
<1>3. \A t \in Tickets : Named(t) => Named(t)' \/ (t = job[a].ticket /\ t # j.ticket)
  BY <1>1, <1>2 DEF Named
<1>4. \A t \in Tickets : t # 0
  BY DEF Tickets
<1> QED
  BY <1>3, <1>4 DEF Forgotten

(* ... and to the presses under way.                                          *)
LEMMA ClicksKept ==
  ASSUME Typed, NEW a \in Actors, NEW j, job' = [job EXCEPT ![a] = j],
         j.kind = "click" => job[a].kind = "click"
  PROVE  /\ Clicking' \subseteq Clicking
         /\ job[a].kind = "click" /\ j.kind # "click" => a \in Clicking /\ a \notin Clicking'
  BY DEF Clicking, Typed, JobsOK

(* One actor that moves keeps what the tickets under way are carried by.     *)
LEMMA StepCarries ==
  ASSUME Typed, Carrying, Superseded, NEW a \in Actors, NEW s, NEW j,
         at' = [at EXCEPT ![a] = s], job' = [job EXCEPT ![a] = j], settled \subseteq settled',
         s \notin {"keep", "link"} => j.ticket = 0,
         s = "link" /\ j.kind = "check" /\ j.read.status # "none"
           => <<j.read.ticket, "closed">> \in settled'
  PROVE  Carrying' /\ Superseded'
<1>1. ASSUME NEW b \in Actors, b # a PROVE at'[b] = at[b] /\ job'[b] = job[b]
  BY <1>1 DEF Typed, JobsOK
<1>2. at'[a] = s /\ job'[a] = j
  BY DEF Typed, JobsOK
<1>3. Carrying'
  BY <1>1, <1>2 DEF Carrying
<1>4. Superseded'
  BY <1>1, <1>2 DEF Superseded
<1> QED
  BY <1>3, <1>4

(* A step that carries no ticket and takes none from the row.                 *)
LEMMA Quiet ==
  ASSUME Typed, Typed', Remembered, NEW a \in Actors, NEW s, NEW j,
         at' = [at EXCEPT ![a] = s], job' = [job EXCEPT ![a] = j],
         at[a] \notin {"keep", "link"}, s \notin {"keep", "link"}, j.ticket = 0,
         j.kind = "click" => job[a].kind = "click",
         settled \subseteq settled', Tickets' = Tickets, link'.ticket = link.ticket,
         clicks' = clicks, Owed <= Owed'
  PROVE  Remembered'
<1>1. Carrying' /\ Superseded'
  BY StepCarries DEF Remembered
<1>2. job[a].ticket = 0
  BY DEF Remembered, Carrying
<1>3. Forgotten' \subseteq Forgotten /\ Clicking' \subseteq Clicking
  BY <1>2, NamesKept, ClicksKept
<1>4. clicks <= clicks'
  BY DEF Typed, CountsOK
<1>5. Bounded'
  BY <1>3, <1>4, BoundedBy DEF Remembered
<1> QED
  BY <1>1, <1>5 DEF Remembered

(* Who leaves carries nothing, and its press is over.                         *)
LEMMA LeavesEmpty ==
  ASSUME Typed, NEW a \in Actors, NEW s \in Rests, Leave(a, s)
  PROVE  \E r \in Rests : \E j : /\ at' = [at EXCEPT ![a] = r] /\ job' = [job EXCEPT ![a] = j]
                                 /\ j.ticket = 0 /\ j.kind # "click"
<1>1. job[a] \in JobType
  BY OwnJob
<1>2. After(a, s) \in Rests
  BY DEF After, Rests
<1>3. CASE After(a, s) = "idle"
  <2>1. Idle.ticket = 0 /\ Idle.kind # "click"
    BY DEF Idle
  <2> QED
    BY <1>2, <1>3, <2>1 DEF Leave
<1>4. CASE After(a, s) # "idle"
  <2> DEFINE j == [job[a] EXCEPT !.read = NoLink, !.ticket = 0, !.knew = FALSE]
  <2>1. job' = [job EXCEPT ![a] = j]
    BY <1>4 DEF Leave
  <2>2. j.ticket = 0 /\ j.kind = job[a].kind
    BY <1>1 DEF JobType
  <2>3. job[a].kind # "click"
    BY <1>4 DEF After
  <2> HIDE DEF j
  <2> QED
    BY <1>2, <2>1, <2>2, <2>3 DEF Leave
<1> QED
  BY <1>3, <1>4

(* An actor that rests without a ticket in hand forgets none.                *)
LEMMA LeaveQuiet ==
  ASSUME Typed, Typed', Remembered, NEW a \in Actors, NEW s \in Rests, Leave(a, s),
         at[a] \notin {"keep", "link"},
         settled \subseteq settled', Tickets' = Tickets, link'.ticket = link.ticket,
         clicks' = clicks, Owed <= Owed'
  PROVE  Remembered'
<1>0. PICK r \in Rests : \E j : /\ at' = [at EXCEPT ![a] = r] /\ job' = [job EXCEPT ![a] = j]
                                /\ j.ticket = 0 /\ j.kind # "click"
  BY LeavesEmpty
<1>1. PICK j : /\ at' = [at EXCEPT ![a] = r] /\ job' = [job EXCEPT ![a] = j]
               /\ j.ticket = 0 /\ j.kind # "click"
  BY <1>0
<1>2. r \notin {"keep", "link"}
  BY DEF Rests
<1> QED
  BY <1>1, <1>2, Quiet

(* Nothing was spent.                                                         *)
LEMMA OwedStays ==
  ASSUME Typed, UNCHANGED <<era, clicks, faults, stale>>
  PROVE  Owed <= Owed'
<1>1. Owed \in Nat
  BY LedgerAssumption DEF Typed, CountsOK, Owed, LedgerAssumption
<1>2. Owed' = Owed
  BY DEF Owed
<1> QED
  BY <1>1, <1>2

(* Steps that only read forget none.                                         *)
LEMMA ReadRemembers ==
  ASSUME Sound, Typed', Remembered, NEW a \in Actors,
         Start(a) \/ Sync(a) \/ Unread(a) \/ ReadFixed(a) \/ Look(a) \/ Walk(a)
  PROVE  Remembered'
<1>1. /\ Typed /\ job[a] \in JobType /\ link \in LinkType /\ told \in BOOLEAN
      /\ settled \subseteq settled' /\ Tickets' = Tickets /\ link'.ticket = link.ticket
      /\ clicks' = clicks /\ Owed <= Owed'
  <2>1. /\ settled' = settled /\ board' = board /\ link' = link
        /\ UNCHANGED <<era, clicks, faults, stale>>
    BY DEF Start, Sync, Unread, ReadFixed, Look, Walk, ledger, tracker, counts
  <2>2. Typed /\ told \in BOOLEAN
    BY DEF Sound, Typed, CountsOK
  <2> QED
    BY <2>1, <2>2, OwnJob, LinkTyped, OwedStays DEF Tickets
<1>2. at[a] \in {"idle", "sync", "verify", "look", "walk"}
  BY DEF Start, Sync, Unread, ReadFixed, Look, Walk
<1>3. at[a] \notin {"keep", "link"} /\ job[a].ticket = 0
  BY <1>2 DEF Remembered, Carrying
<1>4. \/ \E s \in Rests : Leave(a, s)
      \/ \E s, j : /\ at' = [at EXCEPT ![a] = s] /\ job' = [job EXCEPT ![a] = j]
                   /\ s \notin {"keep", "link"}
                   /\ j.ticket = 0 /\ (j.kind = "click" => job[a].kind = "click")
  <2>1. CASE Start(a)
    <3> DEFINE j == [Idle EXCEPT !.kind = "check", !.era = era]
    <3>1. j.ticket = 0 /\ j.kind # "click" /\ "sync" \notin {"keep", "link"}
      BY DEF Idle
    <3>2. at' = [at EXCEPT ![a] = "sync"] /\ job' = [job EXCEPT ![a] = j]
      BY <2>1 DEF Start, Go
    <3> HIDE DEF j
    <3> QED
      BY <3>1, <3>2
  <2>2. CASE Unread(a)
    BY <2>2 DEF Unread, Rests
  <2>3. CASE Sync(a) \/ ReadFixed(a)
    <3> DEFINE j == [job[a] EXCEPT !.read = link]
    <3>1. j.ticket = 0 /\ j.kind = job[a].kind
      BY <1>1, <1>3 DEF JobType
    <3>2. \/ \E s \in Rests : Leave(a, s)
          \/ \E s \in {"suppress", "fix", "reopen", "confirm"} :
               at' = [at EXCEPT ![a] = s] /\ job' = [job EXCEPT ![a] = j]
      <4>1. \A o, v : Answer(o, v) \in {"suppress", "fix", "reopen", "walk"}
        BY DEF Answer
      <4>2. Verifying.start = "confirm"
        BY DEF Verifying
      <4> QED
        BY <2>3, <4>1, <4>2 DEF Sync, ReadFixed, Go, Rests
    <3> HIDE DEF j
    <3> QED
      BY <3>1, <3>2
  <2>4. CASE Look(a)
    <3> DEFINE j == [job[a] EXCEPT !.read = link, !.knew = told]
    <3>1. j.ticket = 0 /\ j.kind = job[a].kind
      BY <1>1, <1>3 DEF JobType
    <3>2. \/ \E s \in Rests : Leave(a, s)
          \/ \E s \in {"comment", "create"} :
               at' = [at EXCEPT ![a] = s] /\ job' = [job EXCEPT ![a] = j]
      <4>1. Decide(job[a].kind) \in {"comment", "verify", "create"}
        BY DEF Decide, Filing
      <4> QED
        BY <2>4, <4>1 DEF Look, Go, Rests
    <3> HIDE DEF j
    <3> QED
      BY <3>1, <3>2
  <2>5. CASE Walk(a)
    <3>1. PICK v, s : s \in {"look", "verify"} /\ at' = [at EXCEPT ![a] = s]
                      /\ job' = [job EXCEPT ![a].sees = v]
      BY <2>5 DEF Walk, Go
    <3> DEFINE j == [job[a] EXCEPT !.sees = v]
    <3>2. j.ticket = 0 /\ j.kind = job[a].kind /\ job' = [job EXCEPT ![a] = j]
      BY <1>1, <1>3, <3>1 DEF JobType
    <3> HIDE DEF j
    <3> QED
      BY <3>1, <3>2
  <2> QED
    BY <2>1, <2>2, <2>3, <2>4, <2>5
<1>5. CASE \E s \in Rests : Leave(a, s)
  BY <1>1, <1>3, <1>5, LeaveQuiet
<1>6. CASE \E s, j : /\ at' = [at EXCEPT ![a] = s] /\ job' = [job EXCEPT ![a] = j]
                     /\ s \notin {"keep", "link"}
                     /\ j.ticket = 0 /\ (j.kind = "click" => job[a].kind = "click")
  BY <1>1, <1>3, <1>6, Quiet
<1> QED
  BY <1>4, <1>5, <1>6

(* The calls that write the row as it is, or have just read it.               *)
LEMMA CallRemembers ==
  ASSUME Sound, Typed', Remembered, NEW a \in Actors,
         \/ Fix(a) \/ Reopen(a) \/ Suppress(a) \/ Count(a) \/ Resolve(a)
         \/ Settle(a) \/ Seal(a) \/ Comment(a) \/ Confirm(a)
  PROVE  Remembered'
<1>1. Typed /\ job[a] \in JobType /\ link \in LinkType
  BY OwnJob, LinkTyped DEF Sound
<1>2. at[a] \in {"fix", "reopen", "suppress", "count", "resolve", "settle", "seal", "comment", "confirm"}
  BY DEF Fix, Reopen, Suppress, Count, Resolve, Settle, Seal, Comment, Confirm
<1>3. at[a] \notin {"keep", "link"} /\ job[a].ticket = 0
  BY <1>2 DEF Remembered, Carrying
<1>4. /\ settled \subseteq settled' /\ board' = board /\ UNCHANGED <<era, clicks, faults>>
      /\ stale' = stale \/ Meets(a)
  <2>1. CASE Fix(a) \/ Reopen(a) \/ Suppress(a) \/ Count(a) \/ Resolve(a)
    <3>1. UNCHANGED <<settled, tracker, era, counts>> /\ Meets(a)
      BY <2>1 DEF Fix, Reopen, Suppress, Count, Resolve, Update
    <3> QED
      BY <3>1 DEF tracker, counts
  <2>2. CASE Settle(a) \/ Seal(a) \/ Comment(a) \/ Confirm(a)
    <3>1. settled \subseteq settled' /\ UNCHANGED <<board, era, counts, stale>>
      BY <2>2 DEF Settle, Seal, Comment, Confirm, tracker, ledger
    <3> QED
      BY <3>1 DEF counts
  <2> QED
    BY <2>1, <2>2
<1>5. Owed <= Owed'
  <2>1. stale \in Nat /\ stale' \in Nat /\ stale <= stale'
    <3>1. stale \in Nat
      BY <1>1, LedgerAssumption DEF Typed, CountsOK, LedgerAssumption
    <3> QED
      BY <1>4, <3>1 DEF Meets
  <2>2. faults \in Nat /\ clicks \in Nat /\ era \in Nat
    BY <1>1, LedgerAssumption DEF Typed, CountsOK, LedgerAssumption
  <2>3. Owed = faults + clicks + era + stale /\ Owed' = faults + clicks + era + stale'
    BY <1>4 DEF Owed
  <2>4. \A f, c, e, s, u \in Nat : s <= u => f + c + e + s <= f + c + e + u
    OBVIOUS
  <2>5. faults + clicks + era + stale <= faults + clicks + era + stale'
    BY <2>1, <2>2, <2>4
  <2> QED
    BY <2>3, <2>5
<1>6. link'.ticket = link.ticket
  <2>1. \A st : [link EXCEPT !.status = st].ticket = link.ticket
    BY <1>1 DEF LinkType
  <2>2. \A n, e : [link EXCEPT !.occurrences = n, !.escalated = e].ticket = link.ticket
    BY <1>1 DEF LinkType
  <2>3. CASE Fix(a) \/ Reopen(a) \/ Suppress(a) \/ Resolve(a)
    BY <2>1, <2>3 DEF Fix, Reopen, Suppress, Resolve, Update
  <2>4. CASE Count(a)
    <3>1. link' = link \/ link' = [link EXCEPT !.occurrences = Counted(link), !.escalated = @ \/ Escalates(a)]
      BY <2>4 DEF Count, Update
    <3> QED
      BY <1>1, <3>1 DEF LinkType
  <2>5. CASE Settle(a) \/ Seal(a) \/ Comment(a) \/ Confirm(a)
    BY <2>5 DEF Settle, Seal, Comment, Confirm, ledger
  <2> QED
    BY <2>3, <2>4, <2>5
<1>7. \/ \E s \in Rests : Leave(a, s)
      \/ \E s \in {"settle", "seal", "count", "resolve"} : Go(a, s) /\ Stay(a)
  BY DEF Fix, Reopen, Suppress, Count, Resolve, Settle, Seal, Comment, Confirm, Update,
         Verifying, Rests
<1>8. Tickets' = Tickets /\ clicks' = clicks
  BY <1>4 DEF Tickets
<1>9. CASE \E s \in Rests : Leave(a, s)
  BY <1>1, <1>3, <1>4, <1>5, <1>6, <1>8, <1>9, LeaveQuiet
<1>10. CASE \E s \in {"settle", "seal", "count", "resolve"} : Go(a, s) /\ Stay(a)
  <2>1. PICK s \in {"settle", "seal", "count", "resolve"} : at' = [at EXCEPT ![a] = s]
    BY <1>10 DEF Go
  <2>2. job' = [job EXCEPT ![a] = job[a]]
    BY <1>1, <1>10 DEF Stay, Typed, JobsOK
  <2>3. s \notin {"keep", "link"}
    OBVIOUS
  <2> QED
    BY <1>1, <1>3, <1>4, <1>5, <1>6, <1>8, <2>1, <2>2, <2>3, Quiet
<1> QED
  BY <1>7, <1>9, <1>10

(* The new ticket is carried by the actor that made it.                       *)
LEMMA CreateRemembers ==
  ASSUME Sound, Typed', Remembered, NEW a \in Actors, CreateIssue(a)
  PROVE  Remembered'
<1>1. Typed /\ job[a] \in JobType /\ at[a] = "create" /\ job[a].ticket = 0
  BY OwnJob DEF Sound, CreateIssue, Remembered, Carrying
<1>2. UNCHANGED <<link, settled, era, clicks, faults, stale>>
  BY DEF CreateIssue, ledger, counts
<1>3. Owed <= Owed'
  BY <1>1, <1>2, OwedStays
<1>4. CASE Len(board) < MaxTickets
  <2> DEFINE j == [job[a] EXCEPT !.ticket = Len(board) + 1]
  <2>1. /\ at' = [at EXCEPT ![a] = "keep"] /\ job' = [job EXCEPT ![a] = j]
        /\ board' = Append(board, "open")
    BY <1>4 DEF CreateIssue, Go, Filing
  <2>2. j.ticket = Len(board) + 1 /\ j.kind = job[a].kind
    BY <1>1 DEF JobType
  <2> HIDE DEF j
  <2>3. Carrying' /\ Superseded'
    BY <1>1, <1>2, <2>1, StepCarries DEF Remembered
  <2>4. Clicking' \subseteq Clicking
    BY <1>1, <2>1, <2>2, ClicksKept
  <2>5. Len(board) \in Nat /\ Len(board') = Len(board) + 1
    BY <1>1, <2>1 DEF Typed, RowsOK
  <2>6. job'[a] = j /\ \A b \in Actors \ {a} : job'[b] = job[b]
    BY <1>1, <2>1 DEF Typed, JobsOK
  <2>7. Forgotten' \subseteq Forgotten
    <3> SUFFICES ASSUME NEW t \in Tickets', ~Named(t)' PROVE t \in Tickets /\ ~Named(t)
      BY DEF Forgotten
    <3>1. t # Len(board) + 1
      BY <2>2, <2>6 DEF Named
    <3>2. t \in Tickets /\ t # 0
      BY <2>5, <3>1 DEF Tickets
    <3>3. ~Named(t)
      BY <1>1, <1>2, <2>6, <3>2 DEF Named
    <3> QED
      BY <3>2, <3>3
  <2>8. clicks <= clicks'
    BY <1>1, <1>2 DEF Typed, CountsOK
  <2>9. Bounded'
    BY <1>1, <1>3, <2>4, <2>7, <2>8, BoundedBy DEF Remembered
  <2> QED
    BY <2>3, <2>9 DEF Remembered
<1>5. CASE ~(Len(board) < MaxTickets)
  <2>1. board' = board /\ Leave(a, "verify") /\ "verify" \in Rests
    BY <1>5 DEF CreateIssue, Rests
  <2>2. settled \subseteq settled' /\ Tickets' = Tickets /\ link'.ticket = link.ticket /\ clicks' = clicks
    BY <1>2, <2>1 DEF Tickets
  <2>3. at[a] \notin {"keep", "link"}
    BY <1>1
  <2> QED
    BY <1>1, <1>3, <2>1, <2>2, <2>3, LeaveQuiet
<1> QED
  BY <1>4, <1>5

(* A check settles the ticket that it replaces before it writes the row.      *)
LEMMA SupersedeRemembers ==
  ASSUME Sound, Typed', Remembered, NEW a \in Actors, Supersede(a)
  PROVE  Remembered'
<1>1. /\ Typed /\ at' = [at EXCEPT ![a] = "link"] /\ job' = job
      /\ settled' = settled \union Outgoing(job[a].kind, job[a].read)
      /\ UNCHANGED <<link, board, era, clicks, faults, stale>>
  BY DEF Sound, Supersede, Go, Stay, Filing, tracker, counts
<1>2. job' = [job EXCEPT ![a] = job[a]]
  BY <1>1 DEF Typed, JobsOK
<1>3. settled \subseteq settled'
  BY <1>1
<1>4. job[a].kind = "check" /\ job[a].read.status # "none"
        => <<job[a].read.ticket, "closed">> \in settled'
  BY <1>1 DEF Outgoing
<1>5. Carrying' /\ Superseded'
  <2>1. "link" \in {"keep", "link"}
    OBVIOUS
  <2> QED
    BY <1>1, <1>2, <1>3, <1>4, <2>1, StepCarries DEF Remembered
<1>6. Tickets' = Tickets /\ link'.ticket = link.ticket /\ clicks <= clicks'
  BY <1>1 DEF Tickets, Typed, CountsOK
<1>7. Forgotten' \subseteq Forgotten /\ Clicking' \subseteq Clicking
  BY <1>1, <1>2, <1>3, <1>6, NamesKept, ClicksKept
<1>8. Owed <= Owed'
  BY <1>1, OwedStays
<1>9. Bounded'
  BY <1>1, <1>6, <1>7, <1>8, BoundedBy DEF Remembered
<1> QED
  BY <1>5, <1>9 DEF Remembered

(* The row takes the new ticket: the one it named is settled by now, or the   *)
(* write was a press, or over a row it had not read.                          *)
LEMMA UpsertRemembers ==
  ASSUME Sound, Typed', Remembered, NEW a \in Actors, Upsert(a)
  PROVE  Remembered'
<1>1. /\ Typed /\ at[a] = "link" /\ Meets(a) /\ job[a] \in JobType /\ link \in LinkType
      /\ IF Present(a) THEN link'.ticket = job[a].ticket /\ Leave(a, "verify")
                       ELSE link' = link /\ Leave(a, "verify")
      /\ UNCHANGED <<settled, board, era, clicks, faults>>
  <2>1. Typed /\ job[a] \in JobType /\ link \in LinkType
    BY OwnJob, LinkTyped DEF Sound
  <2>2. Present(a) => link'.ticket = job[a].ticket
    BY <2>1 DEF Upsert, Update, LinkType
  <2> QED
    BY <2>1, <2>2 DEF Upsert, Update, Filing, tracker, counts
<1>2. Leave(a, "verify") /\ "verify" \in Rests
  BY <1>1 DEF Rests
<1>3. PICK r \in Rests : \E j : /\ at' = [at EXCEPT ![a] = r] /\ job' = [job EXCEPT ![a] = j]
                                /\ j.ticket = 0 /\ j.kind # "click"
  BY <1>1, <1>2, LeavesEmpty
<1>4. PICK j : /\ at' = [at EXCEPT ![a] = r] /\ job' = [job EXCEPT ![a] = j]
               /\ j.ticket = 0 /\ j.kind # "click"
  BY <1>3
<1>5. Carrying' /\ Superseded'
  <2>1. r \notin {"keep", "link"}
    BY DEF Rests
  <2> QED
    BY <1>1, <1>4, <2>1, StepCarries DEF Remembered
<1>6. /\ Clicking' \subseteq Clicking
      /\ job[a].kind = "click" => \E c : c \in Clicking /\ c \notin Clicking'
  BY <1>1, <1>4, ClicksKept
<1>7. Tickets' = Tickets /\ clicks <= clicks' /\ \A t \in Tickets : t # 0
  BY <1>1 DEF Tickets, Typed, CountsOK
<1>8. \A b \in Actors \ {a} : job'[b] = job[b]
  BY <1>1, <1>4 DEF Typed, JobsOK
<1>9. /\ Owed <= Owed'
      /\ ~AsRead(a) => Owed < Owed' \/ stale' = MaxTickets
  <2>1. faults \in Nat /\ clicks \in Nat /\ era \in Nat /\ stale \in Nat
    BY <1>1, LedgerAssumption DEF Typed, CountsOK, LedgerAssumption
  <2>2. Owed = faults + clicks + era + stale /\ Owed' = faults + clicks + era + stale'
    BY <1>1 DEF Owed
  <2>3. stale' = stale \/ stale' = stale + 1
    BY <1>1 DEF Meets
  <2>4. ~AsRead(a) => stale' = stale + 1 \/ stale' = MaxTickets
    BY <1>1 DEF Meets
  <2> QED
    BY <2>1, <2>2, <2>3, <2>4
<1>10. CASE ~Present(a)
  <2>1. ~AsRead(a) /\ link'.ticket = link.ticket
    BY <1>1, <1>10 DEF AsRead
  <2>2. Forgotten' \subseteq Forgotten \union {job[a].ticket}
    BY <1>1, <1>4, <1>7, <2>1, NamesKept
  <2>3. Bounded'
    BY <1>1, <1>6, <1>7, <1>9, <2>1, <2>2, BoundedBy DEF Remembered
  <2> QED
    BY <1>5, <2>3 DEF Remembered
<1>11. CASE Present(a)
  <2>1. \A t \in Tickets : Named(t) /\ t # link.ticket => Named(t)'
    BY <1>1, <1>8, <1>11 DEF Named
  <2>2. Forgotten' \subseteq Forgotten \union {link.ticket}
    BY <1>7, <2>1 DEF Forgotten
  <2>3. AsRead(a) /\ job[a].kind # "click" => Forgotten' \subseteq Forgotten
    <3> SUFFICES ASSUME AsRead(a), job[a].kind # "click", NEW t \in Tickets, t = link.ticket
                 PROVE  Named(t)'
      BY <1>7, <2>1 DEF Forgotten
    <3>1. job[a].kind = "check" /\ link = job[a].read
      BY <1>1, OwnJob DEF JobOK, JobType, AsRead
    <3>2. link.status # "none"
      BY <1>1, <1>7 DEF Typed, RowsOK, Names, NoLink
    <3>3. <<t, "closed">> \in settled
      BY <1>1, <3>1, <3>2 DEF Remembered, Superseded
    <3> QED
      BY <1>1, <3>3 DEF Named
  <2>4. Bounded'
    BY <1>1, <1>6, <1>7, <1>9, <2>2, <2>3, BoundedBy DEF Remembered
  <2> QED
    BY <1>5, <2>4 DEF Remembered
<1> QED
  BY <1>10, <1>11

(* A call that fails, or is made again, is counted.                           *)
LEMMA FaultRemembers ==
  ASSUME Sound, Typed', Remembered, NEW a \in Actors, Throws(a) \/ Again(a)
  PROVE  Remembered'
<1>1. /\ Typed /\ UNCHANGED <<link, settled, board, era, clicks, stale>> /\ faults' = faults + 1
      /\ \E s \in Rests : Leave(a, s)
  BY DEF Sound, Throws, Again, Fault, ledger, tracker, Rests
<1>2. PICK r \in Rests : \E j : /\ at' = [at EXCEPT ![a] = r] /\ job' = [job EXCEPT ![a] = j]
                                /\ j.ticket = 0 /\ j.kind # "click"
  BY <1>1, LeavesEmpty
<1>3. PICK j : /\ at' = [at EXCEPT ![a] = r] /\ job' = [job EXCEPT ![a] = j]
               /\ j.ticket = 0 /\ j.kind # "click"
  BY <1>2
<1>4. Carrying' /\ Superseded'
  <2>1. r \notin {"keep", "link"}
    BY DEF Rests
  <2> QED
    BY <1>1, <1>3, <2>1, StepCarries DEF Remembered
<1>5. Tickets' = Tickets /\ clicks <= clicks' /\ settled \subseteq settled' /\ link'.ticket = link.ticket
  BY <1>1 DEF Tickets, Typed, CountsOK
<1>6. Clicking' \subseteq Clicking /\ Forgotten' \subseteq Forgotten \union {job[a].ticket}
  BY <1>1, <1>3, <1>5, NamesKept, ClicksKept
<1>7. Owed < Owed' /\ Owed <= Owed'
  <2>1. faults \in Nat /\ clicks \in Nat /\ era \in Nat /\ stale \in Nat
    BY <1>1, LedgerAssumption DEF Typed, CountsOK, LedgerAssumption
  <2> QED
    BY <1>1, <2>1 DEF Owed
<1>8. Bounded'
  BY <1>1, <1>5, <1>6, <1>7, BoundedBy DEF Remembered
<1> QED
  BY <1>4, <1>8 DEF Remembered

(* A press is counted as it begins.                                           *)
LEMMA ClickRemembers ==
  ASSUME Sound, Typed', Remembered, NEW a \in Actors, Click(a)
  PROVE  Remembered'
<1> DEFINE j == [Idle EXCEPT !.kind = "click", !.era = era]
<1>1. /\ Typed /\ at[a] = "idle" /\ UNCHANGED <<link, settled, board, era, faults, stale>>
      /\ clicks' = clicks + 1 /\ at' = [at EXCEPT ![a] = "look"] /\ job' = [job EXCEPT ![a] = j]
  BY DEF Sound, Click, Go, ledger, tracker
<1>2. j.ticket = 0 /\ job[a].ticket = 0
  BY <1>1 DEF Idle, Remembered, Carrying
<1> HIDE DEF j
<1>3. Carrying' /\ Superseded'
  BY <1>1, <1>2, StepCarries DEF Remembered
<1>4. Forgotten' \subseteq Forgotten
  <2>1. Tickets' = Tickets /\ settled \subseteq settled' /\ link'.ticket = link.ticket
    BY <1>1 DEF Tickets
  <2> QED
    BY <1>1, <1>2, <2>1, NamesKept
<1>5. Clicking' \subseteq Clicking \union {a}
  BY <1>1 DEF Clicking, Typed, JobsOK
<1>6. /\ IsFiniteSet(Forgotten) /\ IsFiniteSet(Clicking)
      /\ Cardinality(Clicking) <= clicks /\ Cardinality(Forgotten) + Cardinality(Clicking) <= Owed
  BY <1>1, FewForgotten DEF Remembered, Bounded
<1>7. /\ IsFiniteSet(Clicking') /\ Cardinality(Clicking) \in Nat /\ Cardinality(Clicking') \in Nat
      /\ Cardinality(Clicking') <= Cardinality(Clicking) + 1
  BY <1>5, <1>6, OneMore
<1>8. /\ Cardinality(Forgotten) \in Nat /\ Cardinality(Forgotten') \in Nat
      /\ Cardinality(Forgotten') <= Cardinality(Forgotten)
  BY <1>4, <1>6, FS_Subset, FS_CardinalityType
<1>9. clicks \in Nat /\ Owed \in Nat /\ Owed' = Owed + 1
  <2>1. faults \in Nat /\ clicks \in Nat /\ era \in Nat /\ stale \in Nat
    BY <1>1, LedgerAssumption DEF Typed, CountsOK, LedgerAssumption
  <2> QED
    BY <1>1, <2>1 DEF Owed
<1>10. Bounded'
  BY <1>1, <1>6, <1>7, <1>8, <1>9 DEF Bounded
<1> QED
  BY <1>3, <1>10 DEF Remembered

(* The people at the tracker forget nothing; a removed app costs its row.     *)
LEMMA RestRemembers ==
  ASSUME Sound, Typed', Remembered, Readd \/ (\E t \in 1..Len(board) : Move(t)) \/ UNCHANGED vars
  PROVE  Remembered'
<1>1. Typed /\ at' = at /\ job' = job /\ settled' = settled /\ clicks' = clicks
  BY DEF Sound, Readd, Move, vars, ledger, tracker, counts
<1>2. Carrying' /\ Superseded' /\ Clicking' = Clicking
  BY <1>1 DEF Remembered, Carrying, Superseded, Clicking
<1>3. Tickets' = Tickets
  <2>1. Len(board') = Len(board)
    <3>1. CASE \E t \in 1..Len(board) : Move(t)
      <4>1. board \in Seq(Outcomes) /\ \E t, o : board' = [board EXCEPT ![t] = o]
        BY <1>1, <3>1 DEF Move, Typed, RowsOK
      <4> QED
        BY <4>1
    <3> QED
      BY <3>1 DEF Readd, vars, tracker
  <2> QED
    BY <2>1 DEF Tickets
<1>4. Forgotten' \subseteq Forgotten \union {link.ticket}
  BY <1>1, <1>3 DEF Forgotten, Named
<1>5. faults \in Nat /\ clicks \in Nat /\ era \in Nat /\ stale \in Nat
  BY <1>1, LedgerAssumption DEF Typed, CountsOK, LedgerAssumption
<1>6. Owed <= Owed' /\ (Owed < Owed' \/ Forgotten' \subseteq Forgotten)
  <2>1. CASE Readd
    <3>1. faults' = faults /\ stale' = stale /\ era' = era + 1
      BY <2>1 DEF Readd, counts
    <3> QED
      BY <1>1, <1>5, <3>1 DEF Owed
  <2>2. CASE ~Readd
    <3>1. UNCHANGED <<link, faults, era, stale>>
      BY <2>2 DEF Move, vars, ledger, counts
    <3>2. Forgotten' \subseteq Forgotten
      BY <1>1, <1>3, <3>1 DEF Forgotten, Named
    <3> QED
      BY <1>1, <3>1, <3>2, OwedStays
  <2> QED
    BY <2>1, <2>2
<1>7. clicks <= clicks' /\ Clicking' \subseteq Clicking
  BY <1>1, <1>2, <1>5
<1>8. Bounded'
  BY <1>1, <1>4, <1>6, <1>7, BoundedBy DEF Remembered
<1> QED
  BY <1>2, <1>8 DEF Remembered

(* Every step forgets no more tickets than it pays for.                      *)
LEMMA RememberedStep == ASSUME Sound, Remembered, [Next]_vars PROVE Remembered'
<1>1. Typed'
  BY TypedStep
<1>2. ASSUME NEW a \in Actors, Step(a) PROVE Remembered'
  BY <1>1, <1>2, ReadRemembers, CallRemembers, CreateRemembers, SupersedeRemembers, UpsertRemembers
  DEF Step
<1>3. ASSUME NEW a \in Actors, Click(a) \/ Throws(a) \/ Again(a) PROVE Remembered'
  BY <1>1, <1>3, ClickRemembers, FaultRemembers
<1> QED
  BY <1>1, <1>2, <1>3, RestRemembers DEF Next

(* Every ticket on the board can be read back, but for one for each call that *)
(* failed or was repeated, press, removal of the app, and write over a row    *)
(* that had changed (lib/tracker/file.ts).                                    *)
THEOREM NoneForgotten == Spec => []TicketsRemembered
<1>1. Init => Sound /\ Remembered
  <2> SUFFICES ASSUME Init PROVE Sound /\ Remembered
    OBVIOUS
  <2>1. Sound
    BY InitTyped DEF Init, Sound, Kept, Idle, NoLink
  <2>2. Carrying /\ Superseded /\ Clicking = {}
    BY DEF Init, Carrying, Superseded, Clicking, Idle
  <2>3. Forgotten = {}
    BY DEF Init, Forgotten, Tickets
  <2>4. Owed = 0 /\ clicks = 0
    BY DEF Init, Owed
  <2>5. Bounded
    BY <2>2, <2>3, <2>4, FS_EmptySet DEF Bounded
  <2> QED
    BY <2>1, <2>2, <2>5 DEF Remembered
<1>2. (Sound /\ Remembered) /\ [Next]_vars => (Sound /\ Remembered)'
  BY TypedStep, KeptStep, RememberedStep DEF Sound
<1>3. Sound /\ Remembered => TicketsRemembered
  <2> SUFFICES ASSUME Typed, Bounded PROVE TicketsRemembered
    BY DEF Sound, Remembered
  <2>1. Cardinality(Clicking) \in Nat /\ Cardinality(Forgotten) \in Nat
    BY FewForgotten, FS_CardinalityType DEF Bounded
  <2>2. Owed \in Int
    BY LedgerAssumption DEF Typed, CountsOK, Owed, LedgerAssumption
  <2>3. Cardinality(Forgotten) <= Owed
    BY <2>1, <2>2 DEF Bounded
  <2> QED
    BY <2>3 DEF TicketsRemembered, Owed
<1> QED
  BY <1>1, <1>2, <1>3, PTL DEF Spec
=============================================================================
