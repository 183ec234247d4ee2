----------------------------- MODULE SessionHost -----------------------------
(* The host whose browser a person signed in to, leased to one check at a     *)
(* time: the lease book and the upgrades of session-server.mjs, the person's  *)
(* view (viewer.mjs), and the runs that take turns (agent/session-browser.ts, *)
(* the sessionTurn and releaseSessionHost of agent/workflow.ts).              *)
EXTENDS Naturals, Sequences

CONSTANTS
  Runs,      \* checks of an app behind the sign-in
  Sockets,   \* connections under way or open at one time
  Ids,       \* session ids: enough that a fresh one is always there
  None

ASSUME HostAssumption == None \notin Runs \union Sockets \union Ids

VARIABLES
  holder,      \* LeaseBook.lease: its owner ...
  session,     \* ... and its session id
  connection,  \* the one connection the server knows of
  upgrades,    \* the chain of upgrades, in the order they arrived
  stage,       \* per socket: where its upgrade or its connection is
  sid,         \* the session id a socket asked for
  waitsFor,    \* the connection an upgrade is waiting for to end
  person,      \* viewer.current: somebody is signing in
  pc,          \* a run: its place in the current phase
  ticket,      \* the session id it was given
  sock,        \* the socket it holds
  lapsed       \* runs whose lease ran out since they last took it

lease   == <<holder, session>>
server  == <<connection, upgrades, stage, sid, waitsFor>>
clients == <<pc, ticket, sock>>
vars    == <<lease, server, person, clients, lapsed>>

Stages == {"free", "queued", "ending", "opening", "live", "closing", "bare"}
InService == {"ending", "opening"}
Steps == {"wait", "turn", "dial", "up", "work", "end", "over"}
InPhase == {"turn", "dial", "up", "work"}

Init ==
  /\ holder = None /\ session = None
  /\ connection = None /\ upgrades = <<>>
  /\ stage = [u \in Sockets |-> "free"] /\ sid = [u \in Sockets |-> None]
  /\ waitsFor = [u \in Sockets |-> None]
  /\ person = FALSE
  /\ pc = [r \in Runs |-> "wait"] /\ ticket = [r \in Runs |-> None]
  /\ sock = [r \in Runs |-> None]
  /\ lapsed = {}

-----------------------------------------------------------------------------
(* The lease book.                                                           *)

Admits(i) == i # None /\ session = i

(* Nobody remembers it; which one it is does not matter.                     *)
Fresh(i) == /\ i # session
            /\ \A u \in Sockets : sid[u] # i
            /\ \A r \in Runs : ticket[r] # i

(* The holder renews while a person waits; any other run is told 409.        *)
PersonFirst(r) == person /\ holder # r
Refused(r) == PersonFirst(r) \/ holder \notin {None, r}

(* POST /lease by r, not refused: the look at the person and the lease is    *)
(* one step, after the browser has answered.                                 *)
Take(r) ==
  /\ holder' = r
  /\ IF holder = r THEN session' = session
     ELSE /\ \E i \in Ids : Fresh(i)
          /\ session' = CHOOSE i \in Ids : Fresh(i)
  /\ lapsed' = lapsed \ {r}

(* The lease's time is up, and whoever looks next finds none.                *)
OwnerOnly == holder' = None /\ UNCHANGED session
Vacate == holder' = None /\ session' = None

Lapse ==
  /\ holder # None
  /\ Vacate
  /\ lapsed' = lapsed \union {holder}
  /\ UNCHANGED <<server, person, clients>>

-----------------------------------------------------------------------------
(* The end of a connection: it is forgotten at once, then its tabs are       *)
(* closed, and it is let go when they are gone or closeWaitMs is over.       *)

Held(u) == \E r \in Runs : sock[r] = u

(* What end() does at once to the connection c, and to the upgrades.         *)
Forget(c, change) ==
  /\ connection' = IF connection = c THEN None ELSE connection
  /\ stage' = [change EXCEPT ![c] = "closing"]

TabsClosed(u) ==
  /\ stage[u] = "closing"
  /\ stage' = [stage EXCEPT ![u] = "bare"]
  /\ UNCHANGED <<lease, connection, upgrades, sid, waitsFor, person, clients, lapsed>>

(* A run whose connection is gone, or was refused: its step runs again, or   *)
(* its retries are used up.                                                  *)
HangUp(u) ==
  \E next \in {"turn", "end"} :
    /\ pc' = [r \in Runs |-> IF sock[r] = u THEN next ELSE pc[r]]
    /\ sock' = [r \in Runs |-> IF sock[r] = u THEN None ELSE sock[r]]
    /\ UNCHANGED ticket

AllGone(u) == stage[u] = "bare"
GoneOrLate(u) == stage[u] \in {"closing", "bare"}

LetGo(u) ==
  /\ GoneOrLate(u)
  /\ stage' = [stage EXCEPT ![u] = "free"]
  /\ sid' = [sid EXCEPT ![u] = None]
  /\ waitsFor' = [v \in Sockets |-> IF waitsFor[v] = u THEN None ELSE waitsFor[v]]
  /\ HangUp(u)
  /\ UNCHANGED <<lease, connection, upgrades, person, lapsed>>

(* The client closed, or missed two heartbeats.                              *)
ClientGone(u) ==
  /\ stage[u] = "live" /\ ~Held(u)
  /\ Forget(u, stage)
  /\ UNCHANGED <<lease, upgrades, sid, waitsFor, person, clients, lapsed>>

(* The browser closed its side, or broke: it is asked to close no tab.       *)
BrowserGone(u) ==
  /\ stage[u] = "live"
  /\ connection' = IF connection = u THEN None ELSE connection
  /\ stage' = [stage EXCEPT ![u] = "bare"]
  /\ UNCHANGED <<lease, upgrades, sid, waitsFor, person, clients, lapsed>>

(* A lease that ran out takes its connection with it.                        *)
NoSweep == FALSE
Stray == connection # None /\ ~Admits(sid[connection])
Sweep ==
  /\ Stray
  /\ Forget(connection, stage)
  /\ UNCHANGED <<lease, upgrades, sid, waitsFor, person, clients, lapsed>>

-----------------------------------------------------------------------------
(* Upgrades, one at a time.                                                  *)

Anyone(u) == TRUE
Turn(u) == upgrades # <<>> /\ Head(upgrades) = u

Serve(u) ==
  /\ stage[u] = "queued" /\ Turn(u)
  /\ IF connection = None
     THEN /\ stage' = [stage EXCEPT ![u] = "opening"]
          /\ UNCHANGED <<connection, waitsFor>>
     ELSE /\ Forget(connection, [stage EXCEPT ![u] = "ending"])
          /\ waitsFor' = [waitsFor EXCEPT ![u] = connection]
  /\ UNCHANGED <<lease, upgrades, sid, person, clients, lapsed>>

Proceed(u) ==
  /\ stage[u] = "ending" /\ waitsFor[u] = None
  /\ stage' = [stage EXCEPT ![u] = "opening"]
  /\ UNCHANGED <<lease, connection, upgrades, sid, waitsFor, person, clients, lapsed>>

(* The browser answered; the lease is looked at again.  A socket whose       *)
(* Worker died may look open.                                                *)
Unasked(u) == TRUE
StillAdmitted(u) == Admits(sid[u])
Attach(u) ==
  /\ stage[u] = "opening" /\ StillAdmitted(u)
  /\ stage' = [stage EXCEPT ![u] = "live"] /\ connection' = u
  /\ upgrades' = Tail(upgrades)
  /\ pc' = [r \in Runs |-> IF sock[r] = u THEN "work" ELSE pc[r]]
  /\ UNCHANGED <<lease, sid, waitsFor, person, ticket, sock, lapsed>>

(* The lease went, the client went, or the browser did not answer.           *)
RefuseUpgrade(u) ==
  /\ stage[u] = "opening"
  /\ stage' = [stage EXCEPT ![u] = "free"] /\ sid' = [sid EXCEPT ![u] = None]
  /\ upgrades' = Tail(upgrades)
  /\ HangUp(u)
  /\ UNCHANGED <<lease, connection, waitsFor, person, lapsed>>

-----------------------------------------------------------------------------
(* The person's view: the look at the lease and the presence are one step.   *)
PersonComes ==
  /\ ~person /\ holder = None
  /\ person' = TRUE
  /\ UNCHANGED <<lease, server, clients, lapsed>>

(* Closed, or ten minutes without input.                                     *)
PersonLeaves ==
  /\ person /\ person' = FALSE
  /\ UNCHANGED <<lease, server, clients, lapsed>>

-----------------------------------------------------------------------------
(* A run: before each phase its turn, then the lease again, the connection,  *)
(* the phase's work; at its end, however it ends, the host goes back.        *)

Goto(r, step) == pc' = [pc EXCEPT ![r] = step]

(* askForSession; refused, it sleeps and asks again.                         *)
Ask(r) ==
  /\ pc[r] = "wait" /\ ~Refused(r)
  /\ Take(r) /\ Goto(r, "turn")
  /\ UNCHANGED <<server, person, ticket, sock>>

(* SESSION_WAIT_LIMIT_SECONDS, or a failure between two phases.              *)
GiveUp(r) ==
  /\ pc[r] = "wait"
  /\ Goto(r, "end")
  /\ UNCHANGED <<lease, server, person, ticket, sock, lapsed>>

(* SessionBrowser.open                                                       *)
Lease(r) ==
  /\ pc[r] = "turn"
  /\ IF Refused(r)
     THEN /\ Goto(r, "end")
          /\ UNCHANGED <<lease, ticket, lapsed>>
     ELSE /\ Take(r) /\ Goto(r, "dial")
          /\ ticket' = [ticket EXCEPT ![r] = session']
  /\ UNCHANGED <<server, person, sock>>

Dial(r) ==
  /\ pc[r] = "dial"
  /\ IF Admits(ticket[r])
     THEN \E u \in Sockets :
            /\ stage[u] = "free"
            /\ stage' = [stage EXCEPT ![u] = "queued"]
            /\ sid' = [sid EXCEPT ![u] = ticket[r]]
            /\ upgrades' = Append(upgrades, u)
            /\ sock' = [sock EXCEPT ![r] = u]
            /\ Goto(r, "up")
     ELSE /\ \E next \in {"turn", "end"} : Goto(r, next)
          /\ UNCHANGED <<stage, sid, upgrades, sock>>
  /\ ticket' = [ticket EXCEPT ![r] = None]
  /\ UNCHANGED <<lease, connection, waitsFor, person, lapsed>>

(* SessionBrowser.close: on to the next phase, or the last one is behind it. *)
Close(r) ==
  /\ pc[r] = "work"
  /\ sock' = [sock EXCEPT ![r] = None]
  /\ \E next \in {"wait", "end"} : Goto(r, next)
  /\ UNCHANGED <<lease, server, person, ticket, lapsed>>

(* The Worker dies mid-step and closes nothing; the step runs again, or the  *)
(* instance is gone for good.                                                *)
Dies(r) ==
  /\ pc[r] \in InPhase
  /\ sock' = [sock EXCEPT ![r] = None] /\ ticket' = [ticket EXCEPT ![r] = None]
  /\ \E next \in {"turn", "over"} : Goto(r, next)
  /\ UNCHANGED <<lease, server, person, lapsed>>

(* DELETE /lease, by every way out and more than once.                       *)
NotAsked(r) == holder # None
Holds(r) == holder = r

Release(r) ==
  /\ pc[r] \in {"end", "over"} /\ Goto(r, "over")
  /\ IF Holds(r)
     THEN /\ Vacate
          /\ IF connection # None /\ sid[connection] = session
             THEN Forget(connection, stage)
             ELSE UNCHANGED <<connection, stage>>
     ELSE UNCHANGED <<lease, connection, stage>>
  /\ UNCHANGED <<upgrades, sid, waitsFor, person, ticket, sock, lapsed>>

(* The call does not get through, which fails no run.                        *)
ReleaseLost(r) ==
  /\ pc[r] = "end" /\ Goto(r, "over")
  /\ UNCHANGED <<lease, server, person, ticket, sock, lapsed>>

Next == \/ Lapse \/ Sweep \/ PersonComes \/ PersonLeaves
        \/ \E u \in Sockets : \/ TabsClosed(u) \/ LetGo(u) \/ ClientGone(u) \/ BrowserGone(u)
                              \/ Serve(u) \/ Proceed(u) \/ Attach(u) \/ RefuseUpgrade(u)
        \/ \E r \in Runs : \/ Ask(r) \/ GiveUp(r) \/ Lease(r) \/ Dial(r) \/ Close(r)
                           \/ Dies(r) \/ Release(r) \/ ReleaseLost(r)

Spec == Init /\ [][Next]_vars

(* Timers fire, the chain of upgrades goes on, and the browser answers the   *)
(* upgrade in one way or the other; it need not close its tabs.              *)
Fairness == /\ WF_vars(Sweep)
            /\ \A u \in Sockets : /\ WF_vars(LetGo(u)) /\ WF_vars(Serve(u))
                                  /\ WF_vars(Proceed(u))
                                  /\ WF_vars(Attach(u) \/ RefuseUpgrade(u))
FairSpec == Spec /\ Fairness

-----------------------------------------------------------------------------
(* Properties.                                                               *)

(* The book, the sockets and the runs keep their types, and there is a       *)
(* session id while there is a holder and only then.                         *)
TypeOK ==
  /\ holder \in Runs \union {None} /\ session \in Ids \union {None}
  /\ holder = None <=> session = None
  /\ connection \in Sockets \union {None} /\ upgrades \in Seq(Sockets)
  /\ stage \in [Sockets -> Stages] /\ sid \in [Sockets -> Ids \union {None}]
  /\ waitsFor \in [Sockets -> Sockets \union {None}]
  /\ person \in BOOLEAN
  /\ pc \in [Runs -> Steps] /\ ticket \in [Runs -> Ids \union {None}]
  /\ sock \in [Runs -> Sockets \union {None}]
  /\ lapsed \subseteq Runs

(* One check is in the browser at a time, and it is the one a release or the *)
(* lease's end can reach: no second connection is left running beside it.    *)
OneVisitor == \A u \in Sockets : stage[u] = "live" => u = connection

(* A run that was given its turn keeps the host through its phase: neither   *)
(* another run, nor a late release of an earlier one, nor the person takes   *)
(* it away; only its own lease running out does.                             *)
TurnIsKept == \A r \in Runs : pc[r] \in InPhase /\ r \notin lapsed => holder = r

(* While a person is signing in no check enters the browser: the lease it    *)
(* was queued with is looked at again at the last moment.                    *)
PersonUndisturbed ==
  [][\A u \in Sockets : person /\ person' /\ stage[u] # "live" => stage'[u] # "live"]_vars

(* A check whose lease is over leaves the browser, though its Worker hangs.   *)
LapsedIsEnded ==
  \A u \in Sockets : (stage[u] = "live" /\ ~Admits(sid[u])) ~> (stage[u] # "live")

(* Every upgrade is answered: a browser that never closes a tab holds up     *)
(* nobody behind it in the chain.                                            *)
Unanswered(u) == stage[u] \in {"queued"} \union InService
UpgradeAnswered == \A u \in Sockets : Unanswered(u) ~> ~Unanswered(u)
=============================================================================
