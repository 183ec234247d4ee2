------------------------- MODULE SessionHost_proofs -------------------------
(* The safety of the session host, for any number of runs, sockets and        *)
(* session ids.                                                               *)
EXTENDS SessionHost, TLAPS

(* The connection the server knows of is the live one, and there is none      *)
(* while an upgrade is in service, which only the head of the chain is.       *)
OneAtATime ==
  /\ OneVisitor
  /\ connection # None => stage[connection] = "live"
  /\ \A u \in Sockets : stage[u] \in InService =>
       upgrades # <<>> /\ Head(upgrades) = u /\ connection = None

(* A person and a lease exclude each other.                                   *)
PersonOrLease == person => holder = None

(* Only a run that is connecting or at work holds a socket.                   *)
SocketsHeld == \A r \in Runs : sock[r] # None => pc[r] \in {"up", "work"}

Inv == TypeOK /\ OneAtATime /\ PersonOrLease /\ SocketsHeld /\ TurnIsKept
-----------------------------------------------------------------------------
USE DEF lease, server, clients, Stages, InService, Steps, InPhase

(* The invariant holds at the start.                                          *)
LEMMA InitInv == Init => Inv
<1> SUFFICES ASSUME Init PROVE Inv
  OBVIOUS
<1>1. TypeOK
  <2>1. upgrades \in Seq(Sockets)
    BY DEF Init
  <2>4. person \in BOOLEAN
    BY DEF Init
  <2>2. /\ stage \in [Sockets -> Stages] /\ sid \in [Sockets -> Ids \union {None}]
        /\ waitsFor \in [Sockets -> Sockets \union {None}]
        /\ pc \in [Runs -> Steps] /\ ticket \in [Runs -> Ids \union {None}]
        /\ sock \in [Runs -> Sockets \union {None}]
    BY DEF Init
  <2>3. /\ holder \in Runs \union {None} /\ session \in Ids \union {None}
        /\ connection \in Sockets \union {None} /\ lapsed \subseteq Runs
        /\ holder = None /\ session = None
    BY DEF Init
  <2> QED
    BY <2>1, <2>2, <2>3, <2>4 DEF TypeOK
<1>2. OneAtATime
  BY DEF Init, OneAtATime, OneVisitor
<1>3. PersonOrLease /\ SocketsHeld /\ TurnIsKept
  BY DEF Init, PersonOrLease, SocketsHeld, TurnIsKept
<1> QED
  BY <1>1, <1>2, <1>3 DEF Inv

(* A lease that is taken goes to a run it was not refused, under an id.       *)
LEMMA TakeTyped ==
  ASSUME TypeOK, NEW r \in Runs, Take(r)
  PROVE  /\ holder' \in Runs \union {None} /\ session' \in Ids \union {None}
         /\ holder' = None <=> session' = None
         /\ session' \in Ids
         /\ lapsed' \subseteq Runs
<1>1. r # None /\ None \notin Ids
  BY HostAssumption DEF HostAssumption
<1>2. CASE holder = r
  BY <1>1, <1>2 DEF Take, TypeOK
<1>3. CASE holder # r
  <2>1. session' \in Ids
    BY <1>3 DEF Take
  <2> QED
    BY <1>1, <2>1 DEF Take, TypeOK
<1> QED
  BY <1>2, <1>3

(* The client of a socket that hangs up goes on with a step of its run.       *)
LEMMA HangUpTyped ==
  ASSUME pc \in [Runs -> Steps], sock \in [Runs -> Sockets \union {None}],
         NEW u \in Sockets, HangUp(u)
  PROVE  pc' \in [Runs -> Steps] /\ sock' \in [Runs -> Sockets \union {None}]
  BY DEF HangUp

(* Every step keeps the types.                                                *)
LEMMA TypeStep == Inv /\ [Next]_vars => TypeOK'
<1> SUFFICES ASSUME Inv, [Next]_vars PROVE TypeOK'
  OBVIOUS
<1> USE DEF Inv
<1>1. CASE Lapse
  BY <1>1 DEF Lapse, Vacate, TypeOK
<1>2. CASE Sweep
  BY <1>2 DEF Sweep, Stray, Forget, TypeOK
<1>3. CASE PersonComes \/ PersonLeaves
  BY <1>3 DEF PersonComes, PersonLeaves, TypeOK
<1>4. ASSUME NEW u \in Sockets, TabsClosed(u) PROVE TypeOK'
  BY <1>4 DEF TabsClosed, TypeOK
<1>5. ASSUME NEW u \in Sockets, LetGo(u) PROVE TypeOK'
  <2>1. pc' \in [Runs -> Steps] /\ sock' \in [Runs -> Sockets \union {None}]
    BY <1>5, HangUpTyped DEF LetGo, TypeOK
  <2>2. UNCHANGED ticket
    BY <1>5 DEF LetGo, HangUp
  <2>3. waitsFor' \in [Sockets -> Sockets \union {None}]
    BY <1>5 DEF LetGo, TypeOK
  <2>4. stage' \in [Sockets -> Stages] /\ sid' \in [Sockets -> Ids \union {None}]
    BY <1>5 DEF LetGo, TypeOK
  <2> QED
    BY <1>5, <2>1, <2>2, <2>3, <2>4 DEF LetGo, TypeOK
<1>6. ASSUME NEW u \in Sockets, ClientGone(u) \/ BrowserGone(u) PROVE TypeOK'
  <2>1. CASE ClientGone(u)
    BY <2>1 DEF ClientGone, Forget, TypeOK
  <2>2. CASE BrowserGone(u)
    BY <2>2 DEF BrowserGone, TypeOK
  <2> QED
    BY <1>6, <2>1, <2>2
<1>7. ASSUME NEW u \in Sockets, Serve(u) PROVE TypeOK'
  BY <1>7 DEF Serve, Forget, TypeOK
<1>8. ASSUME NEW u \in Sockets, Proceed(u) PROVE TypeOK'
  BY <1>8 DEF Proceed, TypeOK
<1>9. ASSUME NEW u \in Sockets, Attach(u) PROVE TypeOK'
  <2>1. upgrades # <<>> /\ Tail(upgrades) \in Seq(Sockets)
    BY <1>9 DEF Attach, OneAtATime, TypeOK
  <2> QED
    BY <1>9, <2>1 DEF Attach, TypeOK
<1>10. ASSUME NEW u \in Sockets, RefuseUpgrade(u) PROVE TypeOK'
  <2>1. upgrades # <<>> /\ Tail(upgrades) \in Seq(Sockets)
    BY <1>10 DEF RefuseUpgrade, OneAtATime, TypeOK
  <2>2. pc' \in [Runs -> Steps] /\ sock' \in [Runs -> Sockets \union {None}]
    BY <1>10, HangUpTyped DEF RefuseUpgrade, TypeOK
  <2>3. UNCHANGED ticket
    BY <1>10 DEF RefuseUpgrade, HangUp
  <2> QED
    BY <1>10, <2>1, <2>2, <2>3 DEF RefuseUpgrade, TypeOK
<1>11. ASSUME NEW r \in Runs, Ask(r) PROVE TypeOK'
  <2>1. Take(r)
    BY <1>11 DEF Ask
  <2> QED
    BY <1>11, <2>1, TakeTyped DEF Ask, Goto, TypeOK
<1>12. ASSUME NEW r \in Runs, GiveUp(r) \/ Close(r) \/ Dies(r) \/ ReleaseLost(r) PROVE TypeOK'
  <2>1. CASE GiveUp(r)
    BY <2>1 DEF GiveUp, Goto, TypeOK
  <2>2. CASE Close(r)
    BY <2>2 DEF Close, Goto, TypeOK
  <2>3. CASE Dies(r)
    BY <2>3 DEF Dies, Goto, TypeOK
  <2>4. CASE ReleaseLost(r)
    BY <2>4 DEF ReleaseLost, Goto, TypeOK
  <2> QED
    BY <1>12, <2>1, <2>2, <2>3, <2>4
<1>13. ASSUME NEW r \in Runs, Lease(r) PROVE TypeOK'
  <2>1. CASE Refused(r)
    BY <1>13, <2>1 DEF Lease, Goto, TypeOK
  <2>2. CASE ~Refused(r)
    <3>1. Take(r) /\ ticket' = [ticket EXCEPT ![r] = session'] /\ Goto(r, "dial")
      BY <1>13, <2>2 DEF Lease
    <3> QED
      BY <1>13, <3>1, TakeTyped DEF Lease, Goto, TypeOK
  <2> QED
    BY <2>1, <2>2
<1>14. ASSUME NEW r \in Runs, Dial(r) PROVE TypeOK'
  <2>1. ticket' \in [Runs -> Ids \union {None}]
    BY <1>14 DEF Dial, TypeOK
  <2>2. /\ pc' \in [Runs -> Steps] /\ stage' \in [Sockets -> Stages]
        /\ sid' \in [Sockets -> Ids \union {None}] /\ upgrades' \in Seq(Sockets)
        /\ sock' \in [Runs -> Sockets \union {None}]
    <3>1. CASE Admits(ticket[r])
      <4>1. ticket[r] \in Ids \union {None}
        BY DEF TypeOK
      <4>2. PICK u \in Sockets : /\ stage' = [stage EXCEPT ![u] = "queued"]
                                 /\ sid' = [sid EXCEPT ![u] = ticket[r]]
                                 /\ upgrades' = Append(upgrades, u)
                                 /\ sock' = [sock EXCEPT ![r] = u]
                                 /\ pc' = [pc EXCEPT ![r] = "up"]
        BY <1>14, <3>1 DEF Dial, Goto
      <4> QED
        BY <4>1, <4>2 DEF TypeOK
    <3>2. CASE ~Admits(ticket[r])
      BY <1>14, <3>2 DEF Dial, Goto, TypeOK
    <3> QED
      BY <3>1, <3>2
  <2> QED
    BY <1>14, <2>1, <2>2 DEF Dial, TypeOK
<1>15. ASSUME NEW r \in Runs, Release(r) PROVE TypeOK'
  <2>1. \/ holder' = None /\ session' = None
        \/ UNCHANGED lease
    BY <1>15 DEF Release, Vacate
  <2>2. pc' \in [Runs -> Steps]
    BY <1>15 DEF Release, Goto, TypeOK
  <2>3. connection' \in Sockets \union {None} /\ stage' \in [Sockets -> Stages]
    <3>1. CASE UNCHANGED <<connection, stage>>
      BY <3>1 DEF TypeOK
    <3>2. CASE Forget(connection, stage)
      BY <3>2 DEF Forget, TypeOK
    <3> QED
      BY <1>15, <3>1, <3>2 DEF Release
  <2>4. UNCHANGED <<upgrades, sid, waitsFor, person, ticket, sock, lapsed>>
    BY <1>15 DEF Release
  <2> QED
    BY <2>1, <2>2, <2>3, <2>4, TypeOK DEF TypeOK, lease
<1>16. CASE UNCHANGED vars
  BY <1>16 DEF vars, TypeOK
<1> QED
  BY <1>1, <1>2, <1>3, <1>4, <1>5, <1>6, <1>7, <1>8, <1>9, <1>10, <1>11, <1>12, <1>13,
     <1>14, <1>15, <1>16 DEF Next

(* Every step leaves one connection, and one upgrade in service.              *)
LEMMA OneAtATimeStep == Inv /\ [Next]_vars => OneAtATime'
<1> SUFFICES ASSUME Inv, [Next]_vars PROVE OneAtATime'
  OBVIOUS
<1> USE HostAssumption DEF Inv, TypeOK, OneAtATime, OneVisitor, HostAssumption
<1>1. CASE Lapse \/ PersonComes \/ PersonLeaves
  BY <1>1 DEF Lapse, PersonComes, PersonLeaves
<1>2. CASE Sweep
  BY <1>2 DEF Sweep, Stray, Forget
<1>4. ASSUME NEW u \in Sockets, TabsClosed(u) \/ ClientGone(u) \/ BrowserGone(u)
      PROVE OneAtATime'
  <2>1. CASE TabsClosed(u) \/ ClientGone(u)
    BY <2>1 DEF TabsClosed, ClientGone, Forget
  <2>2. CASE BrowserGone(u)
    BY <2>2 DEF BrowserGone
  <2> QED
    BY <1>4, <2>1, <2>2
<1>5. ASSUME NEW u \in Sockets, LetGo(u) PROVE OneAtATime'
  BY <1>5 DEF LetGo, GoneOrLate
<1>7. ASSUME NEW u \in Sockets, Serve(u) PROVE OneAtATime'
  <2>1. CASE connection = None
    BY <1>7, <2>1 DEF Serve, Turn
  <2>2. CASE connection # None
    BY <1>7, <2>2 DEF Serve, Turn, Forget
  <2> QED
    BY <2>1, <2>2
<1>8. ASSUME NEW u \in Sockets, Proceed(u) PROVE OneAtATime'
  BY <1>8 DEF Proceed
<1>9. ASSUME NEW u \in Sockets, Attach(u) \/ RefuseUpgrade(u) PROVE OneAtATime'
  BY <1>9 DEF Attach, RefuseUpgrade
<1>11. ASSUME NEW r \in Runs, Ask(r) \/ GiveUp(r) \/ Close(r) \/ Dies(r) \/ ReleaseLost(r) \/ Lease(r)
       PROVE OneAtATime'
  BY <1>11 DEF Ask, GiveUp, Close, Dies, ReleaseLost, Lease
<1>14. ASSUME NEW r \in Runs, Dial(r) PROVE OneAtATime'
  <2>1. CASE Admits(ticket[r])
    <3>1. PICK u \in Sockets : /\ stage[u] = "free"
                               /\ stage' = [stage EXCEPT ![u] = "queued"]
                               /\ upgrades' = Append(upgrades, u)
      BY <1>14, <2>1 DEF Dial
    <3>2. upgrades # <<>> => upgrades' # <<>> /\ Head(upgrades') = Head(upgrades)
      BY <3>1
    <3>3. connection' = connection
      BY <1>14 DEF Dial
    <3> QED
      BY <3>1, <3>2, <3>3
  <2>2. CASE ~Admits(ticket[r])
    BY <1>14, <2>2 DEF Dial
  <2> QED
    BY <2>1, <2>2
<1>15. ASSUME NEW r \in Runs, Release(r) PROVE OneAtATime'
  BY <1>15 DEF Release, Forget
<1>16. CASE UNCHANGED vars
  BY <1>16 DEF vars
<1> QED
  BY <1>1, <1>2, <1>4, <1>5, <1>7, <1>8, <1>9, <1>11, <1>14, <1>15, <1>16 DEF Next

(* No step gives a lease while a person is there, or a place while a lease is *)
(* held; no step takes a run's turn.                                          *)
LEMMA TurnStep == Inv /\ [Next]_vars => PersonOrLease' /\ SocketsHeld' /\ TurnIsKept'
<1> SUFFICES ASSUME Inv, [Next]_vars PROVE PersonOrLease' /\ SocketsHeld' /\ TurnIsKept'
  OBVIOUS
<1> DEFINE Goal == PersonOrLease /\ SocketsHeld /\ TurnIsKept
<1> USE HostAssumption DEF Inv, TypeOK, PersonOrLease, SocketsHeld, TurnIsKept, HostAssumption
<1>1. CASE Lapse
  BY <1>1 DEF Lapse, Vacate
<1>2. CASE PersonComes \/ PersonLeaves \/ Sweep
  BY <1>2 DEF PersonComes, PersonLeaves, Sweep
<1>3. ASSUME NEW u \in Sockets,
             TabsClosed(u) \/ ClientGone(u) \/ BrowserGone(u) \/ Serve(u) \/ Proceed(u)
      PROVE Goal'
  BY <1>3 DEF TabsClosed, ClientGone, BrowserGone, Serve, Proceed
<1>4. ASSUME NEW u \in Sockets, LetGo(u) \/ RefuseUpgrade(u) PROVE Goal'
  BY <1>4 DEF LetGo, RefuseUpgrade, HangUp
<1>5. ASSUME NEW u \in Sockets, Attach(u) PROVE Goal'
  BY <1>5 DEF Attach
<1>6. ASSUME NEW r \in Runs, Ask(r) PROVE Goal'
  BY <1>6 DEF Ask, Take, Goto, Refused, PersonFirst
<1>7. ASSUME NEW r \in Runs, GiveUp(r) \/ Close(r) \/ Dies(r) \/ ReleaseLost(r) PROVE Goal'
  BY <1>7 DEF GiveUp, Close, Dies, ReleaseLost, Goto
<1>8. ASSUME NEW r \in Runs, Lease(r) PROVE Goal'
  BY <1>8 DEF Lease, Take, Goto, Refused, PersonFirst
<1>9. ASSUME NEW r \in Runs, Dial(r) PROVE Goal'
  <2>1. pc[r] = "dial" /\ sock[r] = None /\ UNCHANGED <<holder, person, lapsed>>
    BY <1>9 DEF Dial
  <2>2. CASE Admits(ticket[r])
    <3>1. PICK u \in Sockets : pc' = [pc EXCEPT ![r] = "up"] /\ sock' = [sock EXCEPT ![r] = u]
      BY <1>9, <2>2 DEF Dial, Goto
    <3>2. PersonOrLease' /\ SocketsHeld'
      BY <2>1, <3>1
    <3>3. TurnIsKept'
      BY <2>1, <3>1
    <3> QED
      BY <3>2, <3>3
  <2>3. CASE ~Admits(ticket[r])
    <3>1. UNCHANGED sock /\ (pc' = [pc EXCEPT ![r] = "turn"] \/ pc' = [pc EXCEPT ![r] = "end"])
      BY <1>9, <2>3 DEF Dial, Goto
    <3>2. PersonOrLease' /\ SocketsHeld'
      BY <2>1, <3>1
    <3>3. TurnIsKept'
      BY <2>1, <3>1
    <3> QED
      BY <3>2, <3>3
  <2> QED
    BY <2>2, <2>3
<1>10. ASSUME NEW r \in Runs, Release(r) PROVE Goal'
  BY <1>10 DEF Release, Vacate, Holds, Goto
<1>11. CASE UNCHANGED vars
  BY <1>11 DEF vars
<1> QED
  BY <1>1, <1>2, <1>3, <1>4, <1>5, <1>6, <1>7, <1>8, <1>9, <1>10, <1>11 DEF Next

(* Every step keeps the invariant.                                           *)
LEMMA StepInv == Inv /\ [Next]_vars => Inv'
  BY TypeStep, OneAtATimeStep, TurnStep DEF Inv

(* The lease book, the sockets and the runs keep their types                  *)
(* (session-server.mjs, lease.mjs).                                           *)
THEOREM TypeCorrect == Spec => []TypeOK
<1>1. Inv => TypeOK
  BY DEF Inv
<1> QED
  BY InitInv, StepInv, <1>1, PTL DEF Spec

(* One check is in the browser at a time, and it is the one the server knows  *)
(* of: the serialised upgrades of session-server.mjs.                         *)
THEOREM OneAtOnce == Spec => []OneVisitor
<1>1. Inv => OneVisitor
  BY DEF Inv, OneAtATime
<1> QED
  BY InitInv, StepInv, <1>1, PTL DEF Spec

(* Nothing but the end of its own lease takes the host from a run in its      *)
(* phase: LeaseBook.take and LeaseBook.release of lease.mjs.                   *)
THEOREM TurnsAreKept == Spec => []TurnIsKept
<1>1. Inv => TurnIsKept
  BY DEF Inv
<1> QED
  BY InitInv, StepInv, <1>1, PTL DEF Spec

(* No check enters while a person is signing in: personPresent() at the lease *)
(* and the second look at it before an upgrade attaches.                      *)
THEOREM NobodyWalksIn == Spec => PersonUndisturbed
<1> DEFINE Enters == \A u \in Sockets : person /\ person' /\ stage[u] # "live" => stage'[u] # "live"
<1>1. Inv /\ [Next]_vars => Enters
  <2> SUFFICES ASSUME Inv, [Next]_vars, NEW u \in Sockets, person, stage[u] # "live",
                      stage'[u] = "live"
               PROVE FALSE
    OBVIOUS
  <2>1. session = None
    BY DEF Inv, TypeOK, PersonOrLease
  <2>2. ~\E v \in Sockets : Attach(v)
    BY <2>1 DEF Attach, StillAdmitted, Admits
  <2>3. ~\E v \in Sockets : TabsClosed(v) \/ LetGo(v) \/ ClientGone(v) \/ BrowserGone(v) \/ Serve(v)
    BY DEF Inv, TypeOK, TabsClosed, LetGo, ClientGone, BrowserGone, Serve, Forget
  <2>4. ~\E v \in Sockets : Proceed(v) \/ RefuseUpgrade(v)
    BY DEF Inv, TypeOK, Proceed, RefuseUpgrade
  <2>5. ~\E r \in Runs : Ask(r) \/ GiveUp(r) \/ Lease(r) \/ Close(r) \/ Dies(r) \/ ReleaseLost(r)
    BY DEF Ask, GiveUp, Lease, Close, Dies, ReleaseLost
  <2>6. ~\E r \in Runs : Dial(r) \/ Release(r)
    BY DEF Inv, TypeOK, Dial, Release, Forget
  <2>7. ~(Lapse \/ Sweep \/ PersonComes \/ PersonLeaves \/ UNCHANGED vars)
    BY DEF Inv, TypeOK, Lapse, Sweep, Forget, PersonComes, PersonLeaves, vars
  <2> QED
    BY <2>2, <2>3, <2>4, <2>5, <2>6, <2>7 DEF Next
<1> QED
  BY InitInv, StepInv, <1>1, PTL DEF Spec, PersonUndisturbed
=============================================================================
