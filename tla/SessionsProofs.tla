--------------------------- MODULE SessionsProofs ---------------------------
(***************************************************************************)
(* Proofs about Sessions for every number of sessions, principals and      *)
(* callers, for all lifetimes, graces and quotas.                          *)
(***************************************************************************)
EXTENDS Sessions, FiniteSetTheorems, TLAPS

-----------------------------------------------------------------------------
(* What a step may do to the session map *)

(* Sessions that can still be used stay, and only they are used. *)
Keeps ==
    \/ UNCHANGED sessions
    \/ \E ids \in SUBSET (DOMAIN sessions \ Live) : sessions' = Without(ids)
    \/ \E s \in Live : Used(s)

(* A session leaves the map by its end. *)
Ends ==
    \/ \E t \in Tasks : CloseRemoves(t)
    \/ \E t \in Callers, s \in Ids : Terminate(t, s)

Publishes == \E t \in Tasks, s \in Ids : PublishSession(t, s)

(* What is forgotten or given up for a new session is over. *)
LEMMA GivenUpAreOver ==
    /\ Forgotten \subseteq DOMAIN sessions \ Live
    /\ \A p \in Principals : Stale(p) \subseteq DOMAIN sessions \ Live
BY DEF Forgotten, Forgettable, Live, Stale, HeldBy

(* Asking for a session by its id keeps every session that can be used. *)
LEMMA AskedKeeps ==
    ASSUME NEW s, NEW p
    PROVE  /\ Usable(s, p) /\ Used(s) => Keeps
           /\ Refused(s, p) => Keeps
<1>1. Usable(s, p) /\ Used(s) => Keeps
  BY DEF Usable, Keeps
<1>2. ASSUME Refused(s, p) PROVE Keeps
  <2>1. CASE s \in Forgotten /\ sessions[s].principal = p
    <3>1. sessions' = Without({s}) /\ {s} \in SUBSET (DOMAIN sessions \ Live)
      BY <1>2, <2>1, GivenUpAreOver DEF Refused
    <3>. QED BY <3>1 DEF Keeps
  <2>2. CASE ~(s \in Forgotten /\ sessions[s].principal = p)
    BY <1>2, <2>2 DEF Refused, Keeps
  <2>. QED BY <2>1, <2>2
<1>. QED BY <1>1, <1>2

(* The steps of an open, a close, a reclaim and a command, sorted by what they do to
   the map. *)
LEMMA SessionsChange ==
    ASSUME [Next]_vars
    PROVE  Keeps \/ Ends \/ Publishes
<1>1. CASE UNCHANGED sessions
  BY <1>1 DEF Keeps
<1>2. ASSUME NEW t \in Callers, NEW p \in Principals, Reserve(t, p) PROVE Keeps
  <2>1. CASE sessions' = Without(Forgotten)
    BY <2>1, GivenUpAreOver DEF Keeps
  <2>2. CASE \E s \in Stale(p) : sessions' = Without(Forgotten \cup {s})
    <3>1. PICK s \in Stale(p) : sessions' = Without(Forgotten \cup {s})
      BY <2>2
    <3>2. Forgotten \cup {s} \in SUBSET (DOMAIN sessions \ Live)
      BY GivenUpAreOver
    <3>. QED BY <3>1, <3>2 DEF Keeps
  <2>. QED BY <1>2, <2>1, <2>2 DEF Reserve
<1>3. ASSUME NEW p \in Principals, TooManySessions(p) PROVE Keeps
  BY <1>3, GivenUpAreOver DEF TooManySessions, Keeps
<1>4. ASSUME NEW t \in Callers, NEW s \in Ids, NEW p \in Principals,
             CloseClaims(t, s, p) \/ Command(t, s, p)
      PROVE  Keeps
  BY <1>4, AskedKeeps DEF CloseClaims, Command
<1>5. ASSUME NEW t \in Tasks, Sweep(t) PROVE Keeps
  BY <1>5, GivenUpAreOver DEF Sweep, Keeps
<1>6. ASSUME NEW t \in Tasks, CheckHolder(t) \/ RecheckHolder(t) PROVE Keeps
  BY <1>6, AskedKeeps DEF CheckHolder, RecheckHolder, Asked
<1>7. ASSUME NEW t \in Tasks, OpenStep(t) PROVE UNCHANGED sessions \/ Publishes
  BY <1>7 DEF OpenStep, OpenFails, PublishConnection, RecordOpened, Publishes
<1>8. ASSUME NEW t \in Tasks, EndStep(t) PROVE UNCHANGED sessions \/ Ends
  BY <1>8 DEF EndStep, CloseRecords, Unpublish, HangUp, HungUp, Ends
<1>9. ASSUME NEW t \in Tasks, ReclaimStep(t) PROVE UNCHANGED sessions \/ Sweep(t)
  BY <1>9 DEF ReclaimStep, SweepPutOff, ReadLive, DropOrphans
<1>10. ASSUME NEW t \in Tasks, CommandStep(t)
       PROVE  UNCHANGED sessions \/ CheckHolder(t) \/ RecheckHolder(t)
  BY <1>10 DEF CommandStep, FindHolder, LockHolder, Redial, CommandGivesUp
<1>11. CASE (\E s \in Ids : TransportLost(s)) \/ Housekeep \/ Stop \/ Tick \/ UNCHANGED vars
  BY <1>11 DEF TransportLost, Housekeep, Stop, Tick, vars, Keeps
<1>. QED
  BY <1>1, <1>2, <1>3, <1>4, <1>5, <1>6, <1>7, <1>8, <1>9, <1>10, <1>11 DEF Next, Step, Ends

(* The map loses sessions, or moves the last use of one that can still be used, and
   the clock does not run backwards. *)
Shrinks ==
    /\ now' \in Nat /\ now' >= now
    /\ DOMAIN sessions' \subseteq DOMAIN sessions
    /\ sessions' \in [DOMAIN sessions' -> Session]
    /\ \A s \in DOMAIN sessions' :
        /\ sessions'[s].principal = sessions[s].principal
        /\ sessions'[s] = sessions[s] \/ s \in Live

LEMMA ClockRuns ==
    ASSUME TypeOK, [Next]_vars
    PROVE  now' \in Nat /\ now' >= now
<1>0. now \in Nat
  BY DEF TypeOK
<1>1. CASE UNCHANGED now
  BY <1>0, <1>1
<1>2. CASE Tick
  BY <1>0, <1>2 DEF Tick
<1>3. ASSUME NEW t \in Tasks, OpenStep(t) \/ EndStep(t) PROVE UNCHANGED now
  BY <1>3 DEF OpenStep, OpenFails, PublishSession, PublishConnection, RecordOpened,
              EndStep, CloseRecords, CloseRemoves, Unpublish, HangUp, HungUp
<1>4. ASSUME NEW t \in Tasks, ReclaimStep(t) \/ CommandStep(t) PROVE UNCHANGED now
  BY <1>4 DEF ReclaimStep, SweepPutOff, Sweep, ReadLive, DropOrphans,
              CommandStep, FindHolder, LockHolder, CheckHolder, Redial, RecheckHolder, CommandGivesUp
<1>5. ASSUME NEW t \in Callers, NEW p \in Principals, Reserve(t, p) PROVE UNCHANGED now
  BY <1>5 DEF Reserve
<1>6. ASSUME NEW t \in Callers, NEW s \in Ids, NEW p \in Principals,
             CloseClaims(t, s, p) \/ Command(t, s, p)
      PROVE  UNCHANGED now
  BY <1>6 DEF CloseClaims, Command
<1>7. ASSUME NEW t \in Callers, NEW s \in Ids, Terminate(t, s) PROVE UNCHANGED now
  BY <1>7 DEF Terminate
<1>8. ASSUME NEW p \in Principals, TooManySessions(p) PROVE UNCHANGED now
  BY <1>8 DEF TooManySessions
<1>9. CASE (\E s \in Ids : TransportLost(s)) \/ Housekeep \/ Stop \/ UNCHANGED vars
  BY <1>1, <1>9 DEF TransportLost, Housekeep, Stop, vars
<1>. QED
  BY <1>1, <1>2, <1>3, <1>4, <1>5, <1>6, <1>7, <1>8, <1>9 DEF Next, Step

(* What is left of the map is as it was. *)
LEMMA WithoutShrinks ==
    ASSUME TypeOK, NEW ids, sessions' = Without(ids), now' \in Nat, now' >= now
    PROVE  Shrinks
BY DEF TypeOK, Without, Shrinks, Session

LEMMA StepShrinks ==
    ASSUME TypeOK, [Next]_vars, ~Publishes
    PROVE  Shrinks
<1>0. now' \in Nat /\ now' >= now
  BY ClockRuns
<1>1. CASE UNCHANGED sessions
  BY <1>0, <1>1 DEF Shrinks, TypeOK
<1>2. CASE \E ids : sessions' = Without(ids)
  BY <1>0, <1>2, WithoutShrinks
<1>3. ASSUME NEW s \in Live, Used(s) PROVE Shrinks
  <2>1. s \in DOMAIN sessions /\ sessions[s] \in Session
    BY DEF Live, TypeOK
  <2>2. [sessions[s] EXCEPT !.lastUsed = now] \in Session
    BY <2>1 DEF Session, TypeOK
  <2>3. sessions' = [sessions EXCEPT ![s] = [sessions[s] EXCEPT !.lastUsed = now]]
    BY <1>3 DEF Used
  <2>4. DOMAIN sessions' = DOMAIN sessions
    BY <2>3
  <2>5. sessions' \in [DOMAIN sessions' -> Session]
    BY <2>2, <2>3, <2>4 DEF TypeOK
  <2>6. [sessions[s] EXCEPT !.lastUsed = now].principal = sessions[s].principal
    BY <2>1 DEF Session
  <2>7. \A i \in DOMAIN sessions' : i # s => sessions'[i] = sessions[i]
    BY <2>3
  <2>8. sessions'[s].principal = sessions[s].principal
    BY <2>1, <2>3, <2>6 DEF TypeOK
  <2>. QED BY <1>0, <2>4, <2>5, <2>7, <2>8 DEF Shrinks
<1>4. CASE Ends
  <2>1. ASSUME NEW t \in Tasks, CloseRemoves(t)
        PROVE  UNCHANGED sessions \/ \E ids : sessions' = Without(ids)
    BY <2>1 DEF CloseRemoves
  <2>2. ASSUME NEW t \in Callers, NEW s \in Ids, Terminate(t, s)
        PROVE  \E ids : sessions' = Without(ids)
    BY <2>2 DEF Terminate
  <2>. QED BY <1>1, <1>2, <1>4, <2>1, <2>2 DEF Ends
<1>. QED BY <1>1, <1>2, <1>3, <1>4, SessionsChange DEF Keeps

(* What is over stays over. *)
LEMMA ShrinksLive ==
    ASSUME TypeOK, Shrinks
    PROVE  Live' \subseteq Live
<1>. SUFFICES ASSUME NEW s \in Live', s \notin Live PROVE FALSE
  OBVIOUS
<1>1. s \in DOMAIN sessions' /\ s \in DOMAIN sessions /\ sessions'[s] = sessions[s]
  BY DEF Live, Shrinks
<1>2. sessions[s] \in Session
  BY <1>1 DEF TypeOK
<1>3. Expired(sessions[s]) /\ ~Expired(sessions[s])'
  BY <1>1 DEF Live
<1>4. now \in Nat /\ now' \in Nat /\ now' >= now /\ {Idle, Max} \subseteq Nat
  BY SessionsAssumption DEF Shrinks, TypeOK
<1>5. sessions[s].openedAt \in Nat /\ sessions[s].lastUsed \in Nat
  BY <1>2 DEF Session
<1>. QED BY <1>1, <1>3, <1>4, <1>5 DEF Expired

-----------------------------------------------------------------------------
(* Slots: an open in flight holds one *)

Dialling(p) == {t \in Tasks : At(t, "dialling") /\ tasks[t].principal = p}

(* Steps that reserve no slot and give none back leave the opens in flight alone. *)
SameOpens ==
    /\ UNCHANGED pending
    /\ \A t \in Tasks :
        tasks'[t] = tasks[t] \/ (~At(t, "dialling") /\ tasks'[t].pc # "dialling")

(* A task that goes from one phase to another, neither of which is dialling. *)
LEMMA BecomeSameOpens ==
    ASSUME TypeOK, NEW t \in Tasks, NEW k, Become(t, k), ~At(t, "dialling"), k.pc # "dialling",
           UNCHANGED pending
    PROVE  SameOpens
BY DEF SameOpens, Become, TypeOK, At

Opening ==
    \/ \E t \in Callers, p \in Principals : Reserve(t, p)
    \/ \E t \in Tasks : OpenFails(t)

LEMMA OtherStepsSameOpens ==
    ASSUME TypeOK, [Next]_vars
    PROVE  SameOpens \/ Opening \/ Publishes
<1>0. Rest.pc # "dialling" /\ Rest.pc = "idle"
  BY DEF Rest
<1>1. ASSUME UNCHANGED <<pending, tasks>> PROVE SameOpens
  BY <1>1 DEF SameOpens
<1>2. ASSUME NEW t \in Tasks, NEW pc \in {"idle", "recording", "removing", "unpublishing", "hanging up",
                 "sweeping", "reading", "dropping", "waiting", "checking", "redialling", "rechecking"}
      PROVE  [tasks[t] EXCEPT !.pc = pc].pc # "dialling"
  BY DEF TypeOK, Task
<1>3. ASSUME NEW t \in Tasks, PublishConnection(t) \/ RecordOpened(t) PROVE SameOpens
  <2>1. ~At(t, "dialling") /\ UNCHANGED pending
    BY <1>3 DEF PublishConnection, RecordOpened, At
  <2>2. PICK k : k.pc # "dialling" /\ Become(t, k)
    BY <1>0, <1>2, <1>3 DEF PublishConnection, RecordOpened, Goto, Return, Rest
  <2>. QED BY <2>1, <2>2, BecomeSameOpens
<1>4. ASSUME NEW t \in Tasks, EndStep(t) PROVE SameOpens
  <2>1. ~At(t, "dialling") /\ UNCHANGED pending
    BY <1>4 DEF EndStep, CloseRecords, CloseRemoves, Unpublish, HangUp, HungUp, At
  <2>2. tasks[t] \in Task
    BY DEF TypeOK
  <2>3. PICK k : k.pc # "dialling" /\ Become(t, k)
    BY <1>0, <1>2, <1>4, <2>1, <2>2
       DEF EndStep, CloseRecords, CloseRemoves, Unpublish, HangUp, HungUp, Goto, Return, Rest, Task, At
  <2>. QED BY <2>1, <2>3, BecomeSameOpens
<1>5. ASSUME NEW t \in Tasks, ReclaimStep(t) PROVE SameOpens
  <2>1. ~At(t, "dialling") /\ UNCHANGED pending
    BY <1>5 DEF ReclaimStep, SweepPutOff, Sweep, ReadLive, DropOrphans, At
  <2>2. tasks[t] \in Task
    BY DEF TypeOK
  <2>3. PICK k : k.pc # "dialling" /\ Become(t, k)
    BY <1>0, <1>2, <1>5, <2>2
       DEF ReclaimStep, SweepPutOff, Sweep, ReadLive, DropOrphans, Goto, Return, Rest, Task
  <2>. QED BY <2>1, <2>3, BecomeSameOpens
<1>6. ASSUME NEW t \in Tasks, CommandStep(t) PROVE SameOpens
  <2>1. ~At(t, "dialling") /\ UNCHANGED pending
    BY <1>6 DEF CommandStep, FindHolder, LockHolder, CheckHolder, Redial, RecheckHolder,
                CommandGivesUp, At
  <2>2. PICK k : k.pc # "dialling" /\ Become(t, k)
    BY <1>0, <1>2, <1>6 DEF CommandStep, FindHolder, LockHolder, CheckHolder, Redial, RecheckHolder,
                     CommandGivesUp, Goto, Return
  <2>. QED BY <2>1, <2>2, BecomeSameOpens
<1>7. ASSUME NEW t \in Callers, NEW s \in Ids, NEW p \in Principals,
             CloseClaims(t, s, p) \/ Command(t, s, p)
      PROVE  SameOpens
  <2>1. t \in Tasks /\ UNCHANGED pending
    BY <1>7 DEF CloseClaims, Command, Tasks
  <2>2. CASE UNCHANGED tasks
    BY <1>1, <2>1, <2>2
  <2>3. CASE tasks[t] = Rest /\ \E k : k.pc # "dialling" /\ Become(t, k)
    BY <1>0, <2>1, <2>3, BecomeSameOpens DEF At
  <2>. QED BY <1>7, <2>2, <2>3 DEF CloseClaims, Command, Rest
<1>8. ASSUME NEW t \in Callers, NEW s \in Ids, Terminate(t, s) PROVE SameOpens
  <2>1. t \in Tasks /\ UNCHANGED pending /\ tasks[t] = Rest
    BY <1>8 DEF Terminate, Tasks
  <2>2. \E k : k.pc # "dialling" /\ Become(t, k)
    BY <1>8 DEF Terminate, Rest
  <2>. QED BY <1>0, <2>1, <2>2, BecomeSameOpens DEF At
<1>9. CASE Housekeep
  <2>1. Housekeeper \in Tasks /\ UNCHANGED pending /\ tasks[Housekeeper] = Rest
    BY <1>9 DEF Housekeep, Tasks
  <2>2. \E k : k.pc # "dialling" /\ Become(Housekeeper, k)
    BY <1>9 DEF Housekeep, Rest
  <2>. QED BY <1>0, <2>1, <2>2, BecomeSameOpens DEF At
<1>10. CASE \/ \E p \in Principals : TooManySessions(p)
            \/ \E s \in Ids : TransportLost(s)
            \/ Stop \/ Tick \/ UNCHANGED vars
  BY <1>1, <1>10 DEF TooManySessions, TransportLost, Stop, Tick, vars
<1>. QED
  BY <1>3, <1>4, <1>5, <1>6, <1>7, <1>8, <1>9, <1>10 DEF Next, Step, OpenStep, Opening, Publishes

LEMMA DiallingFinite == \A p : IsFiniteSet(Dialling(p)) /\ Cardinality(Dialling(p)) \in Nat
<1>. TAKE p
<1>1. IsFiniteSet(Tasks) /\ Dialling(p) \subseteq Tasks
  BY SessionsAssumption DEF Dialling
<1>. QED BY <1>1, FS_Subset, FS_CardinalityType

(* Slots are counted right by a step after which the set of opens in flight of every
   principal is as large as `pending` says. *)
LEMMA SlotsCounted ==
    ASSUME \A p \in Principals : pending'[p] = Cardinality(Dialling(p)') /\ pending'[p] \in Nat,
           pending' \in [Principals -> Nat]
    PROVE  SlotsReturned'
BY DEF SlotsReturned, Dialling

LEMMA SameOpensSlots ==
    ASSUME TypeOK, SlotsReturned, SameOpens
    PROVE  SlotsReturned' /\ pending' \in [Principals -> Nat]
<1>1. \A p : Dialling(p)' = Dialling(p)
  BY DEF Dialling, SameOpens, At
<1>2. \A p \in Principals : pending[p] = Cardinality(Dialling(p))
  BY DEF SlotsReturned, Dialling
<1>3. pending' = pending /\ pending \in [Principals -> Nat]
  BY DEF SameOpens, TypeOK
<1>. QED BY <1>1, <1>2, <1>3, SlotsCounted

(* An open that has its slot is counted. *)
LEMMA ReserveSlots ==
    ASSUME TypeOK, SlotsReturned, NEW t \in Tasks, NEW p \in Principals, Reserve(t, p)
    PROVE  SlotsReturned' /\ pending' \in [Principals -> Nat]
<1>1. ~At(t, "dialling")
  BY DEF Reserve, At, Rest
<1>2. tasks' = [tasks EXCEPT ![t] = [Rest EXCEPT !.pc = "dialling", !.principal = p]]
  BY DEF Reserve, Become
<1>3. tasks'[t].pc = "dialling" /\ tasks'[t].principal = p
  BY <1>2 DEF Rest, TypeOK
<1>4. \A u \in Tasks \ {t} : tasks'[u] = tasks[u]
  BY <1>2 DEF TypeOK
<1>5. Dialling(p)' = Dialling(p) \cup {t} /\ t \notin Dialling(p)
  BY <1>1, <1>3, <1>4 DEF Dialling, At
<1>6. \A q : q # p => Dialling(q)' = Dialling(q)
  BY <1>1, <1>3, <1>4 DEF Dialling, At
<1>7. pending' = [pending EXCEPT ![p] = pending[p] + 1] /\ pending \in [Principals -> Nat]
  BY DEF Reserve, TypeOK
<1>8. \A q \in Principals : pending[q] = Cardinality(Dialling(q))
  BY DEF SlotsReturned, Dialling
<1>9. Cardinality(Dialling(p)') = Cardinality(Dialling(p)) + 1
  BY <1>5, DiallingFinite, FS_AddElement
<1>10. pending' \in [Principals -> Nat] /\ pending'[p] = pending[p] + 1
       /\ \A q \in Principals \ {p} : pending'[q] = pending[q]
  BY <1>7
<1>. QED BY <1>6, <1>8, <1>9, <1>10, SlotsCounted

(* An open that is over gives its slot back, and there was one to give. *)
LEMMA DialEndsSlots ==
    ASSUME TypeOK, SlotsReturned, NEW t \in Tasks, At(t, "dialling"),
           NEW k, k.pc # "dialling", Become(t, k),
           pending' = [pending EXCEPT ![tasks[t].principal] = @ - 1]
    PROVE  SlotsReturned' /\ pending' \in [Principals -> Nat]
<1>1. PICK p \in Principals : p = tasks[t].principal
  BY DEF TypeOK, Carries, At
<1>2. tasks'[t].pc # "dialling" /\ \A u \in Tasks \ {t} : tasks'[u] = tasks[u]
  BY DEF TypeOK, Become
<1>3. Dialling(p)' = Dialling(p) \ {t} /\ t \in Dialling(p)
  BY <1>1, <1>2 DEF Dialling, At
<1>4. \A q : q # p => Dialling(q)' = Dialling(q)
  BY <1>1, <1>2 DEF Dialling, At
<1>5. \A q \in Principals : pending[q] = Cardinality(Dialling(q))
  BY DEF SlotsReturned, Dialling
<1>6. Cardinality(Dialling(p)') = Cardinality(Dialling(p)) - 1
  BY <1>3, DiallingFinite, FS_RemoveElement
<1>7. Cardinality(Dialling(p)) # 0
  BY <1>3, DiallingFinite, FS_EmptySet
<1>8. pending \in [Principals -> Nat]
  BY DEF TypeOK
<1>9. pending[p] - 1 \in Nat
  BY <1>1, <1>5, <1>7, <1>8
<1>10. pending' \in [Principals -> Nat] /\ pending'[p] = pending[p] - 1
       /\ \A q \in Principals \ {p} : pending'[q] = pending[q]
  BY <1>1, <1>8, <1>9
<1>. QED BY <1>4, <1>5, <1>6, <1>10, SlotsCounted

LEMMA SlotsStep ==
    ASSUME TypeOK, SlotsReturned, [Next]_vars
    PROVE  SlotsReturned' /\ pending' \in [Principals -> Nat]
<1>1. CASE SameOpens
  BY <1>1, SameOpensSlots
<1>2. ASSUME NEW t \in Callers, NEW p \in Principals, Reserve(t, p)
      PROVE  SlotsReturned' /\ pending' \in [Principals -> Nat]
  BY <1>2, ReserveSlots DEF Tasks
<1>3. ASSUME NEW t \in Tasks, OpenFails(t)
      PROVE  SlotsReturned' /\ pending' \in [Principals -> Nat]
  BY <1>3, DialEndsSlots DEF OpenFails, Return, Rest
<1>4. ASSUME NEW t \in Tasks, NEW s \in Ids, PublishSession(t, s)
      PROVE  SlotsReturned' /\ pending' \in [Principals -> Nat]
  <2>1. [tasks[t] EXCEPT !.pc = "publishing", !.session = s].pc # "dialling"
    BY DEF TypeOK, Task
  <2>. QED BY <1>4, <2>1, DialEndsSlots DEF PublishSession
<1>. QED BY <1>1, <1>2, <1>3, <1>4, OtherStepsSameOpens DEF Opening, Publishes

-----------------------------------------------------------------------------
(* Types *)

TasksTyped ==
    /\ tasks \in [Tasks -> Task]
    /\ \A t \in Tasks : Carries(tasks[t])

LEMMA BecomeTyped ==
    ASSUME TasksTyped, NEW t \in Tasks, NEW k \in Task, Carries(k), Become(t, k)
    PROVE  TasksTyped'
BY DEF TasksTyped, Become, Carries

LEMMA ReturnTyped ==
    ASSUME TasksTyped, NEW t \in Tasks, Return(t)
    PROVE  TasksTyped'
<1>1. Rest \in Task /\ Carries(Rest)
  BY DEF Rest, Task, Phases, Carries
<1>. QED BY <1>1, BecomeTyped DEF Return

(* A task goes on with what it carries: the next phase reads no more than this one. *)
LEMMA GotoTyped ==
    ASSUME TasksTyped, NEW t \in Tasks, NEW pc \in Phases \ {"idle"}, Goto(t, pc),
           pc \in {"sweeping", "reading", "dropping", "hanging up"} \/ tasks[t].session \in Ids,
           pc \in {"publishing", "finding", "waiting", "checking", "redialling", "rechecking", "dialling"}
           => tasks[t].principal \in Principals
    PROVE  TasksTyped'
<1>1. [tasks[t] EXCEPT !.pc = pc] \in Task
  BY DEF TasksTyped, Task
<1>2. Carries([tasks[t] EXCEPT !.pc = pc])
  BY DEF TasksTyped, Task, Carries
<1>. QED BY <1>1, <1>2, BecomeTyped DEF Goto

(* A task that begins to reclaim. *)
LEMMA SweepingTyped ==
    ASSUME TasksTyped, NEW t \in Tasks, Become(t, [Rest EXCEPT !.pc = "sweeping"])
    PROVE  TasksTyped'
<1>1. /\ [Rest EXCEPT !.pc = "sweeping"] \in Task
      /\ Carries([Rest EXCEPT !.pc = "sweeping"])
  BY DEF Rest, Task, Phases, Carries
<1>. QED BY <1>1, BecomeTyped

LEMMA OpenTyped ==
    ASSUME TasksTyped, NEW t \in Tasks, OpenStep(t)
    PROVE  TasksTyped'
<1>1. CASE OpenFails(t)
  BY <1>1, ReturnTyped DEF OpenFails
<1>2. ASSUME NEW s \in Ids, PublishSession(t, s) PROVE TasksTyped'
  <2>1. [tasks[t] EXCEPT !.pc = "publishing", !.session = s] \in Task
    BY DEF TasksTyped, Task, Phases
  <2>2. Carries([tasks[t] EXCEPT !.pc = "publishing", !.session = s])
    BY <1>2 DEF TasksTyped, Task, Carries, PublishSession, At
  <2>. QED BY <1>2, <2>1, <2>2, BecomeTyped DEF PublishSession
<1>3. CASE PublishConnection(t)
  BY <1>3, GotoTyped DEF PublishConnection, At, TasksTyped, Carries, Phases
<1>4. CASE RecordOpened(t)
  BY <1>4, SweepingTyped, ReturnTyped DEF RecordOpened
<1>. QED BY <1>1, <1>2, <1>3, <1>4 DEF OpenStep

LEMMA EndTyped ==
    ASSUME TasksTyped, connections \subseteq Ids, NEW t \in Tasks, EndStep(t)
    PROVE  TasksTyped'
<1>0. tasks[t] \in Task /\ Carries(tasks[t])
  BY DEF TasksTyped
<1>1. CASE CloseRecords(t)
  BY <1>0, <1>1, GotoTyped, ReturnTyped DEF CloseRecords, At, Carries, Phases
<1>2. CASE CloseRemoves(t)
  BY <1>0, <1>2, GotoTyped, ReturnTyped DEF CloseRemoves, At, Carries, Phases
<1>3. CASE Unpublish(t)
  <2>. DEFINE k == [tasks[t] EXCEPT !.pc = "hanging up",
                                    !.closing = connections \cap {tasks[t].session}]
  <2>1. k \in Task /\ Carries(k)
    BY <1>0 DEF Task, Carries, Phases
  <2>. QED BY <1>3, <2>1, BecomeTyped DEF Unpublish
<1>4. CASE HangUp(t)
  <2>1. PICK s \in tasks[t].closing : Become(t, [tasks[t] EXCEPT !.closing = @ \ {s}])
    BY <1>4 DEF HangUp
  <2>2. [tasks[t] EXCEPT !.closing = @ \ {s}] \in Task
    BY <1>0 DEF Task
  <2>3. Carries([tasks[t] EXCEPT !.closing = @ \ {s}])
    BY <1>0, <1>4 DEF Task, Carries, HangUp, At
  <2>. QED BY <2>1, <2>2, <2>3, BecomeTyped
<1>5. CASE HungUp(t)
  <2>1. CASE tasks[t].next = "idle"
    <3>1. [Rest EXCEPT !.pc = "idle"] = Rest
      BY DEF Rest
    <3>. QED BY <1>5, <2>1, <3>1, ReturnTyped DEF HungUp, Return
  <2>2. CASE tasks[t].next = "sweeping"
    BY <1>5, <2>2, SweepingTyped DEF HungUp
  <2>. QED BY <1>0, <2>1, <2>2 DEF Task
<1>. QED BY <1>1, <1>2, <1>3, <1>4, <1>5 DEF EndStep

LEMMA ReclaimTyped ==
    ASSUME TasksTyped, DOMAIN sessions \subseteq Ids, connections \subseteq Ids,
           NEW t \in Tasks, ReclaimStep(t)
    PROVE  TasksTyped'
<1>0. tasks[t] \in Task
  BY DEF TasksTyped
<1>1. CASE SweepPutOff(t)
  BY <1>1, ReturnTyped DEF SweepPutOff
<1>2. CASE Sweep(t)
  BY <1>2, GotoTyped DEF Sweep, Phases
<1>3. CASE ReadLive(t)
  <2>. DEFINE k == [tasks[t] EXCEPT !.pc = "dropping", !.seen = Live]
  <2>1. k \in Task /\ Carries(k)
    BY <1>0 DEF Task, Carries, Phases, Live
  <2>. QED BY <1>3, <2>1, BecomeTyped DEF ReadLive
<1>4. CASE DropOrphans(t)
  <2>. DEFINE k == [Rest EXCEPT !.pc = "hanging up", !.closing = connections \ tasks[t].seen]
  <2>1. k \in Task /\ Carries(k)
    BY DEF Rest, Task, Phases, Carries
  <2>. QED BY <1>4, <2>1, BecomeTyped DEF DropOrphans
<1>. QED BY <1>1, <1>2, <1>3, <1>4 DEF ReclaimStep

LEMMA CommandTyped ==
    ASSUME TasksTyped, NEW t \in Tasks, CommandStep(t)
    PROVE  TasksTyped'
<1>0. tasks[t] \in Task /\ Carries(tasks[t])
  BY DEF TasksTyped
<1>1. CASE Return(t)
  BY <1>1, ReturnTyped
<1>2. CASE FindHolder(t)
  BY <1>0, <1>1, <1>2, GotoTyped DEF FindHolder, At, Carries, Phases
<1>3. CASE LockHolder(t) \/ Redial(t)
  BY <1>0, <1>3, GotoTyped DEF LockHolder, Redial, At, Carries, Phases
<1>4. CASE CheckHolder(t)
  BY <1>0, <1>1, <1>4, GotoTyped DEF CheckHolder, At, Carries, Phases
<1>. QED BY <1>1, <1>2, <1>3, <1>4 DEF CommandStep, RecheckHolder, CommandGivesUp

LEMMA TasksStep ==
    ASSUME TypeOK, [Next]_vars
    PROVE  TasksTyped'
<1>0. TasksTyped /\ connections \subseteq Ids /\ DOMAIN sessions \subseteq Ids /\ Callers \subseteq Tasks
  BY DEF TypeOK, TasksTyped, Tasks
<1>1. CASE UNCHANGED tasks
  BY <1>0, <1>1 DEF TasksTyped
<1>2. ASSUME NEW t \in Tasks, Step(t) PROVE TasksTyped'
  BY <1>0, <1>2, OpenTyped, EndTyped, ReclaimTyped, CommandTyped DEF Step
<1>3. ASSUME NEW t \in Callers, NEW p \in Principals, Reserve(t, p) PROVE TasksTyped'
  <2>. DEFINE k == [Rest EXCEPT !.pc = "dialling", !.principal = p]
  <2>1. k \in Task /\ Carries(k)
    BY DEF Rest, Task, Phases, Carries
  <2>. QED BY <1>0, <1>3, <2>1, BecomeTyped DEF Reserve
<1>4. ASSUME NEW t \in Callers, NEW s \in Ids, NEW p \in Principals, CloseClaims(t, s, p)
      PROVE  TasksTyped'
  <2>. DEFINE k == [Rest EXCEPT !.pc = "closing", !.session = s, !.principal = p, !.next = "sweeping"]
  <2>1. k \in Task /\ Carries(k)
    BY DEF Rest, Task, Phases, Carries
  <2>. QED BY <1>0, <1>4, <2>1, BecomeTyped DEF CloseClaims
<1>5. ASSUME NEW t \in Callers, NEW s \in Ids, NEW p \in Principals, Command(t, s, p)
      PROVE  TasksTyped'
  <2>. DEFINE k == [Rest EXCEPT !.pc = "finding", !.session = s, !.principal = p]
  <2>1. k \in Task /\ Carries(k)
    BY DEF Rest, Task, Phases, Carries
  <2>. QED BY <1>0, <1>1, <1>5, <2>1, BecomeTyped DEF Command
<1>6. ASSUME NEW t \in Callers, NEW s \in Ids, Terminate(t, s) PROVE TasksTyped'
  <2>. DEFINE k == [Rest EXCEPT !.pc = "unpublishing", !.session = s, !.next = "sweeping"]
  <2>1. k \in Task /\ Carries(k)
    BY DEF Rest, Task, Phases, Carries
  <2>. QED BY <1>0, <1>6, <2>1, BecomeTyped DEF Terminate
<1>7. CASE Housekeep
  BY <1>0, <1>7, SweepingTyped DEF Housekeep, Tasks
<1>8. CASE \/ \E p \in Principals : TooManySessions(p)
           \/ \E s \in Ids : TransportLost(s)
           \/ Stop \/ Tick \/ UNCHANGED vars
  BY <1>1, <1>8 DEF TooManySessions, TransportLost, Stop, Tick, vars
<1>. QED BY <1>2, <1>3, <1>4, <1>5, <1>6, <1>7, <1>8 DEF Next

(* The variables beside the map, the slots and the tasks. *)
OthersTyped ==
    /\ born \subseteq Ids
    /\ connections \subseteq Ids
    /\ holder \in [Ids -> {"none", "open", "gone"}]
    /\ holding \in [Ids -> Tasks \cup {None}]
    /\ publishing \in Tasks \cup {None}
    /\ stopping \in BOOLEAN
    /\ opened \subseteq Ids
    /\ ended \in [Ids -> Nat]

LEMMA OthersStep ==
    ASSUME TypeOK, [Next]_vars
    PROVE  OthersTyped' /\ born \subseteq born'
<1>0. OthersTyped /\ Callers \subseteq Tasks /\ \A t \in Tasks : Carries(tasks[t])
  BY DEF TypeOK, OthersTyped, Tasks
<1>1. ASSUME UNCHANGED <<born, connectionVars, publishing, stopping, recordVars>>
      PROVE  OthersTyped' /\ born \subseteq born'
  BY <1>0, <1>1 DEF OthersTyped, connectionVars, recordVars
<1>2. ASSUME NEW t \in Tasks, OpenStep(t) PROVE OthersTyped' /\ born \subseteq born'
  <2>1. ASSUME NEW s \in Ids, PublishSession(t, s) PROVE OthersTyped' /\ born \subseteq born'
    BY <1>0, <2>1 DEF PublishSession, OthersTyped, connectionVars, recordVars
  <2>2. CASE PublishConnection(t)
    BY <1>0, <2>2 DEF PublishConnection, At, Carries, OthersTyped, recordVars
  <2>3. CASE RecordOpened(t)
    BY <1>0, <2>3 DEF RecordOpened, At, Carries, OthersTyped, connectionVars
  <2>. QED BY <1>1, <1>2, <2>1, <2>2, <2>3 DEF OpenStep, OpenFails
<1>3. ASSUME NEW t \in Tasks, EndStep(t) PROVE OthersTyped' /\ born \subseteq born'
  <2>1. CASE CloseRecords(t) \/ CloseRemoves(t)
    BY <1>0, <2>1 DEF CloseRecords, CloseRemoves, OthersTyped, connectionVars, recordVars
  <2>2. CASE Unpublish(t) \/ HangUp(t)
    BY <1>0, <2>2 DEF Unpublish, HangUp, OthersTyped, recordVars
  <2>. QED BY <1>1, <1>3, <2>1, <2>2 DEF EndStep, HungUp
<1>4. ASSUME NEW t \in Tasks, ReclaimStep(t) PROVE OthersTyped' /\ born \subseteq born'
  <2>1. CASE ReadLive(t) \/ DropOrphans(t)
    BY <1>0, <2>1 DEF ReadLive, DropOrphans, OthersTyped, connectionVars, recordVars
  <2>. QED BY <1>1, <1>4, <2>1 DEF ReclaimStep, SweepPutOff, Sweep
<1>5. ASSUME NEW t \in Tasks, CommandStep(t) PROVE OthersTyped' /\ born \subseteq born'
  <2>1. CASE LockHolder(t) \/ CheckHolder(t)
    BY <1>0, <2>1 DEF LockHolder, CheckHolder, Unlocked, OthersTyped, recordVars
  <2>2. CASE RecheckHolder(t) \/ CommandGivesUp(t)
    BY <1>0, <2>2 DEF RecheckHolder, CommandGivesUp, Unlocked, OthersTyped, recordVars
  <2>. QED BY <1>1, <1>5, <2>1, <2>2 DEF CommandStep, FindHolder, Redial
<1>6. ASSUME NEW t \in Callers, NEW p \in Principals, Reserve(t, p)
      PROVE  OthersTyped' /\ born \subseteq born'
  BY <1>1, <1>6 DEF Reserve
<1>7. ASSUME NEW t \in Callers, NEW s \in Ids, NEW p \in Principals,
             CloseClaims(t, s, p) \/ Command(t, s, p)
      PROVE  OthersTyped' /\ born \subseteq born'
  BY <1>0, <1>7 DEF CloseClaims, Command, OthersTyped, connectionVars, recordVars
<1>8. ASSUME NEW t \in Callers, NEW s \in Ids, Terminate(t, s)
      PROVE  OthersTyped' /\ born \subseteq born'
  BY <1>0, <1>8 DEF Terminate, OthersTyped, connectionVars
<1>9. CASE (\E s \in Ids : TransportLost(s)) \/ Stop
  BY <1>0, <1>9 DEF TransportLost, Stop, OthersTyped, connectionVars, recordVars
<1>10. CASE (\E p \in Principals : TooManySessions(p)) \/ Housekeep \/ Tick \/ UNCHANGED vars
  BY <1>1, <1>10 DEF TooManySessions, Housekeep, Tick, vars
<1>. QED
  BY <1>2, <1>3, <1>4, <1>5, <1>6, <1>7, <1>8, <1>9, <1>10 DEF Next, Step

LEMMA MapStep ==
    ASSUME TypeOK, [Next]_vars
    PROVE  DOMAIN sessions' \subseteq born' /\ sessions' \in [DOMAIN sessions' -> Session]
<1>1. CASE ~Publishes
  BY <1>1, StepShrinks, OthersStep DEF Shrinks, TypeOK
<1>2. ASSUME NEW t \in Tasks, NEW s \in Ids, PublishSession(t, s)
      PROVE  DOMAIN sessions' \subseteq born' /\ sessions' \in [DOMAIN sessions' -> Session]
  <2>. DEFINE new == [principal |-> tasks[t].principal, openedAt |-> now, lastUsed |-> now]
  <2>1. new \in Session
    BY <1>2 DEF PublishSession, TypeOK, Carries, At, Session
  <2>2. sessions' = [i \in DOMAIN sessions \cup {s} |-> IF i = s THEN new ELSE sessions[i]]
    BY <1>2 DEF PublishSession
  <2>3. born' = born \cup {s}
    BY <1>2 DEF PublishSession
  <2>. QED BY <2>1, <2>2, <2>3 DEF TypeOK
<1>. QED BY <1>1, <1>2 DEF Publishes

(* The slots are part of the type argument: a slot is given back only where there is one. *)
LEMMA TypeStep ==
    ASSUME TypeOK, SlotsReturned, [Next]_vars
    PROVE  TypeOK' /\ SlotsReturned'
<1>1. TypeOK' <=> /\ (now \in Nat)' /\ OthersTyped' /\ TasksTyped' /\ (pending \in [Principals -> Nat])'
                  /\ DOMAIN sessions' \subseteq born' /\ sessions' \in [DOMAIN sessions' -> Session]
  BY DEF TypeOK, OthersTyped, TasksTyped
<1>. QED BY <1>1, ClockRuns, OthersStep, TasksStep, MapStep, SlotsStep

LEMMA TypeInit == Init => TypeOK /\ SlotsReturned
<1>. SUFFICES ASSUME Init PROVE TypeOK /\ SlotsReturned
  OBVIOUS
<1>1. Rest \in Task /\ Carries(Rest) /\ Rest.pc # "dialling"
  BY DEF Rest, Task, Phases, Carries
<1>2. TypeOK
  BY <1>1 DEF Init, TypeOK
<1>3. \A p \in Principals : {t \in Tasks : At(t, "dialling") /\ tasks[t].principal = p} = {}
  BY <1>1 DEF Init, At
<1>4. SlotsReturned
  BY <1>3, FS_EmptySet DEF Init, SlotsReturned
<1>. QED BY <1>2, <1>4

(* The variables of the store and the mediator keep their types in every reachable
   state, and an open gives back the slot it reserved, and no other
   (SessionStore::reserve, Opening and its Drop). *)
THEOREM SlotInvariant == Spec => [](TypeOK /\ SlotsReturned)
<1>1. TypeOK /\ SlotsReturned /\ [Next]_vars => (TypeOK /\ SlotsReturned)'
  BY TypeStep
<1>. QED BY <1>1, TypeInit, PTL DEF Spec

(* The type invariant by itself. *)
THEOREM SessionsTypeInvariant == Spec => []TypeOK
BY SlotInvariant, PTL

(* What is reserved is what is being opened (SlotsReturned). *)
THEOREM SlotsAreReturned == Spec => []SlotsReturned
BY SlotInvariant, PTL

-----------------------------------------------------------------------------
(* Quotas *)

LEMMA HeldFinite ==
    ASSUME TypeOK
    PROVE  \A p : IsFiniteSet(HeldBy(p)) /\ Cardinality(HeldBy(p)) \in Nat
<1>. TAKE p
<1>1. HeldBy(p) \subseteq Ids /\ IsFiniteSet(Ids)
  BY SessionsAssumption DEF TypeOK, HeldBy
<1>. QED BY <1>1, FS_Subset, FS_CardinalityType

(* A step that adds no session holds no more of them for any principal. *)
LEMMA ShrinksHeld ==
    ASSUME TypeOK, Shrinks, NEW p
    PROVE  /\ HeldBy(p)' \subseteq HeldBy(p)
           /\ Cardinality(HeldBy(p)') \in Nat
           /\ Cardinality(HeldBy(p)') <= Cardinality(HeldBy(p))
<1>1. HeldBy(p)' \subseteq HeldBy(p)
  BY DEF HeldBy, Shrinks
<1>. QED BY <1>1, HeldFinite, FS_Subset, FS_CardinalityType

(* A slot is reserved only under the quota, or for a session given up. *)
LEMMA ReserveBounded ==
    ASSUME TypeOK, SlotsBounded, NEW t \in Tasks, NEW p \in Principals, Reserve(t, p), Shrinks
    PROVE  SlotsBounded'
<1>1. pending' = [pending EXCEPT ![p] = pending[p] + 1] /\ pending \in [Principals -> Nat]
  BY DEF Reserve, TypeOK
<1>2. ASSUME NEW q \in Principals, q # p PROVE Cardinality(HeldBy(q)') + pending'[q] <= PerPrincipal
  <2>1. pending'[q] = pending[q] /\ pending[q] \in Nat
    BY <1>1, <1>2
  <2>2. Cardinality(HeldBy(q)) + pending[q] <= PerPrincipal /\ PerPrincipal \in Nat
    BY SessionsAssumption DEF SlotsBounded
  <2>3. Cardinality(HeldBy(q)') <= Cardinality(HeldBy(q)) /\ Cardinality(HeldBy(q)') \in Nat
    BY ShrinksHeld
  <2>. QED BY <2>1, <2>2, <2>3, HeldFinite
<1>3. Cardinality(HeldBy(p)') + 1 + pending[p] <= PerPrincipal
  <2>. DEFINE kept == HeldBy(p) \ Forgotten
  <2>0. /\ IsFiniteSet(kept) /\ Cardinality(kept) \in Nat
        /\ Cardinality(kept) <= Cardinality(HeldBy(p))
    BY HeldFinite, FS_Subset, FS_CardinalityType
  <2>1. CASE ~Full(p) /\ sessions' = Without(Forgotten)
    <3>1. HeldBy(p)' = kept
      BY <2>1 DEF HeldBy, Without
    <3>. QED BY <1>1, <2>0, <2>1, <3>1, SessionsAssumption DEF Full
  <2>2. CASE \E s \in Stale(p) : sessions' = Without(Forgotten \cup {s})
    <3>1. PICK s \in Stale(p) : sessions' = Without(Forgotten \cup {s})
      BY <2>2
    <3>2. HeldBy(p)' = kept \ {s} /\ s \in kept
      BY <3>1 DEF HeldBy, Without, Stale
    <3>3. Cardinality(HeldBy(p)') = Cardinality(kept) - 1
      BY <2>0, <3>2, FS_RemoveElement
    <3>4. Cardinality(HeldBy(p)) + pending[p] <= PerPrincipal /\ PerPrincipal \in Nat
      BY SessionsAssumption DEF SlotsBounded
    <3>. QED BY <1>1, <2>0, <3>3, <3>4, HeldFinite
  <2>. QED BY <2>1, <2>2 DEF Reserve
<1>4. pending'[p] = pending[p] + 1 /\ pending[p] \in Nat
  BY <1>1
<1>5. Cardinality(HeldBy(p)') \in Nat
  BY ShrinksHeld
<1>6. Cardinality(HeldBy(p)') + pending'[p] <= PerPrincipal
  BY <1>3, <1>4, <1>5, SessionsAssumption
<1>. QED BY <1>2, <1>6 DEF SlotsBounded

(* Publishing turns the slot into a session: the sum stays. *)
LEMMA PublishBounded ==
    ASSUME TypeOK, SlotsBounded, NEW t \in Tasks, NEW s \in Ids, PublishSession(t, s)
    PROVE  SlotsBounded'
<1>1. PICK p \in Principals : p = tasks[t].principal
  BY DEF TypeOK, Carries, At, PublishSession
<1>2. pending' = [pending EXCEPT ![p] = pending[p] - 1] /\ pending \in [Principals -> Nat]
  BY <1>1 DEF PublishSession, TypeOK
<1>3. s \notin DOMAIN sessions
  BY DEF PublishSession, TypeOK
<1>4. HeldBy(p)' = HeldBy(p) \cup {s} /\ s \notin HeldBy(p)
  BY <1>1, <1>3 DEF PublishSession, HeldBy
<1>5. \A q : q # p => HeldBy(q)' = HeldBy(q)
  BY <1>1, <1>3 DEF PublishSession, HeldBy
<1>6. Cardinality(HeldBy(p)') = Cardinality(HeldBy(p)) + 1
  BY <1>4, HeldFinite, FS_AddElement
<1>7. \A q \in Principals : Cardinality(HeldBy(q)) + pending[q] <= PerPrincipal
  BY DEF SlotsBounded
<1>8. pending'[p] = pending[p] - 1 /\ \A q \in Principals \ {p} : pending'[q] = pending[q]
  BY <1>2
<1>9. Cardinality(HeldBy(p)') + pending'[p] <= PerPrincipal
  BY <1>2, <1>6, <1>7, <1>8, HeldFinite
<1>. QED BY <1>5, <1>7, <1>8, <1>9 DEF SlotsBounded

LEMMA BoundedStep ==
    ASSUME TypeOK, SlotsBounded, [Next]_vars, pending' \in [Principals -> Nat]
    PROVE  SlotsBounded'
<1>1. ASSUME \A p \in Principals : pending'[p] <= pending[p], Shrinks
      PROVE  SlotsBounded'
  <2>. SUFFICES ASSUME NEW p \in Principals
                PROVE  Cardinality(HeldBy(p)') + pending'[p] <= PerPrincipal
    BY DEF SlotsBounded
  <2>1. pending[p] \in Nat /\ pending'[p] \in Nat /\ PerPrincipal \in Nat
    BY SessionsAssumption DEF TypeOK
  <2>2. Cardinality(HeldBy(p)) + pending[p] <= PerPrincipal
    BY DEF SlotsBounded
  <2>. QED BY <1>1, <2>1, <2>2, ShrinksHeld, HeldFinite
<1>2. CASE SameOpens /\ ~Publishes
  BY <1>1, <1>2, StepShrinks DEF SameOpens, TypeOK
<1>3. ASSUME NEW t \in Callers, NEW p \in Principals, Reserve(t, p), ~Publishes PROVE SlotsBounded'
  BY <1>3, StepShrinks, ReserveBounded DEF Tasks
<1>4. ASSUME NEW t \in Tasks, OpenFails(t), ~Publishes PROVE SlotsBounded'
  <2>1. pending' = [pending EXCEPT ![tasks[t].principal] = @ - 1]
    BY <1>4 DEF OpenFails
  <2>2. \A p \in Principals : pending'[p] <= pending[p]
    BY <2>1 DEF TypeOK
  <2>. QED BY <1>1, <1>4, <2>2, StepShrinks
<1>5. CASE Publishes
  BY <1>5, PublishBounded DEF Publishes
<1>. QED BY <1>2, <1>3, <1>4, <1>5, OtherStepsSameOpens DEF Opening

(* The sessions a principal holds and the ones it is opening stay within its quota
   (SessionStore::new), for every number of principals and concurrent opens. *)
THEOREM SlotsAreBounded == Spec => []SlotsBounded
<1>1. Init => SlotsBounded
  <2>. SUFFICES ASSUME Init PROVE SlotsBounded
    OBVIOUS
  <2>1. \A p \in Principals : HeldBy(p) = {} /\ pending[p] = 0
    BY DEF Init, HeldBy
  <2>. QED BY <2>1, FS_EmptySet, SessionsAssumption DEF SlotsBounded
<1>2. TypeOK /\ TypeOK' /\ SlotsBounded /\ [Next]_vars => SlotsBounded'
  BY BoundedStep DEF TypeOK
<1>. QED BY <1>1, <1>2, SessionsTypeInvariant, PTL DEF Spec

-----------------------------------------------------------------------------
(* Publication, ends and reconciliation exclude each other *)

(* The part of the record and of the maps the exclusion is about. *)
watched == <<connections, publishing, born, ended>>

CalmTasks ==
    \A t \in Tasks :
        \/ tasks'[t] = tasks[t]
        \/ tasks[t].pc \notin Exclusive /\ tasks'[t].pc \notin Exclusive

Calm == UNCHANGED watched /\ CalmTasks

(* The steps under `publishing`. *)
Critical ==
    \/ Publishes
    \/ Ends
    \/ \E t \in Tasks : \/ PublishConnection(t) \/ CloseRecords(t) \/ Unpublish(t)
                        \/ ReadLive(t) \/ DropOrphans(t)
    \/ \E t \in Callers, s \in Ids, p \in Principals : CloseClaims(t, s, p)

LEMMA BecomeCalm ==
    ASSUME TypeOK, NEW t \in Tasks, NEW k, Become(t, k),
           tasks[t].pc \notin Exclusive, k.pc \notin Exclusive
    PROVE  CalmTasks
BY DEF CalmTasks, Become, TypeOK

LEMMA StepsCalm ==
    ASSUME TypeOK, [Next]_vars
    PROVE  Calm \/ Critical
<1>0. Rest.pc \notin Exclusive
  BY DEF Rest, Exclusive
<1>1. ASSUME UNCHANGED <<tasks, watched>> PROVE Calm
  BY <1>1 DEF Calm, CalmTasks
<1>2. ASSUME NEW t \in Tasks, OpenFails(t) \/ RecordOpened(t) PROVE Calm
  <2>1. tasks[t].pc \notin Exclusive /\ UNCHANGED watched
    BY <1>2 DEF OpenFails, RecordOpened, At, Exclusive, watched, connectionVars, recordVars
  <2>2. PICK k : k.pc \notin Exclusive /\ Become(t, k)
    BY <1>0, <1>2 DEF OpenFails, RecordOpened, Return, Rest, Exclusive
  <2>. QED BY <2>1, <2>2, BecomeCalm DEF Calm
<1>3. ASSUME NEW t \in Tasks, HangUp(t) \/ HungUp(t) PROVE Calm
  <2>1. tasks[t].pc \notin Exclusive /\ UNCHANGED watched
    BY <1>3 DEF HangUp, HungUp, At, Exclusive, watched, connectionVars, recordVars
  <2>2. tasks[t] \in Task /\ tasks[t].pc = "hanging up"
    BY <1>3 DEF TypeOK, HangUp, HungUp, At
  <2>3. PICK k : k.pc \notin Exclusive /\ Become(t, k)
    BY <1>3, <2>2 DEF HangUp, HungUp, Rest, Task, Exclusive
  <2>. QED BY <2>1, <2>3, BecomeCalm DEF Calm
<1>4. ASSUME NEW t \in Tasks, SweepPutOff(t) \/ Sweep(t) PROVE Calm
  <2>1. tasks[t].pc \notin Exclusive /\ UNCHANGED watched
    BY <1>4 DEF SweepPutOff, Sweep, At, Exclusive, watched, connectionVars, recordVars
  <2>2. tasks[t] \in Task
    BY DEF TypeOK
  <2>3. PICK k : k.pc \notin Exclusive /\ Become(t, k)
    BY <1>0, <1>4, <2>2 DEF SweepPutOff, Sweep, Goto, Return, Task, Exclusive
  <2>. QED BY <2>1, <2>3, BecomeCalm DEF Calm
<1>5. ASSUME NEW t \in Tasks, CommandStep(t) PROVE Calm
  <2>1. tasks[t].pc \notin Exclusive /\ UNCHANGED watched
    BY <1>5 DEF CommandStep, FindHolder, LockHolder, CheckHolder, Redial, RecheckHolder,
                CommandGivesUp, At, Exclusive, watched, connectionVars, recordVars
  <2>2. tasks[t] \in Task
    BY DEF TypeOK
  <2>3. PICK k : k.pc \notin Exclusive /\ Become(t, k)
    BY <1>0, <1>5, <2>2
       DEF CommandStep, FindHolder, LockHolder, CheckHolder, Redial, RecheckHolder,
           CommandGivesUp, Goto, Return, Task, Exclusive
  <2>. QED BY <2>1, <2>3, BecomeCalm DEF Calm
<1>6. ASSUME NEW t \in Callers, NEW p \in Principals, Reserve(t, p) PROVE Calm
  <2>1. t \in Tasks /\ tasks[t].pc \notin Exclusive /\ UNCHANGED watched
    BY <1>0, <1>6 DEF Reserve, Tasks, watched, connectionVars, recordVars
  <2>2. \E k : k.pc \notin Exclusive /\ Become(t, k)
    BY <1>6 DEF Reserve, Rest, Exclusive
  <2>. QED BY <2>1, <2>2, BecomeCalm DEF Calm
<1>7. ASSUME NEW t \in Callers, NEW s \in Ids, NEW p \in Principals, Command(t, s, p) PROVE Calm
  <2>1. t \in Tasks /\ tasks[t].pc \notin Exclusive /\ UNCHANGED watched
    BY <1>0, <1>7 DEF Command, Tasks, watched, connectionVars, recordVars
  <2>2. UNCHANGED tasks \/ \E k : k.pc \notin Exclusive /\ Become(t, k)
    BY <1>7 DEF Command, Rest, Exclusive
  <2>. QED BY <1>1, <2>1, <2>2, BecomeCalm DEF Calm
<1>8. CASE Housekeep
  <2>1. /\ Housekeeper \in Tasks /\ tasks[Housekeeper].pc \notin Exclusive
        /\ UNCHANGED watched
    BY <1>0, <1>8 DEF Housekeep, Tasks, watched, connectionVars, recordVars
  <2>2. \E k : k.pc \notin Exclusive /\ Become(Housekeeper, k)
    BY <1>8 DEF Housekeep, Rest, Exclusive
  <2>. QED BY <2>1, <2>2, BecomeCalm DEF Calm
<1>9. CASE \/ \E p \in Principals : TooManySessions(p)
           \/ \E s \in Ids : TransportLost(s)
           \/ Stop \/ Tick \/ UNCHANGED vars
  BY <1>1, <1>9
     DEF TooManySessions, TransportLost, Stop, Tick, vars, watched, connectionVars, recordVars
<1>. QED
  BY <1>2, <1>3, <1>4, <1>5, <1>6, <1>7, <1>8, <1>9
     DEF Next, Step, OpenStep, EndStep, ReclaimStep, Critical, Publishes, Ends

(* While `publishing` is free no task is in the part it protects, and the task that
   has it is the only one. *)
LEMMA ExclusiveTask ==
    ASSUME TypeOK, PublishingInv, NEW t \in Tasks, NEW u \in Tasks
    PROVE  /\ publishing = None => tasks[t].pc \notin Exclusive
           /\ tasks[t].pc \in Exclusive /\ tasks[u].pc \in Exclusive => t = u
BY SessionsAssumption DEF PublishingInv

LEMMA CalmPublishing ==
    ASSUME TypeOK, PublishingInv, Calm, Shrinks
    PROVE  PublishingInv'
<1>1. Live' \subseteq Live /\ DOMAIN sessions' \subseteq DOMAIN sessions
  BY ShrinksLive DEF Shrinks
<1>2. UNCHANGED <<connections, publishing, born, ended>>
  BY DEF Calm, watched
<1>3. \A t \in Tasks : tasks'[t].pc \in Exclusive \/ tasks[t].pc \in Exclusive => tasks'[t] = tasks[t]
  BY DEF Calm, CalmTasks
<1>4. \A t \in Tasks : tasks'[t].pc \in Exclusive <=> publishing' = t
  BY <1>2, <1>3 DEF PublishingInv
<1>5. ASSUME NEW t \in Tasks, tasks'[t].pc \in Exclusive
      PROVE  /\ At(t, "dropping")' => Live' \subseteq tasks'[t].seen
             /\ At(t, "publishing")' => tasks'[t].session \in born' /\ ended'[tasks'[t].session] = 0
             /\ At(t, "closing")' => tasks'[t].session \in born' /\ ended'[tasks'[t].session] = 0
             /\ At(t, "removing")' => ended'[tasks'[t].session] = 1
             /\ At(t, "unpublishing")' => tasks'[t].session \notin DOMAIN sessions'
  BY <1>1, <1>2, <1>3, <1>5 DEF PublishingInv, At
<1>6. ASSUME NEW s \in Live'
      PROVE  s \in connections' \/ \E t \in Tasks : At(t, "publishing")' /\ tasks'[t].session = s
  BY <1>1, <1>2, <1>3 DEF PublishingInv, At, Exclusive
<1>7. ASSUME NEW s \in DOMAIN sessions'
      PROVE  ended'[s] = 0 \/ \E t \in Tasks : At(t, "removing")' /\ tasks'[t].session = s
  BY <1>1, <1>2, <1>3 DEF PublishingInv, At, Exclusive
<1>8. (\A s \in Ids \ born : ended[s] = 0)' /\ EndedOnce'
  BY <1>2 DEF PublishingInv, EndedOnce
<1>. QED BY <1>4, <1>5, <1>6, <1>7, <1>8 DEF PublishingInv, At, Exclusive

(* The step of the one task that has `publishing`, or takes it while it is free: what
   is left to show is about that task and the two maps. *)
LEMMA CriticalTask ==
    ASSUME TypeOK, PublishingInv, NEW t \in Tasks, NEW k, Become(t, k),
           tasks[t].pc \in Exclusive \/ publishing = None,
           publishing' = (IF k.pc \in Exclusive THEN t ELSE None)
    PROVE  /\ tasks'[t] = k
           /\ \A u \in Tasks \ {t} : tasks'[u] = tasks[u] /\ tasks[u].pc \notin Exclusive
           /\ \A u \in Tasks : tasks'[u].pc \in Exclusive <=> publishing' = u
<1>1. tasks'[t] = k /\ \A u \in Tasks \ {t} : tasks'[u] = tasks[u]
  BY DEF Become, TypeOK
<1>2. \A u \in Tasks \ {t} : tasks[u].pc \notin Exclusive
  BY ExclusiveTask
<1>. QED BY <1>1, <1>2, SessionsAssumption

(* What PublishingInv says of the task in the protected part. *)
Protected(t) ==
    /\ At(t, "dropping") => Live \subseteq tasks[t].seen
    /\ At(t, "publishing") => tasks[t].session \in born /\ ended[tasks[t].session] = 0
    /\ At(t, "closing") => tasks[t].session \in born /\ ended[tasks[t].session] = 0
    /\ At(t, "removing") => ended[tasks[t].session] = 1
    /\ At(t, "unpublishing") => tasks[t].session \notin DOMAIN sessions

LEMMA OnlyProtected ==
    ASSUME NEW t \in Tasks, Protected(t)',
           \A u \in Tasks : tasks'[u].pc \in Exclusive <=> publishing' = u,
           \A u \in Tasks \ {t} : tasks'[u].pc \notin Exclusive
    PROVE  /\ (\A u \in Tasks : tasks[u].pc \in Exclusive <=> publishing = u)'
           /\ (\A u \in Tasks : Protected(u))'
BY DEF Protected, At, Exclusive

LEMMA PublishSessionStep ==
    ASSUME TypeOK, PublishingInv, NEW t \in Tasks, NEW s \in Ids, PublishSession(t, s)
    PROVE  PublishingInv'
<1>. DEFINE k == [tasks[t] EXCEPT !.pc = "publishing", !.session = s]
<1>1. k.pc = "publishing" /\ k.session = s
  BY DEF TypeOK, Task
<1>2. /\ tasks'[t] = k
      /\ \A u \in Tasks \ {t} : tasks'[u] = tasks[u] /\ tasks[u].pc \notin Exclusive
      /\ \A u \in Tasks : tasks'[u].pc \in Exclusive <=> publishing' = u
  BY <1>1, CriticalTask DEF PublishSession, Exclusive
<1>3. s \notin born /\ born' = born \cup {s} /\ ended' = ended /\ ended[s] = 0
      /\ connections' = connections
  BY DEF PublishSession, PublishingInv, recordVars, connectionVars
<1>4. DOMAIN sessions' = DOMAIN sessions \cup {s} /\ \A i \in DOMAIN sessions : sessions'[i] = sessions[i]
  BY <1>3 DEF PublishSession, TypeOK
<1>5. Live' \subseteq Live \cup {s}
  BY <1>4 DEF Live, Expired, PublishSession
<1>6. \A u \in Tasks : tasks[u].pc \notin Exclusive
  BY ExclusiveTask DEF PublishSession
<1>7. \A i \in Live : i \in connections
  BY <1>6 DEF PublishingInv, At, Exclusive
<1>8. \A i \in DOMAIN sessions : ended[i] = 0
  BY <1>6 DEF PublishingInv, At, Exclusive
<1>9. EndedOnce'
  BY <1>3 DEF PublishingInv, EndedOnce
<1>10. \A i \in Live' : i \in connections' \/ \E u \in Tasks : At(u, "publishing")' /\ tasks'[u].session = i
  BY <1>1, <1>2, <1>3, <1>5, <1>7 DEF At
<1>11. (\A i \in Ids \ born : ended[i] = 0)' /\ \A i \in DOMAIN sessions' : ended'[i] = 0
  BY <1>3, <1>4, <1>8 DEF PublishingInv
<1>12. Protected(t)'
  BY <1>1, <1>2, <1>3 DEF Protected, At
<1>13. /\ (\A u \in Tasks : tasks[u].pc \in Exclusive <=> publishing = u)'
       /\ (\A u \in Tasks : Protected(u))'
  BY <1>2, <1>12, OnlyProtected
<1>. QED BY <1>9, <1>10, <1>11, <1>13 DEF PublishingInv, Protected, At

LEMMA PublishConnectionStep ==
    ASSUME TypeOK, PublishingInv, Shrinks, NEW t \in Tasks, PublishConnection(t)
    PROVE  PublishingInv'
<1>1. [tasks[t] EXCEPT !.pc = "recording"].pc = "recording" /\ tasks[t].pc = "publishing"
  BY DEF TypeOK, Task, PublishConnection, At
<1>2. /\ tasks'[t].pc = "recording"
      /\ \A u \in Tasks \ {t} : tasks'[u] = tasks[u] /\ tasks[u].pc \notin Exclusive
      /\ \A u \in Tasks : tasks'[u].pc \in Exclusive <=> publishing' = u
  BY <1>1, CriticalTask DEF PublishConnection, Goto, Exclusive
<1>3. Live' \subseteq Live /\ sessions' = sessions
  BY ShrinksLive DEF PublishConnection
<1>4. UNCHANGED <<born, ended>> /\ connections' = connections \cup {tasks[t].session}
  BY DEF PublishConnection, recordVars
<1>5. \A u \in Tasks : tasks'[u].pc \notin Exclusive
  BY <1>2 DEF Exclusive
<1>6. \A s \in Live' : s \in connections'
  BY <1>2, <1>3, <1>4 DEF PublishingInv, At, Exclusive
<1>7. \A s \in DOMAIN sessions' : ended'[s] = 0
  BY <1>1, <1>2, <1>3, <1>4 DEF PublishingInv, At, Exclusive
<1>. QED BY <1>2, <1>4, <1>5, <1>6, <1>7 DEF PublishingInv, At, Exclusive, EndedOnce

LEMMA CloseClaimsStep ==
    ASSUME TypeOK, PublishingInv, Shrinks, NEW t \in Tasks, NEW s \in Ids, NEW p \in Principals,
           CloseClaims(t, s, p)
    PROVE  PublishingInv'
<1>. DEFINE k == [Rest EXCEPT !.pc = "closing", !.session = s, !.principal = p, !.next = "sweeping"]
<1>1. k.pc = "closing" /\ k.session = s
  BY DEF Rest
<1>2. /\ tasks'[t] = k
      /\ \A u \in Tasks \ {t} : tasks'[u] = tasks[u] /\ tasks[u].pc \notin Exclusive
      /\ \A u \in Tasks : tasks'[u].pc \in Exclusive <=> publishing' = u
  BY <1>1, CriticalTask DEF CloseClaims, Exclusive
<1>3. UNCHANGED <<born, ended, connections>>
  BY DEF CloseClaims, connectionVars, recordVars
<1>4. \A u \in Tasks : tasks[u].pc \notin Exclusive
  BY ExclusiveTask DEF CloseClaims
<1>5. Live' \subseteq Live /\ DOMAIN sessions' \subseteq DOMAIN sessions
  BY ShrinksLive DEF Shrinks
<1>6. \A i \in Live' : i \in connections'
  BY <1>3, <1>4, <1>5 DEF PublishingInv, At, Exclusive
<1>7. \A i \in DOMAIN sessions : ended[i] = 0
  BY <1>4 DEF PublishingInv, At, Exclusive
<1>8. s \in born /\ ended[s] = 0
  BY <1>7 DEF CloseClaims, Usable, Live, TypeOK
<1>9. Protected(t)'
  BY <1>1, <1>2, <1>3, <1>8 DEF Protected, At
<1>10. /\ (\A u \in Tasks : tasks[u].pc \in Exclusive <=> publishing = u)'
       /\ (\A u \in Tasks : Protected(u))'
  BY <1>2, <1>9, OnlyProtected
<1>11. EndedOnce' /\ (\A i \in Ids \ born : ended[i] = 0)'
  BY <1>3 DEF PublishingInv, EndedOnce
<1>. QED BY <1>3, <1>5, <1>6, <1>7, <1>10, <1>11 DEF PublishingInv, Protected, At

LEMMA CloseRecordsStep ==
    ASSUME TypeOK, PublishingInv, Shrinks, NEW t \in Tasks, CloseRecords(t)
    PROVE  PublishingInv'
<1>0. tasks[t].pc = "closing" /\ tasks[t].pc \in Exclusive /\ tasks[t] \in Task
  BY DEF CloseRecords, At, Exclusive, TypeOK
<1>1. PICK s \in Ids : s = tasks[t].session /\ s \in born /\ ended[s] = 0
  <2>1. tasks[t].session \in Ids
    BY <1>0 DEF TypeOK, Carries
  <2>. QED BY <1>0, <2>1 DEF PublishingInv, At
<1>2. UNCHANGED <<sessions, born, connections>> /\ Live' \subseteq Live
  BY ShrinksLive DEF CloseRecords, connectionVars
<1>3. \A u \in Tasks \ {t} : tasks[u].pc \notin Exclusive
  BY <1>0, ExclusiveTask
<1>4. \A i \in Live' : i \in connections'
  BY <1>0, <1>2, <1>3 DEF PublishingInv, At, Exclusive
<1>5. \A i \in DOMAIN sessions : ended[i] = 0
  BY <1>0, <1>3 DEF PublishingInv, At, Exclusive
<1>6. CASE ended' = [ended EXCEPT ![s] = @ + 1] /\ Goto(t, "removing") /\ UNCHANGED publishing
  <2>1. [tasks[t] EXCEPT !.pc = "removing"].pc = "removing"
        /\ [tasks[t] EXCEPT !.pc = "removing"].session = s
    BY <1>0, <1>1 DEF Task
  <2>2. publishing = t
    BY <1>0 DEF PublishingInv
  <2>3. /\ tasks'[t].pc = "removing" /\ tasks'[t].session = s
        /\ \A u \in Tasks \ {t} : tasks'[u] = tasks[u] /\ tasks[u].pc \notin Exclusive
        /\ \A u \in Tasks : tasks'[u].pc \in Exclusive <=> publishing' = u
    BY <1>0, <1>6, <2>1, <2>2, CriticalTask DEF Goto, Exclusive
  <2>4. ended'[s] = 1 /\ \A i \in Ids \ {s} : ended'[i] = ended[i]
    BY <1>1, <1>6 DEF TypeOK
  <2>5. EndedOnce' /\ \A i \in Ids \ born' : ended'[i] = 0
    BY <1>1, <1>2, <2>4 DEF PublishingInv, EndedOnce
  <2>6. \A i \in DOMAIN sessions' : ended'[i] = 0 \/ i = s
    BY <1>2, <1>5, <2>4 DEF TypeOK
  <2>7. Protected(t)'
    BY <2>3, <2>4 DEF Protected, At
  <2>8. /\ (\A u \in Tasks : tasks[u].pc \in Exclusive <=> publishing = u)'
        /\ (\A u \in Tasks : Protected(u))'
    BY <2>3, <2>7, OnlyProtected
  <2>. QED BY <1>4, <2>3, <2>5, <2>6, <2>8 DEF PublishingInv, Protected, At
<1>7. CASE Return(t) /\ publishing' = None /\ UNCHANGED ended
  <2>1. Rest.pc \notin Exclusive
    BY DEF Rest, Exclusive
  <2>2. /\ tasks'[t] = Rest
        /\ \A u \in Tasks \ {t} : tasks'[u] = tasks[u] /\ tasks[u].pc \notin Exclusive
        /\ \A u \in Tasks : tasks'[u].pc \in Exclusive <=> publishing' = u
    BY <1>0, <1>7, <2>1, CriticalTask DEF Return
  <2>3. \A u \in Tasks : tasks'[u].pc \notin Exclusive
    BY <2>1, <2>2
  <2>. QED BY <1>2, <1>4, <1>5, <1>7, <2>2, <2>3 DEF PublishingInv, At, Exclusive, EndedOnce
<1>. QED BY <1>1, <1>6, <1>7 DEF CloseRecords

LEMMA CloseRemovesStep ==
    ASSUME TypeOK, PublishingInv, Shrinks, NEW t \in Tasks, CloseRemoves(t)
    PROVE  PublishingInv'
<1>0. tasks[t].pc = "removing" /\ tasks[t].pc \in Exclusive /\ tasks[t] \in Task /\ publishing = t
  BY DEF CloseRemoves, At, Exclusive, TypeOK, PublishingInv
<1>1. PICK s \in Ids : s = tasks[t].session
  BY <1>0 DEF TypeOK, Carries
<1>2. UNCHANGED <<born, connections, ended>> /\ Live' \subseteq Live
  BY ShrinksLive DEF CloseRemoves, connectionVars, recordVars
<1>3. \A u \in Tasks \ {t} : tasks[u].pc \notin Exclusive
  BY <1>0, ExclusiveTask
<1>4. \A i \in Live' : i \in connections'
  BY <1>0, <1>2, <1>3 DEF PublishingInv, At, Exclusive
<1>5. \A i \in DOMAIN sessions : ended[i] = 0 \/ i = s
  BY <1>0, <1>1, <1>3 DEF PublishingInv, At, Exclusive
<1>6. EndedOnce' /\ (\A i \in Ids \ born : ended[i] = 0)'
  BY <1>2 DEF PublishingInv, EndedOnce
<1>7. CASE s \in DOMAIN sessions
  <2>1. sessions' = Without({s}) /\ Goto(t, "unpublishing") /\ UNCHANGED publishing
    BY <1>1, <1>7 DEF CloseRemoves
  <2>2. [tasks[t] EXCEPT !.pc = "unpublishing"].pc = "unpublishing"
        /\ [tasks[t] EXCEPT !.pc = "unpublishing"].session = s
    BY <1>0, <1>1 DEF Task
  <2>3. /\ tasks'[t].pc = "unpublishing" /\ tasks'[t].session = s
        /\ \A u \in Tasks \ {t} : tasks'[u] = tasks[u] /\ tasks[u].pc \notin Exclusive
        /\ \A u \in Tasks : tasks'[u].pc \in Exclusive <=> publishing' = u
    BY <1>0, <2>1, <2>2, CriticalTask DEF Goto, Exclusive
  <2>4. DOMAIN sessions' = DOMAIN sessions \ {s}
    BY <2>1 DEF Without
  <2>5. \A i \in DOMAIN sessions' : ended'[i] = 0
    BY <1>2, <1>5, <2>4
  <2>6. Protected(t)'
    BY <2>3, <2>4 DEF Protected, At
  <2>7. /\ (\A u \in Tasks : tasks[u].pc \in Exclusive <=> publishing = u)'
        /\ (\A u \in Tasks : Protected(u))'
    BY <2>3, <2>6, OnlyProtected
  <2>. QED BY <1>4, <1>6, <2>5, <2>7 DEF PublishingInv, Protected, At
<1>8. CASE s \notin DOMAIN sessions
  <2>1. Rest.pc \notin Exclusive
    BY DEF Rest, Exclusive
  <2>2. Return(t) /\ publishing' = None /\ UNCHANGED sessions
    BY <1>1, <1>8 DEF CloseRemoves
  <2>3. /\ tasks'[t] = Rest
        /\ \A u \in Tasks \ {t} : tasks'[u] = tasks[u] /\ tasks[u].pc \notin Exclusive
        /\ \A u \in Tasks : tasks'[u].pc \in Exclusive <=> publishing' = u
    BY <1>0, <2>1, <2>2, CriticalTask DEF Return
  <2>4. \A i \in DOMAIN sessions' : ended'[i] = 0
    BY <1>2, <1>5, <1>8, <2>2
  <2>5. Protected(t)'
    BY <2>3 DEF Protected, At, Rest
  <2>6. /\ (\A u \in Tasks : tasks[u].pc \in Exclusive <=> publishing = u)'
        /\ (\A u \in Tasks : Protected(u))'
    BY <2>3, <2>5, OnlyProtected
  <2>. QED BY <1>4, <1>6, <2>4, <2>6 DEF PublishingInv, Protected, At
<1>. QED BY <1>7, <1>8

LEMMA TerminateStep ==
    ASSUME TypeOK, PublishingInv, Shrinks, NEW t \in Tasks, NEW s \in Ids, Terminate(t, s)
    PROVE  PublishingInv' /\ ended'[s] = 1
<1>. DEFINE k == [Rest EXCEPT !.pc = "unpublishing", !.session = s, !.next = "sweeping"]
<1>1. k.pc = "unpublishing" /\ k.session = s
  BY DEF Rest
<1>2. /\ tasks'[t] = k
      /\ \A u \in Tasks \ {t} : tasks'[u] = tasks[u] /\ tasks[u].pc \notin Exclusive
      /\ \A u \in Tasks : tasks'[u].pc \in Exclusive <=> publishing' = u
  BY <1>1, CriticalTask DEF Terminate, Exclusive
<1>3. UNCHANGED <<born, connections>> /\ Live' \subseteq Live
  BY ShrinksLive DEF Terminate, connectionVars
<1>4. \A u \in Tasks : tasks[u].pc \notin Exclusive
  BY ExclusiveTask DEF Terminate
<1>5. \A i \in DOMAIN sessions : ended[i] = 0
  BY <1>4 DEF PublishingInv, At, Exclusive
<1>6. s \in DOMAIN sessions /\ ended' = [ended EXCEPT ![s] = @ + 1] /\ sessions' = Without({s})
  BY DEF Terminate
<1>7. ended'[s] = 1 /\ (\A i \in Ids \ {s} : ended'[i] = ended[i]) /\ s \in born
  BY <1>5, <1>6 DEF TypeOK
<1>8. EndedOnce' /\ \A i \in Ids \ born' : ended'[i] = 0
  BY <1>3, <1>7 DEF PublishingInv, EndedOnce
<1>9. DOMAIN sessions' = DOMAIN sessions \ {s} /\ DOMAIN sessions \subseteq Ids
  BY <1>6 DEF Without, TypeOK
<1>10. \A i \in DOMAIN sessions' : ended'[i] = 0
  BY <1>5, <1>7, <1>9
<1>11. \A i \in Live' : i \in connections'
  BY <1>3, <1>4 DEF PublishingInv, At, Exclusive
<1>12. Protected(t)'
  BY <1>1, <1>2, <1>9 DEF Protected, At
<1>13. /\ (\A u \in Tasks : tasks[u].pc \in Exclusive <=> publishing = u)'
       /\ (\A u \in Tasks : Protected(u))'
  BY <1>2, <1>12, OnlyProtected
<1>. QED BY <1>7, <1>8, <1>10, <1>11, <1>13 DEF PublishingInv, Protected, At

(* What a connection left the map with: a session that is over, or was never live. *)
LEMMA UnpublishStep ==
    ASSUME TypeOK, PublishingInv, Shrinks, NEW t \in Tasks, Unpublish(t)
    PROVE  PublishingInv'
<1>. DEFINE k == [tasks[t] EXCEPT !.pc = "hanging up", !.closing = connections \cap {tasks[t].session}]
<1>0. tasks[t].pc = "unpublishing" /\ tasks[t].pc \in Exclusive /\ tasks[t] \in Task
  BY DEF Unpublish, At, Exclusive, TypeOK
<1>1. k.pc = "hanging up" /\ k.pc \notin Exclusive
  BY <1>0 DEF Task, Exclusive
<1>2. /\ tasks'[t] = k
      /\ \A u \in Tasks \ {t} : tasks'[u] = tasks[u] /\ tasks[u].pc \notin Exclusive
      /\ \A u \in Tasks : tasks'[u].pc \in Exclusive <=> publishing' = u
  BY <1>0, <1>1, CriticalTask DEF Unpublish
<1>3. UNCHANGED <<born, ended, sessions>> /\ Live' \subseteq Live
      /\ connections' = connections \ {tasks[t].session}
  BY ShrinksLive DEF Unpublish, recordVars
<1>4. tasks[t].session \notin DOMAIN sessions
  BY <1>0 DEF PublishingInv, At
<1>5. \A i \in Live' : i \in connections /\ i # tasks[t].session
  BY <1>0, <1>2, <1>3, <1>4 DEF PublishingInv, At, Exclusive, Live
<1>6. \A i \in DOMAIN sessions' : ended'[i] = 0
  BY <1>0, <1>2, <1>3 DEF PublishingInv, At, Exclusive
<1>7. Protected(t)'
  BY <1>1, <1>2 DEF Protected, At
<1>8. /\ (\A u \in Tasks : tasks[u].pc \in Exclusive <=> publishing = u)'
      /\ (\A u \in Tasks : Protected(u))'
  BY <1>2, <1>7, OnlyProtected
<1>9. EndedOnce' /\ (\A i \in Ids \ born : ended[i] = 0)'
  BY <1>3 DEF PublishingInv, EndedOnce
<1>. QED BY <1>3, <1>5, <1>6, <1>8, <1>9 DEF PublishingInv, Protected, At

LEMMA ReadLiveStep ==
    ASSUME TypeOK, PublishingInv, Shrinks, NEW t \in Tasks, ReadLive(t)
    PROVE  PublishingInv'
<1>. DEFINE k == [tasks[t] EXCEPT !.pc = "dropping", !.seen = Live]
<1>0. tasks[t] \in Task /\ k.pc = "dropping" /\ k.seen = Live
  BY DEF TypeOK, Task
<1>1. /\ tasks'[t] = k
      /\ \A u \in Tasks \ {t} : tasks'[u] = tasks[u] /\ tasks[u].pc \notin Exclusive
      /\ \A u \in Tasks : tasks'[u].pc \in Exclusive <=> publishing' = u
  BY <1>0, CriticalTask DEF ReadLive, Exclusive
<1>2. UNCHANGED <<born, ended, sessions, connections>> /\ Live' \subseteq Live
  BY ShrinksLive DEF ReadLive, recordVars, connectionVars
<1>3. \A u \in Tasks : tasks[u].pc \notin Exclusive
  BY ExclusiveTask DEF ReadLive
<1>4. (\A i \in Live' : i \in connections') /\ \A i \in DOMAIN sessions' : ended'[i] = 0
  BY <1>2, <1>3 DEF PublishingInv, At, Exclusive
<1>5. Protected(t)'
  BY <1>0, <1>1, <1>2 DEF Protected, At
<1>6. /\ (\A u \in Tasks : tasks[u].pc \in Exclusive <=> publishing = u)'
      /\ (\A u \in Tasks : Protected(u))'
  BY <1>1, <1>5, OnlyProtected
<1>7. EndedOnce' /\ (\A i \in Ids \ born : ended[i] = 0)'
  BY <1>2 DEF PublishingInv, EndedOnce
<1>. QED BY <1>4, <1>6, <1>7 DEF PublishingInv, Protected, At

LEMMA DropOrphansStep ==
    ASSUME TypeOK, PublishingInv, Shrinks, NEW t \in Tasks, DropOrphans(t)
    PROVE  PublishingInv'
<1>. DEFINE k == [Rest EXCEPT !.pc = "hanging up", !.closing = connections \ tasks[t].seen]
<1>0. tasks[t].pc = "dropping" /\ tasks[t].pc \in Exclusive /\ k.pc = "hanging up" /\ k.pc \notin Exclusive
  BY DEF DropOrphans, At, Exclusive, Rest
<1>1. /\ tasks'[t] = k
      /\ \A u \in Tasks \ {t} : tasks'[u] = tasks[u] /\ tasks[u].pc \notin Exclusive
      /\ \A u \in Tasks : tasks'[u].pc \in Exclusive <=> publishing' = u
  BY <1>0, CriticalTask DEF DropOrphans
<1>2. UNCHANGED <<born, ended, sessions>> /\ Live' \subseteq Live
      /\ connections' = connections \cap tasks[t].seen
  BY ShrinksLive DEF DropOrphans, recordVars
<1>3. Live \subseteq tasks[t].seen
  BY <1>0 DEF PublishingInv, At
<1>4. (\A i \in Live : i \in connections) /\ \A i \in DOMAIN sessions' : ended'[i] = 0
  BY <1>0, <1>1, <1>2 DEF PublishingInv, At, Exclusive
<1>5. Protected(t)'
  BY <1>0, <1>1 DEF Protected, At
<1>6. /\ (\A u \in Tasks : tasks[u].pc \in Exclusive <=> publishing = u)'
      /\ (\A u \in Tasks : Protected(u))'
  BY <1>1, <1>5, OnlyProtected
<1>7. EndedOnce' /\ (\A i \in Ids \ born : ended[i] = 0)'
  BY <1>2 DEF PublishingInv, EndedOnce
<1>. QED BY <1>2, <1>3, <1>4, <1>6, <1>7 DEF PublishingInv, Protected, At

LEMMA PublishingStep ==
    ASSUME TypeOK, PublishingInv, [Next]_vars
    PROVE  PublishingInv'
<1>1. CASE Publishes
  BY <1>1, PublishSessionStep DEF Publishes
<1>2. CASE ~Publishes
  <2>1. Shrinks
    BY <1>2, StepShrinks
  <2>2. CASE Calm
    BY <2>1, <2>2, CalmPublishing
  <2>3. CASE Critical
    BY <1>2, <2>1, <2>3, PublishConnectionStep, CloseRecordsStep, UnpublishStep, ReadLiveStep,
       DropOrphansStep, CloseClaimsStep, CloseRemovesStep, TerminateStep
       DEF Critical, Ends, Tasks
  <2>. QED BY <2>2, <2>3, StepsCalm
<1>. QED BY <1>1, <1>2

(* Publication, ends and reconciliation exclude each other, and what a task does under
   `publishing` agrees with the two maps and the record (PublishingInv). *)
THEOREM PublishingInvariant == Spec => []PublishingInv
<1>1. Init => PublishingInv
  BY SessionsAssumption DEF Init, PublishingInv, Live, At, Rest, Exclusive, EndedOnce
<1>2. TypeOK /\ PublishingInv /\ [Next]_vars => PublishingInv'
  BY PublishingStep
<1>. QED BY <1>1, <1>2, SessionsTypeInvariant, PTL DEF Spec

(* No reconciliation of the two maps takes the connection of a session that can still
   be used, and no session is published without its own (LiveSessionConnected). *)
THEOREM LiveSessionsAreConnected == Spec => []LiveSessionConnected
<1>1. TypeOK /\ PublishingInv => LiveSessionConnected
  BY SessionsAssumption DEF PublishingInv, LiveSessionConnected, At, Exclusive
<1>. QED BY <1>1, PublishingInvariant, SessionsTypeInvariant, PTL

(* The record names the end of a session once (EndedOnce). *)
THEOREM SessionsEndOnce == Spec => []EndedOnce
<1>1. PublishingInv => EndedOnce
  BY DEF PublishingInv
<1>. QED BY <1>1, PublishingInvariant, PTL

(* A session that can still be used is only ever taken out of the store by an end that
   the record holds (LiveSessionEndsOnRecord). *)
THEOREM LiveSessionsEndOnRecord == Spec => LiveSessionEndsOnRecord
<1>1. ASSUME TypeOK, PublishingInv, [Next]_vars, NEW s \in Live, s \notin DOMAIN sessions'
      PROVE  ended'[s] = 1
  <2>1. ~Keeps /\ ~Publishes
    BY <1>1 DEF Keeps, Without, Used, Publishes, PublishSession, Live
  <2>2. Shrinks
    BY <1>1, <2>1, StepShrinks
  <2>3. ASSUME NEW t \in Tasks, CloseRemoves(t) PROVE ended'[s] = 1
    <3>1. s = tasks[t].session
      BY <1>1, <2>3 DEF CloseRemoves, Without, Live
    <3>. QED BY <1>1, <2>3, <3>1 DEF CloseRemoves, PublishingInv, recordVars
  <2>4. ASSUME NEW t \in Callers, NEW i \in Ids, Terminate(t, i) PROVE ended'[s] = 1
    <3>1. s = i
      BY <1>1, <2>4 DEF Terminate, Without, Live
    <3>. QED BY <1>1, <2>2, <2>4, <3>1, TerminateStep DEF Tasks
  <2>. QED BY <1>1, <2>1, <2>3, <2>4, SessionsChange DEF Ends
<1>2. TypeOK /\ PublishingInv /\ [Next]_vars
      => [\A s \in Live : s \notin DOMAIN sessions' => ended'[s] = 1]_vars
  BY <1>1
<1>. QED BY <1>2, PublishingInvariant, SessionsTypeInvariant, PTL DEF Spec, LiveSessionEndsOnRecord

-----------------------------------------------------------------------------
(* Connections that are still open *)

(* Only a task that is hanging up has connections to hang up. *)
ClosingInv == \A t \in Tasks : tasks[t].closing # {} => At(t, "hanging up")

Reachable == ClosingInv /\ OpenConnectionReachable

(* Steps that neither open, close nor hand over a connection. *)
SameClosing ==
    \A t \in Tasks : tasks'[t] = tasks[t] \/ (tasks[t].closing = {} /\ tasks'[t].closing = {})

LEMMA BecomeSameClosing ==
    ASSUME TypeOK, NEW t \in Tasks, NEW k, Become(t, k), tasks[t].closing = {}, k.closing = {}
    PROVE  SameClosing
BY DEF SameClosing, Become, TypeOK

LEMMA SameReachable ==
    ASSUME Reachable, SameClosing,
           \A s \in Ids : holder'[s] = "open" => holder[s] = "open" \/ s \in connections',
           connections \subseteq connections'
    PROVE  Reachable'
BY DEF Reachable, ClosingInv, SameClosing, OpenConnectionReachable, At

LEMMA NoClosing ==
    ASSUME TypeOK, ClosingInv, NEW t \in Tasks, ~At(t, "hanging up"), NEW pc, NEW s, NEW q
    PROVE  /\ tasks[t].closing = {}
           /\ [tasks[t] EXCEPT !.pc = pc].closing = {}
           /\ [tasks[t] EXCEPT !.pc = pc, !.session = s].closing = {}
           /\ [tasks[t] EXCEPT !.pc = pc, !.seen = q].closing = {}
           /\ Rest.closing = {}
           /\ [Rest EXCEPT !.pc = pc].closing = {}
BY DEF ClosingInv, TypeOK, Task, Rest

LEMMA OpenReachable ==
    ASSUME TypeOK, Reachable, NEW t \in Tasks, OpenStep(t)
    PROVE  Reachable'
<1>1. ~At(t, "hanging up") /\ ClosingInv
  BY DEF OpenStep, OpenFails, PublishSession, PublishConnection, RecordOpened, At, Reachable
<1>2. PICK k : k.closing = {} /\ Become(t, k)
  BY <1>1, NoClosing
     DEF OpenStep, OpenFails, PublishSession, PublishConnection, RecordOpened, Goto, Return
<1>3. SameClosing
  BY <1>1, <1>2, NoClosing, BecomeSameClosing
<1>4. connections \subseteq connections'
      /\ \A s \in Ids : holder'[s] = "open" => holder[s] = "open" \/ s \in connections'
  BY DEF OpenStep, OpenFails, PublishSession, PublishConnection, RecordOpened, connectionVars, TypeOK
<1>. QED BY <1>3, <1>4, SameReachable

(* What leaves the map is in the hands of the task that took it out. *)
LEMMA HandedOver ==
    ASSUME TypeOK, Reachable, NEW t \in Tasks, ~At(t, "hanging up"), NEW k, Become(t, k),
           k.pc = "hanging up", connections \subseteq connections' \cup k.closing, UNCHANGED holder
    PROVE  Reachable'
<1>1. tasks'[t] = k /\ \A u \in Tasks \ {t} : tasks'[u] = tasks[u]
  BY DEF Become, TypeOK
<1>2. tasks[t].closing = {}
  BY DEF Reachable, ClosingInv
<1>3. ClosingInv'
  BY <1>1 DEF Reachable, ClosingInv, At
<1>4. ASSUME NEW s \in Ids, holder'[s] = "open"
      PROVE  s \in connections' \/ \E u \in Tasks : s \in tasks'[u].closing
  BY <1>1, <1>2, <1>4 DEF Reachable, OpenConnectionReachable
<1>. QED BY <1>3, <1>4 DEF Reachable, OpenConnectionReachable

LEMMA EndReachable ==
    ASSUME TypeOK, Reachable, NEW t \in Tasks, EndStep(t)
    PROVE  Reachable'
<1>0. tasks[t] \in Task
  BY DEF TypeOK
<1>1. CASE CloseRecords(t) \/ CloseRemoves(t)
  <2>1. ~At(t, "hanging up") /\ UNCHANGED <<connections, holder>> /\ ClosingInv
    BY <1>1 DEF CloseRecords, CloseRemoves, At, connectionVars, Reachable
  <2>2. PICK k : k.closing = {} /\ Become(t, k)
    BY <1>1, <2>1, NoClosing DEF CloseRecords, CloseRemoves, Goto, Return
  <2>. QED BY <2>1, <2>2, NoClosing, BecomeSameClosing, SameReachable
<1>2. CASE Unpublish(t)
  <2>. DEFINE k == [tasks[t] EXCEPT !.pc = "hanging up",
                                    !.closing = connections \cap {tasks[t].session}]
  <2>1. k.pc = "hanging up" /\ k.closing = connections \cap {tasks[t].session}
    BY <1>0 DEF Task
  <2>2. ~At(t, "hanging up") /\ Become(t, k) /\ UNCHANGED holder
        /\ connections' = connections \ {tasks[t].session}
    BY <1>2 DEF Unpublish, At
  <2>3. connections \subseteq connections' \cup k.closing
    BY <2>1, <2>2
  <2>. QED BY <2>1, <2>2, <2>3, HandedOver
<1>3. CASE HangUp(t)
  <2>1. PICK s \in tasks[t].closing : /\ holder' = [holder EXCEPT ![s] = "gone"]
                                      /\ Become(t, [tasks[t] EXCEPT !.closing = @ \ {s}])
    BY <1>3 DEF HangUp
  <2>2. /\ tasks'[t].closing = tasks[t].closing \ {s} /\ tasks'[t].pc = tasks[t].pc
        /\ \A u \in Tasks \ {t} : tasks'[u] = tasks[u]
    BY <1>0, <2>1 DEF Become, TypeOK, Task
  <2>3. ClosingInv'
    BY <1>3, <2>2 DEF Reachable, ClosingInv, At, HangUp
  <2>4. s \in Ids /\ holder'[s] # "open" /\ \A i \in Ids \ {s} : holder'[i] = holder[i]
    BY <1>0, <2>1 DEF TypeOK, Task
  <2>5. connections' = connections
    BY <1>3 DEF HangUp
  <2>6. ASSUME NEW i \in Ids, holder'[i] = "open"
        PROVE  i \in connections' \/ \E u \in Tasks : i \in tasks'[u].closing
    BY <2>2, <2>4, <2>5, <2>6 DEF Reachable, OpenConnectionReachable
  <2>. QED BY <2>3, <2>6 DEF Reachable, OpenConnectionReachable
<1>4. CASE HungUp(t)
  <2>1. tasks[t].closing = {} /\ [Rest EXCEPT !.pc = tasks[t].next].closing = {}
        /\ UNCHANGED <<connections, holder>>
    BY <1>4 DEF HungUp, Rest, connectionVars
  <2>2. SameClosing
    BY <1>4, <2>1, BecomeSameClosing DEF HungUp
  <2>. QED BY <2>1, <2>2, SameReachable
<1>. QED BY <1>1, <1>2, <1>3, <1>4 DEF EndStep

LEMMA ReclaimReachable ==
    ASSUME TypeOK, Reachable, NEW t \in Tasks, ReclaimStep(t)
    PROVE  Reachable'
<1>1. CASE SweepPutOff(t) \/ Sweep(t) \/ ReadLive(t)
  <2>1. ~At(t, "hanging up") /\ UNCHANGED <<connections, holder>> /\ ClosingInv
    BY <1>1 DEF SweepPutOff, Sweep, ReadLive, At, connectionVars, Reachable
  <2>2. PICK k : k.closing = {} /\ Become(t, k)
    BY <1>1, <2>1, NoClosing DEF SweepPutOff, Sweep, ReadLive, Goto, Return
  <2>. QED BY <2>1, <2>2, NoClosing, BecomeSameClosing, SameReachable
<1>2. CASE DropOrphans(t)
  <2>. DEFINE k == [Rest EXCEPT !.pc = "hanging up", !.closing = connections \ tasks[t].seen]
  <2>1. k.pc = "hanging up" /\ k.closing = connections \ tasks[t].seen
    BY DEF Rest
  <2>2. ~At(t, "hanging up") /\ Become(t, k) /\ UNCHANGED holder
        /\ connections' = connections \cap tasks[t].seen
    BY <1>2 DEF DropOrphans, At
  <2>. QED BY <2>1, <2>2, HandedOver
<1>. QED BY <1>1, <1>2 DEF ReclaimStep

(* A replacement is installed only in a holder that is still in the map. *)
LEMMA CommandReachable ==
    ASSUME TypeOK, Reachable, NEW t \in Tasks, CommandStep(t)
    PROVE  Reachable'
<1>1. ~At(t, "hanging up") /\ UNCHANGED connections /\ ClosingInv
  BY DEF CommandStep, FindHolder, LockHolder, CheckHolder, Redial, RecheckHolder, CommandGivesUp,
         At, connectionVars, Reachable
<1>2. PICK k : k.closing = {} /\ Become(t, k)
  BY <1>1, NoClosing
     DEF CommandStep, FindHolder, LockHolder, CheckHolder, Redial, RecheckHolder, CommandGivesUp,
         Goto, Return
<1>3. SameClosing
  BY <1>1, <1>2, NoClosing, BecomeSameClosing
<1>4. \A s \in Ids : holder'[s] = "open" => holder[s] = "open" \/ s \in connections'
  <2>1. CASE RecheckHolder(t)
    BY <1>1, <2>1 DEF RecheckHolder, StillTheLiveSessionConnection, TypeOK
  <2>2. CASE UNCHANGED holder
    BY <2>2
  <2>. QED BY <2>1, <2>2 DEF CommandStep, FindHolder, LockHolder, CheckHolder, Redial,
                             CommandGivesUp, connectionVars
<1>. QED BY <1>1, <1>3, <1>4, SameReachable

LEMMA ReachableStep ==
    ASSUME TypeOK, Reachable, [Next]_vars
    PROVE  Reachable'
<1>1. ASSUME NEW t \in Tasks, NEW k, Become(t, k), tasks[t] = Rest, k.closing = {},
             UNCHANGED <<connections, holder>>
      PROVE  Reachable'
  <2>1. tasks[t].closing = {}
    BY <1>1 DEF Rest
  <2>2. SameClosing
    BY <1>1, <2>1, BecomeSameClosing
  <2>. QED BY <1>1, <2>2, SameReachable
<1>2. ASSUME UNCHANGED <<connections, tasks>>,
             \A s \in Ids : holder'[s] = "open" => holder[s] = "open"
      PROVE  Reachable'
  BY <1>2, SameReachable DEF SameClosing
<1>3. ASSUME NEW t \in Tasks, Step(t) PROVE Reachable'
  BY <1>3, OpenReachable, EndReachable, ReclaimReachable, CommandReachable DEF Step
<1>4. ASSUME NEW t \in Callers, NEW p \in Principals, Reserve(t, p) PROVE Reachable'
  <2>1. /\ t \in Tasks /\ tasks[t] = Rest /\ UNCHANGED <<connections, holder>>
        /\ [Rest EXCEPT !.pc = "dialling", !.principal = p].closing = {}
    BY <1>4 DEF Reserve, Tasks, connectionVars, Rest
  <2>. QED BY <1>1, <1>4, <2>1 DEF Reserve
<1>5. ASSUME NEW t \in Callers, NEW s \in Ids, NEW p \in Principals, CloseClaims(t, s, p)
      PROVE  Reachable'
  <2>1. /\ t \in Tasks /\ tasks[t] = Rest /\ UNCHANGED <<connections, holder>>
        /\ [Rest EXCEPT !.pc = "closing", !.session = s, !.principal = p, !.next = "sweeping"].closing = {}
    BY <1>5 DEF CloseClaims, Tasks, connectionVars, Rest
  <2>. QED BY <1>1, <1>5, <2>1 DEF CloseClaims
<1>6. ASSUME NEW t \in Callers, NEW s \in Ids, NEW p \in Principals, Command(t, s, p)
      PROVE  Reachable'
  <2>1. /\ t \in Tasks /\ tasks[t] = Rest /\ UNCHANGED <<connections, holder>>
        /\ [Rest EXCEPT !.pc = "finding", !.session = s, !.principal = p].closing = {}
    BY <1>6 DEF Command, Tasks, connectionVars, Rest
  <2>. QED BY <1>1, <1>2, <1>6, <2>1 DEF Command
<1>7. ASSUME NEW t \in Callers, NEW s \in Ids, Terminate(t, s) PROVE Reachable'
  <2>1. /\ t \in Tasks /\ tasks[t] = Rest /\ UNCHANGED <<connections, holder>>
        /\ [Rest EXCEPT !.pc = "unpublishing", !.session = s, !.next = "sweeping"].closing = {}
    BY <1>7 DEF Terminate, Tasks, connectionVars, Rest
  <2>. QED BY <1>1, <1>7, <2>1 DEF Terminate
<1>8. CASE Housekeep
  <2>1. /\ Housekeeper \in Tasks /\ UNCHANGED <<connections, holder>>
        /\ [Rest EXCEPT !.pc = "sweeping"].closing = {}
    BY <1>8 DEF Housekeep, Tasks, connectionVars, Rest
  <2>. QED BY <1>1, <1>8, <2>1 DEF Housekeep
<1>9. ASSUME NEW s \in Ids, TransportLost(s) PROVE Reachable'
  <2>1. \A i \in Ids : holder'[i] = "open" => holder[i] = "open"
    BY <1>9 DEF TransportLost, TypeOK
  <2>. QED BY <1>2, <1>9, <2>1 DEF TransportLost
<1>10. CASE (\E p \in Principals : TooManySessions(p)) \/ Stop \/ Tick \/ UNCHANGED vars
  BY <1>2, <1>10 DEF TooManySessions, Stop, Tick, vars, connectionVars
<1>. QED BY <1>3, <1>4, <1>5, <1>6, <1>7, <1>8, <1>9, <1>10 DEF Next

(* An open connection can always be reached by a cleanup, also one that replaces a
   lost one while its session ends (OpenConnectionReachable). *)
THEOREM OpenConnectionsAreReachable == Spec => []OpenConnectionReachable
<1>1. Init => Reachable
  <2>. SUFFICES ASSUME Init PROVE Reachable
    OBVIOUS
  <2>1. \A t \in Tasks : tasks[t].closing = {}
    BY DEF Init, Rest
  <2>2. \A s \in Ids : holder[s] # "open"
    BY DEF Init
  <2>. QED BY <2>1, <2>2 DEF Reachable, ClosingInv, OpenConnectionReachable
<1>2. TypeOK /\ Reachable /\ [Next]_vars => Reachable'
  BY ReachableStep
<1>3. Reachable => OpenConnectionReachable
  BY DEF Reachable
<1>. QED BY <1>1, <1>2, <1>3, SessionsTypeInvariant, PTL DEF Spec
=============================================================================
