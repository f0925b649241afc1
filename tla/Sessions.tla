------------------------------ MODULE Sessions ------------------------------
(***************************************************************************)
(* The session store (ssh-core/session.rs) and the mediator that keeps one *)
(* SSH connection beside each session (ssh-core/mediate.rs: open_session,  *)
(* close_owned, terminate_owned, connection_for, close_orphaned).          *)
(*                                                                         *)
(* Tasks are the callers' futures and the housekeeping loop.  The mutexes  *)
(* of the session map and of the connection map are held for one step and  *)
(* are the atomicity of an action.  `publishing` and the mutex inside each *)
(* SessionConnection are held across steps and are variables.  A holder is *)
(* named by its session: ids are never reissued and a holder is inserted   *)
(* once, so being in the map is being the map's current holder.            *)
(***************************************************************************)
EXTENDS Naturals, FiniteSets

CONSTANTS
    Ids,            \* session identifiers
    Principals,
    Callers,        \* calls in flight at once
    Housekeeper,    \* the loop that reclaims
    None,           \* "no such value"
    Idle,           \* Lifetime::idle
    Max,            \* Lifetime::max
    Grace,          \* Lifetime::grace
    PerPrincipal,   \* SessionStore::per_principal
    MaxNow          \* bound on the clock

Tasks == Callers \cup {Housekeeper}

ASSUME SessionsAssumption ==
    /\ {Idle, Max, Grace, PerPrincipal, MaxNow} \subseteq Nat
    /\ Housekeeper \notin Callers
    /\ None \notin Ids \cup Principals \cup Tasks
    /\ IsFiniteSet(Ids)
    /\ IsFiniteSet(Tasks)

VARIABLES
    now,         \* the shared Clock
    sessions,    \* SessionStore::sessions, a map from identifier to Session
    born,        \* every identifier given out so far
    pending,     \* SessionStore::pending, opens in flight of each principal
    connections, \* keys of Bastion::connections
    holder,      \* what each session's holder has in it
    holding,     \* the task that has the mutex of each holder, or None
    publishing,  \* the task that has Bastion::publishing, or None
    stopping,    \* Bastion::stopping
    tasks,       \* what each task has read and still has to do
    opened,      \* SessionOpened entries in the audit record
    ended        \* how many SessionClosed and SessionTerminated entries name each session

connectionVars == <<connections, holder, holding>>
recordVars == <<opened, ended>>
vars == <<now, sessions, born, pending, connectionVars, publishing, stopping, tasks, recordVars>>

Phases == {"idle", "dialling", "publishing", "recording",
           "closing", "removing", "unpublishing", "hanging up",
           "sweeping", "reading", "dropping",
           "finding", "waiting", "checking", "redialling", "rechecking"}

Session == [principal : Principals, openedAt : Nat, lastUsed : Nat]

(* `next` is what a task does after its last connection is hung up. *)
Task == [pc : Phases, session : Ids \cup {None}, principal : Principals \cup {None},
         seen : SUBSET Ids, closing : SUBSET Ids, next : {"sweeping", "idle"}]

Rest == [pc |-> "idle", session |-> None, principal |-> None,
         seen |-> {}, closing |-> {}, next |-> "idle"]

-----------------------------------------------------------------------------
(* Helpers *)

Expired(session) ==
    \/ now >= session.openedAt + Max
    \/ now >= session.lastUsed + Idle

LapsedAt(session) ==
    IF session.openedAt + Max <= session.lastUsed + Idle
    THEN session.openedAt + Max
    ELSE session.lastUsed + Idle

Forgettable(session) == Expired(session) /\ now >= LapsedAt(session) + Grace

Without(ids) == [s \in DOMAIN sessions \ ids |-> sessions[s]]
Forgotten == {s \in DOMAIN sessions : Forgettable(sessions[s])}

(* SessionStore::live and SessionStore::holds. *)
Live == {s \in DOMAIN sessions : ~Expired(sessions[s])}

HeldBy(p) == {s \in DOMAIN sessions : sessions[s].principal = p}

(* What reserve may give up for a new session: the principal's lapsed one that
   lapsed first.  Mutant: the one that would lapse first, lapsed or not. *)
Stale_Oldest(p) ==
    LET held == HeldBy(p) \ Forgotten
    IN {s \in held : \A o \in held : LapsedAt(sessions[s]) <= LapsedAt(sessions[o])}
Stale(p) ==
    LET lapsed == {s \in HeldBy(p) \ Forgotten : Expired(sessions[s])}
    IN {s \in lapsed : \A o \in lapsed : LapsedAt(sessions[s]) <= LapsedAt(sessions[o])}

(* use_session: a live session of the principal is used; a lapsed one is refused,
   and let go of once its grace is over. *)
Usable(s, p) == s \in Live /\ sessions[s].principal = p
Used(s) == sessions' = [sessions EXCEPT ![s].lastUsed = now]
Refused(s, p) ==
    sessions' = IF s \in Forgotten /\ sessions[s].principal = p THEN Without({s}) ELSE sessions

Become(t, fields) == tasks' = [tasks EXCEPT ![t] = fields]
At(t, pc) == tasks[t].pc = pc
Goto(t, pc) == Become(t, [tasks[t] EXCEPT !.pc = pc])
Return(t) == Become(t, Rest)

-----------------------------------------------------------------------------
(* open_session *)

(* reserve: forgets, then counts what the principal holds and is opening, then
   gives up a lapsed session rather than refuse. *)
Full(p) == Cardinality(HeldBy(p) \ Forgotten) + pending[p] >= PerPrincipal

Reserve(t, p) ==
    /\ tasks[t] = Rest
    /\ \/ /\ ~Full(p)
          /\ sessions' = Without(Forgotten)
       \/ /\ Full(p)
          /\ \E s \in Stale(p) : sessions' = Without(Forgotten \cup {s})
    /\ pending' = [pending EXCEPT ![p] = @ + 1]
    /\ Become(t, [Rest EXCEPT !.pc = "dialling", !.principal = p])
    /\ UNCHANGED <<now, born, connectionVars, publishing, stopping, recordVars>>

TooManySessions(p) ==
    /\ Full(p)
    /\ Stale(p) = {}
    /\ sessions' = Without(Forgotten)
    /\ UNCHANGED <<now, born, pending, connectionVars, publishing, stopping, tasks, recordVars>>

(* The dial fails, no worker is free to publish, or the caller stops waiting:
   dropping the Opening gives the slot back.  Mutant: it does not. *)
OpenFails_KeepsSlot(t) ==
    /\ At(t, "dialling")
    /\ Return(t)
    /\ UNCHANGED <<now, sessions, born, pending, connectionVars, publishing, stopping, recordVars>>

OpenFails(t) ==
    /\ At(t, "dialling")
    /\ pending' = [pending EXCEPT ![tasks[t].principal] = @ - 1]
    /\ Return(t)
    /\ UNCHANGED <<now, sessions, born, connectionVars, publishing, stopping, recordVars>>

(* Opening::open, under `publishing`: the slot becomes a session ... *)
PublishSession(t, s) ==
    /\ At(t, "dialling")
    /\ publishing = None
    /\ publishing' = t
    /\ s \notin born
    /\ born' = born \cup {s}
    /\ sessions' = [i \in DOMAIN sessions \cup {s} |->
                       IF i = s THEN [principal |-> tasks[t].principal, openedAt |-> now, lastUsed |-> now]
                       ELSE sessions[i]]
    /\ pending' = [pending EXCEPT ![tasks[t].principal] = @ - 1]
    /\ Become(t, [tasks[t] EXCEPT !.pc = "publishing", !.session = s])
    /\ UNCHANGED <<now, connectionVars, stopping, recordVars>>

(* ... and its connection is published with it. *)
PublishConnection(t) ==
    /\ At(t, "publishing")
    /\ connections' = connections \cup {tasks[t].session}
    /\ holder' = [holder EXCEPT ![tasks[t].session] = "open"]
    /\ publishing' = None
    /\ Goto(t, "recording")
    /\ UNCHANGED <<now, sessions, born, pending, holding, stopping, recordVars>>

(* record_session_opened: a refused entry, or a caller that has gone, ends the
   call here; otherwise it goes on to reclaim. *)
RecordOpened(t) ==
    /\ At(t, "recording")
    /\ \/ /\ opened' = opened \cup {tasks[t].session}
          /\ Return(t) \/ Become(t, [Rest EXCEPT !.pc = "sweeping"])
       \/ /\ Return(t)
          /\ UNCHANGED opened
    /\ UNCHANGED <<now, sessions, born, pending, connectionVars, publishing, stopping, ended>>

-----------------------------------------------------------------------------
(* close_owned and terminate_owned *)

(* The owner closes: claiming, recording and removing are under `publishing`.
   Mutant: the claim is made before it. *)
CloseClaims_Unlocked(t, s, p) ==
    /\ tasks[t] = Rest
    /\ Usable(s, p)
    /\ Used(s)
    /\ publishing' = t
    /\ Become(t, [Rest EXCEPT !.pc = "closing", !.session = s, !.principal = p, !.next = "sweeping"])
    /\ UNCHANGED <<now, born, pending, connectionVars, stopping, recordVars>>

CloseClaims(t, s, p) ==
    /\ tasks[t] = Rest
    /\ publishing = None
    /\ Usable(s, p)
    /\ Used(s)
    /\ publishing' = t
    /\ Become(t, [Rest EXCEPT !.pc = "closing", !.session = s, !.principal = p, !.next = "sweeping"])
    /\ UNCHANGED <<now, born, pending, connectionVars, stopping, recordVars>>

(* record_session_closed, which may be refused. *)
CloseRecords(t) ==
    /\ At(t, "closing")
    /\ \/ /\ ended' = [ended EXCEPT ![tasks[t].session] = @ + 1]
          /\ Goto(t, "removing")
          /\ UNCHANGED publishing
       \/ /\ Return(t)
          /\ publishing' = None
          /\ UNCHANGED ended
    /\ UNCHANGED <<now, sessions, born, pending, connectionVars, stopping, opened>>

(* sessions.close: the session may have lapsed and been given up meanwhile. *)
CloseRemoves(t) ==
    /\ At(t, "removing")
    /\ \/ /\ tasks[t].session \in DOMAIN sessions
          /\ sessions' = Without({tasks[t].session})
          /\ Goto(t, "unpublishing")
          /\ UNCHANGED publishing
       \/ /\ tasks[t].session \notin DOMAIN sessions
          /\ Return(t)
          /\ publishing' = None
          /\ UNCHANGED sessions
    /\ UNCHANGED <<now, born, pending, connectionVars, stopping, recordVars>>

(* An operator terminates: remove_recorded records and removes under the lock of
   the sessions, so a refused entry leaves everything as it was. *)
Terminate(t, s) ==
    /\ tasks[t] = Rest
    /\ publishing = None
    /\ s \in DOMAIN sessions
    /\ ended' = [ended EXCEPT ![s] = @ + 1]
    /\ sessions' = Without({s})
    /\ publishing' = t
    /\ Become(t, [Rest EXCEPT !.pc = "unpublishing", !.session = s, !.next = "sweeping"])
    /\ UNCHANGED <<now, born, pending, connectionVars, stopping, opened>>

(* The connection leaves the map, and `publishing` is released. *)
Unpublish(t) ==
    /\ At(t, "unpublishing")
    /\ connections' = connections \ {tasks[t].session}
    /\ Become(t, [tasks[t] EXCEPT !.pc = "hanging up",
                                  !.closing = connections \cap {tasks[t].session}])
    /\ publishing' = None
    /\ UNCHANGED <<now, sessions, born, pending, holder, holding, stopping, recordVars>>

(* connection.lock().await.close().await, one connection at a time.
   Mutant: a holder in use is passed over. *)
HangUp_SkipsBusy(t) ==
    /\ At(t, "hanging up")
    /\ \E s \in tasks[t].closing :
        /\ holder' = IF holding[s] = None THEN [holder EXCEPT ![s] = "gone"] ELSE holder
        /\ Become(t, [tasks[t] EXCEPT !.closing = @ \ {s}])
    /\ UNCHANGED <<now, sessions, born, pending, connections, holding, publishing, stopping, recordVars>>

HangUp(t) ==
    /\ At(t, "hanging up")
    /\ \E s \in tasks[t].closing :
        /\ holding[s] = None
        /\ holder' = [holder EXCEPT ![s] = "gone"]
        /\ Become(t, [tasks[t] EXCEPT !.closing = @ \ {s}])
    /\ UNCHANGED <<now, sessions, born, pending, connections, holding, publishing, stopping, recordVars>>

HungUp(t) ==
    /\ At(t, "hanging up")
    /\ tasks[t].closing = {}
    /\ Become(t, [Rest EXCEPT !.pc = tasks[t].next])
    /\ UNCHANGED <<now, sessions, born, pending, connectionVars, publishing, stopping, recordVars>>

-----------------------------------------------------------------------------
(* reclaim: orphaned_connections and close_orphaned *)

(* The loop of the server comes round. *)
Housekeep ==
    /\ tasks[Housekeeper] = Rest
    /\ Become(Housekeeper, [Rest EXCEPT !.pc = "sweeping"])
    /\ UNCHANGED <<now, sessions, born, pending, connectionVars, publishing, stopping, recordVars>>

(* No worker is free: this round disconnects nothing. *)
SweepPutOff(t) ==
    /\ At(t, "sweeping")
    /\ Return(t)
    /\ UNCHANGED <<now, sessions, born, pending, connectionVars, publishing, stopping, recordVars>>

Sweep(t) ==
    /\ At(t, "sweeping")
    /\ sessions' = Without(Forgotten)
    /\ Goto(t, "reading")
    /\ UNCHANGED <<now, born, pending, connectionVars, publishing, stopping, recordVars>>

(* Mutant: the sessions are read before publication is held off. *)
ReadLive_Unlocked(t) ==
    /\ At(t, "reading")
    /\ Become(t, [tasks[t] EXCEPT !.pc = "dropping", !.seen = Live])
    /\ UNCHANGED <<now, sessions, born, pending, connectionVars, publishing, stopping, recordVars>>

ReadLive(t) ==
    /\ At(t, "reading")
    /\ publishing = None
    /\ publishing' = t
    /\ Become(t, [tasks[t] EXCEPT !.pc = "dropping", !.seen = Live])
    /\ UNCHANGED <<now, sessions, born, pending, connectionVars, stopping, recordVars>>

(* Mutant: the orphans are let go of and not hung up. *)
DropOrphans_Drops(t) ==
    /\ At(t, "dropping")
    /\ connections' = connections \cap tasks[t].seen
    /\ Return(t)
    /\ publishing' = None
    /\ UNCHANGED <<now, sessions, born, pending, holder, holding, stopping, recordVars>>

DropOrphans(t) ==
    /\ At(t, "dropping")
    /\ connections' = connections \cap tasks[t].seen
    /\ Become(t, [Rest EXCEPT !.pc = "hanging up", !.closing = connections \ tasks[t].seen])
    /\ publishing' = None
    /\ UNCHANGED <<now, sessions, born, pending, holder, holding, stopping, recordVars>>

-----------------------------------------------------------------------------
(* A command's way to its connection: exec's use_session, then connection_for *)

Command(t, s, p) ==
    /\ tasks[t] = Rest
    /\ \/ /\ Usable(s, p)
          /\ ~stopping
          /\ Used(s)
          /\ Become(t, [Rest EXCEPT !.pc = "finding", !.session = s, !.principal = p])
       \/ /\ s \in Forgotten
          /\ Refused(s, p)
          /\ UNCHANGED tasks
    /\ UNCHANGED <<now, born, pending, connectionVars, publishing, stopping, recordVars>>

(* The holder in the map, if there still is one. *)
FindHolder(t) ==
    /\ At(t, "finding")
    /\ IF tasks[t].session \in connections THEN Goto(t, "waiting") ELSE Return(t)
    /\ UNCHANGED <<now, sessions, born, pending, connectionVars, publishing, stopping, recordVars>>

LockHolder(t) ==
    /\ At(t, "waiting")
    /\ holding[tasks[t].session] = None
    /\ holding' = [holding EXCEPT ![tasks[t].session] = t]
    /\ Goto(t, "checking")
    /\ UNCHANGED <<now, sessions, born, pending, connections, holder, publishing, stopping, recordVars>>

Unlocked(t) == holding' = [holding EXCEPT ![tasks[t].session] = None]

(* still_the_live_session_connection. *)
StillTheLiveSessionConnection(t) ==
    Usable(tasks[t].session, tasks[t].principal) /\ tasks[t].session \in connections

Asked(t) ==
    LET s == tasks[t].session
    IN IF Usable(s, tasks[t].principal) THEN Used(s) ELSE Refused(s, tasks[t].principal)

(* With the mutex: a connection that is still open is handed to the command, and
   one that is gone is dialled again unless the service is stopping. *)
CheckHolder(t) ==
    LET s == tasks[t].session
    IN /\ At(t, "checking")
       /\ Asked(t)
       /\ IF StillTheLiveSessionConnection(t) /\ holder[s] # "open" /\ ~stopping
          THEN /\ Goto(t, "redialling")
               /\ UNCHANGED holding
          ELSE /\ Return(t)
               /\ Unlocked(t)
       /\ UNCHANGED <<now, born, pending, connections, holder, publishing, stopping, recordVars>>

(* From here to the second look the task has a fresh connection that nothing else knows. *)
Redial(t) ==
    /\ At(t, "redialling")
    /\ Goto(t, "rechecking")
    /\ UNCHANGED <<now, sessions, born, pending, connectionVars, publishing, stopping, recordVars>>

(* The replacement is installed only if the session is still what it was dialled
   for; it is closed otherwise. *)
RecheckHolder(t) ==
    LET s == tasks[t].session
    IN /\ At(t, "rechecking")
       /\ Asked(t)
       /\ holder' = IF StillTheLiveSessionConnection(t) THEN [holder EXCEPT ![s] = "open"] ELSE holder
       /\ Return(t)
       /\ Unlocked(t)
       /\ UNCHANGED <<now, born, pending, connections, publishing, stopping, recordVars>>

(* The dial fails, no worker is free to ask, or the caller stops waiting.  A connection
   that is not installed yet is closed with the answer, or dropped with its caller. *)
CommandGivesUp(t) ==
    /\ tasks[t].pc \in {"finding", "waiting", "checking", "redialling", "rechecking"}
    /\ Return(t)
    /\ IF tasks[t].pc \in {"finding", "waiting"} THEN UNCHANGED holding ELSE Unlocked(t)
    /\ UNCHANGED <<now, sessions, born, pending, connections, holder, publishing, stopping, recordVars>>

-----------------------------------------------------------------------------
(* Around them *)

(* The target restarts, the network drops the transport, or keepalives fail. *)
TransportLost(s) ==
    /\ holder[s] = "open"
    /\ holder' = [holder EXCEPT ![s] = "gone"]
    /\ UNCHANGED <<now, sessions, born, pending, connections, holding, publishing, stopping, tasks, recordVars>>

Stop ==
    /\ ~stopping
    /\ stopping' = TRUE
    /\ UNCHANGED <<now, sessions, born, pending, connectionVars, publishing, tasks, recordVars>>

Tick ==
    /\ now < MaxNow
    /\ now' = now + 1
    /\ UNCHANGED <<sessions, born, pending, connectionVars, publishing, stopping, tasks, recordVars>>

Init ==
    /\ now = 0
    /\ sessions = [s \in {} |-> None]
    /\ born = {}
    /\ pending = [p \in Principals |-> 0]
    /\ connections = {}
    /\ holder = [s \in Ids |-> "none"]
    /\ holding = [s \in Ids |-> None]
    /\ publishing = None
    /\ stopping = FALSE
    /\ tasks = [t \in Tasks |-> Rest]
    /\ opened = {}
    /\ ended = [s \in Ids |-> 0]

OpenStep(t) == OpenFails(t) \/ (\E s \in Ids : PublishSession(t, s)) \/ PublishConnection(t) \/ RecordOpened(t)
EndStep(t) == CloseRecords(t) \/ CloseRemoves(t) \/ Unpublish(t) \/ HangUp(t) \/ HungUp(t)
ReclaimStep(t) == SweepPutOff(t) \/ Sweep(t) \/ ReadLive(t) \/ DropOrphans(t)
CommandStep(t) ==
    FindHolder(t) \/ LockHolder(t) \/ CheckHolder(t) \/ Redial(t) \/ RecheckHolder(t) \/ CommandGivesUp(t)

(* A step of a task that has begun something. *)
Step(t) == OpenStep(t) \/ EndStep(t) \/ ReclaimStep(t) \/ CommandStep(t)

Next ==
    \/ \E t \in Tasks : Step(t)
    \/ \E t \in Callers, p \in Principals : Reserve(t, p)
    \/ \E t \in Callers, s \in Ids, p \in Principals : CloseClaims(t, s, p) \/ Command(t, s, p)
    \/ \E t \in Callers, s \in Ids : Terminate(t, s)
    \/ \E p \in Principals : TooManySessions(p)
    \/ \E s \in Ids : TransportLost(s)
    \/ Housekeep
    \/ Stop
    \/ Tick

Spec == Init /\ [][Next]_vars

(* A task that has begun runs on.  The loop comes round, is not refused a worker
   for ever, and its wait for a mutex that is free again and again ends. *)
FairSpec ==
    /\ Spec
    /\ \A t \in Tasks : WF_vars(Step(t))
    /\ WF_vars(Housekeep)
    /\ SF_vars(Sweep(Housekeeper))
    /\ SF_vars(ReadLive(Housekeeper))
    /\ \A t \in Tasks : SF_vars(HangUp(t))

-----------------------------------------------------------------------------
(* Properties *)

(* What a task carries at each phase. *)
Carries(task) ==
    /\ task.pc = "idle" => task = Rest
    /\ task.pc \notin {"idle", "sweeping", "reading", "dropping", "hanging up", "dialling"}
       => task.session \in Ids
    /\ task.pc \in {"dialling", "publishing", "finding", "waiting", "checking", "redialling", "rechecking"}
       => task.principal \in Principals

(* Type invariant: every variable is of its type, the maps only hold identifiers
   that were given out, and a task carries what its next step reads. *)
TypeOK ==
    /\ now \in Nat
    /\ born \subseteq Ids
    /\ DOMAIN sessions \subseteq born
    /\ sessions \in [DOMAIN sessions -> Session]
    /\ pending \in [Principals -> Nat]
    /\ connections \subseteq Ids
    /\ holder \in [Ids -> {"none", "open", "gone"}]
    /\ holding \in [Ids -> Tasks \cup {None}]
    /\ publishing \in Tasks \cup {None}
    /\ stopping \in BOOLEAN
    /\ tasks \in [Tasks -> Task]
    /\ \A t \in Tasks : Carries(tasks[t])
    /\ opened \subseteq Ids
    /\ ended \in [Ids -> Nat]

(* The quota of a principal counts every session still held, lapsed ones included,
   and every open in flight: reserving, giving up a lapsed session, publishing and
   failing never let the sum over the limit (SessionStore::new). *)
SlotsBounded == \A p \in Principals : Cardinality(HeldBy(p)) + pending[p] <= PerPrincipal

(* An open in flight holds one slot, and a failed or cancelled one gives it back:
   what is reserved is what is being opened. *)
SlotsReturned ==
    \A p \in Principals :
        pending[p] = Cardinality({t \in Tasks : At(t, "dialling") /\ tasks[t].principal = p})

(* Publishing a session with its connection, ending one, and reconciling the two
   maps exclude each other: a session that can be used has its connection in the
   map, and no reconciliation takes it for an orphan (Bastion::publishing). *)
LiveSessionConnected == publishing = None => Live \subseteq connections

(* The record never says that a session ended twice, however closes by the owner
   and terminations by operators overlap, and whatever entry is refused. *)
EndedOnce == \A s \in Ids : ended[s] <= 1

(* No transport is left open where no cleanup can reach it: an open connection is in
   the map, or in the hands of a task that will hang it up, although a replacement
   may be dialled while the session ends. *)
OpenConnectionReachable ==
    \A s \in Ids : holder[s] = "open" => s \in connections \/ \E t \in Tasks : s \in tasks[t].closing

(* A session that can still be used leaves the store on a recorded end only: neither
   the quota of its principal nor any sweep takes it. *)
LiveSessionEndsOnRecord ==
    [][\A s \in Live : s \notin DOMAIN sessions' => ended'[s] = 1]_vars

(* docs/operations.md: "housekeeping disconnects their SSH connections".  The open
   connection of a session that is over is hung up in the end. *)
EndedSessionsDisconnected ==
    \A s \in Ids : (holder[s] = "open" /\ s \in born \ Live) ~> holder[s] = "gone"

(* mediate.rs:1479, of stop: "Refuses anything that has not started yet."  No call
   starts to dial once the service is stopping. *)
NothingStartsAfterStop ==
    [][\A t \in Tasks :
        stopping /\ ~At(t, "dialling") /\ ~At(t, "redialling")
        => tasks'[t].pc \notin {"dialling", "redialling"}]_vars

(* The strengthening that every step preserves: what the phase of the task holding
   `publishing` says of the two maps, and who may be in such a phase. *)
Exclusive == {"publishing", "closing", "removing", "unpublishing", "dropping"}

PublishingInv ==
    /\ \A t \in Tasks : tasks[t].pc \in Exclusive <=> publishing = t
    /\ \A t \in Tasks :
        /\ At(t, "dropping") => Live \subseteq tasks[t].seen
        /\ At(t, "publishing") => tasks[t].session \in born /\ ended[tasks[t].session] = 0
        /\ At(t, "closing") => tasks[t].session \in born /\ ended[tasks[t].session] = 0
        /\ At(t, "removing") => ended[tasks[t].session] = 1
        /\ At(t, "unpublishing") => tasks[t].session \notin DOMAIN sessions
    /\ \A s \in Live : s \in connections \/ \E t \in Tasks : At(t, "publishing") /\ tasks[t].session = s
    /\ \A s \in Ids \ born : ended[s] = 0
    /\ \A s \in DOMAIN sessions :
        ended[s] = 0 \/ \E t \in Tasks : At(t, "removing") /\ tasks[t].session = s
    /\ EndedOnce
=============================================================================
