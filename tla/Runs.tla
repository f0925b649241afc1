-------------------------------- MODULE Runs --------------------------------
(***************************************************************************)
(* The run store (ssh-core/run.rs), the accounting of completions in the   *)
(* mediator (ssh-core/mediate.rs: run_it, poll, cancel, account_for,       *)
(* reclaim_records, WritesCompletions) and the shutdown of the server      *)
(* (ssh-server/lib.rs: serve, settled).                                    *)
(*                                                                         *)
(* Three kinds of task meet here.  A call registers a run and waits for    *)
(* it, or polls or cancels one; the part of it that runs on a worker goes  *)
(* on when the caller has gone.  A reader follows one run on its target    *)
(* and announces how it ended.  A keeper makes rounds over the store: the  *)
(* housekeeping loop, and the shutdown.  The mutexes of the records, of    *)
(* one record and of the ledger are held for one step each.                *)
(***************************************************************************)
EXTENDS Naturals, FiniteSets

CONSTANTS
    Ids,         \* run identifiers
    Sessions,
    Calls,       \* calls in flight at once
    Housekeeper, \* the loop of the server
    Shutdown,    \* the rounds that `settled` makes once the service is stopping
    None,        \* "no such value"
    Workers,     \* permits of Bastion::blocking_capacity
    Recorders    \* permits of Runs::completions

Keepers == {Housekeeper, Shutdown}

VARIABLES
    held,      \* sessions SessionStore::holds
    process,   \* how far the server has got towards its end
    stopping,  \* Bastion::stopping
    refusing,  \* Runs::stopping
    records,   \* keys of Runs::records
    live,      \* the Live and Record of every run that was ever registered
    reading,   \* Runs::reading
    calls,     \* what each call is doing
    rounds,    \* what each keeper is doing
    completed, \* how many Completed entries the audit record has for each run
    cancels,   \* runs with a cancellation entry in the audit record
    named      \* runs a log line gives up on

storeVars == <<refusing, records, live, reading>>
recordVars == <<completed, cancels>>
vars == <<held, process, stopping, storeVars, calls, rounds, recordVars, named>>

(* What RunState::what_happened tells apart; whether a signal got through to the
   target is left out. *)
States == {"is running", "ran", "did not run", "may have run", "failed to transfer"}
Cancellations == {"not requested", "requested", "signalled", "transfer stopped"}

(* `reader` is where the run's task is; `began`, a local of that task, whether the
   command has shown anything of itself so far. *)
Live == [session : Sessions, state : States, cancellation : Cancellations,
         began : BOOLEAN,
         reader : {"sending", "reading", "working", "announcing", "recording", "done"}]

ASSUME RunsAssumption ==
    /\ Workers \in Nat \ {0}
    /\ Recorders \in Nat \ {0}
    /\ None \notin Ids \cup Sessions \cup Live
    /\ Housekeeper # Shutdown
    /\ IsFiniteSet(Ids)
    /\ IsFiniteSet(Calls)

Launched(session, reader) ==
    [session |-> session, state |-> "is running", cancellation |-> "not requested",
     began |-> FALSE, reader |-> reader]

Call == [pc : {"idle", "connecting", "finding", "waiting", "accounting",
               "recording", "fetching", "releasing", "cancelling", "signalling"},
         session : Sessions \cup {None}, run : Ids \cup {None}]

Round == [pc : {"idle", "choosing", "recording", "releasing"}, todo : SUBSET Ids, run : Ids \cup {None}]

Idle == [pc |-> "idle", session |-> None, run |-> None]
Resting == [pc |-> "idle", todo |-> {}, run |-> None]

-----------------------------------------------------------------------------
(* Helpers *)

Registered == {r \in Ids : live[r] # None}
Running(r) == live[r].state = "is running"
Upon(r, fields) == live' = [live EXCEPT ![r] = fields]
At(c, pc) == calls[c].pc = pc
Goto(c, pc) == calls' = [calls EXCEPT ![c].pc = pc]
Return(c) == calls' = [calls EXCEPT ![c] = Idle]
Round_(k, fields) == rounds' = [rounds EXCEPT ![k] = fields]

(* blocking: a permit stays with the work although its caller stops waiting. *)
OnWorkers ==
    {c \in Calls : calls[c].pc \in {"recording", "fetching", "releasing", "cancelling", "signalling"}}
    \cup {k \in Keepers : rounds[k].pc # "idle"}
WorkerFree == Cardinality(OnWorkers) < Workers
Recording == {r \in Registered : live[r].reader = "recording"}

(* belongs_to *)
BelongsTo(r, s) == r \in records /\ live[r].session = s

(* Runs::forget: a run that is still going is kept. *)
Forget(r) == records' = IF Running(r) THEN records ELSE records \ {r}

(* Ledger::record_outcome: a second completion is refused, a first one may be. *)
Written(r) == completed[r] = 0 /\ completed' = [completed EXCEPT ![r] = @ + 1]
AlreadyCompleted(r) == completed[r] > 0 /\ UNCHANGED completed
NotWritten(r) == completed[r] = 0 /\ UNCHANGED completed

Alive == process # "exited"

-----------------------------------------------------------------------------
(* A call starts a run: exec_intended and the transfers, run_it, Runs::start *)

(* authorize_action permits it, on a worker; the courtesy look at `stopping`. *)
Admit(c, s) ==
    /\ Alive
    /\ calls[c] = Idle
    /\ WorkerFree
    /\ ~stopping
    /\ s \in held
    /\ calls' = [calls EXCEPT ![c] = [Idle EXCEPT !.pc = "connecting", !.session = s]]
    /\ UNCHANGED <<held, process, stopping, storeVars, rounds, recordVars, named>>

(* Refusing, registering the run and registering its reader are one hold of the
   records.  Mutant: the look at admission is trusted. *)
Register_TrustsAdmission(c, r, reader) ==
    /\ Alive
    /\ At(c, "connecting")
    /\ live[r] = None
    /\ Upon(r, Launched(calls[c].session, reader))
    /\ records' = records \cup {r}
    /\ reading' = reading \cup {r}
    /\ calls' = [calls EXCEPT ![c].pc = "finding", ![c].run = r]
    /\ UNCHANGED <<held, process, stopping, refusing, rounds, recordVars, named>>

Register(c, r, reader) ==
    /\ Alive
    /\ At(c, "connecting")
    /\ live[r] = None
    /\ ~refusing
    /\ Upon(r, Launched(calls[c].session, reader))
    /\ records' = records \cup {r}
    /\ reading' = reading \cup {r}
    /\ calls' = [calls EXCEPT ![c].pc = "finding", ![c].run = r]
    /\ UNCHANGED <<held, process, stopping, refusing, rounds, recordVars, named>>

(* The dial or the channel fails, the store refuses, the run asked about is not
   there any more, or the caller stops waiting: nothing else changes. *)
CallEnds(c) ==
    /\ Alive
    /\ \/ calls[c].pc \in {"connecting", "finding", "waiting", "accounting"}
       \/ At(c, "fetching") /\ calls[c].run \notin records
    /\ Return(c)
    /\ UNCHANGED <<held, process, stopping, storeVars, rounds, recordVars, named>>

-----------------------------------------------------------------------------
(* Waiting, polling and accounting *)

(* poll: the session must be the caller's and the run the session's. *)
Poll(c, s, r) ==
    /\ Alive
    /\ calls[c] = Idle
    /\ WorkerFree
    /\ s \in held
    /\ BelongsTo(r, s)
    /\ calls' = [calls EXCEPT ![c] = [pc |-> "finding", session |-> s, run |-> r]]
    /\ UNCHANGED <<held, process, stopping, storeVars, rounds, recordVars, named>>

(* Runs::wait takes hold of the Live, which outlives its place in the map. *)
FindRun(c) ==
    /\ Alive
    /\ At(c, "finding")
    /\ calls[c].run \in records
    /\ Goto(c, "waiting")
    /\ UNCHANGED <<held, process, stopping, storeVars, rounds, recordVars, named>>

(* The run has settled; one that has not is handed back by CallEnds. *)
WaitSettles(c) ==
    /\ Alive
    /\ At(c, "waiting")
    /\ ~Running(calls[c].run)
    /\ Goto(c, "accounting")
    /\ UNCHANGED <<held, process, stopping, storeVars, rounds, recordVars, named>>

(* blocking_wait: the effect has happened, so the call waits for a worker. *)
TakeWorker(c) ==
    /\ Alive
    /\ At(c, "accounting")
    /\ WorkerFree
    /\ Goto(c, "recording")
    /\ UNCHANGED <<held, process, stopping, storeVars, rounds, recordVars, named>>

(* account_for: a completion somebody else wrote is as good; a record that refuses
   it leaves the run where it is.  Mutants: the run is let go of all the same; the
   call asks again until the record accepts it. *)
CallRecords_UntilWritten(c) ==
    LET r == calls[c].run
    IN /\ Alive
       /\ At(c, "recording")
       /\ \/ Written(r) /\ Goto(c, "releasing")
          \/ AlreadyCompleted(r) /\ Goto(c, "fetching")
          \/ NotWritten(r) /\ Goto(c, "accounting")
       /\ UNCHANGED <<held, process, stopping, storeVars, rounds, cancels, named>>

CallRecords_ReleasesUnrecorded(c) ==
    LET r == calls[c].run
    IN /\ Alive
       /\ At(c, "recording")
       /\ \/ Written(r) /\ Goto(c, "releasing")
          \/ AlreadyCompleted(r) /\ Goto(c, "fetching")
          \/ NotWritten(r) /\ Goto(c, "releasing")
       /\ UNCHANGED <<held, process, stopping, storeVars, rounds, cancels, named>>

CallRecords(c) ==
    LET r == calls[c].run
    IN /\ Alive
       /\ At(c, "recording")
       /\ \/ Written(r) /\ Goto(c, "releasing")
          \/ AlreadyCompleted(r) /\ Goto(c, "fetching")
          \/ NotWritten(r) /\ Return(c)
       /\ UNCHANGED <<held, process, stopping, storeVars, rounds, cancels, named>>

(* The entry is there already: what the run did is still in the store, unless
   another call has collected it (CallEnds). *)
FetchOutcome(c) ==
    /\ Alive
    /\ At(c, "fetching")
    /\ calls[c].run \in records
    /\ Goto(c, "releasing")
    /\ UNCHANGED <<held, process, stopping, storeVars, rounds, recordVars, named>>

CallReleases(c) ==
    /\ Alive
    /\ At(c, "releasing")
    /\ Forget(calls[c].run)
    /\ Return(c)
    /\ UNCHANGED <<held, process, stopping, refusing, live, reading, rounds, recordVars, named>>

-----------------------------------------------------------------------------
(* cancel *)

(* progress: the same two questions as a poll, on a worker. *)
Cancel(c, s, r) ==
    /\ Alive
    /\ calls[c] = Idle
    /\ WorkerFree
    /\ s \in held
    /\ BelongsTo(r, s)
    /\ calls' = [calls EXCEPT ![c] = [pc |-> "cancelling", session |-> s, run |-> r]]
    /\ UNCHANGED <<held, process, stopping, storeVars, rounds, recordVars, named>>

(* record_cancellation comes before the worker is told. *)
CancelRecords(c) ==
    /\ Alive
    /\ At(c, "cancelling")
    /\ \/ /\ calls[c].run \in records
          /\ cancels' = cancels \cup {calls[c].run}
          /\ Goto(c, "signalling")
       \/ /\ Return(c)
          /\ UNCHANGED cancels
    /\ UNCHANGED <<held, process, stopping, storeVars, rounds, completed, named>>

(* The session is asked again, and Runs::cancel leaves a settled run alone.
   Mutant: it asks for the cancellation of whatever it finds. *)
CancelSignals_Settled(c) ==
    LET r == calls[c].run
    IN /\ Alive
       /\ At(c, "signalling")
       /\ IF calls[c].session \in held /\ r \in records
          THEN Upon(r, [live[r] EXCEPT !.cancellation = "requested"])
          ELSE UNCHANGED live
       /\ Return(c)
       /\ UNCHANGED <<held, process, stopping, refusing, records, reading, rounds, recordVars, named>>

CancelSignals(c) ==
    LET r == calls[c].run
    IN /\ Alive
       /\ At(c, "signalling")
       /\ IF calls[c].session \in held /\ r \in records /\ Running(r) /\ live[r].cancellation = "not requested"
          THEN Upon(r, [live[r] EXCEPT !.cancellation = "requested"])
          ELSE UNCHANGED live
       /\ Return(c)
       /\ UNCHANGED <<held, process, stopping, refusing, records, reading, rounds, recordVars, named>>

-----------------------------------------------------------------------------
(* The reader of a command *)

Settle(r, state) == Upon(r, [live[r] EXCEPT !.state = state, !.reader = "announcing", !.began = FALSE])

(* The exec request leaves, or reports a failure that proves nothing. *)
SendExec(r) ==
    /\ Alive
    /\ r \in Registered
    /\ live[r].reader = "sending"
    /\ \/ Upon(r, [live[r] EXCEPT !.reader = "reading"])
       \/ Settle(r, "may have run")
    /\ UNCHANGED <<held, process, stopping, refusing, records, reading, calls, rounds, recordVars, named>>

(* Output, the positive reply, a signal or an exit status says the command began;
   a status settles nothing, because output may still follow it. *)
Evidence(r) ==
    /\ Alive
    /\ r \in Registered
    /\ live[r].reader = "reading"
    /\ ~live[r].began
    /\ Upon(r, [live[r] EXCEPT !.began = TRUE])
    /\ UNCHANGED <<held, process, stopping, refusing, records, reading, calls, rounds, recordVars, named>>

(* The negative reply settles a run that has shown nothing. *)
Declined(r) ==
    /\ Alive
    /\ r \in Registered
    /\ live[r].reader = "reading"
    /\ ~live[r].began
    /\ Settle(r, "did not run")
    /\ UNCHANGED <<held, process, stopping, refusing, records, reading, calls, rounds, recordVars, named>>

ChannelCloses(r) ==
    /\ Alive
    /\ r \in Registered
    /\ live[r].reader = "reading"
    /\ Settle(r, IF live[r].began THEN "ran" ELSE "may have run")
    /\ UNCHANGED <<held, process, stopping, refusing, records, reading, calls, rounds, recordVars, named>>

(* The request reaches the reader, who has the target signal the command. *)
SignalCommand(r) ==
    /\ Alive
    /\ r \in Registered
    /\ live[r].reader = "reading"
    /\ live[r].cancellation = "requested"
    /\ Upon(r, [live[r] EXCEPT !.cancellation = "signalled"])
    /\ UNCHANGED <<held, process, stopping, refusing, records, reading, calls, rounds, recordVars, named>>

(* The task of a transfer ends: it is done, it failed or ran out of time, or it
   was stopped because somebody asked. *)
TransferEnds(r) ==
    /\ Alive
    /\ r \in Registered
    /\ live[r].reader = "working"
    /\ \/ Settle(r, "ran")
       \/ Settle(r, "failed to transfer")
    /\ UNCHANGED <<held, process, stopping, refusing, records, reading, calls, rounds, recordVars, named>>

TransferStopped(r) ==
    /\ Alive
    /\ r \in Registered
    /\ live[r].reader = "working"
    /\ live[r].cancellation = "requested"
    /\ Upon(r, [live[r] EXCEPT !.state = "failed to transfer", !.reader = "announcing",
                               !.cancellation = "transfer stopped"])
    /\ UNCHANGED <<held, process, stopping, refusing, records, reading, calls, rounds, recordVars, named>>

(* announce: those waiting are told, and a recorder is waited for. *)
Announce(r) ==
    /\ Alive
    /\ r \in Registered
    /\ live[r].reader = "announcing"
    /\ Cardinality(Recording) < Recorders
    /\ Upon(r, [live[r] EXCEPT !.reader = "recording"])
    /\ UNCHANGED <<held, process, stopping, refusing, records, reading, calls, rounds, recordVars, named>>

(* WritesCompletions::settled: a refused entry is named in the log, and the run
   leaves the reading set after it.  Mutant: not if the entry was there already. *)
WatcherRecords_KeepsReading(r) ==
    /\ Alive
    /\ r \in Registered
    /\ live[r].reader = "recording"
    /\ \/ AlreadyCompleted(r) /\ UNCHANGED <<named, reading>>
       \/ Written(r) /\ UNCHANGED named /\ reading' = reading \ {r}
       \/ NotWritten(r) /\ named' = named \cup {r} /\ reading' = reading \ {r}
    /\ Upon(r, [live[r] EXCEPT !.reader = "done"])
    /\ UNCHANGED <<held, process, stopping, refusing, records, calls, rounds, cancels>>

WatcherRecords(r) ==
    /\ Alive
    /\ r \in Registered
    /\ live[r].reader = "recording"
    /\ \/ (Written(r) \/ AlreadyCompleted(r)) /\ UNCHANGED named
       \/ NotWritten(r) /\ named' = named \cup {r}
    /\ Upon(r, [live[r] EXCEPT !.reader = "done"])
    /\ reading' = reading \ {r}
    /\ UNCHANGED <<held, process, stopping, refusing, records, calls, rounds, cancels>>

-----------------------------------------------------------------------------
(* reclaim_records *)

(* The loop comes round, or the shutdown makes a pass; a round that finds no worker
   is put off. *)
RoundBegins(k) ==
    /\ process \in (IF k = Housekeeper THEN {"serving"} ELSE {"settling"})
    /\ rounds[k] = Resting
    /\ WorkerFree
    /\ Round_(k, [Resting EXCEPT !.pc = "choosing", !.todo = records])
    /\ UNCHANGED <<held, process, stopping, storeVars, calls, recordVars, named>>

(* The next run of the store that has finished. *)
RoundChooses(k) ==
    /\ Alive
    /\ rounds[k].pc = "choosing"
    /\ \E r \in rounds[k].todo :
        Round_(k, IF r \in records /\ ~Running(r)
                  THEN [pc |-> "recording", todo |-> rounds[k].todo \ {r}, run |-> r]
                  ELSE [rounds[k] EXCEPT !.todo = @ \ {r}])
    /\ UNCHANGED <<held, process, stopping, storeVars, calls, recordVars, named>>

(* record_completion *)
RoundRecords(k) ==
    LET r == rounds[k].run
    IN /\ Alive
       /\ rounds[k].pc = "recording"
       /\ \/ (Written(r) \/ AlreadyCompleted(r)) /\ Round_(k, [rounds[k] EXCEPT !.pc = "releasing"])
          \/ NotWritten(r) /\ Round_(k, [rounds[k] EXCEPT !.pc = "choosing", !.run = None])
       /\ UNCHANGED <<held, process, stopping, storeVars, calls, cancels, named>>

(* A recorded run is let go of once its session is gone, asked for at that moment.
   Mutant: whether or not its session can still ask. *)
RoundReleases_Live(k) ==
    /\ Alive
    /\ rounds[k].pc = "releasing"
    /\ Forget(rounds[k].run)
    /\ Round_(k, [rounds[k] EXCEPT !.pc = "choosing", !.run = None])
    /\ UNCHANGED <<held, process, stopping, refusing, live, reading, calls, recordVars, named>>

RoundReleases(k) ==
    LET r == rounds[k].run
    IN /\ Alive
       /\ rounds[k].pc = "releasing"
       /\ IF live[r].session \in held THEN UNCHANGED records ELSE Forget(r)
       /\ Round_(k, [rounds[k] EXCEPT !.pc = "choosing", !.run = None])
       /\ UNCHANGED <<held, process, stopping, refusing, live, reading, calls, recordVars, named>>

RoundEnds(k) ==
    /\ Alive
    /\ rounds[k].pc = "choosing"
    /\ rounds[k].todo = {}
    /\ Round_(k, Resting)
    /\ process' = IF k = Shutdown THEN "looking" ELSE process
    /\ UNCHANGED <<held, stopping, storeVars, calls, recordVars, named>>

-----------------------------------------------------------------------------
(* The end of the server: serve and settled *)

(* Bastion::stop, then Runs::stop under the hold a registration takes. *)
Stop ==
    /\ process = "serving"
    /\ process' = "stopping"
    /\ stopping' = TRUE
    /\ UNCHANGED <<held, storeVars, calls, rounds, recordVars, named>>

StopRuns ==
    /\ process = "stopping"
    /\ process' = "draining"
    /\ refusing' = TRUE
    /\ UNCHANGED <<held, stopping, records, live, reading, calls, rounds, recordVars, named>>

(* Requests in flight end or are no longer waited for; a pass over the store begins,
   or finds no worker. *)
Drained ==
    /\ process = "draining"
    /\ process' = "settling"
    /\ UNCHANGED <<held, stopping, storeVars, calls, rounds, recordVars, named>>

RoundPutOff ==
    /\ process = "settling"
    /\ rounds[Shutdown] = Resting
    /\ ~WorkerFree
    /\ process' = "looking"
    /\ UNCHANGED <<held, stopping, storeVars, calls, rounds, recordVars, named>>

(* runs_in_flight.  Mutant: what is still running, not what is still to be recorded. *)
Look_AtStates ==
    /\ process = "looking"
    /\ process' = IF \A r \in Registered : ~Running(r) THEN "exited" ELSE "settling"
    /\ UNCHANGED <<held, stopping, storeVars, calls, rounds, recordVars, named>>

Look ==
    /\ process = "looking"
    /\ process' = IF reading = {} THEN "exited" ELSE "settling"
    /\ UNCHANGED <<held, stopping, storeVars, calls, rounds, recordVars, named>>

(* The deadline passes: what is still read is named with what authorized it. *)
GiveUp ==
    /\ process \in {"settling", "looking"}
    /\ process' = "exited"
    /\ named' = named \cup (reading \cap records)
    /\ UNCHANGED <<held, stopping, storeVars, calls, rounds, recordVars>>

SessionEnds(s) ==
    /\ Alive
    /\ s \in held
    /\ held' = held \ {s}
    /\ UNCHANGED <<process, stopping, storeVars, calls, rounds, recordVars, named>>

Exited == process = "exited" /\ UNCHANGED vars

-----------------------------------------------------------------------------
Init ==
    /\ held = Sessions
    /\ process = "serving"
    /\ stopping = FALSE
    /\ refusing = FALSE
    /\ records = {}
    /\ live = [r \in Ids |-> None]
    /\ reading = {}
    /\ calls = [c \in Calls |-> Idle]
    /\ rounds = [k \in Keepers |-> Resting]
    /\ completed = [r \in Ids |-> 0]
    /\ cancels = {}
    /\ named = {}

Starting(c) ==
    \/ \E s \in Sessions : Admit(c, s) \/ \E r \in Ids : Poll(c, s, r) \/ Cancel(c, s, r)
    \/ \E r \in Ids, reader \in {"sending", "working"} : Register(c, r, reader)
    \/ FindRun(c) \/ WaitSettles(c) \/ CallEnds(c)

(* The part of a call that goes on without its caller. *)
OnWorker(c) ==
    TakeWorker(c) \/ CallRecords(c) \/ FetchOutcome(c) \/ CallReleases(c)
    \/ CancelRecords(c) \/ CancelSignals(c)
FetchFails(c) == At(c, "fetching") /\ CallEnds(c)

(* What the target does, and what the service does about it. *)
OnTarget(r) == Evidence(r) \/ Declined(r) \/ ChannelCloses(r) \/ TransferEnds(r)
Reader(r) == SendExec(r) \/ SignalCommand(r) \/ TransferStopped(r) \/ Announce(r) \/ WatcherRecords(r)

Keeper(k) == RoundChooses(k) \/ RoundRecords(k) \/ RoundReleases(k) \/ RoundEnds(k)
Ending == StopRuns \/ Drained \/ RoundPutOff \/ Look

Next ==
    \/ \E c \in Calls : Starting(c) \/ OnWorker(c)
    \/ \E r \in Ids : OnTarget(r) \/ Reader(r)
    \/ \E k \in Keepers : RoundBegins(k) \/ Keeper(k)
    \/ \E s \in Sessions : SessionEnds(s)
    \/ Stop \/ Ending \/ GiveUp
    \/ Exited

Spec == Init /\ [][Next]_vars

(* Tasks that have begun run on; a permit that is free again and again is had in
   the end, because the semaphores hand permits out in the order of asking. *)
FairSpec ==
    /\ Spec
    /\ \A c \in Calls : WF_vars(OnWorker(c) \/ FetchFails(c)) /\ SF_vars(TakeWorker(c))
    /\ \A r \in Ids : WF_vars(Reader(r)) /\ SF_vars(Announce(r))
    /\ \A k \in Keepers : WF_vars(Keeper(k))

-----------------------------------------------------------------------------
(* Properties *)

(* Type invariant; a task carries what its next step reads. *)
TypeOK ==
    /\ held \subseteq Sessions
    /\ process \in {"serving", "stopping", "draining", "settling", "looking", "exited"}
    /\ stopping \in BOOLEAN
    /\ refusing \in BOOLEAN
    /\ records \subseteq Registered
    /\ live \in [Ids -> Live \cup {None}]
    /\ reading \subseteq Ids
    /\ calls \in [Calls -> Call]
    /\ \A c \in Calls :
        /\ calls[c].pc # "idle" => calls[c].session \in Sessions
        /\ calls[c].pc \notin {"idle", "connecting"} => calls[c].run \in Registered
    /\ rounds \in [Keepers -> Round]
    /\ \A k \in Keepers :
        /\ rounds[k].todo \subseteq Registered
        /\ rounds[k].pc \in {"recording", "releasing"} => rounds[k].run \in Registered
    /\ completed \in [Ids -> Nat]
    /\ cancels \subseteq Ids
    /\ named \subseteq Ids

(* Runs::stop: once it has returned, no run is added to what the shutdown waits for. *)
NothingRegistersAfterStop == [][refusing => reading' \subseteq reading]_vars

(* Runs::reading: a run leaves the set the shutdown waits for only after its reader
   has tried to have its completion recorded; until then it can be asked about. *)
UnrecordedIsRead ==
    \A r \in Registered : completed[r] = 0 => r \in records /\ (r \in reading \/ r \in named)

(* What a run did is let go of only once the record says it, and then only because
   a call has come for it or no session can ask any more. *)
ReleasedWhenCollectedOrOrphaned ==
    [][\A r \in records \ records' :
        /\ completed[r] = 1
        /\ ~Running(r)
        /\ \/ live[r].session \notin held
           \/ \E c \in Calls : At(c, "releasing") /\ calls[c].run = r]_vars

(* lib.rs:457: the service never stops and leaves a command it started neither in
   the record nor named in the log. *)
ExitAccountsOrNames ==
    process = "exited" => \A r \in Registered : completed[r] > 0 \/ r \in named

(* Bastion::cancel: a worker is told of a cancellation only once the record has it,
   and a run that has settled is never told. *)
CancellationsRecorded ==
    [][\A r \in Registered : live'[r].cancellation # live[r].cancellation
        => r \in cancels /\ Running(r)]_vars

(* A run that has settled is announced to the record, and a call that has come for
   its outcome gets a worker, whatever else the service is busy with. *)
SettledIsAnnounced ==
    \A r \in Ids : (r \in reading /\ r \in Registered /\ ~Running(r)) ~> (r \notin reading \/ ~Alive)
AccountingEnds ==
    \A c \in Calls : At(c, "accounting") ~> (At(c, "idle") \/ ~Alive)
=============================================================================
