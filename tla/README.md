# Verification of the SSH bastion

TLA+ models of the program under `src/crates/` (`ssh-core`, the mediator; `ssh-server`,
the MCP and HTTP service around it), the TLC runs that check them on small instances,
and TLAPS proofs about them for every instance.

The program lets agents run commands on SSH hosts. An agent opens a *session* on a
target for a purpose; a command may run at once, be denied, or wait until a person
*approves* it; every decision, approval, answer, session and outcome is an entry of an
*audit record* that is written before the thing it is about happens.

## 1. Inventory

| Component | Source | State it keeps | Operations that change it | Status |
|---|---|---|---|---|
| Approval store | `ssh-core/approval.rs` | map of requests, map of standing agreements (two mutexes) | `ask_with`, `decide`, `mark_recorded`, `redeem_action_with`, `grant_standing`, `revoke_standing`, `use_standing`, `sweep` | modelled: `Approvals` |
| Approval mediation | `ssh-core/mediate.rs` | none of its own: it sequences store and record | `authorize_action`, `decide`, `apply_answer`, `approve_session`, `revoke_standing`, `reclaim_records` | modelled: `Approvals` |
| Session store | `ssh-core/session.rs` | map of sessions, opens in flight of each principal | `reserve`, `Opening::open` and its `Drop`, `use_session`, `close`, `remove_recorded`, `sweep` | modelled: `Sessions` |
| Session connections | `mediate.rs`, `connect.rs` | map from session to holder, a mutex in each holder, the `publishing` mutex, `stopping` | `open_session`, `connection_for`, `close_owned`, `terminate_owned`, `close_orphaned`, `stop`, `connect_within` | modelled: `Sessions`, and the dial in `Dialing` |
| Clock | `ssh-core/clock.rs` | last reading | `now` | modelled, in each module that reads it |
| Run store | `ssh-core/run.rs` | records of runs, readers, `stopping`, completion permits | `start`, `transfer`, `poll`, `cancel`, `finished`, `forget`, `stop` | modelled: `Runs`; the channel and what is kept of it: `Executions`, `Output` |
| Completion accounting | `mediate.rs` | none of its own | `account_for`, `record_completion`, `settled`, `poll`, `cancel`, `reclaim_records` | modelled: `Runs` |
| Worker capacity | `mediate.rs` | semaphore | `blocking` | modelled: counted in `Runs`, an outcome elsewhere |
| Audit ledger | `audit.rs`, `audit/retention.rs` | chain of entries, receipts, proofs, limits | `record_*`, `seal_before`, `reclaim` | modelled: `Ledger` |
| Command quoting, output scanning | `command.rs`, `run.rs` | none; the tail of a stream | `Command::new`, `to_wire`; `Collected::push` | modelled: `Commands`, `Output` |
| Remote files | `files*`, `transfer.rs` | a channel, requests on the wire, a file of the target | upload in place and staged, download, checksum, inspection, the bounding of frames | modelled: `Uploads`, `Downloads`, `Inspections`, `Frames` |
| File transfers of the server | `ssh-server/transfer.rs`, `disk.rs`, `local_files.rs` | items, reservations, one-use tickets | issue, receive, publish, deliver, abandon, sweep | modelled: `Transfers` |
| Audit history and shipping | `audit_history.rs`, `shipped.rs` | none; lines of a log service | pages, transcripts, activity; the writer of lines | partly: `AuditHistory`, the writer in `Ledger` |
| Dashboard | `dashboard.rs` | none of its own | forms of an operator, page of an activity, links between pages | partly: `Desk`, `AuditHistory` |
| Policy, registry and actions | `policy.rs`, `registry.rs`, `action.rs`, `config.rs` | the registry of hosts and accounts | parsing and resolving it | partly: `Startup`, `Dialing` |
| HTTP ingress, MCP and tools | `ingress.rs`, `request_limits.rs`, `mcp.rs`, `tools.rs` | cache of the gateway's keys, permits | verification, admission, tool calls | partly: `Ingress`, `Desk`, `Executions`, `Uploads` |
| Process and settings | `settings.rs`, `process.rs`, `credentials.rs`, `lib.rs` | settings, keys, tasks that serve | start, serve, drain, exit | modelled: `Startup`, `Shutdown`, `Runs` |
| Metrics and secrets | `metrics.rs`, `secret.rs` | counters | | not modelled: nothing the program decides reads them |

How they interact. A call runs on a blocking thread or as a future. It finds its session
in the session store, asks the approval store, writes the record, takes the session's
connection and starts a run. A reader follows each run on its target and announces how it
ended; the call, a watcher, housekeeping and the shutdown may each account for it.
Housekeeping (`ssh-server/lib.rs`, every 60 seconds) and the calls that open or end a
session reclaim: they sweep the stores and close connections nobody owns. Nothing holds
one lock over all of it, and the hard behaviours come from there:

* a yes exists in the store before it exists in the record, and either step may fail;
* retries of one command, several operators and a standing agreement meet one request;
* a standing agreement can be withdrawn while a call is answering in its name;
* a session and its connection live in two maps filled one after the other, while a
  reconciliation compares the maps, and a replacement is dialled while the session ends;
* a command ends, is cancelled, loses its connection and its session and is stopped by
  the shutdown, in any order, and what it did must be recorded once or named on the way out;
* the record is a window that is sealed and retired under limits while proofs still rest
  on entries in it, and its sink may answer after its caller has given up on it;
* bytes on disk are written, read, shared, withdrawn and swept by tasks that outlive their
  clients; a target serves requests nobody waits for any more;
* pages are read in several queries from a log that grows; keys rotate under a cache.

`PROJECT.json` lists each of these hazards at its line with the properties that would
catch it going wrong.

## 2. Modules

| Module | Models | Checked in | Proved in |
|---|---|---|---|
| `ApprovalGate` | what approvals promise: a request is answered once, and worth one receipt only after a recorded yes | refined by `Approvals` | `ApprovalsProofs` |
| `Approvals` | approval store, the mediator's approval path, answers and receipts in the record | `MCApprovals` | `ApprovalsProofs` |
| `Sessions` | session store, connection map, holders, reclaim | `MCSessions` | `SessionsProofs` |
| `Runs` | run store, accounting, watcher, housekeeping, shutdown | itself | `RunsProofs` |
| `Output`, `Commands` | the search for secrets in pieces; the wire form of a command and the shell that reads it | `MCTargets` | `UploadsProofs` |
| `Ledger` | the record, its retention and its writer | `MCRecord` | `LedgerProofs` |
| `Desk` | tool, pages, forms and intake around one held command | `MCRecord` | `DeskProofs` |
| `Transfers`, `Uploads` | the transfer buffer; uploads over it | `MCTargets` | `UploadsProofs` |
| `Downloads` | reading a remote file to a sink | `MCTargets` | `TargetsProofs` |
| `Executions` | one command on its channel and every answer made of it | `MCTargets` | `TargetsProofs` |
| `Frames` | the frames below every look at a file | `MCTargets` | `TargetsProofs` |
| `Inspections` | looking at a path | `MCTargets` | `UploadsProofs` |
| `AuditHistory` | pages and transcripts over the log service | `MCService` | `ServiceProofs` |
| `Ingress` | the cache of keys, and admission | `MCService` | `ServiceProofs` |
| `Startup`, `Dialing`, `Shutdown` | the environment to the first request; a dial; the end | `MCService` | `ServiceProofs` |

The `MC` modules only give constants small values, name symmetries, and compose models
that share no state: a variable `part` says which one a behaviour explores, and the others
stay as they began, so one run asks the questions of several small models. `AtRest` is the
stutter of the parts that may come to an end; the others are checked for deadlock.

### Approvals

`requests` is the map of `Held`; `standing` the map of `StandingApproval`; `answers` and
`receipts` are what the audit record says (`Answered` entries, and how many `Approved`
entries name a request). The mutex of `requests` is only held inside one operation and so
is the atomicity of an action. The mutex of `standing` is held by `use_standing` across
`decide`, `record_answer`, `mark_recorded` and `redeem`, so it is the variable `lock`, and
each of these is an action of its own with its own failures:

    authorize_action:  Begin -> Ask* -> TakeStanding -> AgentDecides -> RecordAnswer
                             -> Mark -> Redeem                    (or NoStanding)
    decide, approve_session:  OperatorDecides -> RecordAnswer -> Mark -> Grant

`Ask*` are the branches of `ask_with` in its order: collect, refused, pending, too many,
afresh. Each begins by forgetting (`Remembered`). `Approved {recorded: false}` is the
state `"unrecorded"`. `LapseTold`'s ghost is the field `owed`: the lapsed agreement that
was let go of for this call. `sweep` takes its two locks one after the other, in two
actions; it and `grant_standing` act on a clock reading taken earlier (`Readings`). A
session that ends is simply no longer held: why is not the approval store's business.

### Sessions

`sessions` and `pending` are the two maps of `SessionStore`; `connections` the keys of the
mediator's map; `holder` and `holding` the connection in each `SessionConnection` and the
task that has its mutex; `publishing` the task that has `Bastion::publishing`. A holder is
named by its session identifier: identifiers are never reissued and a holder is inserted
once, so `Arc::ptr_eq` with the map's holder is presence in the map. Each `await` and each
lock boundary is a boundary between two actions:

    open_session:   Reserve -> (dial) -> PublishSession -> PublishConnection -> RecordOpened
    close_owned:    CloseClaims -> CloseRecords -> CloseRemoves -> Unpublish -> HangUp
    terminate:      Terminate -> Unpublish -> HangUp
    reclaim:        Sweep -> ReadLive -> DropOrphans -> HangUp
    connection_for: Command -> FindHolder -> LockHolder -> CheckHolder -> Redial -> RecheckHolder

A dial fails or succeeds in one step, `Redial`. From there to `RecheckHolder` the task is
`rechecking`: it has a fresh connection nothing else knows, which the second look installs
in the holder or closes; if the caller gives up in between (`CommandGivesUp`) the connection
is dropped with it. It has no other state, and counts nowhere until it is installed.

A caller may stop waiting at an await (`OpenFails`, `CommandGivesUp`), a worker may be
refused (`SweepPutOff`), a transport may be lost at any time (`TransportLost`). `Command`
has the forgetting side effect of a refused `use_session` as its second disjunct. The
deliberate over-approximations: a command that has reached its connection lets the
holder's mutex go at once (it opens a channel and keeps no lock), and a close that fails
in `sessions.close` leaves its connection to housekeeping, as the code does.

### Runs

`records` is the map of `Runs`; `live` the `Live` of each run, which outlives its place in
the map; `reading` the readers the shutdown waits for; `calls` the calls and the part of
them that is on a worker; `rounds` the housekeeping loop and the reclaiming the shutdown
does; `completed` how many completions the record has of a run.

    a call:      Admit -> Register -> FindRun -> WaitSettles -> TakeWorker
                       -> CallRecords -> FetchOutcome -> CallReleases        (Poll joins at FindRun)
    cancel:      Cancel -> CancelRecords -> CancelSignals
    a reader:    SendExec -> Evidence / Declined -> ChannelCloses / Transfer* -> Announce
                       -> WatcherRecords
    a round:     RoundBegins -> RoundChooses -> RoundRecords -> RoundReleases -> RoundEnds
    the end:     Stop -> StopRuns -> Look / RoundPutOff ... -> Drained or GiveUp -> Exited

Workers are counted (`OnWorkers`); work that accounts for something finished waits for a
permit of its own (`Recorders`), and a round that is refused a worker is put off. A caller
may leave at any await (`CallEnds`); what it had on a worker goes on.

### Ledger

Every operation holds `Ledger::state` from its first look to its last change, so each
`Record*` is one step with the three ends an append can have: no room, not recorded,
written. `state` is the window of entries with what can still be read of each, its
checkpoint and the proofs; `authority` the receipts callers hold (`DropProof` is their
drop); `output` what left for the sink, and `LateLine` the line that lands after its
caller gave up. `Prepared`, `Sealing`, `Retired`, `Reclaimed` and `Pruned` are the steps
of an append in the order of `prepare`.

### Transfers and Uploads

`items` is the map of the buffer; what the handlers and blocking threads hold beside it
are the variables of the asking, receiving, delivering and sweeping tasks, each dropped at
any await. `Uploads` composes it with the run that places a reference on a target:
`Begin -> Open -> Write ... -> Rename -> Succeed -> Settle*`, where a request on the wire
is `Served`, `Refused` or lost, also after nobody waits for it.

### Downloads, Inspections, Frames, Executions

`Downloads` is the `Reader` with its requests on the wire (answered in any order, short,
or past a limit) and its two sinks. `Inspections` is `inspect`, whose requests are each
answered by what is at the path by then. `Frames` is `BoundedSftpStream` polled with
any room and any pieces. `Executions` is the channel as a sequence of messages, the
`Collected` streams and every answer made of the record (`ExecResult`, `Progress`,
`stream_with_files`).

### Output, Commands

`Output` is one `Collected` and the stream it is pushed, in pieces of any size; `printed` is
the whole stream, which the program never has. `Commands` is `to_wire` a character at a time:
`NewCommand -> OpenQuotes -> RenderChar ... -> CloseQuotes` for each argument. `shell` is a
POSIX shell that has read what was written so far; it is not part of the program, and gives up
on anything it would have to interpret, so that only words can be read back.

### Desk

An operation of the mediator is one step (its steps are `Approvals`); a surface is not:
what it asks for (`AgentAsks`, `Deciding`, `LookAtWork`) and what it says of it
(`AgentAnswered`, `Answers`, `ShowActivity`) are apart, and each waits for workers. An evaluation sent again is answered as it was while
its content is kept; any other under its name, or of a decision that has one, conflicts.

### AuditHistory, Ingress

`AuditHistory` follows a reader from page to page (`Open`, `OpenNext`), each page read in
the code's own queries (`ReadDecisions`, `ReadRelations`, `ReadCompletions`) over a log
that grows between them. What the log service does with a query is external: the newest
lines of a range, both ends included. `Ingress` is `KeyCache` with its mutex held over a
fetch, a gateway that changes its keys between sending an answer and its arrival, and
the two permits of admission; every request may be dropped at every await.

### Startup, Dialing, Shutdown

A value of a variable is what the variable can make of it. `Startup` reads them in the
order the code does (`ReadConfig -> ReadSettings -> OpenOutputs -> ReadRegistry ->
CheckRegistry -> Serve`); the first that cannot be used ends the start, and is named. `Serve`
starts the parts (`YetToStart`: the clock and the record's writer always, the others where
they are asked for); if one fails the process ends, and no variable is named. Local names are
compared with the tokens of agent, operator and evaluator only, which is what
`docs/operations.md:66-67` says and `ServesKeptApart` states. `Dialing` resolves
an account of that registry and dials it under one deadline. `Shutdown` is `serve` with its
tasks: whichever ends first stops the rest.

## 3. Runs

| Run | Instance | States | Shows |
|---|---|---|---|
| `approvals` | 1 session, 2 actions, 2 requests, 2 agent calls, 1 operator, 1 agreement, limit 1, clock to 2 | 719,251 | a refusal stays, a recorded yes is kept, nobody is turned away for what it waits for itself, and `Approvals` implements `ApprovalGate` |
| `approvals_sessions` | 2 sessions, 2 agreements, 1 agent call, 1 operator, fair | 677,214 | agreements replaced, withdrawn and swept under a call; the lock on them is given back |
| `lapse_told` | 1 agent call, 1 operator | | finding 1 |
| `revoked_mints` | the same, clock at 0 | | finding 2 |
| `sessions` | 2 sessions, 2 principals with a quota of 1, 2 callers and housekeeping, idle 1, life 2, grace 1, clock to 2 | 847,134 | quotas, publication, ends, and that no open connection is out of reach |
| `sessions_live` | 1 session, 2 callers and housekeeping, clock to 1, fair | 22,604 | the connection of an ended session is hung up |
| `stop_starts` | 1 session, 1 caller | | finding 3 |
| `runs` | 1 run, 1 session, 1 caller, housekeeping and shutdown, 2 workers, 1 recorder, fair | 128,680 | a run from its receipt to its release |
| `record` | entries of 2 sizes with every limit reached, 4 entries issued; at the desk 2 forms, 1 worker, 2 decisions | 573,936 | the record verifies and accounts for what it keeps; what surfaces say is so |
| `targets` | 1 reference, 2 readers, 1 item; files to 6 bytes in chunks of 2 with 3 ahead; 3 entries; frames of 3; 3 pieces of output; a stream of up to 6 bytes with shapes of 3 and 2; vectors of up to 3 arguments of 2 characters | 1,127,127 | storage, outcomes and answers about a target |
| `service` | environments two variables away from a good one, or any two tokens on the surfaces; accounts and keyrings that collide; parts that fail to start; tasks that end; 4 lines; 2 keys and 3 requests | 1,319,329 | start, dial, stop, pages, keys and admission |
| `transcript_served` | pages of 1, 6 lines | | finding 4 |

Bounds. The clock bounds of the approvals let a request be asked, lapse, and be asked
again with its yes lapsing too; those of the sessions let a session idle out, outlive its
grace and be forgotten. Two requests for one action are what a duplicate needs, two actions
what the limit needs, two agent calls what a double collection needs. One principal's quota
of one is reached by one session or one open, so every branch of `reserve` is taken. Two
callers and housekeeping are three tasks on one holder: one that dials, one that ends, one
that reclaims. In `runs` one caller suffices: the watcher, housekeeping and the shutdown
are three more writers of one completion (two callers, 503,952 states, agree; the safety
is proved for every number). In `record` each limit is reached by the second entry and
passed by the third. In `targets` a file read ahead by three chunks is cut at every byte,
and one item in a buffer of one is full. In `service`, with a gateway, two requests are
open at once (one holds the mutex, one waits), and three without; steps other than a fetch
take no time; `MaxLines` is two pages. `MaxNow`, `MaxTime`, `MaxClock`, `LastInstant`,
`MaxIssued`, `MaxFrames`, `MaxOutput`, `MaxStream`, `Longer` and the sets of
identifiers only stop clocks, inputs and the supply of identifiers. Deadlock is checked in every run.

Fairness. `approvals_sessions`: a blocking thread that has begun a call runs on; nothing it
does waits for a person. `sessions_live`: futures are polled until they end (`WF` of each
task's steps) and the housekeeping loop comes round (`WF`); its wait for `publishing`, for a
holder's mutex and for a worker is strong fairness: tokio's mutex is FIFO, so a task that
waits gets a mutex that is freed again and again, and a round that is refused a worker is
followed by another 60 seconds later. `runs`: work on a worker, readers and rounds run on
(`WF`), and a permit that is free again and again is had in the end (`SF`), because the
semaphores hand permits out in the order of asking. Callers' operations are never fair:
nobody has to call.

## 4. Proofs

Everything below is proved for all sets of sessions, callers, operators, agreements,
principals, runs, references, requests and keys, all environments and registries, and all
windows, lifetimes, deadlines, quotas, page sizes and limits, from the named assumptions of the modules (numbers are naturals; the names used for different things are
different; the sets that are counted are finite).

*Approvals.* `TypeInvariant` is inductive by itself. `RecordInv` is the strengthening for
answers and receipts: the property alone is not inductive, because whether a receipt may
be written depends on the state of the request, and that state is set two steps before or
after the entry is. So it says, for each state of a request, what the record must hold;
for each phase of a call, what it has written and not; and that at most one call is
between `decide` and `record_answer` for a request. From it follow
`ReceiptsRestOnRecordedAnswer`, `OneReceiptPerRequest`, `OneAnswerPerRequest`, and
`GateImplemented`: the initial states map to initial states of `ApprovalGate`, and every
step maps to a step or a stutter. `LockInv` (an agent's call is in a phase that answers
exactly while it holds the lock, and its agreement stands) gives
`SelectedAgreementStands` and the action property `WithdrawnAgreementAnswersNothing`.
`OneRequestPerAction` is inductive given the types. Three action properties are about steps:
`RefusalStands` and `RecordedYesKept` go over every action by what it can make of a request
(the branches of `ask_with`, forgetting, a decision), and `TurnedAwayOnlyByOthers` rests on
`OneRequestPerAction`, because the limit counts requests of other actions only if the call's
own was found first.

*Sessions.* The type invariant is not inductive by itself: `pending` stays a natural number
only because each open in flight has a slot, so `TypeOK` and `SlotsReturned` are proved
together, by the cardinality of the set of opens. `SlotsBounded` follows step by step with
the library's facts about finite sets. `PublishingInv` says which task may be in the part
`publishing` protects, and what that task knows (what it has seen covers the live sessions;
the session it records has no recorded end yet); it gives `LiveSessionConnected`,
`EndedOnce` and the action property `LiveSessionEndsOnRecord`. `OpenConnectionReachable`
needs that only a task that is hanging up has connections in its hands.

*Runs.* `AccountingInv` is what the writers of one completion know of each other: of each
run, what its state, its reader and the record say together (`RunFits`); of each call, what
the step it is at has found out (`CallKnows`); the same for a round (`RoundKnows`). It is
preserved action by action through the lemma `Accounting`, and gives `UnrecordedIsRead`,
one completion at most, that an exit accounts for or names every run, that nothing
registers after the stop, and two action properties (release, recorded cancellation).

*Ledger.* `LedgerInv` is `Recording` (the links of the window from its checkpoint),
`Holding` (an authority held names a decision that is kept), `Completions`, `Evaluations`
and `Writing` (the chain that left). Every step either leaves the window's content alone
(`Quiet`) or crosses to the sink and then appends plainly, completes or evaluates
(`StepKinds`); the lemma `Chaining` does the appends, sealing and retiring once for all.
`BudgetInv` adds that each size is what can be read of its entry, that their sum is what the
budget is charged, and that what is listed can be read. The sum is a fold, so it is proved
first that a least missing number does not exist (`StepByStep`), and by that what a sum is
when an entry is appended, cleared or taken away in front (`SumAppended`, `SumCleared`,
`SumShifted`). It needs that an entry is never mistaken for its absence (`EntryAssumption`).

*Uploads.* `StoreInv` (types, cleaning, charging, publishing, phases, sharing and owing of
the buffer) is kept by every step of the buffer (`StoreKeeps`), `RunInv` (what a run at each
of its steps has done to the target, and what it will tell) by every step of a run
(`RunKeeps`), and `Transferring` is where a step of the one is a step of the other.

*Desk.* `DeskInv` says, for the request of the agent, each form, the page and the intake,
what it knows of the store and the record at the step it is at: what it read may be old, but
only in the direction a command moves. It gives `WaitingIsAnnounced` and `ResponseTells`, and
with it every step keeps `SteadyRowsAreTrue`, an action property: a row is wrong only about a
command that changed between the first read of the page and the last.

*Targets.* `ExecutionInv` is that what the run's record holds is what arrived on the channel,
in order and up to the limit, with the evidence of its end; `AnswerTells` and the action
property `AnswersOnlyMoveOn` follow for every sequence of messages. `DownloadInv` is that the
sink took the beginning of the file, and that the requests on the wire adjoin it without gap
or overlap, so a short answer is always the one that is read next; `OutcomeTellsFile` follows.
`FrameInv` is that the wire is frames, the last perhaps not whole, and that the stream is past
some of them and before, at or after the header of the next, with what it read and gave in step
with that; `FramesAreBounded` follows. That every wire is such frames (`WholeIsFramed`) is
proved by unfolding `FlattenSeq` frame by frame (`FlattenUnfolds`, by `StepByStep` again).

*Inspections.* `LookInvariant` is that a call has read the first names of its directory and
holds what they are told as, within the limits and charged for (`HasRead`), that the handle
still has the others (`IsRest`), and that what the path named when it was asked is what it
names unless that was replaced; `LookTells` follows. A packet, a charge, a whole directory and
the resolution of a path are folds: that each has the value its steps lead to (`AdmittedSteps`,
`ChargedSteps`, `JoinsSteps`, `EntersSteps`) rests on `FoldsExist`, and what the steps lead to
on `StepByStep`. `OneSpelling` is proved that way for paths of every length: names are entered
one after the other and left by "..". The empty list must itself be within the limit, so
`InspectionsAssumption` has `BaseCost` at most `MaxCharge` (128 bytes of 64 KiB).

*Output and commands.* `OutputInvariant` is that, until a secret is found, what is carried over
is the end of what was printed, as long as the longest shape unless the stream is shorter: a
shape that is in the stream but not in its beginning is then in the window (`ShapesAcross`), and
one in the window is in the stream. `CommandsInvariant` says what the shell has read when so many characters of so
many arguments are rendered, and how little was written for them: four bytes for a byte and
three for an argument. Both follow characters one at a time, the shell by `ReadsSteps` and the
size of a vector by `AddsUpSteps`, folds like those of the inspections. That an accepted vector
fits needs the first argument not to be empty, or limits that leave no room would let it through.

*Service.* `IngressInv` is what the mutex, the cache and the permits say of the step each
request is at (one request fetches, within its timeout; what is free and what is held add up).
The freshness of a key's answer is proved with it, since what a fetch found may be a slack
old. `StartupInv` is that a stage that was passed found no fault in what it reads, `DialInv`
what a dial has shown and compared at each step, `ShutdownInv` what each joined task ended with
and the failure and time known so far. `HistoryInv` is that what was shown is what was promised
before the cursor, that a page is the lines between it and the next cursor, and that what is
found of a page is everything recorded of it when it was asked for; it needs that a missing
value is not a number.

*Refusals.* `RefusalsCanBeCured` asks for a value, so the proof gives one: `Remedy` is, for each
variable, a token no other variable holds, another file, what is of the wanted form, or nothing.
`RemedyCures` shows part by part of the settings, their fault lists read as sets, that with it no
fault at all names the variable, in any mode and transport and whatever the others are; so the first
does not. There is one exception: an agent's token over stdio beside a `PREVIOUS_BEARER` is wanted
by the one and refused by the other. `RefusedInv`, which is inductive, therefore says that this
token is never the one that is named, since the mode or the previous token is found fault with
before it. Every refusal is covered: what the settings refuse by `RemedyCures`, `LISTEN`, which is read
before them, by `ConfigCured`. A refusal in the name of `REGISTRY` (its file is not there, is
malformed, or has two credentials of one variable) is shown to have another path that
configuration and settings let through; what that other file holds is nobody's claim. The theorem assumes of the environment only that it was read (`EnvironmentRead`: each
variable is unset or set to one of the values it is told apart by), which `StartupSpec` leaves open.

Only model-checked, and why:

* `StandingLockReleased`, `EndedSessionsDisconnected`, `SettledIsAnnounced`, `AccountingEnds`:
  liveness under fairness and `ENABLED` are out of the prover's reach.

## 5. Findings

1. `lapse_told`: `ask_with` lets go of a lapsed agreement when it asks anew, on the ground
   that the call reports the lapse. If a standing agreement then answers and the record
   refuses one of its entries, the call returns that error, and no later call can report
   the lapse.
2. `revoked_mints`: if a call under a standing agreement fails between marking the answer
   recorded and writing the `Approved` entry, the yes stays collectable. After the agreement
   is withdrawn a retry collects it, and the entry names the withdrawn agreement.
3. `stop_starts`: `stop` is documented to refuse anything that has not started yet;
   `open_session` does not ask.
4. `transcript_served`: a transcript page takes at most four related lines for each
   decision; cancellation requests are related lines too and may be repeated, so such a
   session's transcript is refused as malformed. (The range of the log service is taken to
   include its end.)

Met while modelling, without a run:

* `decision_failure` (`dashboard.rs` 2319-2346) answers "That request is no longer waiting."
  also for `MediationError::Busy`, while the request still waits.
* `stream_with_files` (`tools.rs` 1064-1106) hands a stream recognised as secret out as a
  file reference, where the comment of `StreamOut::Withheld` (`tools.rs` 233-243) says it "is
  not something this service hands to a caller".
* An exit status followed by a lost connection is told as `exited` although output may be
  missing; a call dropped before `announce` leaves its request unannounced (retries join it);
  a command that starts between the two reads of the activity page shows "Completion not
  recorded".
* The bounds of `settings.rs` are explained by a session outliving decision and collection;
  the largest idle time equals the largest life, so a request made late in a session can
  outlive it.
* `check_session_account`'s failures are answered as errors of the protocol (`tools.rs`
  431-450), where the comment of `mediation_failure` (1371-1377) says failures are of the tool
  so that a caller can read "no such session".
* A local name may equal a metrics token, and the evaluator's name its own or any other token
  (`settings.rs` 267-283, 406-420): only the two local names are compared, and with three
  surfaces' tokens. `docs/operations.md:66-67` claims no more; both names go to the record.
* `exec` can be answered that there is no such run if its run is released between the
  registration and the wait; the deadline of a dial can pass together with a host-key
  mismatch, which is then told as unreachable.

## 6. Not modelled, and what is left

* Rendering: templates, styling and overview pages of the dashboard, the wording of answers,
  the schemas of the tools. No decision of the program reads them.
* The decoding of tool calls other than `ssh_exec` and the file tools, the verdict of the policy
  (an input: the models take the verdict that keeps state) and the identity of an action.
* Metrics and the wrappers of secrets; the notifier's HTTP request; the health check; the
  list of trusted hosts; queries to the log service as text and the search of one output.
* The SSH and SFTP libraries, the log service, the gateway and the disk are external: modelled
  from what the code asks of them and the answers it handles.
