----------------------------- MODULE RunsProofs -----------------------------
(***************************************************************************)
(* Proofs about Runs for every number of runs, sessions, calls, workers    *)
(* and recorders.                                                          *)
(***************************************************************************)
EXTENDS Runs, TLAPS

-----------------------------------------------------------------------------
(* Types *)

(* Putting a run in its place registers it, and no other. *)
LEMMA UponTypes ==
    ASSUME TypeOK, NEW r \in Ids, NEW f \in Live, Upon(r, f)
    PROVE  /\ live' \in [Ids -> Live \cup {None}]
           /\ live'[r] = f
           /\ \A q \in Ids \ {r} : live'[q] = live[q]
           /\ Registered' = Registered \cup {r}
<1>1. f # None
  BY RunsAssumption
<1>2. live \in [Ids -> Live \cup {None}]
  BY DEF TypeOK
<1>. QED BY <1>1, <1>2 DEF Upon, Registered

(* What a registered run is. *)
LEMMA RegisteredLive ==
    ASSUME TypeOK, NEW r \in Registered
    PROVE  r \in Ids /\ live[r] \in Live
BY DEF TypeOK, Registered

(* The calls and the runs, when nothing is registered or forgotten. *)
LEMMA CallStepTypes ==
    ASSUME TypeOK, NEW c \in Calls, NEW k \in Call, calls' = [calls EXCEPT ![c] = k],
           k.pc # "idle" => k.session \in Sessions,
           k.pc \notin {"idle", "connecting"} => k.run \in Registered'
    PROVE  /\ calls' \in [Calls -> Call]
           /\ Registered \subseteq Registered'
              => \A d \in Calls :
                    /\ calls'[d].pc # "idle" => calls'[d].session \in Sessions
                    /\ calls'[d].pc \notin {"idle", "connecting"} => calls'[d].run \in Registered'
BY DEF TypeOK

(* Runs are registered with a session and stay registered. *)
LEMMA ReaderSteps ==
    ASSUME TypeOK, NEW r \in Ids, OnTarget(r) \/ Reader(r)
    PROVE  /\ r \in Registered
           /\ \E f \in Live : Upon(r, f) /\ f.session = live[r].session
           /\ UNCHANGED <<held, process, stopping, refusing, records, calls, rounds, cancels>>
<1>1. r \in Registered
  BY DEF OnTarget, Reader, Evidence, Declined, ChannelCloses, TransferEnds, SendExec, SignalCommand,
         TransferStopped, Announce, WatcherRecords
<1>2. live[r] \in Live
  BY <1>1, RegisteredLive
<1>3. ASSUME NEW state \in States, Settle(r, state)
      PROVE  \E f \in Live : Upon(r, f) /\ f.session = live[r].session
  <2>. DEFINE f == [live[r] EXCEPT !.state = state, !.reader = "announcing", !.began = FALSE]
  <2>1. f \in Live /\ f.session = live[r].session
    BY <1>2, <1>3 DEF Live
  <2>. QED BY <1>3, <2>1 DEF Settle
<1>4. {"ran", "did not run", "may have run", "failed to transfer"} \subseteq States
      /\ {"requested", "signalled", "transfer stopped"} \subseteq Cancellations
  BY DEF States, Cancellations
<1>5. ASSUME NEW f, Upon(r, f), \/ f = [live[r] EXCEPT !.began = TRUE]
                               \/ \E a \in {"reading", "recording", "done"} : f = [live[r] EXCEPT !.reader = a]
                               \/ \E b \in Cancellations : f = [live[r] EXCEPT !.cancellation = b]
                               \/ f = [live[r] EXCEPT !.state = "failed to transfer", !.reader = "announcing",
                                                      !.cancellation = "transfer stopped"]
      PROVE  \E g \in Live : Upon(r, g) /\ g.session = live[r].session
  <2>1. f \in Live /\ f.session = live[r].session
    BY <1>2, <1>4, <1>5 DEF Live
  <2>. QED BY <1>5, <2>1
<1>6. CASE Evidence(r)
  BY <1>1, <1>5, <1>6 DEF Evidence, recordVars
<1>7. CASE Declined(r) \/ ChannelCloses(r) \/ TransferEnds(r)
  BY <1>1, <1>3, <1>4, <1>7 DEF Declined, ChannelCloses, TransferEnds, recordVars
<1>8. CASE SendExec(r) \/ SignalCommand(r) \/ TransferStopped(r)
  BY <1>1, <1>3, <1>4, <1>5, <1>8 DEF SendExec, SignalCommand, TransferStopped, recordVars
<1>9. CASE Announce(r) \/ WatcherRecords(r)
  BY <1>1, <1>5, <1>9 DEF Announce, WatcherRecords, recordVars
<1>. QED BY <1>6, <1>7, <1>8, <1>9 DEF OnTarget, Reader

LEMMA RegisterSteps ==
    ASSUME TypeOK, NEW c \in Calls, NEW r \in Ids, NEW reader \in {"sending", "working"},
           Register(c, r, reader)
    PROVE  /\ r \notin Registered
           /\ Launched(calls[c].session, reader) \in Live
           /\ Upon(r, Launched(calls[c].session, reader))
BY DEF Register, TypeOK, Registered, At, Launched, Live, States, Cancellations

LEMMA LiveTypes ==
    ASSUME TypeOK, [Next]_vars
    PROVE  /\ live' \in [Ids -> Live \cup {None}]
           /\ Registered \subseteq Registered'
<1>1. ASSUME UNCHANGED live
      PROVE  live' \in [Ids -> Live \cup {None}] /\ Registered \subseteq Registered'
  BY <1>1 DEF TypeOK, Registered
<1>2. ASSUME NEW r \in Ids, NEW f \in Live, Upon(r, f)
      PROVE  live' \in [Ids -> Live \cup {None}] /\ Registered \subseteq Registered'
  BY <1>2, UponTypes
<1>3. ASSUME NEW r \in Ids, OnTarget(r) \/ Reader(r)
      PROVE  \E f \in Live : Upon(r, f)
  BY <1>3, ReaderSteps
<1>4. ASSUME NEW c \in Calls, Starting(c) \/ OnWorker(c)
      PROVE  UNCHANGED live \/ \E r \in Ids, f \in Live : Upon(r, f)
  <2>1. ASSUME NEW r \in Ids, NEW reader \in {"sending", "working"}, Register(c, r, reader)
        PROVE  \E f \in Live : Upon(r, f)
    BY <2>1, RegisterSteps
  <2>2. CASE CancelSignals(c)
    <3>1. CASE UNCHANGED live
      BY <3>1
    <3>2. CASE Upon(calls[c].run, [live[calls[c].run] EXCEPT !.cancellation = "requested"])
      <4>1. calls[c].run \in Ids /\ live[calls[c].run] \in Live
        BY <2>2, RegisteredLive DEF CancelSignals, At, TypeOK
      <4>2. [live[calls[c].run] EXCEPT !.cancellation = "requested"] \in Live
        BY <4>1 DEF Live, Cancellations
      <4>. QED BY <3>2, <4>1, <4>2
    <3>. QED BY <2>2, <3>1, <3>2 DEF CancelSignals
  <2>3. ASSUME NEW s \in Sessions, Admit(c, s) \/ \E r \in Ids : Poll(c, s, r) \/ Cancel(c, s, r)
        PROVE  UNCHANGED live
    BY <2>3 DEF Admit, Poll, Cancel, storeVars
  <2>4. CASE FindRun(c) \/ WaitSettles(c) \/ CallEnds(c) \/ TakeWorker(c) \/ CallRecords(c)
             \/ FetchOutcome(c) \/ CallReleases(c) \/ CancelRecords(c)
    BY <2>4 DEF FindRun, WaitSettles, CallEnds, TakeWorker, CallRecords, FetchOutcome, CallReleases,
                CancelRecords, storeVars
  <2>. QED BY <1>4, <2>1, <2>2, <2>3, <2>4 DEF Starting, OnWorker
<1>5. ASSUME NEW k \in Keepers, RoundBegins(k) \/ Keeper(k) PROVE UNCHANGED live
  BY <1>5 DEF RoundBegins, Keeper, RoundChooses, RoundRecords, RoundReleases, RoundEnds, storeVars
<1>6. CASE (\E s \in Sessions : SessionEnds(s)) \/ Stop \/ Ending \/ GiveUp \/ Exited \/ UNCHANGED vars
  BY <1>1, <1>6 DEF SessionEnds, Stop, Ending, StopRuns, Drained, RoundPutOff, Look, GiveUp, Exited, vars, storeVars
<1>. QED BY <1>1, <1>2, <1>3, <1>4, <1>5, <1>6 DEF Next

(* What a call carries. *)
CallFits(k) ==
    /\ k \in Call
    /\ k.pc # "idle" => k.session \in Sessions
    /\ k.pc \notin {"idle", "connecting"} => k.run \in Registered

LEMMA CallChanges ==
    ASSUME TypeOK, NEW c \in Calls, Starting(c) \/ OnWorker(c)
    PROVE  \/ \E k \in Call : calls' = [calls EXCEPT ![c] = k] /\ CallFits(k)
           \/ \E r \in Ids, reader \in {"sending", "working"} : Register(c, r, reader)
<1>1. calls \in [Calls -> Call] /\ CallFits(calls[c]) /\ CallFits(Idle) /\ records \subseteq Registered
      /\ Registered \subseteq Ids
  BY DEF TypeOK, CallFits, Idle, Call, Registered
<1>2. ASSUME NEW s \in Sessions, Admit(c, s) \/ \E r \in Ids : Poll(c, s, r) \/ Cancel(c, s, r)
      PROVE  \E k \in Call : calls' = [calls EXCEPT ![c] = k] /\ CallFits(k)
  <2>1. CASE Admit(c, s)
    <3>. DEFINE k == [Idle EXCEPT !.pc = "connecting", !.session = s]
    <3>1. k \in Call /\ CallFits(k)
      BY DEF Idle, Call, CallFits
    <3>. QED BY <2>1, <3>1 DEF Admit
  <2>2. ASSUME NEW r \in Ids, Poll(c, s, r) \/ Cancel(c, s, r)
        PROVE  \E k \in Call : calls' = [calls EXCEPT ![c] = k] /\ CallFits(k)
    <3>1. r \in Registered
      BY <1>1, <2>2 DEF Poll, Cancel, BelongsTo
    <3>2. ASSUME NEW pc \in {"finding", "cancelling"}
          PROVE  [pc |-> pc, session |-> s, run |-> r] \in Call /\ CallFits([pc |-> pc, session |-> s, run |-> r])
      BY <3>1, <3>2 DEF Call, CallFits
    <3>. QED BY <2>2, <3>2 DEF Poll, Cancel
  <2>. QED BY <1>2, <2>1, <2>2
<1>3. CASE CallEnds(c) \/ CallReleases(c) \/ CancelSignals(c)
  BY <1>1, <1>3 DEF CallEnds, CallReleases, CancelSignals, Return, CallFits
<1>4. ASSUME NEW pc \in {"waiting", "accounting", "recording", "fetching", "releasing", "signalling"},
             Goto(c, pc), calls[c].pc \notin {"idle", "connecting"}
      PROVE  \E k \in Call : calls' = [calls EXCEPT ![c] = k] /\ CallFits(k)
  <2>. DEFINE k == [calls[c] EXCEPT !.pc = pc]
  <2>1. k \in Call /\ CallFits(k)
    BY <1>1, <1>4 DEF Call, CallFits
  <2>2. calls' = [calls EXCEPT ![c] = k]
    BY <1>1, <1>4 DEF Goto
  <2>. QED BY <2>1, <2>2
<1>5. CASE FindRun(c) \/ WaitSettles(c) \/ TakeWorker(c) \/ FetchOutcome(c)
  BY <1>4, <1>5 DEF FindRun, WaitSettles, TakeWorker, FetchOutcome, At
<1>6. CASE CallRecords(c) \/ CancelRecords(c)
  BY <1>1, <1>4, <1>6 DEF CallRecords, CancelRecords, At, Return, CallFits
<1>. QED BY <1>2, <1>3, <1>5, <1>6 DEF Starting, OnWorker

LEMMA CallTypes ==
    ASSUME TypeOK, [Next]_vars
    PROVE  /\ calls' \in [Calls -> Call]
           /\ \A c \in Calls : CallFits(calls[c])'
<1>0. /\ Registered \subseteq Registered'
      /\ calls \in [Calls -> Call] /\ \A c \in Calls : CallFits(calls[c])
  BY LiveTypes DEF TypeOK, CallFits
<1>1. CASE UNCHANGED calls
  BY <1>0, <1>1 DEF CallFits
<1>2. ASSUME NEW c \in Calls, NEW k \in Call, calls' = [calls EXCEPT ![c] = k], CallFits(k)
      PROVE  calls' \in [Calls -> Call] /\ \A d \in Calls : CallFits(calls[d])'
  BY <1>0, <1>2 DEF CallFits
<1>3. ASSUME NEW c \in Calls, NEW r \in Ids, NEW reader \in {"sending", "working"}, Register(c, r, reader)
      PROVE  calls' \in [Calls -> Call] /\ \A d \in Calls : CallFits(calls[d])'
  <2>. DEFINE k == [calls[c] EXCEPT !.pc = "finding", !.run = r]
  <2>1. calls' = [calls EXCEPT ![c] = k]
    BY <1>0, <1>3 DEF Register
  <2>2. r \in Registered'
    BY <1>3, RegisterSteps, UponTypes
  <2>3. k \in Call /\ k.session \in Sessions /\ k.run = r
    BY <1>0, <1>3 DEF Register, At, Call, CallFits
  <2>. QED BY <1>0, <2>1, <2>2, <2>3 DEF CallFits
<1>4. ASSUME NEW c \in Calls, Starting(c) \/ OnWorker(c)
      PROVE  calls' \in [Calls -> Call] /\ \A d \in Calls : CallFits(calls[d])'
  BY <1>2, <1>3, <1>4, CallChanges
<1>5. ASSUME NEW r \in Ids, OnTarget(r) \/ Reader(r) PROVE UNCHANGED calls
  BY <1>5, ReaderSteps
<1>6. ASSUME NEW k \in Keepers, RoundBegins(k) \/ Keeper(k) PROVE UNCHANGED calls
  BY <1>6 DEF RoundBegins, Keeper, RoundChooses, RoundRecords, RoundReleases, RoundEnds
<1>7. CASE (\E s \in Sessions : SessionEnds(s)) \/ Stop \/ Ending \/ GiveUp \/ Exited \/ UNCHANGED vars
  BY <1>1, <1>7 DEF SessionEnds, Stop, Ending, StopRuns, Drained, RoundPutOff, Look, GiveUp, Exited, vars
<1>. QED BY <1>1, <1>4, <1>5, <1>6, <1>7 DEF Next

(* What a round carries. *)
RoundFits(k) ==
    /\ k \in Round
    /\ k.todo \subseteq Registered
    /\ k.pc \in {"recording", "releasing"} => k.run \in Registered

LEMMA RoundChanges ==
    ASSUME TypeOK, NEW k \in Keepers, RoundBegins(k) \/ Keeper(k)
    PROVE  \E m \in Round : rounds' = [rounds EXCEPT ![k] = m] /\ RoundFits(m)
<1>1. rounds \in [Keepers -> Round] /\ RoundFits(rounds[k]) /\ RoundFits(Resting) /\ records \subseteq Registered
      /\ Registered \subseteq Ids
  BY DEF TypeOK, RoundFits, Resting, Round, Registered
<1>2. CASE RoundBegins(k)
  <2>. DEFINE m == [Resting EXCEPT !.pc = "choosing", !.todo = records]
  <2>1. m \in Round /\ RoundFits(m)
    BY <1>1 DEF Round, RoundFits, Resting
  <2>. QED BY <1>2, <2>1 DEF RoundBegins, Round_
<1>3. CASE RoundChooses(k)
  <2>1. PICK r \in rounds[k].todo :
          Round_(k, IF r \in records /\ ~Running(r)
                    THEN [pc |-> "recording", todo |-> rounds[k].todo \ {r}, run |-> r]
                    ELSE [rounds[k] EXCEPT !.todo = @ \ {r}])
    BY <1>3 DEF RoundChooses
  <2>2. [pc |-> "recording", todo |-> rounds[k].todo \ {r}, run |-> r] \in Round
        /\ RoundFits([pc |-> "recording", todo |-> rounds[k].todo \ {r}, run |-> r])
    BY <1>1 DEF Round, RoundFits
  <2>3. [rounds[k] EXCEPT !.todo = @ \ {r}] \in Round /\ RoundFits([rounds[k] EXCEPT !.todo = @ \ {r}])
    BY <1>1 DEF Round, RoundFits
  <2>. QED BY <2>1, <2>2, <2>3 DEF Round_
<1>4. CASE RoundRecords(k) \/ RoundReleases(k)
  <2>1. [rounds[k] EXCEPT !.pc = "choosing", !.run = None] \in Round
        /\ RoundFits([rounds[k] EXCEPT !.pc = "choosing", !.run = None])
    BY <1>1 DEF Round, RoundFits
  <2>2. rounds[k].pc = "recording" => /\ [rounds[k] EXCEPT !.pc = "releasing"] \in Round
                                      /\ RoundFits([rounds[k] EXCEPT !.pc = "releasing"])
    BY <1>1 DEF Round, RoundFits
  <2>. QED BY <1>4, <2>1, <2>2 DEF RoundRecords, RoundReleases, Round_
<1>5. CASE RoundEnds(k)
  BY <1>1, <1>5 DEF RoundEnds, Round_, RoundFits
<1>. QED BY <1>2, <1>3, <1>4, <1>5 DEF Keeper

LEMMA RoundTypes ==
    ASSUME TypeOK, [Next]_vars
    PROVE  /\ rounds' \in [Keepers -> Round]
           /\ \A k \in Keepers : RoundFits(rounds[k])'
<1>0. /\ Registered \subseteq Registered'
      /\ rounds \in [Keepers -> Round] /\ \A k \in Keepers : RoundFits(rounds[k])
  BY LiveTypes DEF TypeOK, RoundFits
<1>1. CASE UNCHANGED rounds
  BY <1>0, <1>1 DEF RoundFits
<1>2. ASSUME NEW k \in Keepers, NEW m \in Round, rounds' = [rounds EXCEPT ![k] = m], RoundFits(m)
      PROVE  rounds' \in [Keepers -> Round] /\ \A d \in Keepers : RoundFits(rounds[d])'
  BY <1>0, <1>2 DEF RoundFits
<1>3. ASSUME NEW k \in Keepers, RoundBegins(k) \/ Keeper(k)
      PROVE  rounds' \in [Keepers -> Round] /\ \A d \in Keepers : RoundFits(rounds[d])'
  BY <1>2, <1>3, RoundChanges
<1>4. ASSUME NEW c \in Calls, Starting(c) \/ OnWorker(c) PROVE UNCHANGED rounds
  BY <1>4 DEF Starting, OnWorker, Admit, Poll, Cancel, Register, FindRun, WaitSettles, CallEnds, TakeWorker,
              CallRecords, FetchOutcome, CallReleases, CancelRecords, CancelSignals
<1>5. ASSUME NEW r \in Ids, OnTarget(r) \/ Reader(r) PROVE UNCHANGED rounds
  BY <1>5, ReaderSteps
<1>6. CASE (\E s \in Sessions : SessionEnds(s)) \/ Stop \/ Ending \/ GiveUp \/ Exited \/ UNCHANGED vars
  BY <1>1, <1>6 DEF SessionEnds, Stop, Ending, StopRuns, Drained, RoundPutOff, Look, GiveUp, Exited, vars
<1>. QED BY <1>1, <1>3, <1>4, <1>5, <1>6 DEF Next

LEMMA StoreTypes ==
    ASSUME TypeOK, [Next]_vars
    PROVE  /\ records' \subseteq Registered'
           /\ reading' \subseteq Ids /\ completed' \in [Ids -> Nat]
           /\ cancels' \subseteq Ids /\ named' \subseteq Ids
<1>. DEFINE Fine == /\ records' \subseteq Registered'
                    /\ reading' \subseteq Ids /\ completed' \in [Ids -> Nat]
                    /\ cancels' \subseteq Ids /\ named' \subseteq Ids
<1>0. /\ records \subseteq Registered /\ Registered \subseteq Registered'
      /\ reading \subseteq Ids /\ completed \in [Ids -> Nat]
      /\ cancels \subseteq Ids /\ named \subseteq Ids
  BY LiveTypes DEF TypeOK
<1>1. ASSUME records' \subseteq records, reading' \subseteq reading, completed' \in [Ids -> Nat],
             cancels' \subseteq Ids, named' \subseteq Ids
      PROVE  Fine
  BY <1>0, <1>1
<1>2. ASSUME NEW r \in Ids, Written(r) \/ AlreadyCompleted(r) \/ NotWritten(r)
      PROVE  completed' \in [Ids -> Nat]
  BY <1>0, <1>2 DEF Written, AlreadyCompleted, NotWritten
<1>3. ASSUME NEW c \in Calls, Starting(c) \/ OnWorker(c) PROVE Fine
  <2>0. CallFits(calls[c])
    BY DEF TypeOK, CallFits
  <2>1. ASSUME NEW r \in Ids, NEW reader \in {"sending", "working"}, Register(c, r, reader) PROVE Fine
    <3>1. r \in Registered'
      BY <2>1, RegisterSteps, UponTypes
    <3>. QED BY <1>0, <2>1, <3>1 DEF Register, recordVars
  <2>2. CASE CallRecords(c)
    <3>1. calls[c].run \in Ids
      BY <2>0, <2>2 DEF CallRecords, At, CallFits, Registered
    <3>. QED BY <1>0, <1>1, <1>2, <2>2, <3>1 DEF CallRecords, storeVars
  <2>3. CASE CancelRecords(c)
    <3>1. calls[c].run \in Ids
      BY <2>0, <2>3 DEF CancelRecords, At, CallFits, Registered
    <3>. QED BY <1>0, <1>1, <2>3, <3>1 DEF CancelRecords, storeVars
  <2>4. CASE CallReleases(c)
    BY <1>0, <1>1, <2>4 DEF CallReleases, Forget, recordVars
  <2>5. ASSUME NEW s \in Sessions, Admit(c, s) \/ \E r \in Ids : Poll(c, s, r) \/ Cancel(c, s, r) PROVE Fine
    BY <1>0, <1>1, <2>5 DEF Admit, Poll, Cancel, storeVars, recordVars
  <2>6. CASE FindRun(c) \/ WaitSettles(c) \/ CallEnds(c) \/ TakeWorker(c) \/ FetchOutcome(c) \/ CancelSignals(c)
    BY <1>0, <1>1, <2>6 DEF FindRun, WaitSettles, CallEnds, TakeWorker, FetchOutcome, CancelSignals, storeVars, recordVars
  <2>. QED BY <1>3, <2>1, <2>2, <2>3, <2>4, <2>5, <2>6 DEF Starting, OnWorker
<1>4. ASSUME NEW r \in Ids, OnTarget(r) \/ Reader(r) PROVE Fine
  <2>1. CASE WatcherRecords(r)
    BY <1>0, <1>1, <1>2, <2>1 DEF WatcherRecords
  <2>2. CASE OnTarget(r) \/ SendExec(r) \/ SignalCommand(r) \/ TransferStopped(r) \/ Announce(r)
    BY <1>0, <1>1, <2>2 DEF OnTarget, Evidence, Declined, ChannelCloses, TransferEnds, SendExec,
                            SignalCommand, TransferStopped, Announce, recordVars
  <2>. QED BY <1>4, <2>1, <2>2 DEF Reader
<1>5. ASSUME NEW k \in Keepers, RoundBegins(k) \/ Keeper(k) PROVE Fine
  <2>1. CASE RoundRecords(k)
    <3>1. rounds[k].run \in Ids
      BY <2>1 DEF RoundRecords, TypeOK, Registered
    <3>. QED BY <1>0, <1>1, <1>2, <2>1, <3>1 DEF RoundRecords, storeVars
  <2>2. CASE RoundReleases(k)
    BY <1>0, <1>1, <2>2 DEF RoundReleases, Forget, recordVars
  <2>3. CASE RoundBegins(k) \/ RoundChooses(k) \/ RoundEnds(k)
    BY <1>0, <1>1, <2>3 DEF RoundBegins, RoundChooses, RoundEnds, storeVars, recordVars
  <2>. QED BY <1>5, <2>1, <2>2, <2>3 DEF Keeper
<1>6. CASE GiveUp
  BY <1>0, <1>1, <1>6 DEF GiveUp, storeVars, recordVars
<1>7. CASE (\E s \in Sessions : SessionEnds(s)) \/ Stop \/ Ending \/ Exited \/ UNCHANGED vars
  BY <1>0, <1>1, <1>7 DEF SessionEnds, Stop, Ending, StopRuns, Drained, RoundPutOff, Look, Exited, vars, storeVars, recordVars
<1>. QED BY <1>3, <1>4, <1>5, <1>6, <1>7 DEF Next

LEMMA ProcessTypes ==
    ASSUME TypeOK, [Next]_vars
    PROVE  /\ held' \subseteq held
           /\ process' \in {"serving", "stopping", "draining", "settling", "looking", "exited"}
           /\ stopping' \in BOOLEAN /\ refusing' \in BOOLEAN
<1>1. ASSUME NEW c \in Calls, Starting(c) \/ OnWorker(c) PROVE UNCHANGED <<held, process, stopping, refusing>>
  BY <1>1 DEF Starting, OnWorker, Admit, Poll, Cancel, Register, FindRun, WaitSettles, CallEnds, TakeWorker,
              CallRecords, FetchOutcome, CallReleases, CancelRecords, CancelSignals, storeVars
<1>2. ASSUME NEW r \in Ids, OnTarget(r) \/ Reader(r) PROVE UNCHANGED <<held, process, stopping, refusing>>
  BY <1>2, ReaderSteps
<1>3. ASSUME NEW k \in Keepers, RoundBegins(k) \/ Keeper(k)
      PROVE  UNCHANGED <<held, stopping, refusing>> /\ process' \in {process, "looking"}
  BY <1>3 DEF RoundBegins, Keeper, RoundChooses, RoundRecords, RoundReleases, RoundEnds, storeVars
<1>4. CASE (\E s \in Sessions : SessionEnds(s)) \/ Stop \/ Ending \/ GiveUp \/ Exited \/ UNCHANGED vars
  BY <1>4 DEF SessionEnds, Stop, Ending, StopRuns, Drained, RoundPutOff, Look, GiveUp, Exited, vars, storeVars, TypeOK
<1>. QED BY <1>1, <1>2, <1>3, <1>4 DEF Next, TypeOK

LEMMA TypeStep == TypeOK /\ [Next]_vars => TypeOK'
<1>. SUFFICES ASSUME TypeOK, [Next]_vars PROVE TypeOK'
  OBVIOUS
<1>1. held' \subseteq Sessions
  BY ProcessTypes DEF TypeOK
<1>. QED BY <1>1, ProcessTypes, LiveTypes, StoreTypes, CallTypes, RoundTypes DEF TypeOK, CallFits, RoundFits

(* Every variable of the run store, of the calls and rounds and of the record keeps
   its type, and a task carries what its next step reads (TypeOK). *)
THEOREM RunsTypeInvariant == Spec => []TypeOK
<1>1. ASSUME Init PROVE TypeOK
  <2>1. live \in [Ids -> Live \cup {None}] /\ completed \in [Ids -> Nat]
    BY <1>1 DEF Init
  <2>2. calls \in [Calls -> Call] /\ \A c \in Calls : calls[c].pc = "idle"
    BY <1>1 DEF Init, Call, Idle
  <2>3. rounds \in [Keepers -> Round] /\ \A k \in Keepers : rounds[k].pc = "idle" /\ rounds[k].todo = {}
    BY <1>1 DEF Init, Round, Resting
  <2>4. /\ held \subseteq Sessions /\ process = "serving" /\ stopping \in BOOLEAN /\ refusing \in BOOLEAN
        /\ records = {} /\ reading = {} /\ cancels = {} /\ named = {}
    BY <1>1 DEF Init
  <2>. QED BY <2>1, <2>2, <2>3, <2>4 DEF TypeOK
<1>. QED BY <1>1, TypeStep, PTL DEF Spec

-----------------------------------------------------------------------------
(* Accounting *)

(* Of a registered run: its reader follows it until it has settled, and is listed
   until it has tried to have the completion recorded. *)
RunFits(r) ==
    /\ Running(r) <=> live[r].reader \in {"sending", "reading", "working"}
    /\ r \in reading <=> live[r].reader # "done"
    /\ completed[r] \in {0, 1}
    /\ completed[r] = 1 => ~Running(r)
    /\ completed[r] = 0 => r \in records /\ (r \in reading \/ r \in named)
    /\ live[r].cancellation # "not requested" => r \in cancels

(* What a task has found out about the run it works for stays so. *)
CallKnows(c) ==
    /\ calls[c].pc \in {"accounting", "recording"} => ~Running(calls[c].run)
    /\ calls[c].pc \in {"fetching", "releasing"} => completed[calls[c].run] = 1
    /\ calls[c].pc = "signalling" => calls[c].run \in cancels

RoundKnows(k) ==
    /\ rounds[k].pc = "recording" => ~Running(rounds[k].run)
    /\ rounds[k].pc = "releasing" => completed[rounds[k].run] = 1

AccountingInv ==
    /\ \A r \in Registered : RunFits(r)
    /\ \A r \in Ids \ Registered : completed[r] = 0 /\ r \notin reading
    /\ \A c \in Calls : CallKnows(c)
    /\ \A k \in Keepers : RoundKnows(k)

(* The part of the invariant that is about the runs, after a step, and that what is
   known of them stays so. *)
RunsFit ==
    /\ \A r \in Registered' : RunFits(r)'
    /\ \A r \in Ids \ Registered' : completed'[r] = 0 /\ r \notin reading'
    /\ \A r \in Registered : /\ ~Running(r) => ~Running(r)'
                             /\ completed[r] = 1 => completed'[r] = 1
    /\ cancels \subseteq cancels'

(* A step that changes nothing of the runs. *)
LEMMA SameRuns ==
    ASSUME TypeOK, AccountingInv, UNCHANGED <<live, reading, completed, records>>,
           cancels \subseteq cancels', named \subseteq named'
    PROVE  RunsFit
<1>1. Registered' = Registered
  BY DEF Registered
<1>2. \A r \in Registered : RunFits(r)'
  BY DEF AccountingInv, RunFits, Running
<1>. QED BY <1>1, <1>2 DEF RunsFit, AccountingInv, Running

(* The completion of a settled run is written, or there already. *)
LEMMA CompletionFits ==
    ASSUME TypeOK, AccountingInv, NEW r \in Registered, ~Running(r),
           Written(r) \/ AlreadyCompleted(r) \/ NotWritten(r),
           UNCHANGED <<live, reading, records, cancels, named>>
    PROVE  RunsFit /\ (Written(r) \/ AlreadyCompleted(r) => completed'[r] = 1)
<1>0. Registered' = Registered /\ completed \in [Ids -> Nat] /\ r \in Ids /\ completed[r] \in {0, 1}
  BY DEF Registered, TypeOK, AccountingInv, RunFits
<1>1. /\ completed'[r] \in {completed[r], 1} /\ \A q \in Ids \ {r} : completed'[q] = completed[q]
      /\ Written(r) \/ AlreadyCompleted(r) => completed'[r] = 1
  BY <1>0 DEF Written, AlreadyCompleted, NotWritten
<1>2. \A q \in Registered : RunFits(q)'
  BY <1>0, <1>1 DEF AccountingInv, RunFits, Running, Registered
<1>. QED BY <1>0, <1>1, <1>2 DEF RunsFit, AccountingInv, Running, Registered

(* A run is let go of once its completion is written. *)
LEMMA ForgetFits ==
    ASSUME TypeOK, AccountingInv, NEW r, completed[r] = 1, Forget(r) \/ UNCHANGED records,
           UNCHANGED <<live, reading, completed, cancels, named>>
    PROVE  RunsFit
<1>1. Registered' = Registered
  BY DEF Registered
<1>2. \A q \in Registered : completed[q] = 0 /\ q \in records => q \in records'
  BY DEF Forget
<1>3. \A q \in Registered : RunFits(q)'
  BY <1>2 DEF AccountingInv, RunFits, Running
<1>. QED BY <1>1, <1>3 DEF RunsFit, AccountingInv, Running

(* The reader of a run moves on. *)
LEMMA ReaderFits ==
    ASSUME TypeOK, AccountingInv, NEW r \in Ids, NEW f \in Live, Upon(r, f), r \in Registered,
           f.state = "is running" <=> f.reader \in {"sending", "reading", "working"},
           ~Running(r) => f.state # "is running",
           f.reader # "done" <=> live[r].reader # "done",
           f.cancellation # "not requested" => r \in cancels,
           UNCHANGED <<records, reading, completed, cancels, named>>
    PROVE  RunsFit
<1>0. Registered' = Registered \cup {r} /\ live'[r] = f /\ \A q \in Ids \ {r} : live'[q] = live[q]
  BY UponTypes
<1>1. live'[r] = f /\ (\A q \in Ids \ {r} : live'[q] = live[q]) /\ Registered' = Registered
  BY <1>0
<1>2. RunFits(r)'
  BY <1>1 DEF AccountingInv, RunFits, Running
<1>3. ASSUME NEW q \in Registered, q # r PROVE RunFits(q)'
  BY <1>1, <1>3 DEF AccountingInv, RunFits, Running, Registered
<1>4. \A q \in Registered : ~Running(q) => ~Running(q)'
  BY <1>1 DEF Running, Registered
<1>5. \A q \in Registered' : RunFits(q)'
  BY <1>1, <1>2, <1>3
<1>6. \A q \in Ids \ Registered' : completed'[q] = 0 /\ q \notin reading'
  BY <1>1 DEF AccountingInv
<1>. QED BY <1>4, <1>5, <1>6 DEF RunsFit

LEMMA RegisterFits ==
    ASSUME TypeOK, AccountingInv, NEW c \in Calls, NEW r \in Ids, NEW reader \in {"sending", "working"},
           Register(c, r, reader)
    PROVE  RunsFit
<1>0. r \notin Registered /\ Launched(calls[c].session, reader) \in Live
      /\ Upon(r, Launched(calls[c].session, reader))
  BY RegisterSteps
<1>. DEFINE f == Launched(calls[c].session, reader)
<1>. HIDE DEF f
<1>1. live'[r] = f /\ (\A q \in Ids \ {r} : live'[q] = live[q]) /\ Registered' = Registered \cup {r}
  BY <1>0, UponTypes DEF f
<1>2. records' = records \cup {r} /\ reading' = reading \cup {r} /\ UNCHANGED <<completed, cancels, named>>
  BY DEF Register, recordVars
<1>3. RunFits(r)'
  <2>1. f.state = "is running" /\ f.reader \in {"sending", "working"} /\ f.cancellation = "not requested"
    BY DEF f, Launched
  <2>2. completed'[r] = 0 /\ r \in records' /\ r \in reading'
    BY <1>0, <1>2 DEF AccountingInv
  <2>3. live'[r].state = "is running" /\ live'[r].reader \in {"sending", "working"}
        /\ live'[r].cancellation = "not requested"
    BY <1>1, <2>1
  <2>4. Running(r)'
    BY <2>3 DEF Running
  <2>5. completed'[r] # 1
    BY <2>2
  <2>6. live'[r].reader # "done"
    BY <2>3
  <2>. QED BY <2>2, <2>3, <2>4, <2>5, <2>6 DEF RunFits
<1>4. ASSUME NEW q \in Registered PROVE RunFits(q)' /\ (~Running(q) => ~Running(q)')
  BY <1>0, <1>1, <1>2, <1>4 DEF AccountingInv, RunFits, Running, Registered
<1>5. \A q \in Ids \ Registered' : completed'[q] = 0 /\ q \notin reading'
  BY <1>1, <1>2 DEF AccountingInv
<1>. QED BY <1>1, <1>2, <1>3, <1>4, <1>5 DEF RunsFit

LEMMA CallRunsFit ==
    ASSUME TypeOK, AccountingInv, NEW c \in Calls, Starting(c) \/ OnWorker(c)
    PROVE  RunsFit
<1>0. CallKnows(c) /\ (calls[c].pc \notin {"idle", "connecting"} => calls[c].run \in Registered)
  BY DEF AccountingInv, TypeOK
<1>1. ASSUME NEW r \in Ids, NEW reader \in {"sending", "working"}, Register(c, r, reader) PROVE RunsFit
  BY <1>1, RegisterFits
<1>2. CASE CallRecords(c)
  BY <1>0, <1>2, CompletionFits DEF CallRecords, At, CallKnows, storeVars
<1>3. CASE CancelRecords(c)
  BY <1>3, SameRuns DEF CancelRecords, storeVars
<1>4. CASE CallReleases(c)
  BY <1>0, <1>4, ForgetFits DEF CallReleases, At, CallKnows, recordVars
<1>5. CASE CancelSignals(c)
  <2>1. CASE UNCHANGED live
    BY <1>5, <2>1, SameRuns DEF CancelSignals, recordVars
  <2>2. CASE live' # live
    <3>. DEFINE r == calls[c].run
                f == [live[r] EXCEPT !.cancellation = "requested"]
    <3>1. r \in Registered /\ r \in cancels /\ r \in Ids /\ live[r] \in Live
      BY <1>0, <1>5, RegisteredLive DEF CancelSignals, At, CallKnows
    <3>2. Upon(r, f) /\ f \in Live /\ f.state = live[r].state /\ f.reader = live[r].reader
      BY <1>5, <2>2, <3>1 DEF CancelSignals, Live, Cancellations
    <3>3. RunFits(r)
      BY <3>1 DEF AccountingInv
    <3>. HIDE DEF r, f
    <3>. QED BY <1>5, <3>1, <3>2, <3>3, ReaderFits DEF CancelSignals, RunFits, Running, recordVars
  <2>. QED BY <2>1, <2>2
<1>6. ASSUME NEW s \in Sessions, Admit(c, s) \/ \E r \in Ids : Poll(c, s, r) \/ Cancel(c, s, r) PROVE RunsFit
  BY <1>6, SameRuns DEF Admit, Poll, Cancel, storeVars, recordVars
<1>7. CASE FindRun(c) \/ WaitSettles(c) \/ CallEnds(c) \/ TakeWorker(c) \/ FetchOutcome(c)
  BY <1>7, SameRuns DEF FindRun, WaitSettles, CallEnds, TakeWorker, FetchOutcome, storeVars, recordVars
<1>. QED BY <1>1, <1>2, <1>3, <1>4, <1>5, <1>6, <1>7 DEF Starting, OnWorker

(* The reader leaves the list only here, with the completion written or the run named. *)
LEMMA WatcherFits ==
    ASSUME TypeOK, AccountingInv, NEW r \in Ids, WatcherRecords(r)
    PROVE  RunsFit
<1>0. r \in Registered /\ live[r] \in Live /\ live[r].reader = "recording" /\ RunFits(r)
  BY RegisteredLive DEF WatcherRecords, AccountingInv
<1>. DEFINE f == [live[r] EXCEPT !.reader = "done"]
<1>1. f \in Live /\ Upon(r, f) /\ f.reader = "done" /\ f.state = live[r].state /\ f.cancellation = live[r].cancellation
  BY <1>0 DEF WatcherRecords, Live
<1>. HIDE DEF f
<1>2. live'[r] = f /\ (\A q \in Ids \ {r} : live'[q] = live[q]) /\ Registered' = Registered \cup {r}
  BY <1>1, UponTypes
<1>3. /\ completed'[r] \in {completed[r], 1} /\ completed[r] \in {0, 1}
      /\ \A q \in Ids \ {r} : completed'[q] = completed[q]
      /\ completed'[r] = 0 => r \in named'
      /\ named \subseteq named' /\ reading' = reading \ {r} /\ UNCHANGED <<records, cancels>>
  <2>1. completed[r] \in {0, 1} /\ completed \in [Ids -> Nat]
    BY <1>0 DEF RunFits, TypeOK
  <2>2. named \subseteq named' /\ reading' = reading \ {r} /\ UNCHANGED <<records, cancels>>
    BY DEF WatcherRecords
  <2>3. CASE Written(r) \/ AlreadyCompleted(r)
    BY <2>1, <2>2, <2>3 DEF Written, AlreadyCompleted
  <2>4. CASE NotWritten(r) /\ named' = named \cup {r}
    BY <2>1, <2>2, <2>4 DEF NotWritten
  <2>. QED BY <2>3, <2>4 DEF WatcherRecords
<1>4. RunFits(r)'
  BY <1>0, <1>1, <1>2, <1>3 DEF RunFits, Running
<1>5. ASSUME NEW q \in Registered, q # r PROVE RunFits(q)' /\ (~Running(q) => ~Running(q)')
  BY <1>2, <1>3, <1>5 DEF AccountingInv, RunFits, Running, Registered
<1>6. ~Running(r) => ~Running(r)'
  BY <1>1, <1>2 DEF Running
<1>7. \A q \in Ids \ Registered' : completed'[q] = 0 /\ q \notin reading'
  BY <1>0, <1>2, <1>3 DEF AccountingInv
<1>8. \A q \in Registered : completed[q] = 1 => completed'[q] = 1
  BY <1>0, <1>3 DEF Registered
<1>9. \A q \in Registered' : RunFits(q)'
  BY <1>0, <1>2, <1>4, <1>5
<1>. QED BY <1>3, <1>5, <1>6, <1>7, <1>8, <1>9 DEF RunsFit

LEMMA ReaderRunsFit ==
    ASSUME TypeOK, AccountingInv, NEW r \in Ids, OnTarget(r) \/ Reader(r)
    PROVE  RunsFit
<1>0. r \in Registered /\ RunFits(r) /\ live[r] \in Live
  BY ReaderSteps, RegisteredLive DEF AccountingInv
<1>1. ASSUME NEW state \in States \ {"is running"}, Settle(r, state),
             live[r].reader \in {"sending", "reading", "working"},
             UNCHANGED <<records, reading, completed, cancels, named>>
      PROVE  RunsFit
  <2>. DEFINE f == [live[r] EXCEPT !.state = state, !.reader = "announcing", !.began = FALSE]
  <2>1. /\ f \in Live /\ Upon(r, f) /\ f.reader = "announcing" /\ f.state = state
        /\ f.cancellation = live[r].cancellation
    BY <1>0, <1>1 DEF Live, Settle
  <2>. HIDE DEF f
  <2>. QED BY <1>0, <1>1, <2>1, ReaderFits DEF RunFits
<1>2. CASE Evidence(r) \/ Declined(r) \/ ChannelCloses(r) \/ TransferEnds(r)
  <2>1. CASE Evidence(r)
    <3>. DEFINE f == [live[r] EXCEPT !.began = TRUE]
    <3>1. /\ f \in Live /\ Upon(r, f) /\ f.reader = live[r].reader /\ f.state = live[r].state
          /\ f.cancellation = live[r].cancellation
      BY <1>0, <2>1 DEF Live, Evidence
    <3>. HIDE DEF f
    <3>. QED BY <1>0, <2>1, <3>1, ReaderFits DEF RunFits, Running, Evidence, recordVars
  <2>2. CASE Declined(r) \/ TransferEnds(r)
    BY <1>1, <2>2 DEF Declined, TransferEnds, States, recordVars
  <2>3. CASE ChannelCloses(r)
    BY <1>1, <2>3 DEF ChannelCloses, States, recordVars
  <2>. QED BY <1>2, <2>1, <2>2, <2>3
<1>3. CASE SendExec(r)
  <2>1. CASE Settle(r, "may have run")
    BY <1>1, <1>3, <2>1 DEF SendExec, States, recordVars
  <2>2. CASE Upon(r, [live[r] EXCEPT !.reader = "reading"])
    <3>. DEFINE f == [live[r] EXCEPT !.reader = "reading"]
    <3>1. /\ f \in Live /\ Upon(r, f) /\ f.reader = "reading" /\ f.state = live[r].state
          /\ f.cancellation = live[r].cancellation /\ live[r].reader = "sending"
      BY <1>0, <1>3, <2>2 DEF Live, SendExec
    <3>. HIDE DEF f
    <3>. QED BY <1>0, <1>3, <3>1, ReaderFits DEF RunFits, Running, SendExec, recordVars
  <2>. QED BY <1>3, <2>1, <2>2 DEF SendExec
<1>4. CASE SignalCommand(r)
  <2>. DEFINE f == [live[r] EXCEPT !.cancellation = "signalled"]
  <2>1. /\ f \in Live /\ Upon(r, f) /\ f.reader = live[r].reader /\ f.state = live[r].state
        /\ live[r].cancellation = "requested"
    BY <1>0, <1>4 DEF Live, Cancellations, SignalCommand
  <2>. HIDE DEF f
  <2>. QED BY <1>0, <1>4, <2>1, ReaderFits DEF RunFits, Running, SignalCommand, recordVars
<1>5. CASE TransferStopped(r)
  <2>. DEFINE f == [live[r] EXCEPT !.state = "failed to transfer", !.reader = "announcing",
                                   !.cancellation = "transfer stopped"]
  <2>1. /\ f \in Live /\ Upon(r, f) /\ f.reader = "announcing" /\ f.state = "failed to transfer"
        /\ live[r].cancellation = "requested" /\ live[r].reader = "working"
    BY <1>0, <1>5 DEF Live, States, Cancellations, TransferStopped
  <2>. HIDE DEF f
  <2>. QED BY <1>0, <1>5, <2>1, ReaderFits DEF RunFits, Running, TransferStopped, recordVars
<1>6. CASE Announce(r)
  <2>. DEFINE f == [live[r] EXCEPT !.reader = "recording"]
  <2>1. /\ f \in Live /\ Upon(r, f) /\ f.reader = "recording" /\ f.state = live[r].state
        /\ f.cancellation = live[r].cancellation /\ live[r].reader = "announcing"
    BY <1>0, <1>6 DEF Live, Announce
  <2>. HIDE DEF f
  <2>. QED BY <1>0, <1>6, <2>1, ReaderFits DEF RunFits, Running, Announce, recordVars
<1>7. CASE WatcherRecords(r)
  BY <1>7, WatcherFits
<1>. QED BY <1>2, <1>3, <1>4, <1>5, <1>6, <1>7 DEF OnTarget, Reader

LEMMA RoundRunsFit ==
    ASSUME TypeOK, AccountingInv, NEW k \in Keepers, RoundBegins(k) \/ Keeper(k)
    PROVE  RunsFit
<1>0. RoundKnows(k) /\ (rounds[k].pc \in {"recording", "releasing"} => rounds[k].run \in Registered)
  BY DEF AccountingInv, TypeOK
<1>1. CASE RoundRecords(k)
  BY <1>0, <1>1, CompletionFits DEF RoundRecords, RoundKnows, storeVars
<1>2. CASE RoundReleases(k)
  BY <1>0, <1>2, ForgetFits DEF RoundReleases, RoundKnows, recordVars
<1>3. CASE RoundBegins(k) \/ RoundChooses(k) \/ RoundEnds(k)
  BY <1>3, SameRuns DEF RoundBegins, RoundChooses, RoundEnds, storeVars, recordVars
<1>. QED BY <1>1, <1>2, <1>3 DEF Keeper

LEMMA RunsFitStep ==
    ASSUME TypeOK, AccountingInv, [Next]_vars
    PROVE  RunsFit
<1>1. CASE GiveUp
  BY <1>1, SameRuns DEF GiveUp, storeVars, recordVars
<1>2. CASE (\E s \in Sessions : SessionEnds(s)) \/ Stop \/ Ending \/ Exited \/ UNCHANGED vars
  BY <1>2, SameRuns DEF SessionEnds, Stop, Ending, StopRuns, Drained, RoundPutOff, Look, Exited, vars, storeVars, recordVars
<1>. QED BY <1>1, <1>2, CallRunsFit, ReaderRunsFit, RoundRunsFit DEF Next

(* What a task knew it knows after a step of another. *)
LEMMA StillKnows ==
    ASSUME TypeOK, AccountingInv, RunsFit
    PROVE  /\ \A c \in Calls : calls'[c] = calls[c] => CallKnows(c)'
           /\ \A k \in Keepers : rounds'[k] = rounds[k] => RoundKnows(k)'
<1>1. ASSUME NEW c \in Calls, calls'[c] = calls[c] PROVE CallKnows(c)'
  <2>1. CallKnows(c) /\ (calls[c].pc \notin {"idle", "connecting"} => calls[c].run \in Registered)
    BY DEF AccountingInv, TypeOK
  <2>. QED BY <1>1, <2>1 DEF RunsFit, CallKnows
<1>2. ASSUME NEW k \in Keepers, rounds'[k] = rounds[k] PROVE RoundKnows(k)'
  <2>1. RoundKnows(k) /\ (rounds[k].pc \in {"recording", "releasing"} => rounds[k].run \in Registered)
    BY DEF AccountingInv, TypeOK
  <2>. QED BY <1>2, <2>1 DEF RunsFit, RoundKnows
<1>. QED BY <1>1, <1>2

LEMMA CallKnowsStep ==
    ASSUME TypeOK, AccountingInv, NEW c \in Calls, Starting(c) \/ OnWorker(c)
    PROVE  CallKnows(c)' /\ \A d \in Calls \ {c} : calls'[d] = calls[d]
<1>0. /\ calls \in [Calls -> Call] /\ CallKnows(c) /\ RunsFit
      /\ calls[c].pc \notin {"idle", "connecting"} => calls[c].run \in Registered
  BY CallRunsFit DEF AccountingInv, TypeOK
<1>1. ASSUME NEW k, calls' = [calls EXCEPT ![c] = k],
             k.pc \in {"idle", "connecting", "finding", "waiting", "cancelling"}
      PROVE  CallKnows(c)' /\ \A d \in Calls \ {c} : calls'[d] = calls[d]
  BY <1>0, <1>1 DEF CallKnows
<1>2. ASSUME NEW pc, Goto(c, pc)
      PROVE  /\ calls'[c].pc = pc /\ calls'[c].run = calls[c].run
             /\ \A d \in Calls \ {c} : calls'[d] = calls[d]
  BY <1>0, <1>2 DEF Goto, Call
<1>3. ASSUME NEW s \in Sessions, Admit(c, s) \/ \E r \in Ids : Poll(c, s, r) \/ Cancel(c, s, r)
      PROVE  CallKnows(c)' /\ \A d \in Calls \ {c} : calls'[d] = calls[d]
  BY <1>1, <1>3 DEF Admit, Poll, Cancel, Idle
<1>4. CASE CallEnds(c) \/ CallReleases(c) \/ CancelSignals(c)
  BY <1>1, <1>4 DEF CallEnds, CallReleases, CancelSignals, Return, Idle
<1>5. ASSUME NEW r \in Ids, NEW reader \in {"sending", "working"}, Register(c, r, reader)
      PROVE  CallKnows(c)' /\ \A d \in Calls \ {c} : calls'[d] = calls[d]
  <2>. DEFINE k == [calls[c] EXCEPT !.pc = "finding", !.run = r]
  <2>1. calls' = [calls EXCEPT ![c] = k] /\ k.pc = "finding"
    BY <1>0, <1>5 DEF Register, Call
  <2>. HIDE DEF k
  <2>. QED BY <1>1, <2>1
<1>6. CASE FindRun(c)
  BY <1>2, <1>6 DEF FindRun, CallKnows
<1>7. CASE WaitSettles(c)
  <2>1. calls[c].run \in Registered /\ ~Running(calls[c].run)
    BY <1>0, <1>7 DEF WaitSettles, At
  <2>. QED BY <1>0, <1>2, <1>7, <2>1 DEF WaitSettles, CallKnows, RunsFit
<1>8. CASE TakeWorker(c)
  <2>1. calls[c].run \in Registered /\ ~Running(calls[c].run)
    BY <1>0, <1>8 DEF TakeWorker, At, CallKnows
  <2>. QED BY <1>0, <1>2, <1>8, <2>1 DEF TakeWorker, CallKnows, RunsFit
<1>9. CASE CallRecords(c)
  <2>1. calls[c].run \in Registered /\ ~Running(calls[c].run)
    BY <1>0, <1>9 DEF CallRecords, At, CallKnows
  <2>2. CASE NotWritten(calls[c].run) /\ Return(c)
    BY <1>1, <2>2 DEF Return, Idle
  <2>3. CASE Written(calls[c].run) \/ AlreadyCompleted(calls[c].run)
    <3>1. completed'[calls[c].run] = 1
      BY <1>9, <2>1, <2>3, CompletionFits DEF CallRecords, storeVars
    <3>. QED BY <1>1, <1>2, <1>9, <3>1 DEF CallRecords, CallKnows, Return, Idle
  <2>. QED BY <1>9, <2>2, <2>3 DEF CallRecords
<1>10. CASE FetchOutcome(c)
  <2>1. calls[c].run \in Registered /\ completed[calls[c].run] = 1
    BY <1>0, <1>10 DEF FetchOutcome, At, CallKnows
  <2>. QED BY <1>0, <1>2, <1>10, <2>1 DEF FetchOutcome, CallKnows, RunsFit
<1>11. CASE CancelRecords(c)
  <2>1. CASE Return(c)
    BY <1>1, <2>1 DEF Return, Idle
  <2>2. CASE cancels' = cancels \cup {calls[c].run} /\ Goto(c, "signalling")
    BY <1>2, <2>2 DEF CallKnows
  <2>. QED BY <1>11, <2>1, <2>2 DEF CancelRecords
<1>. QED BY <1>3, <1>4, <1>5, <1>6, <1>7, <1>8, <1>9, <1>10, <1>11 DEF Starting, OnWorker

LEMMA RoundKnowsStep ==
    ASSUME TypeOK, AccountingInv, NEW k \in Keepers, RoundBegins(k) \/ Keeper(k)
    PROVE  RoundKnows(k)' /\ \A d \in Keepers \ {k} : rounds'[d] = rounds[d]
<1>0. /\ rounds \in [Keepers -> Round] /\ RoundKnows(k) /\ RunsFit /\ records \subseteq Registered
      /\ rounds[k].pc \in {"recording", "releasing"} => rounds[k].run \in Registered
  BY RoundRunsFit DEF AccountingInv, TypeOK
<1>1. ASSUME NEW m, Round_(k, m)
      PROVE  rounds'[k] = m /\ \A d \in Keepers \ {k} : rounds'[d] = rounds[d]
  BY <1>0, <1>1 DEF Round_
<1>2. CASE RoundBegins(k)
  <2>1. [Resting EXCEPT !.pc = "choosing", !.todo = records].pc = "choosing"
    BY DEF Resting
  <2>. QED BY <1>1, <1>2, <2>1 DEF RoundBegins, RoundKnows
<1>3. CASE RoundChooses(k)
  <2>1. PICK r \in rounds[k].todo :
          Round_(k, IF r \in records /\ ~Running(r)
                    THEN [pc |-> "recording", todo |-> rounds[k].todo \ {r}, run |-> r]
                    ELSE [rounds[k] EXCEPT !.todo = @ \ {r}])
    BY <1>3 DEF RoundChooses
  <2>2. CASE r \in records /\ ~Running(r)
    <3>1. r \in Registered /\ ~Running(r)'
      BY <1>0, <2>2 DEF RunsFit
    <3>. QED BY <1>1, <2>1, <2>2, <3>1 DEF RoundKnows
  <2>3. CASE ~(r \in records /\ ~Running(r))
    <3>1. [rounds[k] EXCEPT !.todo = @ \ {r}].pc = "choosing"
      BY <1>0, <1>3 DEF RoundChooses, Round
    <3>. QED BY <1>1, <2>1, <2>3, <3>1 DEF RoundKnows
  <2>. QED BY <2>2, <2>3
<1>4. CASE RoundRecords(k)
  <2>1. rounds[k].run \in Registered /\ ~Running(rounds[k].run)
    BY <1>0, <1>4 DEF RoundRecords, RoundKnows
  <2>2. CASE (Written(rounds[k].run) \/ AlreadyCompleted(rounds[k].run))
             /\ Round_(k, [rounds[k] EXCEPT !.pc = "releasing"])
    <3>1. completed'[rounds[k].run] = 1
      BY <1>4, <2>1, <2>2, CompletionFits DEF RoundRecords, storeVars
    <3>2. [rounds[k] EXCEPT !.pc = "releasing"].pc = "releasing"
          /\ [rounds[k] EXCEPT !.pc = "releasing"].run = rounds[k].run
      BY <1>0 DEF Round
    <3>. QED BY <1>1, <2>2, <3>1, <3>2 DEF RoundKnows
  <2>3. CASE Round_(k, [rounds[k] EXCEPT !.pc = "choosing", !.run = None])
    <3>1. [rounds[k] EXCEPT !.pc = "choosing", !.run = None].pc = "choosing"
      BY <1>0 DEF Round
    <3>. QED BY <1>1, <2>3, <3>1 DEF RoundKnows
  <2>. QED BY <1>4, <2>2, <2>3 DEF RoundRecords
<1>5. CASE RoundReleases(k)
  <2>1. [rounds[k] EXCEPT !.pc = "choosing", !.run = None].pc = "choosing"
    BY <1>0 DEF Round
  <2>. QED BY <1>1, <1>5, <2>1 DEF RoundReleases, RoundKnows
<1>6. CASE RoundEnds(k)
  BY <1>1, <1>6 DEF RoundEnds, RoundKnows, Resting
<1>. QED BY <1>2, <1>3, <1>4, <1>5, <1>6 DEF Keeper

LEMMA AccountingStep == TypeOK /\ AccountingInv /\ [Next]_vars => AccountingInv'
<1>. SUFFICES ASSUME TypeOK, AccountingInv, [Next]_vars PROVE AccountingInv'
  OBVIOUS
<1>1. RunsFit
  BY RunsFitStep
<1>2. \A c \in Calls : CallKnows(c)'
  <2>1. CASE UNCHANGED calls
    BY <1>1, <2>1, StillKnows
  <2>2. ASSUME NEW c \in Calls, Starting(c) \/ OnWorker(c) PROVE \A d \in Calls : CallKnows(d)'
    BY <1>1, <2>2, CallKnowsStep, StillKnows
  <2>3. ASSUME NEW r \in Ids, OnTarget(r) \/ Reader(r) PROVE UNCHANGED calls
    BY <2>3, ReaderSteps
  <2>4. ASSUME NEW k \in Keepers, RoundBegins(k) \/ Keeper(k) PROVE UNCHANGED calls
    BY <2>4 DEF RoundBegins, Keeper, RoundChooses, RoundRecords, RoundReleases, RoundEnds
  <2>5. CASE (\E s \in Sessions : SessionEnds(s)) \/ Stop \/ Ending \/ GiveUp \/ Exited \/ UNCHANGED vars
    BY <2>1, <2>5 DEF SessionEnds, Stop, Ending, StopRuns, Drained, RoundPutOff, Look, GiveUp, Exited, vars
  <2>. QED BY <2>1, <2>2, <2>3, <2>4, <2>5 DEF Next
<1>3. \A k \in Keepers : RoundKnows(k)'
  <2>1. CASE UNCHANGED rounds
    BY <1>1, <2>1, StillKnows
  <2>2. ASSUME NEW k \in Keepers, RoundBegins(k) \/ Keeper(k) PROVE \A d \in Keepers : RoundKnows(d)'
    BY <1>1, <2>2, RoundKnowsStep, StillKnows
  <2>3. ASSUME NEW c \in Calls, Starting(c) \/ OnWorker(c) PROVE UNCHANGED rounds
    BY <2>3 DEF Starting, OnWorker, Admit, Poll, Cancel, Register, FindRun, WaitSettles, CallEnds, TakeWorker,
                CallRecords, FetchOutcome, CallReleases, CancelRecords, CancelSignals
  <2>4. ASSUME NEW r \in Ids, OnTarget(r) \/ Reader(r) PROVE UNCHANGED rounds
    BY <2>4, ReaderSteps
  <2>5. CASE (\E s \in Sessions : SessionEnds(s)) \/ Stop \/ Ending \/ GiveUp \/ Exited \/ UNCHANGED vars
    BY <2>1, <2>5 DEF SessionEnds, Stop, Ending, StopRuns, Drained, RoundPutOff, Look, GiveUp, Exited, vars
  <2>. QED BY <2>1, <2>2, <2>3, <2>4, <2>5 DEF Next
<1>. QED BY <1>1, <1>2, <1>3 DEF RunsFit, AccountingInv

LEMMA AccountingInit == Init => AccountingInv
BY DEF Init, AccountingInv, Registered, CallKnows, RoundKnows, Idle, Resting

LEMMA Accounting == Spec => []AccountingInv
<1>1. TypeOK /\ AccountingInv /\ [Next]_vars => AccountingInv'
  BY AccountingStep
<1>. QED BY <1>1, AccountingInit, RunsTypeInvariant, PTL DEF Spec

(* No run whose completion is still to be recorded has gone out of the store, or out
   of the list the shutdown waits for without being named (UnrecordedIsRead). *)
THEOREM UnrecordedRunsAreRead == Spec => []UnrecordedIsRead
<1>1. AccountingInv => UnrecordedIsRead
  BY DEF AccountingInv, RunFits, UnrecordedIsRead
<1>. QED BY <1>1, Accounting, PTL

(* A completion is recorded at most once, and only of a run that has settled. *)
THEOREM CompletedAtMostOnce ==
    Spec => [](\A r \in Registered : completed[r] \in {0, 1} /\ (completed[r] = 1 => ~Running(r)))
<1>1. AccountingInv => \A r \in Registered : completed[r] \in {0, 1} /\ (completed[r] = 1 => ~Running(r))
  BY DEF AccountingInv, RunFits
<1>. QED BY <1>1, Accounting, PTL

(* The last look finds no reader, or gives up by name. *)
LEMMA ExitStep ==
    ASSUME TypeOK, AccountingInv, ExitAccountsOrNames, [Next]_vars
    PROVE  ExitAccountsOrNames'
<1>0. \A r \in Registered : completed[r] # 0 => completed[r] > 0
  BY DEF TypeOK, Registered
<1>1. CASE process = "exited" /\ UNCHANGED vars
  BY <1>1 DEF ExitAccountsOrNames, Registered, vars, storeVars, recordVars
<1>2. CASE Look
  <2>1. Registered' = Registered /\ UNCHANGED <<completed, named>>
    BY <1>2 DEF Look, Registered, storeVars, recordVars
  <2>2. process' = "exited" => reading = {}
    BY <1>2 DEF Look
  <2>3. \A r \in Registered : r \notin reading => completed[r] # 0 \/ r \in named
    BY DEF AccountingInv, RunFits
  <2>. QED BY <1>0, <2>1, <2>2, <2>3 DEF ExitAccountsOrNames
<1>3. CASE GiveUp
  <2>1. Registered' = Registered /\ UNCHANGED completed /\ named' = named \cup (reading \cap records)
    BY <1>3 DEF GiveUp, Registered, storeVars, recordVars
  <2>2. \A r \in Registered : completed[r] # 0 \/ r \in named'
    BY <2>1 DEF AccountingInv, RunFits
  <2>. QED BY <1>0, <2>1, <2>2 DEF ExitAccountsOrNames
<1>4. ASSUME process # "exited", process' \in {process, "stopping", "draining", "settling", "looking"}
      PROVE  ExitAccountsOrNames'
  BY <1>4 DEF ExitAccountsOrNames
<1>5. CASE process = "exited"
  <2>1. UNCHANGED vars
    BY <1>5 DEF Next, Starting, OnWorker, OnTarget, Reader, Keeper, Ending, Alive, Admit, Register, Poll, Cancel,
                FindRun, WaitSettles, CallEnds, TakeWorker, CallRecords, FetchOutcome, CallReleases, CancelRecords,
                CancelSignals, Evidence, Declined, ChannelCloses, TransferEnds, SendExec, SignalCommand,
                TransferStopped, Announce, WatcherRecords, RoundBegins, RoundChooses, RoundRecords, RoundReleases,
                RoundEnds, SessionEnds, Stop, StopRuns, Drained, RoundPutOff, Look, GiveUp, Exited, Keepers
  <2>. QED BY <1>1, <1>5, <2>1
<1>6. ASSUME process # "exited", ~Look, ~GiveUp
      PROVE  process' \in {process, "stopping", "draining", "settling", "looking"}
  <2>1. ASSUME NEW c \in Calls, Starting(c) \/ OnWorker(c) PROVE UNCHANGED process
    BY <2>1 DEF Starting, OnWorker, Admit, Poll, Cancel, Register, FindRun, WaitSettles, CallEnds, TakeWorker,
                CallRecords, FetchOutcome, CallReleases, CancelRecords, CancelSignals
  <2>2. ASSUME NEW r \in Ids, OnTarget(r) \/ Reader(r) PROVE UNCHANGED process
    BY <2>2, ReaderSteps
  <2>3. ASSUME NEW k \in Keepers, RoundBegins(k) \/ Keeper(k) PROVE process' \in {process, "looking"}
    BY <2>3 DEF RoundBegins, Keeper, RoundChooses, RoundRecords, RoundReleases, RoundEnds
  <2>4. CASE (\E s \in Sessions : SessionEnds(s)) \/ Stop \/ StopRuns \/ Drained \/ RoundPutOff \/ Exited \/ UNCHANGED vars
    BY <2>4 DEF SessionEnds, Stop, StopRuns, Drained, RoundPutOff, Exited, vars
  <2>. QED BY <1>6, <2>1, <2>2, <2>3, <2>4 DEF Next, Ending
<1>. QED BY <1>2, <1>3, <1>4, <1>5, <1>6

(* The server never exits without having every run in the record or in the log
   (ExitAccountsOrNames). *)
THEOREM ExitsAccountOrName == Spec => []ExitAccountsOrNames
<1>1. Init => ExitAccountsOrNames
  BY DEF Init, ExitAccountsOrNames
<1>2. TypeOK /\ AccountingInv /\ ExitAccountsOrNames /\ [Next]_vars => ExitAccountsOrNames'
  BY ExitStep
<1>. QED BY <1>1, <1>2, RunsTypeInvariant, Accounting, PTL DEF Spec

-----------------------------------------------------------------------------
(* What a step may do *)

(* Once Runs::stop has returned the list of readers only shrinks
   (NothingRegistersAfterStop). *)
THEOREM StoppedRegistersNothing == Spec => NothingRegistersAfterStop
<1>1. [Next]_vars => (refusing => reading' \subseteq reading)
  <2>. SUFFICES ASSUME [Next]_vars, refusing PROVE reading' \subseteq reading
    OBVIOUS
  <2>1. ASSUME NEW c \in Calls, Starting(c) \/ OnWorker(c) PROVE UNCHANGED reading
    BY <2>1 DEF Starting, OnWorker, Admit, Poll, Cancel, Register, FindRun, WaitSettles, CallEnds, TakeWorker,
                CallRecords, FetchOutcome, CallReleases, CancelRecords, CancelSignals, storeVars
  <2>2. ASSUME NEW r \in Ids, OnTarget(r) \/ Reader(r) PROVE reading' \subseteq reading
    BY <2>2 DEF OnTarget, Evidence, Declined, ChannelCloses, TransferEnds, Reader, SendExec, SignalCommand,
                TransferStopped, Announce, WatcherRecords
  <2>3. ASSUME NEW k \in Keepers, RoundBegins(k) \/ Keeper(k) PROVE UNCHANGED reading
    BY <2>3 DEF RoundBegins, Keeper, RoundChooses, RoundRecords, RoundReleases, RoundEnds, storeVars
  <2>4. CASE (\E s \in Sessions : SessionEnds(s)) \/ Stop \/ Ending \/ GiveUp \/ Exited \/ UNCHANGED vars
    BY <2>4 DEF SessionEnds, Stop, Ending, StopRuns, Drained, RoundPutOff, Look, GiveUp, Exited, vars, storeVars
  <2>. QED BY <2>1, <2>2, <2>3, <2>4 DEF Next
<1>2. Spec => [][refusing => reading' \subseteq reading]_vars
  BY <1>1, PTL DEF Spec
<1>. QED BY <1>2 DEF NothingRegistersAfterStop

Released ==
    \A r \in records \ records' :
        /\ completed[r] = 1
        /\ ~Running(r)
        /\ \/ live[r].session \notin held
           \/ \E c \in Calls : At(c, "releasing") /\ calls[c].run = r

(* A run leaves the store with its completion written, for a call that has come for
   it or because no session can ask (ReleasedWhenCollectedOrOrphaned). *)
THEOREM RunsAreReleased == Spec => ReleasedWhenCollectedOrOrphaned
<1>1. TypeOK /\ AccountingInv /\ [Next]_vars => Released
  <2>. SUFFICES ASSUME TypeOK, AccountingInv, [Next]_vars PROVE Released
    OBVIOUS
  <2>0. ASSUME records \subseteq records' PROVE Released
    BY <2>0 DEF Released
  <2>1. ASSUME NEW c \in Calls, CallReleases(c) PROVE Released
    <3>1. calls[c].run \in Registered /\ completed[calls[c].run] = 1 /\ At(c, "releasing")
      BY <2>1 DEF CallReleases, At, AccountingInv, CallKnows, TypeOK
    <3>2. \A r \in records \ records' : r = calls[c].run
      BY <2>1 DEF CallReleases, Forget
    <3>. QED BY <3>1, <3>2 DEF Released, AccountingInv, RunFits
  <2>2. ASSUME NEW k \in Keepers, RoundReleases(k) PROVE Released
    <3>1. rounds[k].run \in Registered /\ completed[rounds[k].run] = 1
      BY <2>2 DEF RoundReleases, AccountingInv, RoundKnows, TypeOK
    <3>2. \A r \in records \ records' : r = rounds[k].run /\ live[r].session \notin held
      BY <2>2 DEF RoundReleases, Forget
    <3>. QED BY <3>1, <3>2 DEF Released, AccountingInv, RunFits
  <2>3. ASSUME NEW c \in Calls, Starting(c) \/ OnWorker(c), ~CallReleases(c) PROVE records \subseteq records'
    BY <2>3 DEF Starting, OnWorker, Admit, Poll, Cancel, Register, FindRun, WaitSettles, CallEnds, TakeWorker,
                CallRecords, FetchOutcome, CancelRecords, CancelSignals, storeVars
  <2>4. ASSUME NEW r \in Ids, OnTarget(r) \/ Reader(r) PROVE UNCHANGED records
    BY <2>4, ReaderSteps
  <2>5. ASSUME NEW k \in Keepers, RoundBegins(k) \/ Keeper(k), ~RoundReleases(k) PROVE UNCHANGED records
    BY <2>5 DEF RoundBegins, Keeper, RoundChooses, RoundRecords, RoundEnds, storeVars
  <2>6. CASE (\E s \in Sessions : SessionEnds(s)) \/ Stop \/ Ending \/ GiveUp \/ Exited \/ UNCHANGED vars
    BY <2>0, <2>6 DEF SessionEnds, Stop, Ending, StopRuns, Drained, RoundPutOff, Look, GiveUp, Exited, vars, storeVars
  <2>. QED BY <2>0, <2>1, <2>2, <2>3, <2>4, <2>5, <2>6 DEF Next
<1>2. Spec => [][Released]_vars
  BY <1>1, RunsTypeInvariant, Accounting, PTL DEF Spec
<1>. QED BY <1>2 DEF ReleasedWhenCollectedOrOrphaned, Released

Told ==
    \A r \in Registered : live'[r].cancellation # live[r].cancellation => r \in cancels /\ Running(r)

(* No worker is told of a cancellation the record does not have, and none whose run
   has settled (CancellationsRecorded). *)
THEOREM CancellationsAreRecorded == Spec => CancellationsRecorded
<1>1. TypeOK /\ AccountingInv /\ [Next]_vars => Told
  <2>. SUFFICES ASSUME TypeOK, AccountingInv, [Next]_vars PROVE Told
    OBVIOUS
  <2>0. ASSUME UNCHANGED live PROVE Told
    BY <2>0 DEF Told
  <2>1. ASSUME NEW c \in Calls, CancelSignals(c) PROVE Told
    <3>1. calls[c].run \in Registered /\ calls[c].run \in cancels
      BY <2>1 DEF CancelSignals, At, AccountingInv, CallKnows, TypeOK
    <3>2. CASE UNCHANGED live
      BY <2>0, <3>2
    <3>3. CASE Upon(calls[c].run, [live[calls[c].run] EXCEPT !.cancellation = "requested"]) /\ Running(calls[c].run)
      <4>1. \A q \in Ids \ {calls[c].run} : live'[q] = live[q]
        BY <3>3 DEF Upon, TypeOK
      <4>. QED BY <3>1, <3>3, <4>1 DEF Told, Registered
    <3>. QED BY <2>1, <3>2, <3>3 DEF CancelSignals
  <2>2. ASSUME NEW r \in Ids, OnTarget(r) \/ Reader(r) PROVE Told
    <3>1. r \in Registered /\ RunFits(r) /\ live[r] \in Live
      BY <2>2, ReaderSteps, RegisteredLive DEF AccountingInv
    <3>2. \A q \in Ids \ {r} : live'[q] = live[q]
      BY <2>2, ReaderSteps DEF Upon, TypeOK
    <3>3. live'[r].cancellation # live[r].cancellation => r \in cancels /\ Running(r)
      <4>1. CASE SignalCommand(r) \/ TransferStopped(r)
        BY <3>1, <4>1 DEF SignalCommand, TransferStopped, RunFits
      <4>2. ASSUME NEW f \in Live, Upon(r, f), f.cancellation = live[r].cancellation
            PROVE  live'[r].cancellation = live[r].cancellation
        BY <4>2, UponTypes
      <4>3. ASSUME NEW state \in States, Settle(r, state) PROVE live'[r].cancellation = live[r].cancellation
        <5>. DEFINE f == [live[r] EXCEPT !.state = state, !.reader = "announcing", !.began = FALSE]
        <5>1. f \in Live /\ Upon(r, f) /\ f.cancellation = live[r].cancellation
          BY <3>1, <4>3 DEF Live, Settle
        <5>. QED BY <4>2, <5>1
      <4>4. ASSUME NEW f, Upon(r, f), \/ f = [live[r] EXCEPT !.began = TRUE]
                                     \/ \E a \in {"reading", "recording", "done"} : f = [live[r] EXCEPT !.reader = a]
            PROVE  live'[r].cancellation = live[r].cancellation
        <5>1. f \in Live /\ f.cancellation = live[r].cancellation
          BY <3>1, <4>4 DEF Live
        <5>. QED BY <4>2, <4>4, <5>1
      <4>5. CASE Evidence(r) \/ Declined(r) \/ ChannelCloses(r) \/ TransferEnds(r)
        BY <4>3, <4>4, <4>5 DEF Evidence, Declined, ChannelCloses, TransferEnds, States
      <4>6. CASE SendExec(r) \/ Announce(r) \/ WatcherRecords(r)
        BY <4>3, <4>4, <4>6 DEF SendExec, Announce, WatcherRecords, States
      <4>. QED BY <2>2, <4>1, <4>5, <4>6 DEF OnTarget, Reader
    <3>. QED BY <3>2, <3>3 DEF Told, Registered
  <2>3. ASSUME NEW c \in Calls, NEW r \in Ids, NEW reader \in {"sending", "working"}, Register(c, r, reader)
        PROVE  Told
    <3>1. r \notin Registered /\ \A q \in Ids \ {r} : live'[q] = live[q]
      BY <2>3, RegisterSteps DEF Upon, TypeOK
    <3>. QED BY <3>1 DEF Told, Registered
  <2>4. ASSUME NEW c \in Calls, Starting(c) \/ OnWorker(c), ~CancelSignals(c),
               ~\E r \in Ids, reader \in {"sending", "working"} : Register(c, r, reader)
        PROVE  UNCHANGED live
    BY <2>4 DEF Starting, OnWorker, Admit, Poll, Cancel, FindRun, WaitSettles, CallEnds, TakeWorker,
                CallRecords, FetchOutcome, CallReleases, CancelRecords, storeVars
  <2>5. ASSUME NEW k \in Keepers, RoundBegins(k) \/ Keeper(k) PROVE UNCHANGED live
    BY <2>5 DEF RoundBegins, Keeper, RoundChooses, RoundRecords, RoundReleases, RoundEnds, storeVars
  <2>6. CASE (\E s \in Sessions : SessionEnds(s)) \/ Stop \/ Ending \/ GiveUp \/ Exited \/ UNCHANGED vars
    BY <2>0, <2>6 DEF SessionEnds, Stop, Ending, StopRuns, Drained, RoundPutOff, Look, GiveUp, Exited, vars, storeVars
  <2>. QED BY <2>0, <2>1, <2>2, <2>3, <2>4, <2>5, <2>6 DEF Next
<1>2. Spec => [][Told]_vars
  BY <1>1, RunsTypeInvariant, Accounting, PTL DEF Spec
<1>. QED BY <1>2 DEF CancellationsRecorded, Told
=============================================================================
