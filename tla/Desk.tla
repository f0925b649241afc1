-------------------------------- MODULE Desk --------------------------------
(***************************************************************************)
(* The surfaces at which a held command is asked for, shown and decided:   *)
(* the tool an agent calls (ssh-server/tools.rs, mcp.rs, notify.rs), the   *)
(* pages and forms of the dashboard (dashboard.rs) and the intake of       *)
(* evaluations (evaluation.rs).  One action of one session, one the policy *)
(* holds; a notifier and the dashboard's address are configured.           *)
(*                                                                         *)
(* An operation of the mediator is one step here, as it runs on one worker *)
(* for one caller: module Approvals has its steps.  A surface is not: what *)
(* it asks for and what it says of it are apart, and it waits for workers  *)
(* it is refused when there are none.                                      *)
(***************************************************************************)
EXTENDS Naturals, Sequences, FiniteSets

CONSTANTS
    Forms,        \* what operators send, each once; it names its operator
    Nobody,
    Workers,      \* permits for synchronous work
    MaxDecisions  \* bound: calls of the agent that reach the record

ASSUME DeskAssumption == Nobody \notin Forms /\ Workers \in Nat \ {0} /\ MaxDecisions \in Nat

VARIABLES
    requests,  \* what was ever held, with the entry it was decided in
    record,    \* entries: what each is, the decision it is about, and by whom
    running,   \* authorizing entries whose run is being read
    session,   \* "live" or "over"
    agreement, \* Nobody, or who granted the standing agreement
    agent,     \* the call of the agent
    notes,     \* how often a request was announced
    forms,     \* each form: what it says, where it is, the response
    page       \* a page of the session's activity being made

deskVars == <<requests, record, running, session, agreement, agent, notes, forms, page>>

Said(is, of, by) == [is |-> is, of |-> of, by |-> by]
Asked == DOMAIN requests
InRecord(is, d) == \E e \in record : e.is = is /\ e.of = d
Decisions == {e.of : e \in {x \in record : x.is = "decided"}}

(* Held and in time; Approvals::waiting, which is what is offered for a decision. *)
Stands(i, state) == requests[i].state = state
Waiting(i) == Stands(i, "waiting") /\ ~requests[i].late
Offered(i) == Waiting(i) /\ session = "live"
Collectable(i) == Stands(i, "approved") /\ requests[i].recorded /\ ~requests[i].late
Unrecorded(i) == Stands(i, "approved") /\ ~requests[i].recorded /\ ~requests[i].late
Lapsed(i) == Stands(i, "approved") /\ requests[i].recorded /\ requests[i].late

Busy == Cardinality({f \in Forms : forms[f].pc = "working"})
        + (IF agent.pc = "asking" THEN 1 ELSE 0) = Workers

-----------------------------------------------------------------------------
(* The agent's call: dispatch, exec_intended *)

AgentGets(result) == agent' = [agent EXCEPT !.pc = "answering", !.result = result]

(* check_session_account, and a worker for the decision. *)
AgentCalls ==
    /\ agent.pc = "idle"
    /\ ~Busy
    /\ agent' = [agent EXCEPT !.pc = "asking", !.dropped = FALSE]
    /\ UNCHANGED <<requests, record, running, session, agreement, notes, forms, page>>

(* The caller is gone; its worker goes on. *)
AgentDrops ==
    /\ agent.pc = "asking" /\ ~agent.dropped
    /\ agent' = [agent EXCEPT !.dropped = TRUE]
    /\ UNCHANGED <<requests, record, running, session, agreement, notes, forms, page>>

Fails ==
    /\ AgentGets([is |-> "error", about |-> 0, by |-> Nobody])
    /\ UNCHANGED <<requests, running>>

(* The approval is recorded and redeemed in one, or neither. *)
Redeems(held, i, entries) ==
    LET approved == Said("approved", held[i].decided, held[i].by)
    IN /\ requests' = [held EXCEPT ![i].state = "redeemed"]
       /\ record' = record \cup entries \cup {approved}
       /\ running' = running \cup {approved}
       /\ AgentGets([is |-> "ran", about |-> i, by |-> held[i].by])

(* use_standing: the agreement answers the request; the record may refuse the answer
   or the approval. *)
StandingAnswers(held, i, entries) ==
    LET answered == [held EXCEPT ![i].state = "approved", ![i].by = agreement]
        recorded == [answered EXCEPT ![i].recorded = TRUE]
        yes == Said("yes", held[i].decided, agreement)
        Errs(store, written) ==
            /\ AgentGets([is |-> "error", about |-> 0, by |-> Nobody])
            /\ requests' = store
            /\ record' = record \cup written
            /\ UNCHANGED running
    IN IF held[i].state = "waiting"
       THEN \/ Redeems(recorded, i, entries \cup {yes})
            \/ Errs(answered, entries)
            \/ Errs(recorded, entries \cup {yes})
       ELSE Errs(held, entries)

AwaitsAnswer(held, i, entries, is, by) ==
    IF agreement # Nobody THEN StandingAnswers(held, i, entries)
    ELSE /\ AgentGets([is |-> is, about |-> i, by |-> by])
         /\ requests' = held
         /\ record' = record \cup entries
         /\ UNCHANGED running

(* authorize_action and ask_with. *)
AgentAsks ==
    LET d == Cardinality(Decisions) + 1
        decided == {Said("decided", d, Nobody)}
        fresh == [decided |-> d, state |-> "waiting", recorded |-> FALSE, late |-> FALSE,
                  by |-> Nobody, made |-> "call"]
        new == Len(requests) + 1
    IN /\ agent.pc = "asking"
       /\ d <= MaxDecisions
       /\ UNCHANGED <<session, agreement, notes, forms, page>>
       /\ \/ Fails /\ UNCHANGED record
          \/ /\ session = "live"
             /\ CASE \E i \in Asked : Collectable(i) ->
                        \/ Redeems(requests, CHOOSE i \in Asked : Collectable(i), decided)
                        \/ Fails /\ record' = record \cup decided
                  [] (\A i \in Asked : ~Collectable(i)) /\ \E i \in Asked : Stands(i, "refused") ->
                        LET i == CHOOSE j \in Asked : Stands(j, "refused")
                        IN /\ AgentGets([is |-> "refused", about |-> i, by |-> requests[i].by])
                           /\ record' = record \cup decided
                           /\ UNCHANGED <<requests, running>>
                  [] OTHER ->
                     IF \E i \in Asked : Waiting(i) \/ Unrecorded(i)
                     THEN LET i == CHOOSE j \in Asked : Waiting(j) \/ Unrecorded(j)
                          IN AwaitsAnswer(requests, i, decided, "awaiting", Nobody)
                     ELSE IF \E i \in Asked : Lapsed(i)
                     THEN LET i == CHOOSE j \in Asked : Lapsed(j)
                          IN AwaitsAnswer(Append([requests EXCEPT ![i].state = "gone"], fresh),
                                          new, decided, "lapsed", requests[i].by)
                     ELSE AwaitsAnswer(Append(requests, fresh), new, decided, "awaiting", Nobody)

(* announce, and the answer.  Ask::New is the ask of the call that made the request.
   Mutant: only one that awaits is announced. *)
Announces_Awaiting(result) ==
    /\ result.is = "awaiting"
    /\ requests[result.about].decided = Cardinality(Decisions)

Announces(result) ==
    /\ result.is \in {"awaiting", "lapsed"}
    /\ requests[result.about].decided = Cardinality(Decisions)

AgentAnswered ==
    LET result == agent.result
        new == result.is \in {"awaiting", "lapsed"} /\ requests[result.about].decided = Cardinality(Decisions)
    IN /\ agent.pc = "answering"
       /\ IF agent.dropped
          THEN /\ requests' = IF new THEN [requests EXCEPT ![result.about].made = "dropped"] ELSE requests
               /\ UNCHANGED notes
          ELSE /\ notes' = [notes EXCEPT ![result.about] = IF Announces(result) THEN @ + 1 ELSE @]
               /\ requests' = IF new THEN [requests EXCEPT ![result.about].made = "told"] ELSE requests
       /\ agent' = [agent EXCEPT !.pc = "idle"]
       /\ UNCHANGED <<record, running, session, agreement, forms, page>>

-----------------------------------------------------------------------------
(* What goes on by itself *)

(* The window of a request is over: to decide it, or to collect its yes. *)
WindowCloses(i) ==
    /\ requests[i].state \in {"waiting", "approved"}
    /\ ~requests[i].late
    /\ requests' = [requests EXCEPT ![i].late = TRUE]
    /\ UNCHANGED <<record, running, session, agreement, agent, notes, forms, page>>

(* A run ends: its completion is recorded before its reader is gone, unless the
   record refuses it. *)
RunRecorded(a) ==
    /\ ~InRecord("completed", a.of)
    /\ record' = record \cup {Said("completed", a.of, Nobody)}
    /\ UNCHANGED <<requests, running, session, agreement, agent, notes, forms, page>>

ReaderLeaves(a) ==
    /\ running' = running \ {a}
    /\ UNCHANGED <<requests, record, session, agreement, agent, notes, forms, page>>

-----------------------------------------------------------------------------
(* A form.  `from` is whether the operator is who the proxy or the login says, and
   whether the page it was sent from is the dashboard's. *)

Deciding == {"approve", "refuse", "approve-session"}
Words == Deciding \cup {"revoke", "terminate", "evaluate", "other"}
About(word) == IF word \in Deciding \cup {"evaluate"} THEN 1 .. MaxDecisions ELSE {0}

Responds(f, response) == forms' = [forms EXCEPT ![f].pc = "done", ![f].told = response]

(* decision_failure.  Mutant: every failure is a conflict. *)
Failure_NoAudit(cause) == "conflict"
Failure(cause) == IF cause = "audit" THEN "not_recorded" ELSE "conflict"

(* What is said when there is no worker. *)
NoWorker(word) ==
    CASE word \in Deciding -> Failure("busy")
      [] word \in {"revoke", "evaluate"} -> "unavailable"
      [] OTHER -> "error"

(* require_operator or accepted; then the handler, up to the mediator. *)
Submit(f, authenticated, sameOrigin, word, about) ==
    /\ forms[f].pc = "new"
    /\ forms' = [forms EXCEPT ![f] =
                   IF ~authenticated THEN [@ EXCEPT !.pc = "done", !.told = "unauthorized"]
                   ELSE IF ~sameOrigin /\ word # "evaluate" THEN [@ EXCEPT !.pc = "done", !.told = "forbidden"]
                   ELSE IF word = "other" THEN [@ EXCEPT !.pc = "done", !.told = "bad_request"]
                   ELSE IF Busy THEN [pc |-> "done", word |-> word, about |-> about, told |-> NoWorker(word)]
                   ELSE [pc |-> "working", word |-> word, about |-> about, told |-> "nothing"]]
    /\ UNCHANGED <<requests, record, running, session, agreement, agent, notes, page>>

(* Bastion::decide and approve_session. *)
Answers(f) ==
    LET i == forms[f].about
        agreed == forms[f].word # "refuse"
        entry == Said(IF agreed THEN "yes" ELSE "no", requests[i].decided, f)
        Applied(recorded) ==
            requests' = [requests EXCEPT ![i].state = IF agreed THEN "approved" ELSE "refused",
                                         ![i].by = f, ![i].recorded = recorded]
    IN /\ forms[f].pc = "working" /\ forms[f].word \in Deciding
       /\ IF i \in Asked /\ Offered(i)
          THEN \/ /\ Applied(TRUE)
                  /\ record' = record \cup {entry}
                  /\ agreement' = IF forms[f].word = "approve-session" THEN f ELSE agreement
                  /\ Responds(f, "see_other")
               \/ /\ Applied(FALSE)
                  /\ Responds(f, Failure("audit"))
                  /\ UNCHANGED <<record, agreement>>
          ELSE Responds(f, Failure("approval")) /\ UNCHANGED <<requests, record, agreement>>
       /\ UNCHANGED <<running, session, agent, notes, page>>

(* revoke_standing. *)
Revokes(f) ==
    /\ forms[f].pc = "working" /\ forms[f].word = "revoke"
    /\ agreement' = Nobody
    /\ Responds(f, IF agreement # Nobody THEN "see_other" ELSE "not_found")
    /\ UNCHANGED <<requests, record, running, session, agent, notes, page>>

(* terminate_session: the entry, then the end; reclaim_records forgets the rest. *)
Terminates(f) ==
    /\ forms[f].pc = "working" /\ forms[f].word = "terminate"
    /\ IF session = "over"
       THEN Responds(f, "conflict") /\ UNCHANGED <<record, session, agreement>>
       ELSE \/ /\ session' = "over" /\ agreement' = Nobody
               /\ record' = record \cup {Said("terminated", 0, f)}
               /\ Responds(f, "see_other")
            \/ Responds(f, "error") /\ UNCHANGED <<record, session, agreement>>
    /\ UNCHANGED <<requests, running, agent, notes, page>>

(* submit, record_evaluation: one evaluation of a decision.  The same one sent again is
   answered as it was; another, one whose content is kept no more, or one whose name was
   given to another decision's, is refused. *)
Evaluates(f) ==
    LET d == forms[f].about
    IN /\ forms[f].pc = "working" /\ forms[f].word = "evaluate"
       /\ \/ (\E e \in record : e.is = "evaluated") /\ Responds(f, "conflict") /\ UNCHANGED record
          \/ InRecord("evaluated", d) /\ Responds(f, "created") /\ UNCHANGED record
          \/ /\ ~InRecord("evaluated", d)
             /\ IF d \notin Decisions THEN Responds(f, "not_found") /\ UNCHANGED record
                ELSE \/ record' = record \cup {Said("evaluated", d, f)} /\ Responds(f, "created")
                     \/ Responds(f, "unavailable") /\ UNCHANGED record
       /\ UNCHANGED <<requests, running, session, agreement, agent, notes, page>>

-----------------------------------------------------------------------------
(* A page of what the session did: session_transcript *)

(* wire_journeys: what the record says of a decision. *)
RecordedStatus(d) ==
    CASE InRecord("completed", d) -> "Succeeded"
      [] ~InRecord("completed", d) /\ InRecord("no", d) -> "Refused"
      [] ~InRecord("completed", d) /\ InRecord("approved", d) -> "Completion not recorded"
      [] OTHER -> IF InRecord("yes", d) THEN "Approval recorded" ELSE "Approval requested"

(* What is so of it. *)
Status(d) ==
    IF \E a \in running : a.of = d THEN "Running"
    ELSE IF \E i \in Asked : Offered(i) /\ requests[i].decided = d THEN "Awaiting approval"
    ELSE RecordedStatus(d)

NoPage == [pc |-> "asked", running |-> {}, waiting |-> {}, before |-> <<>>, shown |-> <<>>]

(* What is running and what waits is looked at first. *)
LookAtWork ==
    /\ page.pc = "asked"
    /\ ~Busy
    /\ page' = [pc |-> "looking", running |-> running,
                waiting |-> {requests[i].decided : i \in {j \in Asked : Offered(j)}},
                before |-> [d \in Decisions |-> Status(d)], shown |-> <<>>]
    /\ UNCHANGED <<requests, record, running, session, agreement, agent, notes, forms>>

(* Then the record, and the statuses are put over what it says.
   Mutant: a run is found by its decision alone. *)
Overlaid_ByDecision(d) ==
    IF Said("decided", d, Nobody) \in page.running THEN "Running"
    ELSE IF d \in page.waiting THEN "Awaiting approval"
    ELSE RecordedStatus(d)

Overlaid(d) ==
    IF \E a \in page.running : a \in record /\ a.of = d THEN "Running"
    ELSE IF d \in page.waiting THEN "Awaiting approval"
    ELSE RecordedStatus(d)

ShowActivity ==
    /\ page.pc = "looking"
    /\ ~Busy
    /\ page' = [NoPage EXCEPT !.shown = [d \in Decisions |-> Overlaid(d)]]
    /\ UNCHANGED <<requests, record, running, session, agreement, agent, notes, forms>>

(* state_unavailable. *)
PageUnavailable ==
    /\ page.pc = "looking"
    /\ Busy
    /\ page' = NoPage
    /\ UNCHANGED <<requests, record, running, session, agreement, agent, notes, forms>>

-----------------------------------------------------------------------------
DeskInit ==
    /\ requests = <<>> /\ record = {} /\ running = {}
    /\ session = "live" /\ agreement = Nobody
    /\ agent = [pc |-> "idle", dropped |-> FALSE, result |-> [is |-> "error", about |-> 0, by |-> Nobody]]
    /\ notes = [i \in 0 .. MaxDecisions |-> 0]
    /\ forms = [f \in Forms |-> [pc |-> "new", word |-> "other", about |-> 0, told |-> "nothing"]]
    /\ page = NoPage

Handlers(f) == Answers(f) \/ Revokes(f) \/ Terminates(f) \/ Evaluates(f)

DeskNext ==
    \/ AgentCalls \/ AgentDrops \/ AgentAsks \/ AgentAnswered
    \/ \E i \in Asked : WindowCloses(i)
    \/ \E a \in running : RunRecorded(a) \/ ReaderLeaves(a)
    \/ \E f \in Forms, authenticated, sameOrigin \in BOOLEAN, word \in Words :
        \E about \in About(word) : Submit(f, authenticated, sameOrigin, word, about)
    \/ \E f \in Forms : Handlers(f)
    \/ LookAtWork \/ ShowActivity \/ PageUnavailable

DeskSpec == DeskInit /\ [][DeskNext]_deskVars

-----------------------------------------------------------------------------
(* Properties *)

(* tools.rs, announce: "Tells a human, once, that a command is waiting on them."
   Nobody is told twice of a request; and one that can be decided was announced when
   its call was answered, unless that call was given up. *)
WaitingIsAnnounced ==
    \A i \in Asked :
        /\ notes[i] <= 1
        /\ Offered(i) /\ requests[i].made = "told" => notes[i] = 1

(* Whoever sends a form is told what became of it, and of any other answer that
   nothing of it was done: dashboard.rs, decision_failure, "Reports a failed decision as
   what actually happened".  What the code says of why is another matter: for want of
   a worker, too, it answers that the request is no longer waiting.  Of an evaluation it
   says that it is there, be it from the form or from one that said the same before. *)
ResponseTells ==
    \A f \in Forms :
        LET form == forms[f]
            entries == {e \in record : e.by = f /\ e.is \in {"yes", "no", "terminated", "evaluated"}}
            own == {i \in Asked : requests[i].by = f}
        IN /\ form.told = "see_other" /\ form.word \in Deciding =>
                /\ form.about \in own
                /\ Said(IF form.word = "refuse" THEN "no" ELSE "yes",
                         requests[form.about].decided, f) \in entries
           /\ form.told = "see_other" /\ form.word = "terminate" => session = "over" /\ entries # {}
           /\ form.told = "created" => InRecord("evaluated", form.about)
           /\ form.told = "not_recorded" => entries = {} /\ form.about \in own
           /\ form.told \in {"unauthorized", "forbidden", "bad_request", "conflict", "not_found",
                             "unavailable", "error"} => entries = {} /\ own = {} /\ agreement # f

(* session_transcript reads what runs, what waits and the record one after the
   other: a row is right about every command that did not change meanwhile. *)
SteadyRowsAreTrue ==
    [][page.pc = "looking" /\ page'.shown # <<>> =>
        \A d \in DOMAIN page.before :
            page.before[d] = Status(d) => page'.shown[d] = Status(d)]_deskVars
=============================================================================
