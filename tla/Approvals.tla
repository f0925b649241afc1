------------------------------ MODULE Approvals ------------------------------
(***************************************************************************)
(* The approval store (ssh-core/approval.rs) and the part of the mediator  *)
(* that drives it (ssh-core/mediate.rs: authorize_action, apply_answer,    *)
(* approve_session, revoke_standing, reclaim_records).                     *)
(*                                                                         *)
(* Callers are threads of the blocking pool.  An agent's call asks about a *)
(* command; an operator's call answers a request or withdraws a standing   *)
(* agreement.  The store has two mutexes: `requests` is only ever held for *)
(* one step, so it is the atomicity of an action; `standing` is held by a  *)
(* call across several steps, so it is the variable `lock`.                *)
(***************************************************************************)
EXTENDS Naturals, FiniteSets

CONSTANTS
    Sessions,           \* session identifiers, never reissued
    Actions,            \* digests of an argument vector and an agent intent
    Requests,           \* request identifiers
    Agreements,         \* identifiers of standing agreements
    Agents,             \* calls of agents in flight at once
    Operators,          \* calls of operators in flight at once
    None,               \* "no such value"
    DecideWithin,       \* Windows::decide_within
    RedeemWithin,       \* Windows::redeem_within
    StandingCap,        \* the longest life of a standing agreement
    WaitingPerSession,  \* Approvals::waiting_per_session
    MaxNow              \* bound on the clock

Direct == "direct"      \* the approver of an answer an operator clicked

ASSUME ConstantsAssumption ==
    /\ {DecideWithin, RedeemWithin, StandingCap, WaitingPerSession, MaxNow} \subseteq Nat
    /\ None \notin Sessions \cup Actions \cup Requests \cup Agreements \cup Agents \cup Operators
    /\ Direct \notin Agreements \cup {None}
    /\ Agents \cap Operators = {}

VARIABLES
    now,        \* the shared Clock
    live,       \* sessions for which SessionStore::holds answers yes
    requests,   \* Approvals::requests, a map from identifier to Held
    issued,     \* every request identifier given out so far
    standing,   \* Approvals::standing
    given,      \* every agreement identifier given out so far
    lock,       \* the call holding the mutex of `standing`, or None
    sweeping,   \* a sweep is between its two locks
    calls,      \* what each call in flight has read and still has to do
    answers,    \* Answered entries in the audit record
    receipts,   \* how many Approved entries, hence receipts, name each request
    reply       \* what the last step answered its caller, or None

storeVars == <<requests, issued, standing, given, lock, sweeping>>
recordVars == <<answers, receipts>>
vars == <<now, live, storeVars, calls, recordVars, reply>>

Callers == Agents \cup Operators
Approvers == Agreements \cup {Direct}

(* State::Approved {recorded: false} is "unrecorded", {recorded: true} "approved". *)
States == {"waiting", "unrecorded", "approved", "refused", "redeemed"}
Phases == {"idle", "asking", "seeking", "deciding", "recording", "marking", "redeeming", "granting"}
Replies == {"ready", "waiting", "lapsed", "refused", "too many", "done", "error"}

Held == [session : Sessions, action : Actions, state : States,
         by : Approvers \cup {None}, decideBy : Nat, redeemBy : Nat]

Agreement == [id : Agreements, session : Sessions, until : Nat]

(* `next` is what a call does once its answer is applied. *)
Call == [pc : Phases, session : Sessions \cup {None}, action : Actions \cup {None},
         request : Requests \cup {None}, owed : Requests \cup {None},
         by : Approvers \cup {None}, agreed : BOOLEAN, next : {"redeem", "grant", "finish"}]

Idle == [pc |-> "idle", session |-> None, action |-> None, request |-> None, owed |-> None,
         by |-> None, agreed |-> FALSE, next |-> "finish"]

-----------------------------------------------------------------------------
(* Helpers *)

(* Held::forgettable.  Mutants: a no, or an uncollected yes, is forgotten on a clock. *)
Forgettable_RefusalLapses(held, at) ==
    \/ held.state \in {"waiting", "refused"} /\ at >= held.decideBy
    \/ held.state = "unrecorded" /\ at >= held.redeemBy
    \/ held.state = "redeemed"

Forgettable_YesLapses(held, at) ==
    \/ held.state = "waiting" /\ at >= held.decideBy
    \/ held.state \in {"unrecorded", "approved"} /\ at >= held.redeemBy
    \/ held.state = "redeemed"

Forgettable(held, at) ==
    \/ held.state = "waiting" /\ at >= held.decideBy
    \/ held.state = "unrecorded" /\ at >= held.redeemBy
    \/ held.state = "redeemed"

(* A clock reading that may have been taken a while ago: a grant and a sweep read
   the clock before they have the lock.  The other operations read it under theirs. *)
Readings == 0 .. now

(* The map ask_with works on: the first thing it does is drop the forgettable. *)
Remembered == [r \in {q \in DOMAIN requests : ~Forgettable(requests[q], now)} |-> requests[r]]

(* The remembered requests of one session about one action. *)
About(s, a) == {r \in DOMAIN Remembered : requests[r].session = s /\ requests[r].action = a}

InState(s, a, states) == {r \in About(s, a) : requests[r].state \in states}

(* What may be collected: not before mark_recorded. *)
Collectable(s, a) == {r \in InState(s, a, {"approved"}) : now < requests[r].redeemBy}
Lapsed(s, a) == {r \in InState(s, a, {"approved"}) : now >= requests[r].redeemBy}
WaitingIn(s) == {r \in DOMAIN Remembered : requests[r].session = s /\ requests[r].state = "waiting"}

Answering(s) == {g \in standing : g.session = s /\ now < g.until}

Proceed(c, fields) == calls' = [calls EXCEPT ![c] = fields]

(* Collecting an agreement spends it. *)
Spent(map, r) == [map EXCEPT ![r].state = "redeemed"]

(* The call returns: its guard on `standing`, if it holds it, is dropped.
   Mutant: the guard is leaked. *)
Finish_KeepsLock(c, what) ==
    /\ Proceed(c, Idle)
    /\ lock' = lock
    /\ reply' = what

Finish(c, what) ==
    /\ Proceed(c, Idle)
    /\ lock' = IF lock = c THEN None ELSE lock
    /\ reply' = what

-----------------------------------------------------------------------------
(* An agent's call: authorize_action *)

(* use_session finds the session, the policy holds the action, its intent is
   recorded.  The session may end before the store is asked. *)
Begin(c, s, a) ==
    /\ calls[c] = Idle
    /\ s \in live
    /\ Proceed(c, [Idle EXCEPT !.pc = "asking", !.session = s, !.action = a])
    /\ reply' = None
    /\ UNCHANGED <<now, live, storeVars, recordVars>>

Asking(c) == calls[c].pc = "asking"

(* ask_with spends an agreement already given for this action; record_approval
   runs under the lock and its failure leaves the agreement as it was. *)
AskCollects(c) ==
    /\ Asking(c)
    /\ \E r \in Collectable(calls[c].session, calls[c].action) :
        \/ /\ requests' = Spent(Remembered, r)
           /\ receipts' = [receipts EXCEPT ![r] = @ + 1]
           /\ Finish(c, "ready")
        \/ /\ requests' = Remembered
           /\ Finish(c, "error")
           /\ UNCHANGED receipts
    /\ UNCHANGED <<now, live, issued, standing, given, sweeping, answers>>

AskRefused(c) ==
    /\ Asking(c)
    /\ Collectable(calls[c].session, calls[c].action) = {}
    /\ InState(calls[c].session, calls[c].action, {"refused"}) # {}
    /\ requests' = Remembered
    /\ Finish(c, "refused")
    /\ UNCHANGED <<now, live, issued, standing, given, sweeping, recordVars>>

(* The request already waiting, or agreed to and not yet in the record. *)
AskPending(c) ==
    /\ Asking(c)
    /\ InState(calls[c].session, calls[c].action, {"refused"}) = {}
    /\ Collectable(calls[c].session, calls[c].action) = {}
    /\ \E r \in InState(calls[c].session, calls[c].action, {"waiting", "unrecorded"}) :
        Proceed(c, [calls[c] EXCEPT !.pc = "seeking", !.request = r])
    /\ requests' = Remembered
    /\ reply' = None
    /\ UNCHANGED <<now, live, issued, standing, given, lock, sweeping, recordVars>>

(* Mutant: a request whose yes is not yet recorded is overlooked. *)
NothingHeld_OverlooksUnrecorded(s, a) ==
    InState(s, a, {"waiting", "refused"}) \cup Collectable(s, a) = {}
NothingHeld(s, a) == InState(s, a, {"waiting", "unrecorded", "refused"}) \cup Collectable(s, a) = {}

(* Mutant: counted before the lookups. *)
AskTurnedAway_CountsFirst(c) ==
    /\ Asking(c)
    /\ Cardinality(WaitingIn(calls[c].session)) >= WaitingPerSession
    /\ requests' = Remembered
    /\ Finish(c, "too many")
    /\ UNCHANGED <<now, live, issued, standing, given, sweeping, recordVars>>

AskTurnedAway(c) ==
    /\ Asking(c)
    /\ NothingHeld(calls[c].session, calls[c].action)
    /\ Cardinality(WaitingIn(calls[c].session)) >= WaitingPerSession
    /\ requests' = Remembered
    /\ Finish(c, "too many")
    /\ UNCHANGED <<now, live, issued, standing, given, sweeping, recordVars>>

(* A new request; a lapsed agreement for the action is let go of, and the call
   owes its caller the lapse. *)
AskAfresh(c) ==
    LET s == calls[c].session
        a == calls[c].action
        asked == [session |-> s, action |-> a, state |-> "waiting", by |-> None,
                  decideBy |-> now + DecideWithin, redeemBy |-> 0]
    IN /\ Asking(c)
       /\ NothingHeld(s, a)
       /\ Cardinality(WaitingIn(s)) < WaitingPerSession
       /\ \E r \in Requests \ issued : \E owed \in Lapsed(s, a) \cup {None} :
            /\ owed = None => Lapsed(s, a) = {}
            /\ requests' = [q \in (DOMAIN Remembered \ {owed}) \cup {r} |->
                               IF q = r THEN asked ELSE requests[q]]
            /\ issued' = issued \cup {r}
            /\ Proceed(c, [calls[c] EXCEPT !.pc = "seeking", !.request = r, !.owed = owed])
       /\ reply' = None
       /\ UNCHANGED <<now, live, standing, given, lock, sweeping, recordVars>>

(* use_standing finds no agreement: the call answers that a person is awaited. *)
NoStanding(c) ==
    /\ calls[c].pc = "seeking"
    /\ lock = None
    /\ Answering(calls[c].session) = {}
    /\ Finish(c, IF calls[c].owed = None THEN "waiting" ELSE "lapsed")
    /\ UNCHANGED <<now, live, requests, issued, standing, given, sweeping, recordVars>>

(* use_standing finds one, and keeps the lock while the call answers in its name. *)
TakeStanding(c) ==
    /\ calls[c].pc = "seeking"
    /\ lock = None
    /\ \E g \in Answering(calls[c].session) :
        Proceed(c, [calls[c] EXCEPT !.pc = "deciding", !.by = g.id, !.agreed = TRUE,
                                    !.next = "redeem"])
    /\ lock' = c
    /\ reply' = None
    /\ UNCHANGED <<now, live, requests, issued, standing, given, sweeping, recordVars>>

-----------------------------------------------------------------------------
(* apply_answer, for an agent's call under an agreement and for an operator's *)

(* Approvals::decide: only a waiting, unlapsed request of a held session.
   Mutant: one already decided is decided again. *)
Decidable_Again(r) ==
    /\ r \in DOMAIN requests
    /\ now < requests[r].decideBy
    /\ requests[r].session \in live

Decidable(r) ==
    /\ r \in DOMAIN requests
    /\ requests[r].state = "waiting"
    /\ now < requests[r].decideBy
    /\ requests[r].session \in live

Decided(r, by, agreed) ==
    requests' = [requests EXCEPT
        ![r].state = IF agreed THEN "unrecorded" ELSE "refused",
        ![r].by = by,
        ![r].redeemBy = IF agreed THEN now + RedeemWithin ELSE @]

AgentDecides(c) ==
    /\ calls[c].pc = "deciding"
    /\ \/ /\ Decidable(calls[c].request)
          /\ Decided(calls[c].request, calls[c].by, TRUE)
          /\ Proceed(c, [calls[c] EXCEPT !.pc = "recording"])
          /\ reply' = None
          /\ UNCHANGED lock
       \/ /\ ~Decidable(calls[c].request)
          /\ Finish(c, "error")
          /\ UNCHANGED requests
    /\ UNCHANGED <<now, live, issued, standing, given, sweeping, recordVars>>

(* An operator answers a request; `next` is "grant" when approving the session. *)
OperatorDecides(o, r, agreed, next) ==
    /\ calls[o] = Idle
    /\ next = "grant" => agreed
    /\ Decidable(r)
    /\ Decided(r, Direct, agreed)
    /\ Proceed(o, [Idle EXCEPT !.pc = "recording", !.session = requests[r].session,
                               !.request = r, !.by = Direct, !.agreed = agreed, !.next = next])
    /\ reply' = None
    /\ UNCHANGED <<now, live, issued, standing, given, lock, sweeping, recordVars>>

AfterAnswer(c) ==
    IF calls[c].next = "finish"
    THEN Finish(c, "done")
    ELSE /\ Proceed(c, [calls[c] EXCEPT !.pc = IF calls[c].next = "grant" THEN "granting" ELSE "redeeming"])
         /\ reply' = None
         /\ UNCHANGED lock

(* Ledger::record_answer: the entry is written, or the record refuses it and the
   agreement stays unredeemable.  Mutant: it is unlocked whatever the record said. *)
RecordAnswer_IgnoresFailure(c) ==
    /\ calls[c].pc = "recording"
    /\ \/ answers' = answers \cup
             {[request |-> calls[c].request, by |-> calls[c].by, agreed |-> calls[c].agreed]}
       \/ UNCHANGED answers
    /\ IF calls[c].agreed
       THEN /\ Proceed(c, [calls[c] EXCEPT !.pc = "marking"])
            /\ reply' = None
            /\ UNCHANGED lock
       ELSE Finish(c, "done")
    /\ UNCHANGED <<now, live, requests, issued, standing, given, sweeping, receipts>>

RecordAnswer(c) ==
    /\ calls[c].pc = "recording"
    /\ \/ /\ answers' = answers \cup
                {[request |-> calls[c].request, by |-> calls[c].by, agreed |-> calls[c].agreed]}
          /\ IF calls[c].agreed
             THEN /\ Proceed(c, [calls[c] EXCEPT !.pc = "marking"])
                  /\ reply' = None
                  /\ UNCHANGED lock
             ELSE Finish(c, "done")
       \/ /\ Finish(c, "error")
          /\ UNCHANGED answers
    /\ UNCHANGED <<now, live, requests, issued, standing, given, sweeping, receipts>>

(* mark_recorded unlocks the agreement if it is still there. *)
Mark(c) ==
    LET r == calls[c].request
    IN /\ calls[c].pc = "marking"
       /\ requests' = IF r \in DOMAIN requests /\ requests[r].state = "unrecorded"
                      THEN [requests EXCEPT ![r].state = "approved"]
                      ELSE requests
       /\ AfterAnswer(c)
       /\ UNCHANGED <<now, live, issued, standing, given, sweeping, recordVars>>

(* redeem_action_with, still under the standing lock. *)
Redeem(c) ==
    LET r == calls[c].request
    IN /\ calls[c].pc = "redeeming"
       /\ \/ /\ r \in DOMAIN requests
             /\ requests[r].state = "approved"
             /\ now < requests[r].redeemBy
             /\ requests[r].action = calls[c].action
             /\ requests' = Spent(requests, r)
             /\ receipts' = [receipts EXCEPT ![r] = @ + 1]
             /\ Finish(c, "ready")
          \/ \* any check above fails, or record_approval does
             /\ Finish(c, "error")
             /\ UNCHANGED <<requests, receipts>>
       /\ UNCHANGED <<now, live, issued, standing, given, sweeping, answers>>

-----------------------------------------------------------------------------
(* Standing agreements, sweeps, sessions and time *)

(* approve_session: grant_standing, for at most the cap, replacing the session's. *)
Grant(o, id, for) ==
    /\ calls[o].pc = "granting"
    /\ lock = None
    /\ id \in Agreements \ given
    /\ \E at \in Readings :
        standing' = {g \in standing : at < g.until /\ g.session # calls[o].session}
                        \cup {[id |-> id, session |-> calls[o].session, until |-> at + for]}
    /\ given' = given \cup {id}
    /\ Proceed(o, Idle)
    /\ reply' = "done"
    /\ UNCHANGED <<now, live, requests, issued, lock, sweeping, recordVars>>

(* Withdrawal waits for the call answering in the agreement's name. *)
RevokeStanding(id) ==
    /\ lock = None
    /\ standing' = {g \in standing : g.id # id}
    /\ reply' = None
    /\ UNCHANGED <<now, live, requests, issued, given, lock, sweeping, calls, recordVars>>

(* Approvals::sweep takes one lock after the other. *)
SweepRequests ==
    /\ \E at \in Readings :
        requests' = [r \in {q \in DOMAIN requests :
                                ~Forgettable(requests[q], at) /\ requests[q].session \in live}
                        |-> requests[r]]
    /\ sweeping' = TRUE
    /\ reply' = None
    /\ UNCHANGED <<now, live, issued, standing, given, lock, calls, recordVars>>

(* Mutant: the second part of a sweep takes no lock. *)
SweepStanding_NoLock ==
    /\ sweeping
    /\ \E at \in Readings : standing' = {g \in standing : at < g.until /\ g.session \in live}
    /\ sweeping' = FALSE
    /\ reply' = None
    /\ UNCHANGED <<now, live, requests, issued, given, lock, calls, recordVars>>

SweepStanding ==
    /\ sweeping
    /\ lock = None
    /\ \E at \in Readings : standing' = {g \in standing : at < g.until /\ g.session \in live}
    /\ sweeping' = FALSE
    /\ reply' = None
    /\ UNCHANGED <<now, live, requests, issued, given, lock, calls, recordVars>>

(* A session expires or is closed, terminated or evicted. *)
SessionEnds(s) ==
    /\ s \in live
    /\ live' = live \ {s}
    /\ reply' = None
    /\ UNCHANGED <<now, storeVars, calls, recordVars>>

Tick ==
    /\ now < MaxNow
    /\ now' = now + 1
    /\ reply' = None
    /\ UNCHANGED <<live, storeVars, calls, recordVars>>

-----------------------------------------------------------------------------
Init ==
    /\ now = 0
    /\ live = Sessions
    /\ requests = [r \in {} |-> None]
    /\ issued = {}
    /\ standing = {}
    /\ given = {}
    /\ lock = None
    /\ sweeping = FALSE
    /\ calls = [c \in Callers |-> Idle]
    /\ answers = {}
    /\ receipts = [r \in Requests |-> 0]
    /\ reply = None

Ask(c) ==
    AskCollects(c) \/ AskRefused(c) \/ AskPending(c) \/ AskTurnedAway(c) \/ AskAfresh(c)

(* The steps of a call that has begun. *)
AgentStep(c) ==
    Ask(c) \/ NoStanding(c) \/ TakeStanding(c) \/ AgentDecides(c) \/ Redeem(c)

AnswerStep(c) == RecordAnswer(c) \/ Mark(c)

Next ==
    \/ \E c \in Agents : AgentStep(c) \/ \E s \in Sessions, a \in Actions : Begin(c, s, a)
    \/ \E c \in Callers : AnswerStep(c)
    \/ \E o \in Operators, r \in Requests, agreed \in BOOLEAN, next \in {"grant", "finish"} :
          OperatorDecides(o, r, agreed, next)
    \/ \E o \in Operators, id \in Agreements, for \in 0 .. StandingCap : Grant(o, id, for)
    \/ \E id \in Agreements : RevokeStanding(id)
    \/ SweepRequests
    \/ SweepStanding
    \/ \E s \in Sessions : SessionEnds(s)
    \/ Tick

Spec == Init /\ [][Next]_vars

(* A thread that has begun a call runs on: nothing it does waits for a person. *)
FairSpec == Spec /\ \A c \in Callers : WF_vars(AgentStep(c) \/ AnswerStep(c))

-----------------------------------------------------------------------------
(* Properties *)

(* What a call carries at each phase. *)
Carries(k) ==
    /\ k.pc = "idle" => k = Idle
    /\ k.pc # "idle" => k.session \in Sessions
    /\ k.pc \in {"asking", "seeking"} \/ k.next = "redeem" => k.action \in Actions
    /\ k.pc \notin {"idle", "asking"} => k.request \in Requests
    /\ k.pc \notin {"idle", "asking", "seeking"} => k.by \in Approvers

(* Type invariant: every variable is of its type, the map only holds identifiers
   that were given out, and a call carries what its next step reads. *)
TypeOK ==
    /\ now \in Nat
    /\ live \subseteq Sessions
    /\ issued \subseteq Requests
    /\ DOMAIN requests \subseteq issued
    /\ requests \in [DOMAIN requests -> Held]
    /\ standing \subseteq Agreement
    /\ given \subseteq Agreements
    /\ lock \in Agents \cup {None}
    /\ sweeping \in BOOLEAN
    /\ calls \in [Callers -> Call]
    /\ \A c \in Callers : Carries(calls[c])
    /\ answers \subseteq [request : Requests, by : Approvers, agreed : BOOLEAN]
    /\ receipts \in [Requests -> Nat]
    /\ reply \in Replies \cup {None}

(* Whatever retries, decisions and lapses overlap, one session never has two
   unspent requests about one action: ask_with's lookups and its removal of the
   lapsed agreement leave a person one thing to read and the agent one answer. *)
OneRequestPerAction ==
    \A q, r \in DOMAIN requests :
        /\ requests[q].state # "redeemed" /\ requests[r].state # "redeemed"
        /\ requests[q].session = requests[r].session
        /\ requests[q].action = requests[r].action
        => q = r

(* Nothing is authorised by an agreement the audit record does not already hold:
   the unrecorded state keeps a retry that lands between decide and mark_recorded
   from collecting it, and a failed record_answer from ever unlocking it. *)
ReceiptsRestOnRecordedAnswer ==
    \A r \in Requests : receipts[r] > 0 => \E a \in answers : a.request = r /\ a.agreed

(* An agreement is spent once, whichever of two retries and a call answering
   under a standing agreement reach it, and whatever the sink failed before. *)
OneReceiptPerRequest == \A r \in Requests : receipts[r] <= 1

(* The standing lock makes choosing an agreement and answering in its name one
   step for whoever withdraws, replaces or sweeps it: the agreement a call has
   chosen stays in the store until the call is done. *)
SelectedAgreementStands ==
    \A c \in Agents : lock = c => \E g \in standing : g.id = calls[c].by

(* A no stands for as long as its session does (Held::forgettable): the refusal
   is not forgotten, and neither asking again nor a standing agreement turns the
   same action into a request or a receipt meanwhile. *)
RefusalStands ==
    [][\A r \in DOMAIN requests :
        /\ requests[r].state = "refused"
        /\ requests[r].session \in live'
        => /\ r \in DOMAIN requests' /\ requests'[r] = requests[r]
           /\ \A q \in Requests :
                /\ q \in DOMAIN requests' \ DOMAIN requests
                => requests'[q].session # requests[r].session \/ requests'[q].action # requests[r].action
           /\ \A q \in DOMAIN requests :
                receipts'[q] # receipts[q]
                => requests[q].session # requests[r].session \/ requests[q].action # requests[r].action]_vars

(* A recorded yes is never lost on a clock: it leaves the map spent, with its
   session, or into the hands of the call that owes its caller the lapse. *)
RecordedYesKept ==
    [][\A r \in DOMAIN requests :
        requests[r].state = "approved"
        => \/ r \in DOMAIN requests' /\ requests'[r].state \in {"approved", "redeemed"}
           \/ requests[r].session \notin live
           \/ \E c \in Agents : calls'[c].owed = r]_vars

(* The limit on waiting requests turns an agent away only over the other actions
   its session waits on: one that comes for the answer to something it has already
   asked, or to collect a yes, is never refused its turn (ask_with counts last). *)
TurnedAwayOnlyByOthers ==
    [][\A c \in Agents :
        calls[c].pc = "asking" /\ calls'[c] = Idle /\ reply' = "too many"
        => /\ Cardinality({r \in DOMAIN requests :
                 requests[r].session = calls[c].session /\ requests[r].action # calls[c].action
                    /\ requests[r].state = "waiting" /\ now < requests[r].decideBy})
               >= WaitingPerSession
           /\ Collectable(calls[c].session, calls[c].action) = {}]_vars

(* A request is answered once in the record, however an operator's answer, a second
   operator's and a standing agreement's overlap between decide and record_answer;
   so no request is both refused and agreed to. *)
OneAnswerPerRequest == \A a, b \in answers : a.request = b.request => a = b

(* No answer is written in the name of an agreement that was withdrawn, replaced
   or swept before it. *)
WithdrawnAgreementAnswersNothing ==
    [][\A a \in answers' \ answers : a.by # Direct => \E g \in standing : g.id = a.by]_vars

(* The mutex of `standing`, which every withdrawal waits for, is given back on
   every path of the call that took it. *)
StandingLockReleased == \A c \in Agents : lock = c ~> lock # c

(* The strengthening of the three properties about receipts and answers that every
   step preserves: how the store, the calls between decide and mark_recorded, and
   the record stand to each other. *)
Answered(r) == \E a \in answers : a.request = r
SaidYes(r) == \E a \in answers : a.request = r /\ a.agreed
Writing(c, r) == calls[c].pc = "recording" /\ calls[c].request = r
Untouched(r) == ~Answered(r) /\ receipts[r] = 0 /\ \A c \in Callers : ~Writing(c, r)

RecordInv ==
    /\ \A r \in Requests \ issued : Untouched(r)
    /\ \A r \in DOMAIN requests :
        /\ requests[r].state = "waiting" => Untouched(r)
        /\ requests[r].state = "unrecorded" => receipts[r] = 0
        /\ requests[r].state = "approved" => SaidYes(r) /\ receipts[r] = 0
    /\ \A c \in Callers :
        /\ calls[c].pc \in {"seeking", "deciding", "recording"} => calls[c].request \in issued
        /\ calls[c].pc = "recording" => ~Answered(calls[c].request)
        /\ calls[c].pc = "marking" => SaidYes(calls[c].request)
    /\ \A c, d \in Callers : \A r \in Requests : Writing(c, r) /\ Writing(d, r) => c = d
    /\ OneAnswerPerRequest
    /\ OneReceiptPerRequest
    /\ ReceiptsRestOnRecordedAnswer

(* The store and the ledger implement the approval gate. *)
Gate == INSTANCE ApprovalGate WITH
            yes <- {a.request : a \in {b \in answers : b.agreed}},
            no <- {a.request : a \in {b \in answers : ~b.agreed}},
            minted <- receipts

(* Every step of the calls, sweeps, withdrawals and session ends is a step of the
   gate or none: answered once, minted only on a recorded yes, and once. *)
ImplementsGate == Gate!Spec

(* approval.rs:625 and :763 : "a call that never reported it cannot spend it".  A call
   for which the lapsed agreement was let go of answers with the lapse. *)
LapseTold ==
    [][\A c \in Agents : calls[c].owed # None /\ calls'[c] = Idle => reply' = "lapsed"]_vars

(* docs/design.md: "a revoked agreement cannot be used to mint another approval".
   An Approved entry naming an agreement is written while the agreement stands. *)
RevokedAgreementMintsNothing ==
    [][\A r \in DOMAIN requests :
        /\ receipts'[r] # receipts[r]
        /\ requests[r].by # Direct
        => \E g \in standing : g.id = requests[r].by]_vars
=============================================================================
