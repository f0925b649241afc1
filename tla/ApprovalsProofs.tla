-------------------------- MODULE ApprovalsProofs --------------------------
(***************************************************************************)
(* Proofs about Approvals for every number of sessions, callers, requests  *)
(* and agreements, and for all windows and limits.                         *)
(***************************************************************************)
EXTENDS Approvals, TLAPS

(* The part of the type invariant about the calls in flight. *)
CallsTyped ==
    /\ calls \in [Callers -> Call]
    /\ \A c \in Callers : Carries(calls[c])

(* A call that goes on to a well-formed record leaves the calls well-formed. *)
LEMMA ProceedTyped ==
    ASSUME CallsTyped, NEW c \in Callers, NEW k \in Call, Carries(k), Proceed(c, k)
    PROVE  CallsTyped'
BY DEF CallsTyped, Proceed, Carries

LEMMA IdleIsCall == Idle \in Call /\ Carries(Idle)
BY DEF Idle, Call, Phases, Approvers, Carries

(* A call that returns leaves `calls`, `lock` and `reply` of their types. *)
LEMMA FinishTyped ==
    ASSUME TypeOK, NEW c \in Callers, NEW what \in Replies, Finish(c, what)
    PROVE  /\ CallsTyped'
           /\ lock' \in Agents \cup {None}
           /\ reply' \in Replies \cup {None}
<1>1. CallsTyped'
  BY IdleIsCall, ProceedTyped DEF TypeOK, CallsTyped, Finish
<1>. QED BY <1>1 DEF TypeOK, Finish

(* The map ask_with works on is a part of the store, without what is forgettable. *)
LEMMA RememberedTyped ==
    ASSUME TypeOK
    PROVE  /\ DOMAIN Remembered \subseteq DOMAIN requests
           /\ Remembered \in [DOMAIN Remembered -> Held]
           /\ \A r \in DOMAIN Remembered : Remembered[r] = requests[r]
           /\ \A r \in DOMAIN Remembered : ~Forgettable(requests[r], now)
           /\ \A r \in DOMAIN requests : ~Forgettable(requests[r], now) => r \in DOMAIN Remembered
BY DEF TypeOK, Remembered

(* A decision keeps the store a map of Held. *)
LEMMA DecidedTyped ==
    ASSUME TypeOK, NEW r \in Requests, NEW by \in Approvers, NEW agreed \in BOOLEAN,
           Decidable(r), Decided(r, by, agreed)
    PROVE  DOMAIN requests' = DOMAIN requests /\ requests' \in [DOMAIN requests -> Held]
<1> DEFINE held == [requests[r] EXCEPT
                      !.state = IF agreed THEN "unrecorded" ELSE "refused", !.by = by,
                      !.redeemBy = IF agreed THEN now + RedeemWithin ELSE @]
<1>1. requests[r] \in Held /\ r \in DOMAIN requests
  BY DEF TypeOK, Decidable
<1>2. held \in Held
  <2>1. now + RedeemWithin \in Nat
    BY ConstantsAssumption DEF TypeOK
  <2>2. requests[r].redeemBy \in Nat
    BY <1>1 DEF Held
  <2>3. (IF agreed THEN now + RedeemWithin ELSE requests[r].redeemBy) \in Nat
    BY <2>1, <2>2
  <2>4. (IF agreed THEN "unrecorded" ELSE "refused") \in States
    BY DEF States
  <2>. QED BY <1>1, <2>3, <2>4 DEF Held
<1>3. requests' = [requests EXCEPT ![r] = held]
  BY <1>1 DEF Decided, Held
<1>. QED BY <1>1, <1>2, <1>3 DEF TypeOK

(* Type correctness of the approval store, the calls and the record: every step of
   every handler leaves each variable in its type (TypeOK). *)
THEOREM TypeInvariant == Spec => []TypeOK
<1>1. Init => TypeOK
  <2> SUFFICES ASSUME Init PROVE TypeOK
    OBVIOUS
  <2>1. DOMAIN requests = {} /\ requests \in [DOMAIN requests -> Held]
    BY DEF Init
  <2>2. CallsTyped
    BY IdleIsCall DEF Init, CallsTyped
  <2>. QED BY <2>1, <2>2 DEF Init, TypeOK, CallsTyped
<1>2. TypeOK /\ [Next]_vars => TypeOK'
  <2> SUFFICES ASSUME TypeOK, [Next]_vars PROVE TypeOK'
    OBVIOUS
  <2> USE ConstantsAssumption
  <2>0. CallsTyped /\ \A c \in Callers : calls[c] \in Call /\ Carries(calls[c])
    BY DEF TypeOK, CallsTyped
  <2>1. ASSUME NEW c \in Agents, NEW s \in Sessions, NEW a \in Actions, Begin(c, s, a)
        PROVE  TypeOK'
    <3> DEFINE k == [Idle EXCEPT !.pc = "asking", !.session = s, !.action = a]
    <3>1. k \in Call /\ Carries(k)
      BY DEF Idle, Call, Carries, Phases, Approvers
    <3>2. Proceed(c, k)
      BY <2>1 DEF Begin
    <3>3. CallsTyped'
      <4> HIDE DEF k
      <4>. QED BY <2>0, <3>1, <3>2, ProceedTyped DEF Callers
    <3>. QED BY <2>1, <3>3 DEF Begin, TypeOK, CallsTyped, storeVars, recordVars
  <2>2. ASSUME NEW c \in Agents, AskCollects(c) PROVE TypeOK'
    <3>1. PICK r \in Collectable(calls[c].session, calls[c].action) :
            \/ /\ requests' = [Remembered EXCEPT ![r].state = "redeemed"]
               /\ receipts' = [receipts EXCEPT ![r] = @ + 1]
               /\ Finish(c, "ready")
            \/ /\ requests' = Remembered
               /\ Finish(c, "error")
               /\ UNCHANGED receipts
      BY <2>2 DEF AskCollects, Spent
    <3>2. r \in DOMAIN Remembered /\ r \in Requests
      BY <3>1, RememberedTyped DEF Collectable, InState, About, TypeOK
    <3>3. /\ DOMAIN requests' \subseteq issued
          /\ requests' \in [DOMAIN requests' -> Held]
      <4>1. Remembered[r] \in Held
        BY <3>2, RememberedTyped
      <4>2. [Remembered[r] EXCEPT !.state = "redeemed"] \in Held
        BY <4>1 DEF Held, States
      <4>. QED BY <3>1, <3>2, <4>1, <4>2, RememberedTyped DEF TypeOK
    <3>4. /\ CallsTyped'
          /\ lock' \in Agents \cup {None}
          /\ reply' \in Replies \cup {None}
      BY <3>1, FinishTyped DEF Replies, Callers
    <3>5. receipts' \in [Requests -> Nat]
      BY <3>1, <3>2 DEF TypeOK
    <3>. QED BY <2>2, <3>3, <3>4, <3>5 DEF AskCollects, TypeOK, CallsTyped
  <2>3. ASSUME NEW c \in Agents, AskRefused(c) \/ AskTurnedAway(c) PROVE TypeOK'
    <3>1. /\ CallsTyped'
          /\ lock' \in Agents \cup {None}
          /\ reply' \in Replies \cup {None}
      BY <2>3, FinishTyped DEF AskRefused, AskTurnedAway, Replies, Callers
    <3>. QED BY <2>3, <3>1, RememberedTyped
             DEF AskRefused, AskTurnedAway, TypeOK, CallsTyped, recordVars
  <2>4. ASSUME NEW c \in Agents, AskPending(c) PROVE TypeOK'
    <3>1. PICK r \in InState(calls[c].session, calls[c].action, {"waiting", "unrecorded"}) :
            Proceed(c, [calls[c] EXCEPT !.pc = "seeking", !.request = r])
      BY <2>4 DEF AskPending
    <3> DEFINE k == [calls[c] EXCEPT !.pc = "seeking", !.request = r]
    <3>2. r \in Requests
      BY RememberedTyped DEF InState, About, TypeOK
    <3>3. calls[c].pc = "asking" /\ calls[c] \in Call /\ Carries(calls[c])
      BY <2>0, <2>4 DEF AskPending, Asking, Callers
    <3>4. k \in Call /\ Carries(k)
      BY <3>2, <3>3 DEF Call, Carries, Phases
    <3>5. CallsTyped'
      <4> HIDE DEF k
      <4>. QED BY <2>0, <3>1, <3>4, ProceedTyped DEF Callers, k
    <3>6. requests' = Remembered /\ reply' = None
          /\ UNCHANGED <<now, live, issued, standing, given, lock, sweeping, recordVars>>
      BY <2>4 DEF AskPending
    <3>. QED BY <3>5, <3>6, RememberedTyped DEF TypeOK, CallsTyped, recordVars
  <2>5. ASSUME NEW c \in Agents, AskAfresh(c) PROVE TypeOK'
    <3> DEFINE s == calls[c].session
               a == calls[c].action
               asked == [session |-> s, action |-> a, state |-> "waiting", by |-> None,
                         decideBy |-> now + DecideWithin, redeemBy |-> 0]
    <3>1. PICK r \in Requests \ issued, owed \in Lapsed(s, a) \cup {None} :
            /\ requests' = [q \in (DOMAIN Remembered \ {owed}) \cup {r} |->
                               IF q = r THEN asked ELSE requests[q]]
            /\ issued' = issued \cup {r}
            /\ Proceed(c, [calls[c] EXCEPT !.pc = "seeking", !.request = r, !.owed = owed])
      BY <2>5 DEF AskAfresh
    <3> DEFINE k == [calls[c] EXCEPT !.pc = "seeking", !.request = r, !.owed = owed]
    <3>2. owed \in Requests \cup {None}
      BY RememberedTyped DEF Lapsed, InState, About, TypeOK
    <3>3. calls[c].pc = "asking" /\ calls[c] \in Call /\ Carries(calls[c])
      BY <2>0, <2>5 DEF AskAfresh, Asking, Callers
    <3>4. k \in Call /\ Carries(k)
      BY <3>2, <3>3 DEF Call, Carries, Phases
    <3>5. CallsTyped'
      <4> HIDE DEF k
      <4>. QED BY <2>0, <3>1, <3>4, ProceedTyped DEF Callers, k
    <3>6. s \in Sessions /\ a \in Actions
      BY <3>3 DEF Carries
    <3>7. asked \in Held
      BY <3>6 DEF Held, States, TypeOK
    <3>8. /\ DOMAIN requests' \subseteq issued'
          /\ requests' \in [DOMAIN requests' -> Held]
          /\ issued' \subseteq Requests
      <4> HIDE DEF asked
      <4>. QED BY <3>1, <3>7, RememberedTyped DEF TypeOK
    <3>9. reply' = None /\ UNCHANGED <<now, live, standing, given, lock, sweeping, recordVars>>
      BY <2>5 DEF AskAfresh
    <3>. QED BY <3>5, <3>8, <3>9 DEF TypeOK, CallsTyped, recordVars
  <2>6. ASSUME NEW c \in Agents, NoStanding(c) PROVE TypeOK'
    <3>1. PICK what \in Replies : Finish(c, what)
      BY <2>6 DEF NoStanding, Replies
    <3>2. /\ CallsTyped'
          /\ lock' \in Agents \cup {None}
          /\ reply' \in Replies \cup {None}
      BY <3>1, FinishTyped DEF Callers
    <3>. QED BY <2>6, <3>2 DEF NoStanding, TypeOK, CallsTyped, recordVars
  <2>7. ASSUME NEW c \in Agents, TakeStanding(c) PROVE TypeOK'
    <3>1. PICK g \in Answering(calls[c].session) :
            Proceed(c, [calls[c] EXCEPT !.pc = "deciding", !.by = g.id, !.agreed = TRUE,
                                        !.next = "redeem"])
      BY <2>7 DEF TakeStanding
    <3> DEFINE k == [calls[c] EXCEPT !.pc = "deciding", !.by = g.id, !.agreed = TRUE,
                                     !.next = "redeem"]
    <3>2. g.id \in Agreements
      BY DEF Answering, TypeOK, Agreement
    <3>3. calls[c].pc = "seeking" /\ calls[c] \in Call /\ Carries(calls[c])
      BY <2>0, <2>7 DEF TakeStanding, Callers
    <3>4. k \in Call /\ Carries(k)
      BY <3>2, <3>3 DEF Call, Carries, Phases, Approvers
    <3>5. CallsTyped'
      <4> HIDE DEF k
      <4>. QED BY <2>0, <3>1, <3>4, ProceedTyped DEF Callers, k
    <3>6. lock' = c /\ reply' = None
          /\ UNCHANGED <<now, live, requests, issued, standing, given, sweeping, recordVars>>
      BY <2>7 DEF TakeStanding
    <3>. QED BY <3>5, <3>6 DEF TypeOK, CallsTyped, recordVars
  <2>8. ASSUME NEW c \in Agents, AgentDecides(c) PROVE TypeOK'
    <3>1. calls[c].pc = "deciding" /\ calls[c] \in Call /\ Carries(calls[c])
      BY <2>0, <2>8 DEF AgentDecides, Callers
    <3>2. CASE /\ Decidable(calls[c].request)
               /\ Decided(calls[c].request, calls[c].by, TRUE)
               /\ Proceed(c, [calls[c] EXCEPT !.pc = "recording"])
               /\ reply' = None
               /\ UNCHANGED lock
      <4> DEFINE k == [calls[c] EXCEPT !.pc = "recording"]
      <4>1. k \in Call /\ Carries(k)
        BY <3>1 DEF Call, Carries, Phases
      <4>2. CallsTyped'
        <5> HIDE DEF k
        <5>. QED BY <2>0, <3>2, <4>1, ProceedTyped DEF Callers, k
      <4>3. DOMAIN requests' = DOMAIN requests /\ requests' \in [DOMAIN requests -> Held]
        BY <3>1, <3>2, DecidedTyped DEF Carries
      <4>. QED BY <2>8, <3>2, <4>2, <4>3 DEF AgentDecides, TypeOK, CallsTyped, recordVars
    <3>3. CASE Finish(c, "error") /\ UNCHANGED requests
      <4>1. /\ CallsTyped'
            /\ lock' \in Agents \cup {None}
            /\ reply' \in Replies \cup {None}
        BY <3>3, FinishTyped DEF Callers, Replies
      <4>. QED BY <2>8, <3>3, <4>1 DEF AgentDecides, TypeOK, CallsTyped, recordVars
    <3>. QED BY <2>8, <3>2, <3>3 DEF AgentDecides
  <2>9. ASSUME NEW c \in Agents, Redeem(c) PROVE TypeOK'
    <3>1. PICK what \in Replies : Finish(c, what)
      BY <2>9 DEF Redeem, Replies
    <3>2. /\ CallsTyped'
          /\ lock' \in Agents \cup {None}
          /\ reply' \in Replies \cup {None}
      BY <3>1, FinishTyped DEF Callers
    <3>3. /\ DOMAIN requests' = DOMAIN requests
          /\ requests' \in [DOMAIN requests -> Held]
          /\ receipts' \in [Requests -> Nat]
      <4> DEFINE r == calls[c].request
      <4>1. CASE UNCHANGED <<requests, receipts>>
        BY <4>1 DEF TypeOK
      <4>2. CASE /\ r \in DOMAIN requests
                 /\ requests' = [requests EXCEPT ![r].state = "redeemed"]
                 /\ receipts' = [receipts EXCEPT ![r] = @ + 1]
        <5>1. requests[r] \in Held /\ r \in Requests
          BY <4>2 DEF TypeOK
        <5>2. [requests[r] EXCEPT !.state = "redeemed"] \in Held
          BY <5>1 DEF Held, States
        <5>. QED BY <4>2, <5>1, <5>2 DEF TypeOK
      <4>. QED BY <2>9, <4>1, <4>2 DEF Redeem, Spent
    <3>. QED BY <2>9, <3>2, <3>3 DEF Redeem, TypeOK, CallsTyped
  <2>10. ASSUME NEW c \in Callers, RecordAnswer(c) PROVE TypeOK'
    <3>1. calls[c].pc = "recording" /\ calls[c] \in Call /\ Carries(calls[c])
      BY <2>0, <2>10 DEF RecordAnswer
    <3>2. /\ CallsTyped'
          /\ lock' \in Agents \cup {None}
          /\ reply' \in Replies \cup {None}
      <4>1. CASE Finish(c, "error") \/ Finish(c, "done")
        BY <4>1, FinishTyped DEF Replies
      <4>2. CASE /\ Proceed(c, [calls[c] EXCEPT !.pc = "marking"])
                 /\ reply' = None
                 /\ UNCHANGED lock
        <5> DEFINE k == [calls[c] EXCEPT !.pc = "marking"]
        <5>1. k \in Call /\ Carries(k)
          BY <3>1 DEF Call, Carries, Phases
        <5>2. CallsTyped'
          <6> HIDE DEF k
          <6>. QED BY <2>0, <4>2, <5>1, ProceedTyped DEF k
        <5>. QED BY <4>2, <5>2 DEF TypeOK
      <4>. QED BY <2>10, <4>1, <4>2 DEF RecordAnswer
    <3>3. answers' \subseteq [request : Requests, by : Approvers, agreed : BOOLEAN]
      BY <2>10, <3>1 DEF RecordAnswer, TypeOK, Call, Carries
    <3>. QED BY <2>10, <3>2, <3>3 DEF RecordAnswer, TypeOK, CallsTyped
  <2>11. ASSUME NEW c \in Callers, Mark(c) PROVE TypeOK'
    <3>1. calls[c].pc = "marking" /\ calls[c] \in Call /\ Carries(calls[c])
      BY <2>0, <2>11 DEF Mark
    <3>2. /\ CallsTyped'
          /\ lock' \in Agents \cup {None}
          /\ reply' \in Replies \cup {None}
      <4> DEFINE k == [calls[c] EXCEPT !.pc = IF calls[c].next = "grant" THEN "granting"
                                                                         ELSE "redeeming"]
      <4>1. CASE Finish(c, "done")
        BY <4>1, FinishTyped DEF Replies
      <4>2. CASE Proceed(c, k) /\ reply' = None /\ UNCHANGED lock
        <5>1. k \in Call /\ Carries(k)
          BY <3>1 DEF Call, Carries, Phases
        <5>2. CallsTyped'
          <6> HIDE DEF k
          <6>. QED BY <2>0, <4>2, <5>1, ProceedTyped DEF k
        <5>. QED BY <4>2, <5>2 DEF TypeOK
      <4>. QED BY <2>11, <4>1, <4>2 DEF Mark, AfterAnswer
    <3>3. DOMAIN requests' = DOMAIN requests /\ requests' \in [DOMAIN requests -> Held]
      <4> DEFINE r == calls[c].request
      <4>1. CASE r \in DOMAIN requests /\ requests[r].state = "unrecorded"
        <5>1. requests[r] \in Held
          BY <4>1 DEF TypeOK
        <5>2. [requests[r] EXCEPT !.state = "approved"] \in Held
          BY <5>1 DEF Held, States
        <5>3. requests' = [requests EXCEPT ![r].state = "approved"]
          BY <2>11, <4>1 DEF Mark
        <5>. QED BY <4>1, <5>1, <5>2, <5>3 DEF TypeOK
      <4>. QED BY <2>11, <4>1 DEF Mark, TypeOK
    <3>4. UNCHANGED <<now, live, issued, standing, given, sweeping, recordVars>>
      BY <2>11 DEF Mark
    <3>. QED BY <3>2, <3>3, <3>4 DEF TypeOK, CallsTyped, recordVars
  <2>12. ASSUME NEW o \in Operators, NEW r \in Requests, NEW agreed \in BOOLEAN,
                NEW next \in {"grant", "finish"}, OperatorDecides(o, r, agreed, next)
         PROVE  TypeOK'
    <3> DEFINE k == [Idle EXCEPT !.pc = "recording", !.session = requests[r].session,
                                 !.request = r, !.by = Direct, !.agreed = agreed, !.next = next]
    <3>1. r \in DOMAIN requests /\ requests[r].session \in Sessions
      BY <2>12 DEF OperatorDecides, Decidable, TypeOK, Held
    <3>2. k \in Call /\ Carries(k)
      BY <3>1 DEF Idle, Call, Carries, Phases, Approvers
    <3>3. Proceed(o, k)
      BY <2>12 DEF OperatorDecides
    <3>4. CallsTyped'
      <4> HIDE DEF k
      <4>. QED BY <2>0, <3>2, <3>3, ProceedTyped DEF Callers
    <3>5. Direct \in Approvers
      BY DEF Approvers
    <3>6. DOMAIN requests' = DOMAIN requests /\ requests' \in [DOMAIN requests -> Held]
      BY <2>12, <3>5, DecidedTyped DEF OperatorDecides
    <3>7. reply' = None
          /\ UNCHANGED <<now, live, issued, standing, given, lock, sweeping, recordVars>>
      BY <2>12 DEF OperatorDecides
    <3>. QED BY <3>4, <3>6, <3>7 DEF TypeOK, CallsTyped, recordVars
  <2>13. ASSUME NEW o \in Operators, NEW id \in Agreements, NEW for \in 0 .. StandingCap,
                Grant(o, id, for)
         PROVE  TypeOK'
    <3>1. calls[o].session \in Sessions
      BY <2>0, <2>13 DEF Grant, Carries, Callers
    <3>2. CallsTyped'
      BY <2>0, <2>13, IdleIsCall, ProceedTyped DEF Grant, Callers
    <3>3. PICK at \in Readings :
             standing' = {g \in standing : at < g.until /\ g.session # calls[o].session}
                             \cup {[id |-> id, session |-> calls[o].session, until |-> at + for]}
      BY <2>13 DEF Grant
    <3>4. [id |-> id, session |-> calls[o].session, until |-> at + for] \in Agreement
      <4>1. at + for \in Nat
        BY ConstantsAssumption DEF Readings, TypeOK
      <4>. QED BY <3>1, <4>1 DEF Agreement
    <3>5. standing' \subseteq Agreement
      BY <3>3, <3>4 DEF TypeOK
    <3>. QED BY <2>13, <3>2, <3>5 DEF Grant, TypeOK, CallsTyped, Replies, recordVars
  <2>14. ASSUME NEW id \in Agreements, RevokeStanding(id) PROVE TypeOK'
    BY <2>14 DEF RevokeStanding, TypeOK, recordVars
  <2>15. CASE SweepRequests
    BY <2>15, RememberedTyped DEF SweepRequests, TypeOK, recordVars
  <2>16. CASE SweepStanding
    BY <2>16 DEF SweepStanding, TypeOK, recordVars
  <2>17. ASSUME NEW s \in Sessions, SessionEnds(s) PROVE TypeOK'
    BY <2>17 DEF SessionEnds, TypeOK, storeVars, recordVars
  <2>18. CASE Tick
    BY <2>18 DEF Tick, TypeOK, storeVars, recordVars
  <2>19. CASE UNCHANGED vars
    BY <2>19 DEF vars, TypeOK, storeVars, recordVars
  <2>. QED BY <2>1, <2>2, <2>3, <2>4, <2>5, <2>6, <2>7, <2>8, <2>9, <2>10, <2>11, <2>12,
              <2>13, <2>14, <2>15, <2>16, <2>17, <2>18, <2>19
           DEF Next, AgentStep, AnswerStep, Ask
<1>. QED BY <1>1, <1>2, PTL DEF Spec

-----------------------------------------------------------------------------
(* The record: every step preserves RecordInv. *)

(* No call starts or changes what it is about to write or to unlock. *)
CallsQuiet ==
    \A c \in Callers :
        /\ calls'[c].pc \in {"recording", "marking"} => calls'[c] = calls[c]
        /\ calls'[c].pc \in {"seeking", "deciding"} => calls'[c].request \in issued

(* The store only forgets, or settles what it keeps. *)
StoreQuiet ==
    \A r \in DOMAIN requests' :
        /\ r \in DOMAIN requests
        /\ \/ requests'[r].state = requests[r].state
           \/ requests'[r].state = "redeemed"

LEMMA QuietStep ==
    ASSUME TypeOK, RecordInv, CallsQuiet, StoreQuiet,
           UNCHANGED <<issued, answers, receipts>>
    PROVE  RecordInv'
<1>1. \A r : Answered(r)' <=> Answered(r)
  BY DEF Answered
<1>2. \A r : SaidYes(r)' <=> SaidYes(r)
  BY DEF SaidYes
<1>3. \A c \in Callers : \A r : Writing(c, r)' => Writing(c, r)
  BY DEF Writing, CallsQuiet
<1>4. \A r \in Requests : Untouched(r) => Untouched(r)'
  BY <1>1, <1>3 DEF Untouched
<1>5. OneAnswerPerRequest' /\ OneReceiptPerRequest' /\ ReceiptsRestOnRecordedAnswer'
  BY DEF RecordInv, OneAnswerPerRequest, OneReceiptPerRequest, ReceiptsRestOnRecordedAnswer
<1>6. \A c \in Callers :
        /\ calls'[c].pc \in {"seeking", "deciding", "recording"} => calls'[c].request \in issued'
        /\ calls'[c].pc = "recording" => ~ \E a \in answers' : a.request = calls'[c].request
        /\ calls'[c].pc = "marking" => \E a \in answers' : a.request = calls'[c].request /\ a.agreed
  BY DEF RecordInv, CallsQuiet, Answered, SaidYes
<1>7. \A r \in DOMAIN requests' :
        /\ requests'[r].state = "waiting" => Untouched(r)'
        /\ requests'[r].state = "unrecorded" => receipts'[r] = 0
        /\ requests'[r].state = "approved" => SaidYes(r)' /\ receipts'[r] = 0
  BY <1>2, <1>4 DEF RecordInv, StoreQuiet, TypeOK
<1>8. \A r \in Requests \ issued' : Untouched(r)'
  BY <1>4 DEF RecordInv
<1>9. \A c, d \in Callers : \A r \in Requests : Writing(c, r)' /\ Writing(d, r)' => c = d
  BY <1>3 DEF RecordInv
<1>. QED BY <1>5, <1>6, <1>7, <1>8, <1>9 DEF RecordInv, Answered, SaidYes

(* A call that returns writes and unlocks nothing more. *)
LEMMA FinishQuiet ==
    ASSUME TypeOK, RecordInv, NEW c \in Callers, NEW what, Finish(c, what)
    PROVE  CallsQuiet
BY DEF TypeOK, RecordInv, Finish, Proceed, CallsQuiet, Idle

(* Spending an approved request, as ask_with and redeem_action_with do. *)
Spends(r) ==
    /\ r \in DOMAIN requests
    /\ requests[r].state = "approved"
    /\ receipts' = [receipts EXCEPT ![r] = @ + 1]
    /\ \A q \in DOMAIN requests' :
         /\ q \in DOMAIN requests
         /\ requests'[q].state = IF q = r THEN "redeemed" ELSE requests[q].state

LEMMA SpendStep ==
    ASSUME TypeOK, RecordInv, CallsQuiet, NEW r, Spends(r), UNCHANGED <<issued, answers>>
    PROVE  RecordInv' /\ r \in Requests /\ SaidYes(r) /\ receipts[r] = 0
<1>1. r \in Requests /\ r \in issued /\ SaidYes(r) /\ receipts[r] = 0
  BY DEF Spends, TypeOK, RecordInv
<1>2. receipts'[r] = 1 /\ \A q \in Requests : q # r => receipts'[q] = receipts[q]
  BY <1>1 DEF Spends, TypeOK
<1>3. \A c \in Callers : \A q : Writing(c, q)' => Writing(c, q)
  BY DEF Writing, CallsQuiet
<1>4. \A q \in Requests : q # r /\ Untouched(q) => Untouched(q)'
  BY <1>2, <1>3 DEF Untouched, Answered
<1>5. OneAnswerPerRequest' /\ OneReceiptPerRequest' /\ ReceiptsRestOnRecordedAnswer'
  BY <1>1, <1>2
     DEF RecordInv, OneAnswerPerRequest, OneReceiptPerRequest, ReceiptsRestOnRecordedAnswer, SaidYes
<1>6. \A c \in Callers :
        /\ calls'[c].pc \in {"seeking", "deciding", "recording"} => calls'[c].request \in issued'
        /\ calls'[c].pc = "recording" => ~ \E a \in answers' : a.request = calls'[c].request
        /\ calls'[c].pc = "marking" => \E a \in answers' : a.request = calls'[c].request /\ a.agreed
  BY DEF RecordInv, CallsQuiet, Answered, SaidYes
<1>7. \A q \in DOMAIN requests' :
        /\ requests'[q].state = "waiting" => Untouched(q)'
        /\ requests'[q].state = "unrecorded" => receipts'[q] = 0
        /\ requests'[q].state = "approved" => SaidYes(q)' /\ receipts'[q] = 0
  BY <1>2, <1>4 DEF RecordInv, Spends, TypeOK, SaidYes
<1>8. \A q \in Requests \ issued' : Untouched(q)'
  BY <1>1, <1>4 DEF RecordInv
<1>9. \A c, d \in Callers : \A q \in Requests : Writing(c, q)' /\ Writing(d, q)' => c = d
  BY <1>3 DEF RecordInv
<1>. QED BY <1>1, <1>5, <1>6, <1>7, <1>8, <1>9 DEF RecordInv, Answered, SaidYes

(* Deciding a waiting request: the call that decides it is the only one that will
   write an answer to it. *)
LEMMA DecideStep ==
    ASSUME TypeOK, RecordInv, NEW c \in Callers, NEW r \in Requests, NEW by, NEW agreed \in BOOLEAN,
           NEW k, k.pc = "recording", k.request = r,
           Decidable(r), Decided(r, by, agreed), Proceed(c, k),
           UNCHANGED <<issued, answers, receipts>>
    PROVE  RecordInv'
<1>1. /\ r \in DOMAIN requests /\ r \in issued /\ requests[r].state = "waiting" /\ Untouched(r)
      /\ ~Answered(r) /\ receipts[r] = 0 /\ \A d \in Callers : ~Writing(d, r)
  BY DEF Decidable, TypeOK, RecordInv, Untouched
<1>2. /\ DOMAIN requests' = DOMAIN requests
      /\ requests'[r].state \in {"unrecorded", "refused"}
      /\ \A q \in DOMAIN requests : q # r => requests'[q] = requests[q]
  BY <1>1 DEF Decided, TypeOK, Held
<1>3. calls'[c] = k /\ \A d \in Callers : d # c => calls'[d] = calls[d]
  BY DEF Proceed, TypeOK
<1>4. /\ \A d \in Callers : \A q : Writing(d, q)' => Writing(d, q) \/ (d = c /\ q = r)
      /\ \A q : Answered(q)' <=> Answered(q)
      /\ \A q : SaidYes(q)' <=> SaidYes(q)
  BY <1>3 DEF Writing, Answered, SaidYes
<1>5. \A q \in Requests : q # r /\ Untouched(q) => Untouched(q)'
  BY <1>4 DEF Untouched
<1>6. OneAnswerPerRequest' /\ OneReceiptPerRequest' /\ ReceiptsRestOnRecordedAnswer'
  BY DEF RecordInv, OneAnswerPerRequest, OneReceiptPerRequest, ReceiptsRestOnRecordedAnswer
<1>7. \A d \in Callers :
        /\ calls'[d].pc \in {"seeking", "deciding", "recording"} => calls'[d].request \in issued'
        /\ calls'[d].pc = "recording" => ~ \E a \in answers' : a.request = calls'[d].request
        /\ calls'[d].pc = "marking" => \E a \in answers' : a.request = calls'[d].request /\ a.agreed
  BY <1>1, <1>3 DEF RecordInv, Answered, SaidYes
<1>8. \A q \in DOMAIN requests' :
        /\ requests'[q].state = "waiting" => Untouched(q)'
        /\ requests'[q].state = "unrecorded" => receipts'[q] = 0
        /\ requests'[q].state = "approved" => SaidYes(q)' /\ receipts'[q] = 0
  BY <1>1, <1>2, <1>4, <1>5 DEF RecordInv, TypeOK
<1>9. \A q \in Requests \ issued' : Untouched(q)'
  BY <1>1, <1>5 DEF RecordInv
<1>10. \A d, e \in Callers : \A q \in Requests : Writing(d, q)' /\ Writing(e, q)' => d = e
  BY <1>1, <1>4 DEF RecordInv
<1>. QED BY <1>6, <1>7, <1>8, <1>9, <1>10 DEF RecordInv, Answered, SaidYes

(* The answer of an undecided request enters the record. *)
LEMMA WriteStep ==
    ASSUME TypeOK, RecordInv, NEW c \in Callers, RecordAnswer(c), answers' # answers
    PROVE  /\ RecordInv'
           /\ ~Answered(calls[c].request) /\ calls[c].request \in Requests
           /\ answers' = answers \cup {[request |-> calls[c].request, by |-> calls[c].by,
                                        agreed |-> calls[c].agreed]}
           /\ calls[c].agreed \in BOOLEAN /\ UNCHANGED receipts
<1> DEFINE r == calls[c].request
           answer == [request |-> r, by |-> calls[c].by, agreed |-> calls[c].agreed]
<1>1. /\ calls[c].pc = "recording" /\ r \in Requests /\ r \in issued /\ ~Answered(r)
      /\ Writing(c, r) /\ calls[c] \in Call
  BY DEF RecordAnswer, TypeOK, Carries, RecordInv, Writing
<1>2. answers' = answers \cup {answer} /\ UNCHANGED <<requests, issued, receipts>>
  BY DEF RecordAnswer
<1>3. /\ \A d \in Callers : d # c => calls'[d] = calls[d]
      /\ calls'[c] = Idle \/ (calls[c].agreed /\ calls'[c] = [calls[c] EXCEPT !.pc = "marking"])
  BY <1>2 DEF RecordAnswer, Finish, Proceed, TypeOK
<1>4. calls'[c].pc = "idle" \/ (calls'[c].pc = "marking" /\ calls'[c].request = r /\ calls[c].agreed)
  BY <1>1, <1>3 DEF Idle, Call
<1>5. /\ \A q : q # r => (Answered(q)' <=> Answered(q))
      /\ \A q : SaidYes(q) => SaidYes(q)'
      /\ calls[c].agreed => \E a \in answers' : a.request = r /\ a.agreed
  <2>1. answer \in answers' /\ answer.request = r /\ answer.agreed = calls[c].agreed
    BY <1>2
  <2>2. calls[c].agreed => \E a \in answers' : a.request = r /\ a.agreed
    <3> HIDE DEF answer, r
    <3>. QED BY <2>1, Zenon
  <2>. QED BY <1>2, <2>2 DEF Answered, SaidYes
<1>6. \A d \in Callers : \A q : Writing(d, q)' => Writing(d, q) /\ d # c
  BY <1>3, <1>4 DEF Writing
<1>7. \A q \in Requests : Untouched(q) => q # r /\ Untouched(q)'
  BY <1>1, <1>2, <1>5, <1>6 DEF Untouched
<1>8. OneAnswerPerRequest' /\ OneReceiptPerRequest' /\ ReceiptsRestOnRecordedAnswer'
  BY <1>1, <1>2
     DEF RecordInv, OneAnswerPerRequest, OneReceiptPerRequest, ReceiptsRestOnRecordedAnswer, Answered
<1>9. \A d \in Callers :
        /\ calls'[d].pc \in {"seeking", "deciding", "recording"} => calls'[d].request \in issued'
        /\ calls'[d].pc = "recording" => ~ \E a \in answers' : a.request = calls'[d].request
        /\ calls'[d].pc = "marking" => \E a \in answers' : a.request = calls'[d].request /\ a.agreed
  <2>1. SUFFICES ASSUME NEW d \in Callers, d # c
                 PROVE  /\ calls'[d].pc \in {"seeking", "deciding", "recording"} => calls'[d].request \in issued'
                        /\ calls'[d].pc = "recording" => ~ \E a \in answers' : a.request = calls'[d].request
                        /\ calls'[d].pc = "marking" =>
                             \E a \in answers' : a.request = calls'[d].request /\ a.agreed
    BY <1>2, <1>4
  <2>2. calls'[d] = calls[d]
    BY <1>3, <2>1
  <2>3. calls[d].pc = "recording" => calls[d].request # r
    BY <1>1, <2>1 DEF RecordInv, Writing
  <2>. QED BY <1>2, <2>2, <2>3 DEF RecordInv, Answered, SaidYes
<1>10. \A q \in DOMAIN requests' :
        /\ requests'[q].state = "waiting" => Untouched(q)'
        /\ requests'[q].state = "unrecorded" => receipts'[q] = 0
        /\ requests'[q].state = "approved" => SaidYes(q)' /\ receipts'[q] = 0
  BY <1>2, <1>5, <1>7 DEF RecordInv, TypeOK
<1>11. \A q \in Requests \ issued' : Untouched(q)'
  BY <1>2, <1>7 DEF RecordInv
<1>12. \A d, e \in Callers : \A q \in Requests : Writing(d, q)' /\ Writing(e, q)' => d = e
  BY <1>6 DEF RecordInv
<1>13. RecordInv'
  BY <1>8, <1>9, <1>10, <1>11, <1>12 DEF RecordInv, Answered, SaidYes
<1>. QED BY <1>1, <1>2, <1>13 DEF Call

(* mark_recorded unlocks only what the record holds a yes for. *)
LEMMA MarkStep ==
    ASSUME TypeOK, RecordInv, NEW c \in Callers, Mark(c)
    PROVE  RecordInv'
<1> DEFINE r == calls[c].request
<1>1. calls[c].pc = "marking" /\ SaidYes(r) /\ calls[c] \in Call
  BY DEF Mark, RecordInv, TypeOK
<1>2. /\ UNCHANGED <<issued, answers, receipts>>
      /\ DOMAIN requests' = DOMAIN requests
      /\ \A q \in DOMAIN requests :
           \/ requests'[q].state = requests[q].state
           \/ q = r /\ requests[q].state = "unrecorded" /\ requests'[q].state = "approved"
  BY DEF Mark, TypeOK, recordVars, Held
<1>3. /\ \A d \in Callers : d # c => calls'[d] = calls[d]
      /\ calls'[c].pc \in {"idle", "granting", "redeeming"}
  BY <1>1 DEF Mark, AfterAnswer, Finish, Proceed, TypeOK, Idle, Call
<1>4. \A d \in Callers : \A q : Writing(d, q)' => Writing(d, q)
  BY <1>3 DEF Writing
<1>5. (\A q : Answered(q)' <=> Answered(q)) /\ (\A q : SaidYes(q)' <=> SaidYes(q))
  BY <1>2 DEF Answered, SaidYes
<1>6. \A q \in Requests : Untouched(q) => Untouched(q)'
  BY <1>2, <1>4, <1>5 DEF Untouched
<1>7. OneAnswerPerRequest' /\ OneReceiptPerRequest' /\ ReceiptsRestOnRecordedAnswer'
  BY <1>2 DEF RecordInv, OneAnswerPerRequest, OneReceiptPerRequest, ReceiptsRestOnRecordedAnswer
<1>8. \A d \in Callers :
        /\ calls'[d].pc \in {"seeking", "deciding", "recording"} => calls'[d].request \in issued'
        /\ calls'[d].pc = "recording" => ~ \E a \in answers' : a.request = calls'[d].request
        /\ calls'[d].pc = "marking" => \E a \in answers' : a.request = calls'[d].request /\ a.agreed
  BY <1>2, <1>3 DEF RecordInv, Answered, SaidYes
<1>9. \A q \in DOMAIN requests' :
        /\ requests'[q].state = "waiting" => Untouched(q)'
        /\ requests'[q].state = "unrecorded" => receipts'[q] = 0
        /\ requests'[q].state = "approved" => SaidYes(q)' /\ receipts'[q] = 0
  BY <1>1, <1>2, <1>5, <1>6 DEF RecordInv, TypeOK
<1>10. \A q \in Requests \ issued' : Untouched(q)'
  BY <1>2, <1>6 DEF RecordInv
<1>11. \A d, e \in Callers : \A q \in Requests : Writing(d, q)' /\ Writing(e, q)' => d = e
  BY <1>4 DEF RecordInv
<1>. QED BY <1>7, <1>8, <1>9, <1>10, <1>11 DEF RecordInv, Answered, SaidYes

(* A fresh request is one nobody has answered. *)
LEMMA AskAfreshStep ==
    ASSUME TypeOK, RecordInv, NEW c \in Agents, AskAfresh(c)
    PROVE  RecordInv'
<1> DEFINE s == calls[c].session
           a == calls[c].action
           asked == [session |-> s, action |-> a, state |-> "waiting", by |-> None,
                     decideBy |-> now + DecideWithin, redeemBy |-> 0]
<1>0. PICK r \in Requests \ issued, owed \in Lapsed(s, a) \cup {None} :
        /\ requests' = [q \in (DOMAIN Remembered \ {owed}) \cup {r} |->
                           IF q = r THEN asked ELSE requests[q]]
        /\ issued' = issued \cup {r}
        /\ Proceed(c, [calls[c] EXCEPT !.pc = "seeking", !.request = r, !.owed = owed])
  BY DEF AskAfresh
<1>1. /\ issued' = issued \cup {r}
      /\ Proceed(c, [calls[c] EXCEPT !.pc = "seeking", !.request = r, !.owed = owed])
      /\ \A q \in DOMAIN requests' :
           \/ q = r /\ requests'[q].state = "waiting"
           \/ q # r /\ q \in DOMAIN Remembered /\ requests'[q] = requests[q]
  BY <1>0
<1>2. UNCHANGED <<answers, receipts>>
  BY DEF AskAfresh, recordVars
<1>3. /\ \A d \in Callers : d # c => calls'[d] = calls[d]
      /\ calls'[c].pc = "seeking" /\ calls'[c].request = r
  BY <1>1 DEF Proceed, TypeOK, Callers, Call
<1>4. \A d \in Callers : \A q : Writing(d, q)' => Writing(d, q)
  BY <1>3 DEF Writing
<1>5. (\A q : Answered(q)' <=> Answered(q)) /\ (\A q : SaidYes(q)' <=> SaidYes(q))
  BY <1>2 DEF Answered, SaidYes
<1>6. \A q \in Requests : Untouched(q) => Untouched(q)'
  BY <1>2, <1>4, <1>5 DEF Untouched
<1>7. OneAnswerPerRequest' /\ OneReceiptPerRequest' /\ ReceiptsRestOnRecordedAnswer'
  BY <1>2 DEF RecordInv, OneAnswerPerRequest, OneReceiptPerRequest, ReceiptsRestOnRecordedAnswer
<1>8. \A d \in Callers :
        /\ calls'[d].pc \in {"seeking", "deciding", "recording"} => calls'[d].request \in issued'
        /\ calls'[d].pc = "recording" => ~ \E b \in answers' : b.request = calls'[d].request
        /\ calls'[d].pc = "marking" => \E b \in answers' : b.request = calls'[d].request /\ b.agreed
  BY <1>1, <1>2, <1>3 DEF RecordInv, Answered, SaidYes
<1>9. \A q \in DOMAIN requests' :
        /\ requests'[q].state = "waiting" => Untouched(q)'
        /\ requests'[q].state = "unrecorded" => receipts'[q] = 0
        /\ requests'[q].state = "approved" => SaidYes(q)' /\ receipts'[q] = 0
  <2> SUFFICES ASSUME NEW q \in DOMAIN requests'
               PROVE  /\ requests'[q].state = "waiting" => Untouched(q)'
                      /\ requests'[q].state = "unrecorded" => receipts'[q] = 0
                      /\ requests'[q].state = "approved" => SaidYes(q)' /\ receipts'[q] = 0
    OBVIOUS
  <2>1. CASE q = r
    BY <1>1, <1>6, <2>1 DEF RecordInv
  <2>2. CASE q # r
    BY <1>1, <1>2, <1>5, <1>6, <2>2, RememberedTyped DEF RecordInv, TypeOK
  <2>. QED BY <2>1, <2>2
<1>10. \A q \in Requests \ issued' : Untouched(q)'
  BY <1>1, <1>6 DEF RecordInv
<1>11. \A d, e \in Callers : \A q \in Requests : Writing(d, q)' /\ Writing(e, q)' => d = e
  BY <1>4 DEF RecordInv
<1>. QED BY <1>7, <1>8, <1>9, <1>10, <1>11 DEF RecordInv, Answered, SaidYes

(* A step that writes no entry is no step of the gate. *)
LEMMA GateStutters ==
    ASSUME UNCHANGED <<answers, receipts>>
    PROVE  UNCHANGED Gate!vars
BY DEF Gate!vars

(* Spending an approved request is the gate's Mint. *)
LEMMA SpendGate ==
    ASSUME TypeOK, RecordInv, CallsQuiet, NEW r, Spends(r), UNCHANGED <<issued, answers>>
    PROVE  RecordInv' /\ Gate!Next
<1>1. RecordInv' /\ r \in Requests /\ SaidYes(r) /\ receipts[r] = 0
  BY SpendStep
<1>2. receipts' = [receipts EXCEPT ![r] = 1]
  BY <1>1 DEF Spends, TypeOK
<1>3. r \in {a.request : a \in {b \in answers : b.agreed}}
  BY <1>1 DEF SaidYes
<1>4. Gate!Mint(r)
  BY <1>1, <1>2, <1>3 DEF Gate!Mint
<1>. QED BY <1>1, <1>4 DEF Gate!Next

(* Writing the first answer of a request is the gate's Agree or Refuse. *)
LEMMA WriteGate ==
    ASSUME TypeOK, RecordInv, NEW c \in Callers, RecordAnswer(c), answers' # answers
    PROVE  Gate!Next
<1>0. PICK r \in Requests, agreed \in BOOLEAN :
        r = calls[c].request /\ agreed = calls[c].agreed
  BY WriteStep
<1>1. /\ ~Answered(r)
      /\ answers' = answers \cup {[request |-> r, by |-> calls[c].by, agreed |-> agreed]}
      /\ UNCHANGED receipts
  BY <1>0, WriteStep
<1>2. /\ r \notin {a.request : a \in {b \in answers : b.agreed}}
      /\ r \notin {a.request : a \in {b \in answers : ~b.agreed}}
  BY <1>1 DEF Answered
<1>3. CASE agreed
  <2>1. /\ {a.request : a \in {b \in answers' : b.agreed}}
              = {a.request : a \in {b \in answers : b.agreed}} \cup {r}
        /\ {a.request : a \in {b \in answers' : ~b.agreed}}
              = {a.request : a \in {b \in answers : ~b.agreed}}
    BY <1>1, <1>3
  <2>2. Gate!Agree(r)
    BY <1>1, <1>2, <2>1 DEF Gate!Agree
  <2>. QED BY <2>2 DEF Gate!Next
<1>4. CASE ~agreed
  <2>1. /\ {a.request : a \in {b \in answers' : b.agreed}}
              = {a.request : a \in {b \in answers : b.agreed}}
        /\ {a.request : a \in {b \in answers' : ~b.agreed}}
              = {a.request : a \in {b \in answers : ~b.agreed}} \cup {r}
    BY <1>1, <1>4
  <2>2. Gate!Refuse(r)
    BY <1>1, <1>2, <2>1 DEF Gate!Refuse
  <2>. QED BY <2>2 DEF Gate!Next
<1>. QED BY <1>3, <1>4

(* Every step of the store and the record keeps RecordInv and is a step of the gate:
   the answer is the request's first, the receipt its first and on a yes. *)
LEMMA RecordStep ==
    ASSUME TypeOK, RecordInv, [Next]_vars
    PROVE  RecordInv' /\ [Gate!Next]_(Gate!vars)
<1> USE GateStutters
<1>1. ASSUME NEW c \in Agents, NEW s \in Sessions, NEW a \in Actions, Begin(c, s, a)
      PROVE  RecordInv' /\ UNCHANGED Gate!vars
  <2>1. CallsQuiet
    BY <1>1 DEF Begin, Proceed, CallsQuiet, TypeOK, RecordInv, Idle
  <2>. QED BY <1>1, <2>1, QuietStep DEF Begin, storeVars, recordVars, StoreQuiet
<1>2. ASSUME NEW c \in Agents, AskCollects(c)
      PROVE  RecordInv' /\ [Gate!Next]_(Gate!vars)
  <2>1. PICK r \in Collectable(calls[c].session, calls[c].action) :
          \/ /\ requests' = [Remembered EXCEPT ![r].state = "redeemed"]
             /\ receipts' = [receipts EXCEPT ![r] = @ + 1]
             /\ Finish(c, "ready")
          \/ /\ requests' = Remembered
             /\ Finish(c, "error")
             /\ UNCHANGED receipts
    BY <1>2 DEF AskCollects, Spent
  <2>2. r \in DOMAIN Remembered /\ requests[r].state = "approved"
    BY DEF Collectable, InState, About
  <2>3. CallsQuiet
    BY <2>1, FinishQuiet DEF Callers
  <2>4. UNCHANGED <<issued, answers>>
    BY <1>2 DEF AskCollects
  <2>5. CASE requests' = Remembered /\ UNCHANGED receipts
    BY <2>3, <2>4, <2>5, RememberedTyped, QuietStep DEF StoreQuiet
  <2>6. CASE /\ requests' = [Remembered EXCEPT ![r].state = "redeemed"]
             /\ receipts' = [receipts EXCEPT ![r] = @ + 1]
    <3>1. Spends(r)
      <4>1. Remembered[r] \in Held
        BY <2>2, RememberedTyped
      <4>. QED BY <2>2, <2>6, <4>1, RememberedTyped DEF Spends, Held
    <3>. QED BY <2>3, <2>4, <3>1, SpendGate
  <2>. QED BY <2>1, <2>5, <2>6
<1>3. ASSUME NEW c \in Agents, AskRefused(c) \/ AskTurnedAway(c)
      PROVE  RecordInv' /\ UNCHANGED Gate!vars
  <2>1. CallsQuiet
    BY <1>3, FinishQuiet DEF AskRefused, AskTurnedAway, Callers
  <2>2. requests' = Remembered /\ UNCHANGED <<issued, answers, receipts>>
    BY <1>3 DEF AskRefused, AskTurnedAway, recordVars
  <2>. QED BY <2>1, <2>2, RememberedTyped, QuietStep DEF StoreQuiet
<1>4. ASSUME NEW c \in Agents, AskPending(c)
      PROVE  RecordInv' /\ UNCHANGED Gate!vars
  <2>1. PICK r \in InState(calls[c].session, calls[c].action, {"waiting", "unrecorded"}) :
          Proceed(c, [calls[c] EXCEPT !.pc = "seeking", !.request = r])
    BY <1>4 DEF AskPending
  <2>2. r \in issued
    BY RememberedTyped DEF InState, About, TypeOK
  <2>3. CallsQuiet
    BY <2>1, <2>2 DEF Proceed, CallsQuiet, TypeOK, RecordInv, Callers, Call
  <2>4. requests' = Remembered /\ UNCHANGED <<issued, answers, receipts>>
    BY <1>4 DEF AskPending, recordVars
  <2>. QED BY <2>3, <2>4, RememberedTyped, QuietStep DEF StoreQuiet
<1>5. ASSUME NEW c \in Agents, AskAfresh(c)
      PROVE  RecordInv' /\ UNCHANGED Gate!vars
  BY <1>5, AskAfreshStep DEF AskAfresh, recordVars
<1>6. ASSUME NEW c \in Agents, NoStanding(c)
      PROVE  RecordInv' /\ UNCHANGED Gate!vars
  <2>1. CallsQuiet
    BY <1>6, FinishQuiet DEF NoStanding, Callers
  <2>. QED BY <1>6, <2>1, QuietStep DEF NoStanding, recordVars, StoreQuiet
<1>7. ASSUME NEW c \in Agents, TakeStanding(c)
      PROVE  RecordInv' /\ UNCHANGED Gate!vars
  <2>1. PICK g \in standing :
          Proceed(c, [calls[c] EXCEPT !.pc = "deciding", !.by = g.id, !.agreed = TRUE,
                                      !.next = "redeem"])
    BY <1>7 DEF TakeStanding, Answering
  <2>2. calls[c].request \in issued
    BY <1>7 DEF TakeStanding, RecordInv, Callers
  <2>3. CallsQuiet
    BY <2>1, <2>2 DEF Proceed, CallsQuiet, TypeOK, RecordInv, Callers, Call
  <2>4. UNCHANGED <<requests, issued, answers, receipts>>
    BY <1>7 DEF TakeStanding, recordVars
  <2>. QED BY <2>3, <2>4, QuietStep DEF StoreQuiet
<1>8. ASSUME NEW c \in Agents, AgentDecides(c)
      PROVE  RecordInv' /\ UNCHANGED Gate!vars
  <2>1. UNCHANGED <<issued, answers, receipts>>
    BY <1>8 DEF AgentDecides, recordVars
  <2>2. CASE Finish(c, "error") /\ UNCHANGED requests
    BY <2>1, <2>2, FinishQuiet, QuietStep DEF StoreQuiet, Callers
  <2>3. CASE /\ Decidable(calls[c].request)
             /\ Decided(calls[c].request, calls[c].by, TRUE)
             /\ Proceed(c, [calls[c] EXCEPT !.pc = "recording"])
    <3> DEFINE k == [calls[c] EXCEPT !.pc = "recording"]
    <3>1. k.pc = "recording" /\ k.request = calls[c].request
      BY DEF TypeOK, Callers, Call
    <3>2. calls[c].request \in Requests
      BY <1>8 DEF AgentDecides, TypeOK, Carries, Callers
    <3>3. RecordInv'
      <4> HIDE DEF k
      <4>. QED BY <2>1, <2>3, <3>1, <3>2, DecideStep DEF Callers, k
    <3>. QED BY <2>1, <3>3
  <2>. QED BY <1>8, <2>2, <2>3 DEF AgentDecides
<1>9. ASSUME NEW c \in Agents, Redeem(c)
      PROVE  RecordInv' /\ [Gate!Next]_(Gate!vars)
  <2> DEFINE r == calls[c].request
  <2>1. CallsQuiet
    BY <1>9, FinishQuiet DEF Redeem, Callers
  <2>2. UNCHANGED <<issued, answers>>
    BY <1>9 DEF Redeem
  <2>3. CASE UNCHANGED <<requests, receipts>>
    BY <2>1, <2>2, <2>3, QuietStep DEF StoreQuiet
  <2>4. CASE /\ r \in DOMAIN requests
             /\ requests[r].state = "approved"
             /\ requests' = [requests EXCEPT ![r].state = "redeemed"]
             /\ receipts' = [receipts EXCEPT ![r] = @ + 1]
    <3>1. Spends(r)
      BY <2>4 DEF Spends, TypeOK, Held
    <3>. QED BY <2>1, <2>2, <3>1, SpendGate
  <2>. QED BY <1>9, <2>3, <2>4 DEF Redeem, Spent
<1>10. ASSUME NEW c \in Callers, RecordAnswer(c)
       PROVE  RecordInv' /\ [Gate!Next]_(Gate!vars)
  <2>1. CASE answers' = answers
    <3>1. CallsQuiet
      <4>1. CASE Finish(c, "error")
        BY <4>1, FinishQuiet
      <4>2. CASE [request |-> calls[c].request, by |-> calls[c].by, agreed |-> calls[c].agreed]
                   \in answers
        BY <1>10, <4>2 DEF RecordAnswer, RecordInv, Answered
      <4>. QED BY <1>10, <2>1, <4>1, <4>2 DEF RecordAnswer
    <3>. QED BY <1>10, <2>1, <3>1, QuietStep DEF RecordAnswer, StoreQuiet
  <2>2. CASE answers' # answers
    BY <1>10, <2>2, WriteStep, WriteGate
  <2>. QED BY <2>1, <2>2
<1>11. ASSUME NEW c \in Callers, Mark(c)
       PROVE  RecordInv' /\ UNCHANGED Gate!vars
  BY <1>11, MarkStep DEF Mark, recordVars
<1>12. ASSUME NEW o \in Operators, NEW r \in Requests, NEW agreed \in BOOLEAN,
              NEW next \in {"grant", "finish"}, OperatorDecides(o, r, agreed, next)
       PROVE  RecordInv' /\ UNCHANGED Gate!vars
  <2> DEFINE k == [Idle EXCEPT !.pc = "recording", !.session = requests[r].session,
                               !.request = r, !.by = Direct, !.agreed = agreed, !.next = next]
  <2>1. k.pc = "recording" /\ k.request = r
    BY DEF Idle
  <2>2. Decidable(r) /\ Decided(r, Direct, agreed) /\ Proceed(o, k)
        /\ UNCHANGED <<issued, answers, receipts>>
    BY <1>12 DEF OperatorDecides, recordVars
  <2>3. RecordInv'
    <3> HIDE DEF k
    <3>. QED BY <2>1, <2>2, DecideStep DEF Callers
  <2>. QED BY <2>2, <2>3
<1>13. ASSUME NEW o \in Operators, NEW id \in Agreements, NEW for \in 0 .. StandingCap,
              Grant(o, id, for)
       PROVE  RecordInv' /\ UNCHANGED Gate!vars
  <2>1. CallsQuiet
    BY <1>13 DEF Grant, Proceed, CallsQuiet, TypeOK, RecordInv, Idle
  <2>. QED BY <1>13, <2>1, QuietStep DEF Grant, recordVars, StoreQuiet
<1>14. CASE \/ \E id \in Agreements : RevokeStanding(id)
            \/ SweepRequests
            \/ SweepStanding
            \/ \E s \in Sessions : SessionEnds(s)
            \/ Tick
            \/ UNCHANGED vars
  <2>1. UNCHANGED <<issued, answers, receipts, calls>>
    BY <1>14 DEF RevokeStanding, SweepRequests, SweepStanding, SessionEnds, Tick, vars,
                 storeVars, recordVars
  <2>2. CallsQuiet
    BY <2>1 DEF CallsQuiet, RecordInv
  <2>3. StoreQuiet
    BY <1>14, RememberedTyped
       DEF StoreQuiet, RevokeStanding, SweepRequests, SweepStanding, SessionEnds, Tick, vars, storeVars
  <2>. QED BY <2>1, <2>2, <2>3, QuietStep
<1>. QED BY <1>1, <1>2, <1>3, <1>4, <1>5, <1>6, <1>7, <1>8, <1>9, <1>10, <1>11, <1>12, <1>13,
            <1>14 DEF Next, AgentStep, AnswerStep, Ask

(* The store, the calls between decide and mark_recorded and the audit record agree
   in every reachable state (RecordInv). *)
THEOREM RecordInvariant == Spec => []RecordInv
<1>1. Init => RecordInv
  BY DEF Init, RecordInv, Untouched, Answered, Writing, Idle, OneAnswerPerRequest,
         OneReceiptPerRequest, ReceiptsRestOnRecordedAnswer
<1>2. TypeOK /\ RecordInv /\ [Next]_vars => RecordInv'
  BY RecordStep
<1>. QED BY <1>1, <1>2, TypeInvariant, PTL DEF Spec

(* No receipt without a recorded yes: what runs under an approval, whatever the
   interleaving of decide, record_answer, mark_recorded and the retries. *)
THEOREM ReceiptsAreRecorded == Spec => []ReceiptsRestOnRecordedAnswer
<1>1. RecordInv => ReceiptsRestOnRecordedAnswer
  BY DEF RecordInv
<1>. QED BY <1>1, RecordInvariant, PTL

(* Each agreement is worth one receipt. *)
THEOREM ReceiptsAreSingle == Spec => []OneReceiptPerRequest
<1>1. RecordInv => OneReceiptPerRequest
  BY DEF RecordInv
<1>. QED BY <1>1, RecordInvariant, PTL

(* Each request has one answer in the record. *)
THEOREM AnswersAreSingle == Spec => []OneAnswerPerRequest
<1>1. RecordInv => OneAnswerPerRequest
  BY DEF RecordInv
<1>. QED BY <1>1, RecordInvariant, PTL

(* The approval store, with its calls, locks, sweeps and clock, implements the gate. *)
THEOREM GateImplemented == Spec => ImplementsGate
<1>1. Init => Gate!Init
  BY DEF Init, Gate!Init
<1>2. TypeOK /\ RecordInv /\ [Next]_vars => [Gate!Next]_(Gate!vars)
  BY RecordStep
<1>. QED BY <1>1, <1>2, TypeInvariant, RecordInvariant, PTL DEF Spec, Gate!Spec, ImplementsGate

-----------------------------------------------------------------------------
(* The lock of the standing agreements *)

UnderLock == {"deciding", "recording", "marking", "redeeming"}

(* An agent's call answers a request exactly while it holds the lock, in the name of
   an agreement that stands; an operator answers in its own name. *)
LockInv ==
    /\ \A c \in Agents : calls[c].pc \in UnderLock <=> lock = c
    /\ \A c \in Agents : calls[c].pc \in UnderLock => calls[c].next = "redeem"
    /\ SelectedAgreementStands
    /\ \A o \in Operators : calls[o].pc \in UnderLock => calls[o].by = Direct

(* A call that goes on, or takes the lock while it is free. *)
LEMMA ProceedLock ==
    ASSUME TypeOK, LockInv, NEW c \in Callers, NEW k, Proceed(c, k),
           c \in Agents => /\ k.pc \in UnderLock <=> lock' = c
                           /\ k.pc \in UnderLock
                              => k.next = "redeem" /\ \E g \in standing' : g.id = k.by,
           c \in Operators /\ k.pc \in UnderLock => k.by = Direct,
           \A d \in Agents \ {c} : lock' = d <=> lock = d,
           \A d \in Agents \ {c} : lock = d => standing' = standing
    PROVE  LockInv'
<1>1. calls'[c] = k /\ \A d \in Callers \ {c} : calls'[d] = calls[d]
  BY DEF Proceed, TypeOK
<1>2. Agents \subseteq Callers /\ Operators \subseteq Callers /\ Agents \cap Operators = {}
  BY ConstantsAssumption DEF Callers
<1>3. \A d \in Agents \ {c} : lock' = d => \E g \in standing' : g.id = calls'[d].by
  BY <1>1, <1>2 DEF LockInv, SelectedAgreementStands
<1>4. SelectedAgreementStands'
  BY <1>1, <1>3 DEF SelectedAgreementStands
<1>5. \A o \in Operators : calls'[o].pc \in UnderLock => calls'[o].by = Direct
  BY <1>1, <1>2 DEF LockInv
<1>6. \A d \in Agents : calls'[d].pc \in UnderLock <=> lock' = d
  BY <1>1, <1>2 DEF LockInv
<1>7. \A d \in Agents : calls'[d].pc \in UnderLock => calls'[d].next = "redeem"
  BY <1>1, <1>2 DEF LockInv
<1>. QED BY <1>4, <1>5, <1>6, <1>7 DEF LockInv

(* A call that goes on without touching the lock. *)
LEMMA KeepsLock ==
    ASSUME TypeOK, LockInv, NEW c \in Callers, NEW k, Proceed(c, k), UNCHANGED <<lock, standing>>,
           k.pc \in UnderLock <=> calls[c].pc \in UnderLock,
           k.pc \in UnderLock => k.next = calls[c].next /\ k.by = calls[c].by
    PROVE  LockInv'
<1>1. c \in Agents => /\ k.pc \in UnderLock <=> lock' = c
                      /\ k.pc \in UnderLock
                         => k.next = "redeem" /\ \E g \in standing' : g.id = k.by
  BY DEF LockInv, SelectedAgreementStands
<1>2. c \in Operators /\ k.pc \in UnderLock => k.by = Direct
  BY DEF LockInv
<1>. QED BY <1>1, <1>2, ProceedLock

(* A call that returns gives the lock back. *)
LEMMA FinishLock ==
    ASSUME TypeOK, LockInv, NEW c \in Callers, NEW what, Finish(c, what), UNCHANGED standing
    PROVE  LockInv'
<1>1. Idle.pc \notin UnderLock
  BY DEF Idle, UnderLock
<1>2. lock' # c /\ \A d \in Agents \ {c} : lock' = d <=> lock = d
  BY ConstantsAssumption DEF Finish, Callers
<1>. QED BY <1>1, <1>2, ProceedLock DEF Finish

(* Nobody answers under an agreement while the agreements change. *)
LEMMA FreeLock ==
    ASSUME TypeOK, LockInv, UNCHANGED <<calls, lock>>, lock = None \/ UNCHANGED standing
    PROVE  LockInv'
<1>1. lock = None => \A c \in Agents : lock # c
  BY ConstantsAssumption
<1>. QED BY <1>1 DEF LockInv, SelectedAgreementStands

LEMMA AskLock ==
    ASSUME TypeOK, LockInv, NEW c \in Agents, Ask(c)
    PROVE  LockInv'
<1>0. c \in Callers /\ UNCHANGED standing /\ calls[c].pc = "asking" /\ calls[c] \in Call
  BY DEF Ask, AskCollects, AskRefused, AskPending, AskTurnedAway, AskAfresh, Asking, Callers, TypeOK
<1>1. CASE \E what : Finish(c, what)
  BY <1>0, <1>1, FinishLock
<1>2. CASE AskPending(c) \/ AskAfresh(c)
  <2>0. \A r, owed :
          /\ [calls[c] EXCEPT !.pc = "seeking", !.request = r].pc = "seeking"
          /\ [calls[c] EXCEPT !.pc = "seeking", !.request = r, !.owed = owed].pc = "seeking"
    BY <1>0 DEF Call
  <2>1. PICK k : Proceed(c, k) /\ k.pc = "seeking"
    BY <1>2, <2>0 DEF AskPending, AskAfresh
  <2>2. UNCHANGED lock
    BY <1>2 DEF AskPending, AskAfresh
  <2>3. k.pc \notin UnderLock /\ calls[c].pc \notin UnderLock
    BY <1>0, <2>1 DEF UnderLock
  <2>. QED BY <1>0, <2>1, <2>2, <2>3, KeepsLock
<1>. QED BY <1>1, <1>2 DEF Ask, AskCollects, AskRefused, AskTurnedAway

LEMMA TakeStandingLock ==
    ASSUME TypeOK, LockInv, NEW c \in Agents, TakeStanding(c)
    PROVE  LockInv'
<1>0. c \in Callers /\ c \notin Operators /\ calls[c] \in Call
  BY ConstantsAssumption DEF Callers, TypeOK
<1>1. PICK g \in Answering(calls[c].session) :
         Proceed(c, [calls[c] EXCEPT !.pc = "deciding", !.by = g.id, !.agreed = TRUE, !.next = "redeem"])
  BY DEF TakeStanding
<1>. DEFINE k == [calls[c] EXCEPT !.pc = "deciding", !.by = g.id, !.agreed = TRUE, !.next = "redeem"]
<1>2. k.pc = "deciding" /\ k.by = g.id /\ k.next = "redeem"
  BY <1>0 DEF Call
<1>3. lock = None /\ lock' = c /\ UNCHANGED standing /\ g \in standing
  BY DEF TakeStanding, Answering
<1>4. \A d \in Agents \ {c} : lock' = d <=> lock = d
  BY <1>3, ConstantsAssumption
<1>. QED BY <1>0, <1>1, <1>2, <1>3, <1>4, ProceedLock DEF UnderLock

LEMMA AnswerLock ==
    ASSUME TypeOK, LockInv, NEW c \in Callers,
           (AgentDecides(c) /\ c \in Agents) \/ AnswerStep(c) \/ Redeem(c)
    PROVE  LockInv'
<1>0. UNCHANGED standing /\ calls[c].pc \in UnderLock /\ calls[c] \in Call
  BY DEF AgentDecides, AnswerStep, RecordAnswer, Mark, Redeem, UnderLock, TypeOK
<1>1. CASE \E what : Finish(c, what)
  BY <1>0, <1>1, FinishLock
<1>2. ASSUME NEW pc \in UnderLock, Proceed(c, [calls[c] EXCEPT !.pc = pc]), UNCHANGED lock
      PROVE  LockInv'
  <2>1. /\ [calls[c] EXCEPT !.pc = pc].pc = pc
        /\ [calls[c] EXCEPT !.pc = pc].next = calls[c].next
        /\ [calls[c] EXCEPT !.pc = pc].by = calls[c].by
    BY <1>0 DEF Call
  <2>. QED BY <1>0, <1>2, <2>1, KeepsLock
<1>3. CASE AgentDecides(c)
  BY <1>1, <1>2, <1>3 DEF AgentDecides, UnderLock
<1>4. CASE RecordAnswer(c)
  BY <1>1, <1>2, <1>4 DEF RecordAnswer, UnderLock
<1>5. CASE Mark(c)
  <2>1. CASE c \in Agents
    <3>1. calls[c].next = "redeem"
      BY <1>0, <2>1 DEF LockInv
    <3>2. Proceed(c, [calls[c] EXCEPT !.pc = "redeeming"]) /\ UNCHANGED lock
      BY <1>5, <3>1 DEF Mark, AfterAnswer
    <3>. QED BY <1>2, <3>2 DEF UnderLock
  <2>2. CASE c \in Operators /\ ~ \E what : Finish(c, what)
    <3>1. PICK k : Proceed(c, k) /\ k.by = calls[c].by /\ UNCHANGED lock
      BY <1>0, <1>5, <2>2 DEF Mark, AfterAnswer, Call
    <3>2. k.by = Direct /\ c \notin Agents
      BY <1>0, <2>2, <3>1, ConstantsAssumption DEF LockInv
    <3>3. \A d \in Agents \ {c} : lock' = d <=> lock = d
      BY <3>1
    <3>. QED BY <1>0, <3>1, <3>2, <3>3, ProceedLock
  <2>. QED BY <1>1, <2>1, <2>2 DEF Callers
<1>6. CASE Redeem(c)
  BY <1>1, <1>6 DEF Redeem
<1>. QED BY <1>3, <1>4, <1>5, <1>6 DEF AnswerStep

LEMMA LockStep ==
    ASSUME TypeOK, LockInv, [Next]_vars
    PROVE  LockInv'
<1>0. Agents \subseteq Callers /\ Operators \subseteq Callers /\ Agents \cap Operators = {}
  BY ConstantsAssumption DEF Callers
<1>1. ASSUME NEW c \in Agents, AgentStep(c) PROVE LockInv'
  <2>1. CASE NoStanding(c)
    BY <1>0, <2>1, FinishLock DEF NoStanding
  <2>. QED BY <1>0, <1>1, <2>1, AskLock, TakeStandingLock, AnswerLock DEF AgentStep
<1>2. ASSUME NEW c \in Agents, NEW s \in Sessions, NEW a \in Actions, Begin(c, s, a) PROVE LockInv'
  <2>1. /\ Idle.pc \notin UnderLock
        /\ [Idle EXCEPT !.pc = "asking", !.session = s, !.action = a].pc \notin UnderLock
    BY DEF Idle, UnderLock
  <2>2. UNCHANGED <<lock, standing>> /\ calls[c] = Idle
        /\ Proceed(c, [Idle EXCEPT !.pc = "asking", !.session = s, !.action = a])
    BY <1>2 DEF Begin, storeVars
  <2>. QED BY <1>0, <2>1, <2>2, KeepsLock
<1>3. ASSUME NEW c \in Callers, AnswerStep(c) PROVE LockInv'
  BY <1>3, AnswerLock
<1>4. ASSUME NEW o \in Operators, NEW r \in Requests, NEW agreed \in BOOLEAN,
             NEW next \in {"grant", "finish"}, OperatorDecides(o, r, agreed, next)
      PROVE  LockInv'
  <2>. DEFINE k == [Idle EXCEPT !.pc = "recording", !.session = requests[r].session,
                                !.request = r, !.by = Direct, !.agreed = agreed, !.next = next]
  <2>1. k.by = Direct
    BY DEF Idle
  <2>2. Proceed(o, k) /\ UNCHANGED <<lock, standing>>
    BY <1>4 DEF OperatorDecides
  <2>3. o \notin Agents /\ o \in Callers
    BY <1>0
  <2>. QED BY <2>1, <2>2, <2>3, ProceedLock
<1>5. ASSUME NEW o \in Operators, NEW id \in Agreements, NEW for \in 0 .. StandingCap,
             Grant(o, id, for)
      PROVE  LockInv'
  <2>1. Proceed(o, Idle) /\ lock = None /\ UNCHANGED lock /\ Idle.pc \notin UnderLock
    BY <1>5 DEF Grant, Idle, UnderLock
  <2>2. o \notin Agents /\ o \in Callers /\ \A d \in Agents : lock # d
    BY <1>0, <2>1, ConstantsAssumption
  <2>. QED BY <2>1, <2>2, ProceedLock
<1>6. ASSUME NEW id \in Agreements, RevokeStanding(id) PROVE LockInv'
  BY <1>6, FreeLock DEF RevokeStanding
<1>7. CASE SweepRequests \/ SweepStanding \/ Tick \/ UNCHANGED vars
  BY <1>7, FreeLock DEF SweepRequests, SweepStanding, Tick, vars, storeVars
<1>8. ASSUME NEW s \in Sessions, SessionEnds(s) PROVE LockInv'
  BY <1>8, FreeLock DEF SessionEnds, storeVars
<1>. QED BY <1>1, <1>2, <1>3, <1>4, <1>5, <1>6, <1>7, <1>8 DEF Next

THEOREM LockInvariant == Spec => []LockInv
<1>1. Init => LockInv
  BY ConstantsAssumption DEF Init, LockInv, SelectedAgreementStands, Idle, UnderLock, Callers
<1>2. TypeOK /\ LockInv /\ [Next]_vars => LockInv'
  BY LockStep
<1>. QED BY <1>1, <1>2, TypeInvariant, PTL DEF Spec

(* The agreement a call answers under cannot be withdrawn, replaced or swept before
   the call is done (SelectedAgreementStands). *)
THEOREM SelectedAgreementsStand == Spec => []SelectedAgreementStands
<1>1. LockInv => SelectedAgreementStands
  BY DEF LockInv
<1>. QED BY <1>1, LockInvariant, PTL

(* No answer is written in the name of an agreement that no longer stands
   (WithdrawnAgreementAnswersNothing). *)
THEOREM WithdrawnAgreementsAnswerNothing == Spec => WithdrawnAgreementAnswersNothing
<1>1. ASSUME TypeOK, LockInv, [Next]_vars, NEW a \in answers' \ answers, a.by # Direct
      PROVE  \E g \in standing : g.id = a.by
  <2>1. PICK c \in Callers : RecordAnswer(c)
    BY <1>1 DEF Next, AgentStep, AnswerStep, Ask, AskCollects, AskRefused, AskPending, AskTurnedAway,
                AskAfresh, NoStanding, TakeStanding, AgentDecides, Redeem, Mark, Begin, OperatorDecides,
                Grant, RevokeStanding, SweepRequests, SweepStanding, SessionEnds, Tick, vars, recordVars
  <2>2. a.by = calls[c].by /\ calls[c].pc \in UnderLock
    BY <1>1, <2>1 DEF RecordAnswer, UnderLock
  <2>3. c \in Agents /\ lock = c
    BY <1>1, <2>2 DEF LockInv, Callers
  <2>. QED BY <1>1, <2>2, <2>3 DEF LockInv, SelectedAgreementStands
<1>2. TypeOK /\ LockInv /\ [Next]_vars
      => [\A a \in answers' \ answers : a.by # Direct => \E g \in standing : g.id = a.by]_vars
  BY <1>1
<1>. QED BY <1>2, LockInvariant, TypeInvariant, PTL DEF Spec, WithdrawnAgreementAnswersNothing

-----------------------------------------------------------------------------
(* One request about one action *)

(* What a step that asks nothing new may do to the map: requests go, or change their
   state, and none that was spent comes back. *)
Dwindles ==
    /\ DOMAIN requests' \subseteq DOMAIN requests
    /\ \A r \in DOMAIN requests' :
        /\ requests'[r].session = requests[r].session
        /\ requests'[r].action = requests[r].action
        /\ requests[r].state = "redeemed" => requests'[r].state = "redeemed"

LEMMA DwindlesOne ==
    ASSUME OneRequestPerAction, Dwindles
    PROVE  OneRequestPerAction'
BY DEF OneRequestPerAction, Dwindles

LEMMA RememberedDwindles ==
    ASSUME TypeOK, requests' = Remembered
    PROVE  Dwindles
BY RememberedTyped DEF Dwindles

(* Changing the state of one request that is not spent, as answering, recording and
   collecting do, is no new request. *)
LEMMA OneChanged ==
    ASSUME TypeOK, NEW r, NEW map, map \in [DOMAIN map -> Held], DOMAIN map \subseteq DOMAIN requests,
           \A q \in DOMAIN map : map[q] = requests[q],
           NEW held, held.session = map[r].session, held.action = map[r].action,
           map[r].state = "redeemed" => held.state = "redeemed",
           requests' = [map EXCEPT ![r] = held]
    PROVE  Dwindles
BY DEF Dwindles

LEMMA AskDwindles ==
    ASSUME TypeOK, NEW c \in Agents,
           AskCollects(c) \/ AskRefused(c) \/ AskPending(c) \/ AskTurnedAway(c)
    PROVE  Dwindles
<1>1. CASE requests' = Remembered
  BY <1>1, RememberedDwindles
<1>2. CASE AskCollects(c) /\ requests' # Remembered
  <2>1. PICK r \in Collectable(calls[c].session, calls[c].action) :
           requests' = [Remembered EXCEPT ![r].state = "redeemed"]
    BY <1>2 DEF AskCollects, Spent
  <2>2. r \in DOMAIN Remembered /\ Remembered[r] \in Held
    BY RememberedTyped DEF Collectable, InState, About
  <2>3. [Remembered[r] EXCEPT !.state = "redeemed"] \in Held
        /\ [Remembered[r] EXCEPT !.state = "redeemed"].session = Remembered[r].session
        /\ [Remembered[r] EXCEPT !.state = "redeemed"].action = Remembered[r].action
        /\ [Remembered[r] EXCEPT !.state = "redeemed"].state = "redeemed"
    BY <2>2 DEF Held, States
  <2>4. requests' = [Remembered EXCEPT ![r] = [Remembered[r] EXCEPT !.state = "redeemed"]]
    BY <2>1
  <2>. QED BY <2>3, <2>4, RememberedTyped, OneChanged
<1>. QED BY <1>1, <1>2 DEF AskRefused, AskPending, AskTurnedAway

LEMMA DecidedDwindles ==
    ASSUME TypeOK, NEW r \in DOMAIN requests, NEW by, NEW agreed, requests[r].state = "waiting",
           Decided(r, by, agreed)
    PROVE  Dwindles
BY DEF Decided, Dwindles, TypeOK, Held

LEMMA AnswerDwindles ==
    ASSUME TypeOK, NEW c \in Callers, Mark(c) \/ Redeem(c) \/ AgentDecides(c)
    PROVE  Dwindles
<1>1. CASE UNCHANGED requests
  BY <1>1 DEF Dwindles
<1>2. CASE Mark(c)
  BY <1>1, <1>2 DEF Mark, Dwindles, TypeOK, Held
<1>3. CASE Redeem(c)
  BY <1>1, <1>3 DEF Redeem, Spent, Dwindles, TypeOK, Held
<1>4. CASE AgentDecides(c)
  BY <1>1, <1>4, DecidedDwindles DEF AgentDecides, Decidable
<1>. QED BY <1>2, <1>3, <1>4

(* A new request is asked only where nothing unspent is left about its action: what
   lapsed uncollected was one, and it is let go of. *)
LEMMA AfreshOne ==
    ASSUME TypeOK, OneRequestPerAction, NEW c \in Agents, AskAfresh(c)
    PROVE  OneRequestPerAction'
<1>. DEFINE s == calls[c].session
            a == calls[c].action
            asked == [session |-> s, action |-> a, state |-> "waiting", by |-> None,
                      decideBy |-> now + DecideWithin, redeemBy |-> 0]
<1>1. PICK r \in Requests \ issued, owed \in Lapsed(s, a) \cup {None} :
        /\ owed = None => Lapsed(s, a) = {}
        /\ requests' = [q \in (DOMAIN Remembered \ {owed}) \cup {r} |->
                           IF q = r THEN asked ELSE requests[q]]
  BY DEF AskAfresh
<1>2. r \notin DOMAIN requests /\ NothingHeld(s, a)
  BY DEF AskAfresh, TypeOK
<1>3. DOMAIN requests' = (DOMAIN Remembered \ {owed}) \cup {r} /\ requests'[r] = asked
      /\ \A q \in DOMAIN Remembered \ {owed} : requests'[q] = requests[q]
  BY <1>1, <1>2, RememberedTyped
<1>4. ASSUME NEW q \in DOMAIN Remembered, q # owed, requests[q].state # "redeemed",
             requests[q].session = s, requests[q].action = a
      PROVE  FALSE
  <2>1. q \in About(s, a)
    BY <1>4 DEF About
  <2>2. requests[q] \in Held /\ q \in DOMAIN requests
    BY <1>4, RememberedTyped DEF TypeOK
  <2>3. requests[q].state = "approved" /\ ~(now < requests[q].redeemBy)
    BY <1>2, <1>4, <2>1, <2>2 DEF NothingHeld, InState, Collectable, Held, States
  <2>4. q \in Lapsed(s, a)
    BY <2>1, <2>2, <2>3 DEF Lapsed, InState, Held, TypeOK
  <2>5. owed \in Lapsed(s, a)
    BY <1>1, <2>4
  <2>6. owed \in DOMAIN requests /\ requests[owed].state = "approved"
        /\ requests[owed].session = s /\ requests[owed].action = a
    BY <2>5, RememberedTyped DEF Lapsed, InState, About
  <2>. QED BY <1>4, <2>2, <2>6 DEF OneRequestPerAction
<1>5. ASSUME NEW q \in DOMAIN requests', q # r, requests'[q].state # "redeemed"
      PROVE  requests'[q].session # s \/ requests'[q].action # a
  BY <1>3, <1>4, <1>5
<1>6. ASSUME NEW p \in DOMAIN requests', NEW q \in DOMAIN requests', p # r, q # r,
             requests'[p].state # "redeemed", requests'[q].state # "redeemed",
             requests'[p].session = requests'[q].session, requests'[p].action = requests'[q].action
      PROVE  p = q
  <2>1. p \in DOMAIN requests /\ q \in DOMAIN requests
        /\ requests'[p] = requests[p] /\ requests'[q] = requests[q]
    BY <1>3, <1>6, RememberedTyped
  <2>. QED BY <1>6, <2>1 DEF OneRequestPerAction
<1>7. requests'[r].session = s /\ requests'[r].action = a
  BY <1>3
<1>. QED BY <1>5, <1>6, <1>7 DEF OneRequestPerAction

LEMMA OneRequestStep ==
    ASSUME TypeOK, OneRequestPerAction, [Next]_vars
    PROVE  OneRequestPerAction'
<1>1. ASSUME UNCHANGED requests PROVE OneRequestPerAction'
  BY <1>1 DEF OneRequestPerAction
<1>2. ASSUME NEW c \in Agents, AgentStep(c) PROVE OneRequestPerAction'
  <2>1. CASE Ask(c)
    BY <2>1, AskDwindles, DwindlesOne, AfreshOne DEF Ask
  <2>2. CASE NoStanding(c) \/ TakeStanding(c)
    BY <1>1, <2>2 DEF NoStanding, TakeStanding
  <2>3. CASE AgentDecides(c) \/ Redeem(c)
    BY <2>3, AnswerDwindles, DwindlesOne DEF Callers
  <2>. QED BY <1>2, <2>1, <2>2, <2>3 DEF AgentStep
<1>3. ASSUME NEW c \in Callers, AnswerStep(c) PROVE OneRequestPerAction'
  BY <1>1, <1>3, AnswerDwindles, DwindlesOne DEF AnswerStep, RecordAnswer
<1>4. ASSUME NEW o \in Operators, NEW r \in Requests, NEW agreed \in BOOLEAN,
             NEW next \in {"grant", "finish"}, OperatorDecides(o, r, agreed, next)
      PROVE  OneRequestPerAction'
  BY <1>4, DecidedDwindles, DwindlesOne DEF OperatorDecides, Decidable
<1>5. CASE SweepRequests
  <2>1. PICK at \in Readings :
           requests' = [r \in {q \in DOMAIN requests :
                                  ~Forgettable(requests[q], at) /\ requests[q].session \in live}
                           |-> requests[r]]
    BY <1>5 DEF SweepRequests
  <2>2. Dwindles
    BY <2>1 DEF Dwindles
  <2>. QED BY <2>2, DwindlesOne
<1>6. ASSUME NEW o \in Operators, NEW id \in Agreements, NEW for \in 0 .. StandingCap,
             Grant(o, id, for)
      PROVE  UNCHANGED requests
  BY <1>6 DEF Grant
<1>7. ASSUME NEW c \in Agents, NEW s \in Sessions, NEW a \in Actions, Begin(c, s, a)
      PROVE  UNCHANGED requests
  BY <1>7 DEF Begin, storeVars
<1>8. CASE \/ \E id \in Agreements : RevokeStanding(id)
           \/ \E s \in Sessions : SessionEnds(s)
           \/ SweepStanding \/ Tick \/ UNCHANGED vars
  BY <1>1, <1>8 DEF RevokeStanding, SessionEnds, SweepStanding, Tick, vars, storeVars
<1>. QED BY <1>1, <1>2, <1>3, <1>4, <1>5, <1>6, <1>7, <1>8 DEF Next

(* A session never waits on two unspent requests about one action, whatever retries,
   lapses and answers overlap (OneRequestPerAction). *)
THEOREM RequestsAreSingle == Spec => []OneRequestPerAction
<1>1. Init => OneRequestPerAction
  BY DEF Init, OneRequestPerAction
<1>2. TypeOK /\ OneRequestPerAction /\ [Next]_vars => OneRequestPerAction'
  BY OneRequestStep
<1>. QED BY <1>1, <1>2, TypeInvariant, PTL DEF Spec

-----------------------------------------------------------------------------
(* What becomes of a request that has its answer *)

(* A refusal and a recorded yes stay as they are, unless they are swept with their
   session; and a yes may also be spent, or be let go of by a call that owes the lapse. *)
Fate(r) ==
    \/ r \in DOMAIN requests' /\ requests'[r] = requests[r]
    \/ requests[r].session \notin live
    \/ /\ requests[r].state = "approved"
       /\ \/ r \in DOMAIN requests' /\ requests'[r].state = "redeemed"
          \/ \E c \in Agents : calls'[c].owed = r

(* What the store promises of one step. *)
StoreStep ==
    /\ \A r \in DOMAIN requests : requests[r].state \in {"refused", "approved"} => Fate(r)
    /\ \A q \in DOMAIN requests' \ DOMAIN requests, r \in DOMAIN requests :
          requests[r].state = "refused"
          => requests'[q].session # requests[r].session \/ requests'[q].action # requests[r].action
    /\ \A q \in DOMAIN requests : receipts'[q] # receipts[q] => requests[q].state = "approved"
    /\ live' \subseteq live

LEMMA NothingInStore ==
    ASSUME UNCHANGED <<requests, receipts>>, live' \subseteq live
    PROVE  StoreStep
BY DEF StoreStep, Fate

(* ask_with drops only what is forgettable: neither a refusal nor a recorded yes. *)
LEMMA AnswersRemembered ==
    ASSUME TypeOK, NEW r \in DOMAIN requests, requests[r].state \in {"refused", "approved"}
    PROVE  r \in DOMAIN Remembered /\ Remembered[r] = requests[r]
BY RememberedTyped DEF Forgettable

LEMMA RememberedStore ==
    ASSUME TypeOK, requests' = Remembered, UNCHANGED <<live, receipts>>
    PROVE  StoreStep
BY RememberedTyped, AnswersRemembered DEF StoreStep, Fate

LEMMA CollectedStore ==
    ASSUME TypeOK, NEW c \in Agents, AskCollects(c)
    PROVE  StoreStep
<1>1. CASE requests' = Remembered /\ UNCHANGED receipts
  BY <1>1, RememberedStore DEF AskCollects
<1>2. ASSUME NEW r \in Collectable(calls[c].session, calls[c].action),
             requests' = Spent(Remembered, r), receipts' = [receipts EXCEPT ![r] = @ + 1]
      PROVE  StoreStep
  <2>1. r \in DOMAIN Remembered /\ r \in DOMAIN requests /\ requests[r].state = "approved"
    BY RememberedTyped DEF Collectable, InState, About
  <2>2. /\ DOMAIN requests' = DOMAIN Remembered
        /\ requests'[r].state = "redeemed"
        /\ \A q \in DOMAIN Remembered : q # r => requests'[q] = requests[q]
    BY <1>2, <2>1, RememberedTyped DEF Spent, Held
  <2>3. \A q \in DOMAIN requests : q # r => receipts'[q] = receipts[q]
    BY <1>2 DEF TypeOK
  <2>4. \A q \in DOMAIN requests : requests[q].state \in {"refused", "approved"} => Fate(q)
    BY <2>1, <2>2, AnswersRemembered DEF Fate
  <2>. QED BY <2>1, <2>2, <2>3, <2>4, RememberedTyped DEF StoreStep, AskCollects
<1>. QED BY <1>1, <1>2 DEF AskCollects

(* What is asked afresh is about an action that has not been refused. *)
LEMMA AfreshStore ==
    ASSUME TypeOK, NEW c \in Agents, AskAfresh(c)
    PROVE  StoreStep
<1>. DEFINE s == calls[c].session
            a == calls[c].action
            asked == [session |-> s, action |-> a, state |-> "waiting", by |-> None,
                      decideBy |-> now + DecideWithin, redeemBy |-> 0]
<1>1. PICK r \in Requests \ issued, owed \in Lapsed(s, a) \cup {None} :
        /\ requests' = [q \in (DOMAIN Remembered \ {owed}) \cup {r} |->
                           IF q = r THEN asked ELSE requests[q]]
        /\ Proceed(c, [calls[c] EXCEPT !.pc = "seeking", !.request = r, !.owed = owed])
  BY DEF AskAfresh
<1>2. r \notin DOMAIN requests /\ NothingHeld(s, a) /\ UNCHANGED <<live, receipts>>
  BY DEF AskAfresh, TypeOK, recordVars
<1>3. /\ DOMAIN requests' = (DOMAIN Remembered \ {owed}) \cup {r} /\ requests'[r] = asked
      /\ \A q \in DOMAIN Remembered \ {owed} : requests'[q] = requests[q]
  BY <1>1, <1>2, RememberedTyped
<1>4. c \in Callers /\ calls'[c].owed = owed
  BY <1>1 DEF Callers, Proceed, TypeOK, Call
<1>5. owed \in DOMAIN requests => requests[owed].state = "approved"
  <2>1. CASE owed \in Lapsed(s, a)
    BY <2>1 DEF Lapsed, InState
  <2>2. CASE owed = None
    BY <2>2, ConstantsAssumption DEF TypeOK
  <2>. QED BY <2>1, <2>2
<1>6. ASSUME NEW q \in DOMAIN requests, requests[q].state \in {"refused", "approved"} PROVE Fate(q)
  BY <1>3, <1>4, <1>5, <1>6, AnswersRemembered DEF Fate
<1>7. ASSUME NEW q \in DOMAIN requests, requests[q].state = "refused"
      PROVE  requests[q].session # s \/ requests[q].action # a
  <2>1. q \notin InState(s, a, {"refused"})
    BY <1>2 DEF NothingHeld, InState
  <2>. QED BY <1>7, <2>1, AnswersRemembered DEF InState, About
<1>8. ASSUME NEW q \in DOMAIN requests', q \notin DOMAIN requests PROVE requests'[q].session = s /\ requests'[q].action = a
  BY <1>3, <1>8, RememberedTyped
<1>. QED BY <1>2, <1>6, <1>7, <1>8 DEF StoreStep

LEMMA DecidedStore ==
    ASSUME TypeOK, NEW r \in DOMAIN requests, NEW by, NEW agreed, requests[r].state = "waiting",
           Decided(r, by, agreed), UNCHANGED <<live, receipts>>
    PROVE  StoreStep
<1>1. DOMAIN requests' = DOMAIN requests /\ \A q \in DOMAIN requests : q # r => requests'[q] = requests[q]
  BY DEF Decided
<1>. QED BY <1>1 DEF StoreStep, Fate

LEMMA AnswerStore ==
    ASSUME TypeOK, NEW c \in Callers, AnswerStep(c) \/ AgentDecides(c) \/ Redeem(c)
    PROVE  StoreStep
<1>. DEFINE r == calls[c].request
<1>1. CASE UNCHANGED <<live, requests, receipts>>
  BY <1>1, NothingInStore
<1>2. CASE Mark(c)
  <2>1. CASE r \in DOMAIN requests /\ requests[r].state = "unrecorded"
    <3>1. DOMAIN requests' = DOMAIN requests /\ \A q \in DOMAIN requests : q # r => requests'[q] = requests[q]
      BY <1>2, <2>1 DEF Mark
    <3>. QED BY <1>2, <2>1, <3>1 DEF StoreStep, Fate, Mark, recordVars
  <2>2. CASE ~(r \in DOMAIN requests /\ requests[r].state = "unrecorded")
    BY <1>1, <1>2, <2>2 DEF Mark, recordVars
  <2>. QED BY <2>1, <2>2
<1>3. CASE Redeem(c)
  <2>1. CASE UNCHANGED <<requests, receipts>>
    BY <1>1, <1>3, <2>1 DEF Redeem
  <2>2. CASE /\ r \in DOMAIN requests /\ requests[r].state = "approved"
             /\ requests' = Spent(requests, r) /\ receipts' = [receipts EXCEPT ![r] = @ + 1]
    <3>1. /\ DOMAIN requests' = DOMAIN requests /\ requests'[r].state = "redeemed"
          /\ \A q \in DOMAIN requests : q # r => requests'[q] = requests[q] /\ receipts'[q] = receipts[q]
      BY <2>2 DEF Spent, TypeOK, Held
    <3>2. live' = live
      BY <1>3 DEF Redeem
    <3>. QED BY <2>2, <3>1, <3>2 DEF StoreStep, Fate
  <2>. QED BY <1>3, <2>1, <2>2 DEF Redeem
<1>4. CASE AgentDecides(c)
  <2>1. CASE UNCHANGED requests
    BY <1>1, <1>4, <2>1 DEF AgentDecides, recordVars
  <2>2. CASE Decidable(r) /\ Decided(r, calls[c].by, TRUE)
    <3>1. UNCHANGED <<live, receipts>>
      BY <1>4 DEF AgentDecides, recordVars
    <3>. QED BY <2>2, <3>1, DecidedStore DEF Decidable
  <2>. QED BY <1>4, <2>1, <2>2 DEF AgentDecides
<1>5. CASE RecordAnswer(c)
  BY <1>1, <1>5 DEF RecordAnswer
<1>. QED BY <1>2, <1>3, <1>4, <1>5 DEF AnswerStep

LEMMA StoreSteps ==
    ASSUME TypeOK, [Next]_vars
    PROVE  StoreStep
<1>1. ASSUME NEW c \in Agents, AgentStep(c) PROVE StoreStep
  <2>1. CASE AskRefused(c) \/ AskPending(c) \/ AskTurnedAway(c)
    BY <2>1, RememberedStore DEF AskRefused, AskPending, AskTurnedAway, recordVars
  <2>2. CASE AskCollects(c) \/ AskAfresh(c)
    BY <2>2, CollectedStore, AfreshStore
  <2>3. CASE NoStanding(c) \/ TakeStanding(c)
    BY <2>3, NothingInStore DEF NoStanding, TakeStanding, recordVars
  <2>4. CASE AgentDecides(c) \/ Redeem(c)
    BY <2>4, AnswerStore DEF Callers
  <2>. QED BY <1>1, <2>1, <2>2, <2>3, <2>4 DEF AgentStep, Ask
<1>2. ASSUME NEW c \in Callers, AnswerStep(c) PROVE StoreStep
  BY <1>2, AnswerStore
<1>3. ASSUME NEW o \in Operators, NEW r \in Requests, NEW agreed \in BOOLEAN,
             NEW next \in {"grant", "finish"}, OperatorDecides(o, r, agreed, next)
      PROVE  StoreStep
  <2>1. UNCHANGED <<live, receipts>> /\ Decidable(r) /\ Decided(r, Direct, agreed)
    BY <1>3 DEF OperatorDecides, recordVars
  <2>. QED BY <2>1, DecidedStore DEF Decidable
<1>4. CASE SweepRequests
  <2>1. PICK at \in Readings :
           requests' = [r \in {q \in DOMAIN requests :
                                  ~Forgettable(requests[q], at) /\ requests[q].session \in live}
                           |-> requests[r]]
    BY <1>4 DEF SweepRequests
  <2>2. \A r \in DOMAIN requests : requests[r].state \in {"refused", "approved"} => Fate(r)
    BY <2>1 DEF Fate, Forgettable
  <2>3. DOMAIN requests' \subseteq DOMAIN requests /\ UNCHANGED <<live, receipts>>
    BY <1>4, <2>1 DEF SweepRequests, recordVars
  <2>. QED BY <2>2, <2>3 DEF StoreStep
<1>5. ASSUME NEW o \in Operators, NEW id \in Agreements, NEW for \in 0 .. StandingCap,
             Grant(o, id, for)
      PROVE  StoreStep
  BY <1>5, NothingInStore DEF Grant, recordVars
<1>6. ASSUME NEW c \in Agents, NEW s \in Sessions, NEW a \in Actions, Begin(c, s, a)
      PROVE  StoreStep
  BY <1>6, NothingInStore DEF Begin, storeVars, recordVars
<1>7. CASE \/ \E id \in Agreements : RevokeStanding(id)
           \/ \E s \in Sessions : SessionEnds(s)
           \/ SweepStanding \/ Tick \/ UNCHANGED vars
  BY <1>7, NothingInStore DEF RevokeStanding, SessionEnds, SweepStanding, Tick, vars, storeVars, recordVars
<1>. QED BY <1>1, <1>2, <1>3, <1>4, <1>5, <1>6, <1>7 DEF Next

(* A no stands for as long as its session does: it is neither forgotten, asked again nor
   collected around (RefusalStands).  A receipt spends an approved request, and beside
   the refused one there is none about its action. *)
THEOREM RefusalsStand == Spec => RefusalStands
<1>1. ASSUME TypeOK, OneRequestPerAction, [Next]_vars, NEW r \in DOMAIN requests,
             requests[r].state = "refused", requests[r].session \in live'
      PROVE  /\ r \in DOMAIN requests' /\ requests'[r] = requests[r]
             /\ \A q \in Requests :
                  /\ q \in DOMAIN requests' \ DOMAIN requests
                  => requests'[q].session # requests[r].session \/ requests'[q].action # requests[r].action
             /\ \A q \in DOMAIN requests :
                  receipts'[q] # receipts[q]
                  => requests[q].session # requests[r].session \/ requests[q].action # requests[r].action
  <2>1. StoreStep
    BY <1>1, StoreSteps
  <2>2. r \in DOMAIN requests' /\ requests'[r] = requests[r]
    BY <1>1, <2>1 DEF StoreStep, Fate
  <2>3. ASSUME NEW q \in DOMAIN requests, receipts'[q] # receipts[q]
        PROVE  requests[q].session # requests[r].session \/ requests[q].action # requests[r].action
    <3>1. requests[q].state = "approved"
      BY <2>1, <2>3 DEF StoreStep
    <3>. QED BY <1>1, <3>1 DEF OneRequestPerAction
  <2>. QED BY <1>1, <2>1, <2>2, <2>3 DEF StoreStep
<1>2. TypeOK /\ OneRequestPerAction /\ [Next]_vars
      => [\A r \in DOMAIN requests :
            /\ requests[r].state = "refused"
            /\ requests[r].session \in live'
            => /\ r \in DOMAIN requests' /\ requests'[r] = requests[r]
               /\ \A q \in Requests :
                    /\ q \in DOMAIN requests' \ DOMAIN requests
                    => requests'[q].session # requests[r].session \/ requests'[q].action # requests[r].action
               /\ \A q \in DOMAIN requests :
                    receipts'[q] # receipts[q]
                    => requests[q].session # requests[r].session \/ requests[q].action # requests[r].action]_vars
  BY <1>1
<1>. QED BY <1>2, TypeInvariant, RequestsAreSingle, PTL DEF Spec, RefusalStands

(* A recorded yes is never lost on a clock (RecordedYesKept): ask_with and the sweep
   leave it to be spent, to its session's end, or to the call that owes the lapse. *)
THEOREM RecordedYesesAreKept == Spec => RecordedYesKept
<1>1. ASSUME TypeOK, [Next]_vars, NEW r \in DOMAIN requests, requests[r].state = "approved"
      PROVE  \/ r \in DOMAIN requests' /\ requests'[r].state \in {"approved", "redeemed"}
             \/ requests[r].session \notin live
             \/ \E c \in Agents : calls'[c].owed = r
  BY <1>1, StoreSteps DEF StoreStep, Fate
<1>2. TypeOK /\ [Next]_vars
      => [\A r \in DOMAIN requests :
            requests[r].state = "approved"
            => \/ r \in DOMAIN requests' /\ requests'[r].state \in {"approved", "redeemed"}
               \/ requests[r].session \notin live
               \/ \E c \in Agents : calls'[c].owed = r]_vars
  BY <1>1
<1>. QED BY <1>2, TypeInvariant, PTL DEF Spec, RecordedYesKept

(* A call that is turned away has counted the waiting requests of its session, after
   it found none about its own action. *)
LEMMA TurnedAwayOverOthers ==
    ASSUME TypeOK, NEW c, AskTurnedAway(c)
    PROVE  /\ Cardinality({r \in DOMAIN requests :
                 requests[r].session = calls[c].session /\ requests[r].action # calls[c].action
                    /\ requests[r].state = "waiting" /\ now < requests[r].decideBy})
               >= WaitingPerSession
           /\ Collectable(calls[c].session, calls[c].action) = {}
<1>. DEFINE s == calls[c].session
            a == calls[c].action
            others == {r \in DOMAIN requests : requests[r].session = s /\ requests[r].action # a
                                                 /\ requests[r].state = "waiting" /\ now < requests[r].decideBy}
<1>1. NothingHeld(s, a) /\ Cardinality(WaitingIn(s)) >= WaitingPerSession
  BY DEF AskTurnedAway
<1>2. ASSUME NEW r \in WaitingIn(s) PROVE r \in others
  <2>1. r \in DOMAIN requests /\ requests[r] \in Held /\ r \in DOMAIN Remembered
    BY RememberedTyped DEF WaitingIn, TypeOK
  <2>2. requests[r].session = s /\ requests[r].state = "waiting" /\ ~Forgettable(requests[r], now)
    BY <2>1, RememberedTyped DEF WaitingIn
  <2>3. now < requests[r].decideBy
    BY <2>1, <2>2 DEF Forgettable, Held, TypeOK
  <2>4. requests[r].action # a
    BY <1>1, <2>1, <2>2 DEF NothingHeld, InState, About
  <2>. QED BY <2>1, <2>2, <2>3, <2>4
<1>3. ASSUME NEW r \in others PROVE r \in WaitingIn(s)
  <2>1. requests[r] \in Held
    BY DEF TypeOK
  <2>2. ~Forgettable(requests[r], now)
    BY <2>1 DEF Forgettable, Held, TypeOK
  <2>. QED BY <2>2, RememberedTyped DEF WaitingIn
<1>4. WaitingIn(s) = others
  BY <1>2, <1>3
<1>. QED BY <1>1, <1>4 DEF NothingHeld

(* Only ask_with turns a call away, and only its own. *)
LEMMA TurnedAwayByAsk ==
    ASSUME TypeOK, [Next]_vars, NEW c \in Agents,
           calls[c].pc = "asking", calls'[c] = Idle, reply' = "too many"
    PROVE  AskTurnedAway(c)
<1>1. Idle.pc = "idle"
  BY DEF Idle
<1>2. c \in Callers /\ calls'[c] # calls[c]
  BY <1>1 DEF Callers
<1>3. ASSUME NEW d \in Callers, NEW k, Proceed(d, k) PROVE d = c /\ k = Idle
  BY <1>2, <1>3 DEF Proceed, TypeOK
<1>4. ASSUME NEW d \in Callers, NEW k, Proceed(d, k), k.pc # "idle" PROVE FALSE
  BY <1>1, <1>3, <1>4
<1>5. \E d \in Agents : AskTurnedAway(d)
  <2>1. ASSUME NEW d \in Agents, AgentStep(d), ~AskTurnedAway(d) PROVE FALSE
    <3>1. d \in Callers /\ calls[d] \in Call
      BY DEF Callers, TypeOK
    <3>2. CASE AskCollects(d) \/ AskRefused(d) \/ NoStanding(d) \/ Redeem(d)
      BY <3>2 DEF AskCollects, AskRefused, NoStanding, Redeem, Finish
    <3>3. CASE AskPending(d) \/ AskAfresh(d)
      <4>1. PICK r, owed : Proceed(d, [calls[d] EXCEPT !.pc = "seeking", !.request = r, !.owed = owed])
                           \/ Proceed(d, [calls[d] EXCEPT !.pc = "seeking", !.request = r])
        BY <3>3 DEF AskPending, AskAfresh
      <4>2. [calls[d] EXCEPT !.pc = "seeking", !.request = r, !.owed = owed].pc = "seeking"
            /\ [calls[d] EXCEPT !.pc = "seeking", !.request = r].pc = "seeking"
        BY <3>1 DEF Call
      <4>. QED BY <1>4, <3>1, <4>1, <4>2
    <3>4. CASE TakeStanding(d)
      <4>1. PICK id : Proceed(d, [calls[d] EXCEPT !.pc = "deciding", !.by = id, !.agreed = TRUE, !.next = "redeem"])
        BY <3>4 DEF TakeStanding
      <4>2. [calls[d] EXCEPT !.pc = "deciding", !.by = id, !.agreed = TRUE, !.next = "redeem"].pc = "deciding"
        BY <3>1 DEF Call
      <4>. QED BY <1>4, <3>1, <4>1, <4>2
    <3>5. CASE AgentDecides(d)
      <4>1. CASE Proceed(d, [calls[d] EXCEPT !.pc = "recording"])
        <5>1. [calls[d] EXCEPT !.pc = "recording"].pc = "recording"
          BY <3>1 DEF Call
        <5>. QED BY <1>4, <3>1, <4>1, <5>1
      <4>2. CASE Finish(d, "error")
        BY <4>2 DEF Finish
      <4>. QED BY <3>5, <4>1, <4>2 DEF AgentDecides
    <3>. QED BY <2>1, <3>2, <3>3, <3>4, <3>5 DEF AgentStep, Ask
  <2>2. ASSUME NEW d \in Callers, AnswerStep(d) PROVE FALSE
    <3>1. calls[d] \in Call
      BY DEF TypeOK
    <3>2. \/ \E what \in {"done", "error"} : Finish(d, what)
          \/ \E pc \in {"marking", "granting", "redeeming"} : Proceed(d, [calls[d] EXCEPT !.pc = pc])
      BY <2>2 DEF AnswerStep, RecordAnswer, Mark, AfterAnswer
    <3>3. ASSUME NEW pc \in {"marking", "granting", "redeeming"}, Proceed(d, [calls[d] EXCEPT !.pc = pc]) PROVE FALSE
      <4>1. [calls[d] EXCEPT !.pc = pc].pc = pc
        BY <3>1 DEF Call
      <4>. QED BY <1>4, <3>3, <4>1
    <3>. QED BY <3>2, <3>3 DEF Finish
  <2>3. ASSUME NEW d \in Agents, NEW s \in Sessions, NEW a \in Actions, Begin(d, s, a) PROVE FALSE
    <3>1. Proceed(d, [Idle EXCEPT !.pc = "asking", !.session = s, !.action = a]) /\ d \in Callers
      BY <2>3 DEF Begin, Callers
    <3>2. [Idle EXCEPT !.pc = "asking", !.session = s, !.action = a].pc = "asking"
      BY DEF Idle
    <3>. QED BY <1>1, <1>3, <3>1, <3>2
  <2>4. ASSUME NEW o \in Operators, o = c PROVE FALSE
    BY <2>4, ConstantsAssumption
  <2>5. ASSUME NEW o \in Operators, NEW r \in Requests, NEW agreed \in BOOLEAN,
               NEW next \in {"grant", "finish"}, OperatorDecides(o, r, agreed, next)
        PROVE  FALSE
    <3>1. o = c
      BY <1>3, <2>5 DEF OperatorDecides, Callers
    <3>. QED BY <2>4, <3>1
  <2>6. ASSUME NEW o \in Operators, NEW id \in Agreements, NEW for \in 0 .. StandingCap, Grant(o, id, for)
        PROVE  FALSE
    BY <2>6 DEF Grant
  <2>7. CASE \/ \E id \in Agreements : RevokeStanding(id)
             \/ \E s \in Sessions : SessionEnds(s)
             \/ SweepRequests \/ SweepStanding \/ Tick \/ UNCHANGED vars
    BY <1>2, <2>7 DEF RevokeStanding, SessionEnds, SweepRequests, SweepStanding, Tick, vars
  <2>. QED BY <2>1, <2>2, <2>3, <2>5, <2>6, <2>7 DEF Next
<1>6. PICK d \in Agents : AskTurnedAway(d)
  BY <1>5
<1>7. d = c
  BY <1>2, <1>6 DEF AskTurnedAway, Finish, Proceed, TypeOK
<1>. QED BY <1>6, <1>7

(* ask_with turns a call away over the other actions its session waits on, and never
   from a yes it could collect (TurnedAwayOnlyByOthers). *)
THEOREM OnlyOthersTurnAway == Spec => TurnedAwayOnlyByOthers
<1>0. ASSUME TypeOK, [Next]_vars, NEW c \in Agents,
             calls[c].pc = "asking", calls'[c] = Idle, reply' = "too many"
      PROVE  AskTurnedAway(c)
  BY <1>0, TurnedAwayByAsk
<1>1. TypeOK /\ [Next]_vars
      => [\A c \in Agents :
            calls[c].pc = "asking" /\ calls'[c] = Idle /\ reply' = "too many"
            => /\ Cardinality({r \in DOMAIN requests :
                     requests[r].session = calls[c].session /\ requests[r].action # calls[c].action
                        /\ requests[r].state = "waiting" /\ now < requests[r].decideBy})
                   >= WaitingPerSession
               /\ Collectable(calls[c].session, calls[c].action) = {}]_vars
  BY <1>0, TurnedAwayOverOthers
<1>. QED BY <1>1, TypeInvariant, PTL DEF Spec, TurnedAwayOnlyByOthers
=============================================================================
