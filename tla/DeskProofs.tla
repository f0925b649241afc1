----------------------------- MODULE DeskProofs ------------------------------
(***************************************************************************)
(* Proofs about Desk for every number of forms, workers and decisions.     *)
(***************************************************************************)
EXTENDS Desk, FiniteSetTheorems, TLAPS

-----------------------------------------------------------------------------
(* The inductive invariant *)

Somebody == Forms \cup {Nobody}
Request == [decided : Nat \ {0}, state : {"waiting", "approved", "refused", "redeemed", "gone"},
            recorded : BOOLEAN, late : BOOLEAN, by : Somebody, made : {"call", "told", "dropped"}]
Entry == [is : {"decided", "yes", "no", "approved", "completed", "terminated", "evaluated"}, of : Nat, by : Somebody]
Result == [is : {"error", "ran", "refused", "awaiting", "lapsed"}, about : Nat, by : Somebody]
Failures == {"unauthorized", "forbidden", "bad_request", "conflict", "not_found", "unavailable", "error"}
Form == [pc : {"new", "working", "done"}, word : Words, about : Nat,
         told : {"nothing", "see_other", "created", "not_recorded"} \cup Failures]

Types ==
    /\ requests \in Seq(Request)
    /\ record \subseteq Entry
    /\ running \subseteq record
    /\ agreement \in Somebody
    /\ agent \in [pc : {"idle", "asking", "answering"}, dropped : BOOLEAN, result : Result]
    /\ notes \in [0 .. MaxDecisions -> Nat]
    /\ forms \in [Forms -> Form]

(* Decisions are numbered as they are made, and a request keeps the number of its own;
   one is waiting until somebody answers it. *)
Numbered ==
    /\ \E n \in 0 .. MaxDecisions :
          /\ Decisions = 1 .. n
          /\ Len(requests) <= n
          /\ \A i \in Asked : requests[i].decided <= n
    /\ \A i \in Asked : requests[i].state = "waiting" <=> requests[i].by = Nobody

(* A request is announced when its own call is told of it. *)
Announced ==
    /\ \A i \in 0 .. MaxDecisions : notes[i] = IF i \in Asked /\ requests[i].made = "told" THEN 1 ELSE 0
    /\ agent.pc = "answering" /\ agent.result.is \in {"awaiting", "lapsed"} =>
          /\ agent.result.about \in Asked
          /\ requests[agent.result.about].decided = Cardinality(Decisions)
                => requests[agent.result.about].made = "call"

(* What is known of a form, by what was told of it: nothing is done in its name
   before it is done, and after that only what its agreement does. *)
Signed == {"yes", "no", "terminated", "evaluated"}
Entries(f) == {e \in record : e.by = f /\ e.is \in Signed}
Own(f) == {i \in Asked : requests[i].by = f}

FormOf(f) ==
    LET form == forms[f]
    IN /\ form.pc # "done" => form.told = "nothing"
       /\ form.told \in {"nothing"} \cup Failures => Entries(f) = {} /\ Own(f) = {}
       /\ form.told = "not_recorded" => Entries(f) = {} /\ form.about \in Own(f)
       /\ form.told = "see_other" /\ form.word \in Deciding =>
             /\ form.about \in Own(f)
             /\ Said(IF form.word = "refuse" THEN "no" ELSE "yes", requests[form.about].decided, f) \in record
       /\ form.told = "see_other" /\ form.word = "terminate" => session = "over" /\ Entries(f) # {}
       /\ form.told = "created" => InRecord("evaluated", form.about)
       /\ agreement = f => form.told = "see_other"

(* A page holds what was so when it was begun. *)
PageHolds ==
    page.pc = "looking" =>
        /\ page.shown = <<>>
        /\ page.running \subseteq record
        /\ DOMAIN page.before \subseteq Decisions
        /\ \A d \in DOMAIN page.before :
              IF \E a \in page.running : a.of = d THEN page.before[d] = "Running"
              ELSE IF d \in page.waiting THEN page.before[d] = "Awaiting approval"
              ELSE page.before[d] \notin {"Running", "Awaiting approval"}

DeskInv == Types /\ Numbered /\ Announced /\ (\A f \in Forms : FormOf(f)) /\ PageHolds

-----------------------------------------------------------------------------
(* What a step does to the requests and the record *)

(* The requests are those of `held`, of which some were answered in the name of the
   agreement, spent or let go of. *)
Moves(held) ==
    /\ requests' \in Seq(Request)
    /\ Len(requests') = Len(held)
    /\ \A j \in 1 .. Len(held) :
          /\ requests'[j].decided = held[j].decided
          /\ requests'[j].made = held[j].made
          /\ requests'[j].state = "waiting" <=> requests'[j].by = Nobody
          /\ requests'[j].by = held[j].by \/ (held[j].by = Nobody /\ requests'[j].by = agreement)

(* The record grows by `entries`, by approvals, and by an answer in that name. *)
Writes(entries) ==
    /\ record \cup entries \subseteq record'
    /\ record' \subseteq Entry
    /\ \A x \in record' \ (record \cup entries) : x.is = "approved" \/ (x.is = "yes" /\ x.by = agreement)
    /\ running' \subseteq record'

(* Requests of which those that wait are nobody's. *)
Held == {held \in Seq(Request) : \A j \in 1 .. Len(held) : held[j].state = "waiting" <=> held[j].by = Nobody}

LEMMA Changing ==
    ASSUME NEW held \in Held, NEW i \in 1 .. Len(held), NEW x \in Request,
           x.decided = held[i].decided, x.made = held[i].made,
           x.state = "waiting" <=> x.by = Nobody,
           x.by = held[i].by \/ (held[i].by = Nobody /\ x.by = agreement),
           requests' = [held EXCEPT ![i] = x]
    PROVE  Moves(held)
<1>1. held \in Seq(Request)
  BY DEF Held
<1>2. requests' \in Seq(Request) /\ Len(requests') = Len(held)
  BY <1>1
<1>3. \A j \in 1 .. Len(held) : requests'[j] = IF j = i THEN x ELSE held[j]
  BY <1>1
<1>. QED BY <1>1, <1>2, <1>3 DEF Moves, Held

LEMMA Staying ==
    ASSUME NEW held \in Held, requests' = held
    PROVE  Moves(held)
BY DEF Moves, Held

LEMMA SaidTyped ==
    ASSUME NEW is \in {"decided", "yes", "no", "approved", "completed", "terminated", "evaluated"},
           NEW of \in Nat, NEW by \in Somebody
    PROVE  /\ Said(is, of, by) \in Entry
           /\ Said(is, of, by).is = is /\ Said(is, of, by).of = of /\ Said(is, of, by).by = by
BY DEF Said, Entry

(* A yes is spent. *)
LEMMA RedeemsMoves ==
    ASSUME Types, NEW held \in Held, NEW i \in 1 .. Len(held), NEW entries, entries \subseteq Entry,
           held[i].by # Nobody,
           Redeems(held, i, entries)
    PROVE  Moves(held) /\ Writes(entries) /\ AgentGets([is |-> "ran", about |-> i, by |-> held[i].by])
<1>. DEFINE approved == Said("approved", held[i].decided, held[i].by)
            x == [held[i] EXCEPT !.state = "redeemed"]
<1>1. held \in Seq(Request) /\ held[i] \in Request /\ i \in DOMAIN held
  BY DEF Held
<1>2. x \in Request /\ x.decided = held[i].decided /\ x.made = held[i].made /\ x.by = held[i].by /\ x.state = "redeemed"
  BY <1>1 DEF Request
<1>3. requests' = [held EXCEPT ![i] = x] /\ record' = record \cup entries \cup {approved}
      /\ running' = running \cup {approved} /\ AgentGets([is |-> "ran", about |-> i, by |-> held[i].by])
  BY DEF Redeems
<1>4. held[i].decided \in Nat /\ held[i].by \in Somebody
  BY <1>1 DEF Request
<1>5. approved \in Entry /\ approved.is = "approved"
  BY <1>4, SaidTyped
<1>6. Moves(held)
  BY <1>2, <1>3, Changing
<1>7. Writes(entries)
  BY <1>3, <1>5 DEF Writes, Types
<1>. QED BY <1>3, <1>6, <1>7

(* The agent is told of an error, or that its command ran. *)
Spoken(kinds) ==
    \E result \in Result : result.is \in kinds /\ agent' = [agent EXCEPT !.pc = "answering", !.result = result]

LEMMA StandingMoves ==
    ASSUME Types, NEW held \in Held, NEW i \in 1 .. Len(held), NEW entries, entries \subseteq Entry,
           agreement # Nobody,
           StandingAnswers(held, i, entries)
    PROVE  Moves(held) /\ Writes(entries) /\ Spoken({"error", "ran"})
<1>. DEFINE answered == [held EXCEPT ![i].state = "approved", ![i].by = agreement]
            recorded == [answered EXCEPT ![i].recorded = TRUE]
            yes == Said("yes", held[i].decided, agreement)
            error == [is |-> "error", about |-> 0, by |-> Nobody]
            x == [held[i] EXCEPT !.state = "approved", !.by = agreement]
            y == [held[i] EXCEPT !.state = "approved", !.by = agreement, !.recorded = TRUE]
<1>1. held \in Seq(Request) /\ held[i] \in Request /\ i \in DOMAIN held /\ agreement \in Somebody
  BY DEF Held, Types
<1>2. /\ x \in Request /\ x.decided = held[i].decided /\ x.made = held[i].made /\ x.by = agreement /\ x.state = "approved"
      /\ y \in Request /\ y.decided = held[i].decided /\ y.made = held[i].made /\ y.by = agreement /\ y.state = "approved"
  BY <1>1 DEF Request
<1>3. answered = [held EXCEPT ![i] = x] /\ recorded = [held EXCEPT ![i] = y]
  BY <1>1 DEF Request
<1>4. held[i].decided \in Nat
  BY <1>1 DEF Request
<1>5. yes \in Entry /\ yes.is = "yes" /\ yes.by = agreement
  BY <1>1, <1>4, SaidTyped
<1>6. error \in Result /\ error.is = "error"
  BY DEF Result, Somebody
<1>7. ASSUME NEW store \in {held}, requests' = store, record' = record \cup entries, UNCHANGED running, AgentGets(error)
      PROVE  Moves(held) /\ Writes(entries) /\ Spoken({"error", "ran"})
  BY <1>6, <1>7, Staying DEF Writes, Types, Spoken, AgentGets
<1>8. CASE held[i].state = "waiting"
  <2>1. held[i].by = Nobody
    BY <1>8 DEF Held
  <2>2. CASE requests' = answered /\ record' = record \cup entries /\ UNCHANGED running /\ AgentGets(error)
    <3>1. Moves(held)
      BY <1>1, <1>2, <1>3, <2>1, <2>2, Changing
    <3>. QED BY <3>1, <1>6, <2>2 DEF Writes, Types, Spoken, AgentGets
  <2>3. CASE requests' = recorded /\ record' = record \cup (entries \cup {yes}) /\ UNCHANGED running /\ AgentGets(error)
    <3>1. Moves(held)
      BY <1>1, <1>2, <1>3, <2>1, <2>3, Changing
    <3>. QED BY <3>1, <1>5, <1>6, <2>3 DEF Writes, Types, Spoken, AgentGets
  <2>4. CASE Redeems(recorded, i, entries \cup {yes})
    <3>1. /\ recorded \in Seq(Request) /\ Len(recorded) = Len(held)
          /\ \A j \in 1 .. Len(held) : recorded[j] = IF j = i THEN y ELSE held[j]
      BY <1>1, <1>2, <1>3
    <3>2. recorded \in Held
      <4>. HIDE DEF recorded, y
      <4>1. \A j \in 1 .. Len(held) : held[j].state = "waiting" <=> held[j].by = Nobody
        BY DEF Held
      <4>2. \A j \in 1 .. Len(recorded) : recorded[j].state = "waiting" <=> recorded[j].by = Nobody
        BY <1>2, <3>1, <4>1
      <4>. QED BY <3>1, <4>2 DEF Held
    <3>3. Moves(recorded) /\ Writes(entries \cup {yes}) /\ AgentGets([is |-> "ran", about |-> i, by |-> recorded[i].by])
      <4>. HIDE DEF recorded, y, yes
      <4>1. recorded[i].by # Nobody /\ i \in 1 .. Len(recorded) /\ entries \cup {yes} \subseteq Entry
        BY <1>2, <1>5, <3>1
      <4>. QED BY <2>4, <3>2, <4>1, RedeemsMoves
    <3>4. Moves(held)
      BY <1>2, <2>1, <3>1, <3>3 DEF Moves
    <3>5. Writes(entries)
      BY <1>5, <3>3 DEF Writes
    <3>6. [is |-> "ran", about |-> i, by |-> recorded[i].by] \in Result
      <4>. HIDE DEF recorded, y
      <4>1. recorded[i].by \in Somebody
        BY <1>1, <1>2, <3>1
      <4>. QED BY <4>1 DEF Result
    <3>. QED BY <3>3, <3>4, <3>5, <3>6 DEF Spoken, AgentGets
  <2>. QED BY <1>8, <2>2, <2>3, <2>4 DEF StandingAnswers
<1>9. CASE held[i].state # "waiting"
  BY <1>7, <1>9 DEF StandingAnswers
<1>. QED BY <1>8, <1>9

-----------------------------------------------------------------------------
(* The agent's call *)

(* What it is told waits is one of the first n requests. *)
Speaks(n) ==
    \E result \in Result :
        /\ result.is \in {"awaiting", "lapsed"} => result.about \in 1 .. n
        /\ agent' = [agent EXCEPT !.pc = "answering", !.result = result]

LEMMA SpokenSpeaks ==
    ASSUME NEW n, NEW kinds \in SUBSET {"error", "ran", "refused"}, Spoken(kinds)
    PROVE  Speaks(n)
BY DEF Spoken, Speaks

LEMMA AwaitsMoves ==
    ASSUME Types, NEW held \in Held, NEW i \in 1 .. Len(held), NEW entries, entries \subseteq Entry,
           NEW is \in {"awaiting", "lapsed"}, NEW by \in Somebody,
           AwaitsAnswer(held, i, entries, is, by)
    PROVE  Moves(held) /\ Writes(entries) /\ Speaks(Len(held))
<1>1. CASE agreement # Nobody
  BY <1>1, StandingMoves, SpokenSpeaks DEF AwaitsAnswer
<1>2. CASE agreement = Nobody
  <2>. DEFINE result == [is |-> is, about |-> i, by |-> by]
  <2>1. AgentGets(result) /\ requests' = held /\ record' = record \cup entries /\ UNCHANGED running
    BY <1>2 DEF AwaitsAnswer
  <2>2. result \in Result /\ result.is = is /\ result.about = i
    BY DEF Result
  <2>3. Moves(held)
    BY <2>1, Staying
  <2>4. Writes(entries)
    BY <2>1 DEF Writes, Types
  <2>. QED BY <2>1, <2>2, <2>3, <2>4 DEF Speaks, AgentGets
<1>. QED BY <1>1, <1>2

(* The requests there were, and perhaps one more, which the call has made. *)
Continues(held, d) ==
    /\ held \in Held
    /\ Len(held) = Len(requests) \/ Len(held) = Len(requests) + 1
    /\ \A j \in Asked :
          held[j].decided = requests[j].decided /\ held[j].made = requests[j].made /\ held[j].by = requests[j].by
    /\ \A j \in 1 .. Len(held) :
          j \notin Asked => held[j].decided = d /\ held[j].made = "call" /\ held[j].by = Nobody

LEMMA Appending ==
    ASSUME NEW store \in Held, Len(store) = Len(requests), requests \in Seq(Request), NEW d \in Nat \ {0},
           \A j \in Asked : store[j].decided = requests[j].decided /\ store[j].made = requests[j].made
                              /\ store[j].by = requests[j].by,
           NEW fresh, fresh = [decided |-> d, state |-> "waiting", recorded |-> FALSE, late |-> FALSE,
                               by |-> Nobody, made |-> "call"]
    PROVE  Continues(Append(store, fresh), d) /\ Len(requests) + 1 \in 1 .. Len(Append(store, fresh))
<1>1. fresh \in Request /\ fresh.decided = d /\ fresh.made = "call" /\ fresh.by = Nobody /\ fresh.state = "waiting"
  BY DEF Request, Somebody
<1>2. store \in Seq(Request) /\ \A j \in 1 .. Len(store) : store[j].state = "waiting" <=> store[j].by = Nobody
  BY DEF Held
<1>. DEFINE held == Append(store, fresh)
<1>3. /\ held \in Seq(Request) /\ Len(held) = Len(requests) + 1
      /\ \A j \in 1 .. Len(held) : held[j] = IF j = Len(requests) + 1 THEN fresh ELSE store[j]
  BY <1>1, <1>2
<1>4. Asked = 1 .. Len(requests) /\ Len(requests) \in Nat
  BY DEF Asked
<1>. HIDE DEF held
<1>5. held \in Held
  BY <1>1, <1>2, <1>3, <1>4 DEF Held
<1>6. \A j \in Asked : held[j] = store[j]
  BY <1>3, <1>4
<1>7. \A j \in 1 .. Len(held) : j \notin Asked => held[j] = fresh
  BY <1>3, <1>4
<1>8. Continues(held, d) /\ Len(requests) + 1 \in 1 .. Len(held)
  BY <1>1, <1>3, <1>4, <1>5, <1>6, <1>7 DEF Continues
<1>. QED BY <1>8 DEF held

(* What one call of the agent does (authorize_action, ask_with, use_standing). *)
Asks(d) ==
    \E held : /\ Continues(held, d)
              /\ Moves(held)
              /\ Speaks(Len(held))
              /\ \/ Writes({Said("decided", d, Nobody)})
                 \/ record' = record /\ held = requests /\ running' = running /\ Spoken({"error"})

LEMMA AsksMoves ==
    ASSUME Types, Numbered, AgentAsks
    PROVE  \E d \in 1 .. MaxDecisions : d = Cardinality(Decisions) + 1 /\ Asks(d)
<1>. DEFINE d == Cardinality(Decisions) + 1
            decided == {Said("decided", d, Nobody)}
            fresh == [decided |-> d, state |-> "waiting", recorded |-> FALSE, late |-> FALSE,
                      by |-> Nobody, made |-> "call"]
            new == Len(requests) + 1
            error == [is |-> "error", about |-> 0, by |-> Nobody]
<1>1. d \in Nat \ {0} /\ d \in 1 .. MaxDecisions
  <2>1. PICK n \in 0 .. MaxDecisions : Decisions = 1 .. n
    BY DEF Numbered
  <2>2. Cardinality(Decisions) = n
    BY <2>1, FS_Interval, DeskAssumption
  <2>. QED BY <2>1, <2>2, DeskAssumption DEF AgentAsks
<1>. HIDE DEF d
<1>2. decided \subseteq Entry
  BY <1>1, SaidTyped DEF Somebody
<1>. HIDE DEF decided
<1>3. requests \in Seq(Request) /\ Asked = 1 .. Len(requests) /\ requests \in Held /\ Len(requests) \in Nat
  BY DEF Types, Numbered, Held, Asked
<1>4. Continues(requests, d)
  BY <1>3 DEF Continues
<1>5. error \in Result /\ error.is = "error"
  BY DEF Result, Somebody
<1>6. ASSUME UNCHANGED <<requests, running>>, NEW result \in Result, result.is \in {"error", "refused"}, AgentGets(result)
      PROVE  Moves(requests) /\ Spoken({result.is}) /\ Speaks(Len(requests))
  BY <1>3, <1>6, Staying, SpokenSpeaks DEF Spoken, AgentGets
<1>7. ASSUME UNCHANGED <<requests, running>>, NEW result \in Result, result.is \in {"error", "refused"}, AgentGets(result),
             record' = record \cup decided
      PROVE  Asks(d)
  <2>1. Writes(decided)
    BY <1>2, <1>7 DEF Writes, Types
  <2>. QED BY <1>4, <1>6, <1>7, <2>1 DEF Asks, decided
<1>8. ASSUME NEW held \in Held, Continues(held, d), Moves(held), Speaks(Len(held)), Writes(decided)
      PROVE  Asks(d)
  BY <1>8 DEF Asks, decided
<1>9. ASSUME Fails /\ UNCHANGED record PROVE Asks(d)
  <2>1. UNCHANGED <<requests, running>> /\ AgentGets(error)
    BY <1>9 DEF Fails
  <2>2. Moves(requests) /\ Spoken({"error"}) /\ Speaks(Len(requests))
    BY <1>3, <1>5, <2>1, Staying, SpokenSpeaks DEF Spoken, AgentGets
  <2>. QED BY <1>4, <1>9, <2>1, <2>2 DEF Asks
<1>10. ASSUME Fails /\ record' = record \cup decided PROVE Asks(d)
  <2>1. UNCHANGED <<requests, running>> /\ AgentGets(error)
    BY <1>10 DEF Fails
  <2>2. Moves(requests) /\ Spoken({"error"}) /\ Speaks(Len(requests))
    BY <1>3, <1>5, <2>1, Staying, SpokenSpeaks DEF Spoken, AgentGets
  <2>3. Writes(decided)
    BY <1>2, <1>10, <2>1 DEF Writes, Types
  <2>. QED BY <1>3, <1>4, <1>8, <2>2, <2>3
<1>11. ASSUME NEW i \in Asked, Collectable(i), Redeems(requests, i, decided) PROVE Asks(d)
  <2>1. requests[i].by # Nobody /\ requests[i] \in Request
    BY <1>3, <1>11 DEF Collectable, Stands, Held
  <2>2. Moves(requests) /\ Writes(decided) /\ AgentGets([is |-> "ran", about |-> i, by |-> requests[i].by])
    BY <1>2, <1>3, <1>11, <2>1, RedeemsMoves
  <2>3. [is |-> "ran", about |-> i, by |-> requests[i].by] \in Result
    BY <1>3, <2>1 DEF Result, Request
  <2>4. Speaks(Len(requests))
    BY <2>2, <2>3 DEF Speaks, AgentGets
  <2>. QED BY <1>3, <1>4, <1>8, <2>2, <2>4
<1>12. ASSUME NEW i \in Asked, Stands(i, "refused"), AgentGets([is |-> "refused", about |-> i, by |-> requests[i].by]),
              record' = record \cup decided, UNCHANGED <<requests, running>>
       PROVE  Asks(d)
  <2>1. i \in Nat /\ requests[i] \in Request
    BY <1>3
  <2>2. [is |-> "refused", about |-> i, by |-> requests[i].by] \in Result
    BY <2>1 DEF Result, Request
  <2>. QED BY <1>7, <1>12, <2>2
<1>13. ASSUME NEW i \in Asked, AwaitsAnswer(requests, i, decided, "awaiting", Nobody) PROVE Asks(d)
  BY <1>2, <1>3, <1>4, <1>8, <1>13, AwaitsMoves DEF Somebody
<1>14. ASSUME NEW i \in Asked, Lapsed(i),
              AwaitsAnswer(Append([requests EXCEPT ![i].state = "gone"], fresh), new, decided, "lapsed", requests[i].by)
       PROVE  Asks(d)
  <2>. DEFINE x == [requests[i] EXCEPT !.state = "gone"]
              store == [requests EXCEPT ![i] = x]
  <2>1. requests[i] \in Request /\ requests[i].state = "approved"
    BY <1>3, <1>14 DEF Lapsed, Stands
  <2>2. x \in Request /\ x.decided = requests[i].decided /\ x.made = requests[i].made /\ x.by = requests[i].by /\ x.state = "gone"
    BY <2>1 DEF Request
  <2>3. requests[i].by # Nobody /\ requests[i].by \in Somebody
    BY <1>3, <2>1 DEF Held, Request
  <2>4. [requests EXCEPT ![i].state = "gone"] = store
    BY <1>3
  <2>5. /\ store \in Seq(Request) /\ Len(store) = Len(requests)
        /\ \A j \in 1 .. Len(requests) : store[j] = IF j = i THEN x ELSE requests[j]
    BY <1>3, <2>2
  <2>. HIDE DEF store, x
  <2>6. store \in Held
    <3>1. \A j \in 1 .. Len(requests) : requests[j].state = "waiting" <=> requests[j].by = Nobody
      BY <1>3 DEF Held
    <3>2. \A j \in 1 .. Len(store) : store[j].state = "waiting" <=> store[j].by = Nobody
      BY <2>2, <2>3, <2>5, <3>1
    <3>. QED BY <2>5, <3>2 DEF Held
  <2>7. Continues(Append(store, fresh), d) /\ new \in 1 .. Len(Append(store, fresh))
    <3>1. \A j \in Asked : store[j].decided = requests[j].decided /\ store[j].made = requests[j].made
                             /\ store[j].by = requests[j].by
      BY <1>3, <2>2, <2>5
    <3>. QED BY <1>1, <1>3, <2>5, <2>6, <3>1, Appending
  <2>8. Append(store, fresh) \in Held
    BY <2>7 DEF Continues
  <2>. QED BY <1>2, <1>8, <1>14, <2>3, <2>4, <2>7, <2>8, AwaitsMoves
<1>15. ASSUME AwaitsAnswer(Append(requests, fresh), new, decided, "awaiting", Nobody) PROVE Asks(d)
  <2>1. Continues(Append(requests, fresh), d) /\ new \in 1 .. Len(Append(requests, fresh))
    BY <1>1, <1>3, Appending
  <2>2. Append(requests, fresh) \in Held
    BY <2>1 DEF Continues
  <2>. QED BY <1>2, <1>8, <1>15, <2>1, <2>2, AwaitsMoves DEF Somebody
<1>. HIDE DEF new, fresh, error
<1>16. Asks(d)
  <2>1. \/ Fails /\ UNCHANGED record
        \/ Fails /\ record' = record \cup decided
        \/ \E i \in Asked : Collectable(i) /\ Redeems(requests, i, decided)
        \/ \E i \in Asked : /\ Stands(i, "refused") /\ AgentGets([is |-> "refused", about |-> i, by |-> requests[i].by])
                            /\ record' = record \cup decided /\ UNCHANGED <<requests, running>>
        \/ \E i \in Asked : AwaitsAnswer(requests, i, decided, "awaiting", Nobody)
        \/ \E i \in Asked :
              /\ Lapsed(i)
              /\ AwaitsAnswer(Append([requests EXCEPT ![i].state = "gone"], fresh), new, decided, "lapsed", requests[i].by)
        \/ AwaitsAnswer(Append(requests, fresh), new, decided, "awaiting", Nobody)
    BY DEF AgentAsks, decided, d, new, fresh
  <2>2. CASE \E i \in Asked : Collectable(i) /\ Redeems(requests, i, decided)
    BY <1>11, <2>2
  <2>3. CASE \E i \in Asked : /\ Stands(i, "refused") /\ AgentGets([is |-> "refused", about |-> i, by |-> requests[i].by])
                              /\ record' = record \cup decided /\ UNCHANGED <<requests, running>>
    BY <1>12, <2>3
  <2>4. CASE \E i \in Asked : AwaitsAnswer(requests, i, decided, "awaiting", Nobody)
    BY <1>13, <2>4
  <2>5. CASE \E i \in Asked :
                /\ Lapsed(i)
                /\ AwaitsAnswer(Append([requests EXCEPT ![i].state = "gone"], fresh), new, decided, "lapsed", requests[i].by)
    BY <1>14, <2>5
  <2>. QED BY <1>9, <1>10, <1>15, <2>1, <2>2, <2>3, <2>4, <2>5
<1>. QED BY <1>1, <1>16 DEF d
-----------------------------------------------------------------------------
(* What a step leaves of the forms and of a page *)

(* What is known of a form stays known when nothing is done in its name but by its
   agreement. *)
LEMMA FormStands ==
    ASSUME NEW f \in Forms, FormOf(f), forms'[f] = forms[f], record \subseteq record',
           \A x \in record' \ record : x.is \in Signed /\ x.by = f => agreement = f,
           \A j \in Asked : j \in Asked' /\ requests'[j].decided = requests[j].decided
                              /\ (requests[j].by = f => requests'[j].by = f),
           \A j \in Asked' : requests'[j].by = f => agreement = f \/ (j \in Asked /\ requests[j].by = f),
           agreement' = f => agreement = f,
           session = "over" => session' = "over"
    PROVE  FormOf(f)'
<1>. DEFINE form == forms[f]
<1>1. Entries(f) \subseteq Entries(f)' /\ Own(f) \subseteq Own(f)'
  BY DEF Entries, Own
<1>2. agreement # f => Entries(f)' = Entries(f) /\ Own(f)' = Own(f)
  BY DEF Entries, Own
<1>3. agreement = f => form.told = "see_other"
  BY DEF FormOf
<1>4. form.told \in {"nothing"} \cup Failures => Entries(f)' = {} /\ Own(f)' = {}
  BY <1>2, <1>3 DEF FormOf, Failures
<1>5. form.told = "not_recorded" => Entries(f)' = {} /\ form.about \in Own(f)'
  BY <1>2, <1>3 DEF FormOf
<1>6. ASSUME form.told = "see_other", form.word \in Deciding
      PROVE  /\ form.about \in Own(f)'
             /\ Said(IF form.word = "refuse" THEN "no" ELSE "yes", requests'[form.about].decided, f) \in record'
  <2>1. form.about \in Own(f) /\ form.about \in Asked
    BY <1>6 DEF FormOf, Own
  <2>2. requests'[form.about].decided = requests[form.about].decided
    BY <2>1
  <2>. QED BY <1>1, <1>6, <2>1, <2>2 DEF FormOf
<1>7. form.told = "see_other" /\ form.word = "terminate" => session' = "over" /\ Entries(f)' # {}
  BY <1>1 DEF FormOf
<1>8. form.told = "created" => \E x \in record' : x.is = "evaluated" /\ x.of = form.about
  BY DEF FormOf, InRecord
<1>9. form.pc # "done" => form.told = "nothing"
  BY DEF FormOf
<1>10. agreement' = f => form.told = "see_other"
  BY <1>3
<1>. HIDE DEF form
<1>11. forms'[f] = form
  BY DEF form
<1>. QED BY <1>4, <1>5, <1>6, <1>7, <1>8, <1>9, <1>10, <1>11 DEF FormOf, InRecord

(* A form of which nothing came to pass, when it is told so or nothing yet. *)
LEMMA FormRefused ==
    ASSUME NEW f \in Forms, FormOf(f), forms[f].told = "nothing",
           forms'[f].told \in {"nothing"} \cup Failures, forms'[f].pc # "done" => forms'[f].told = "nothing",
           UNCHANGED <<requests, record>>, agreement' \in {agreement, Nobody}
    PROVE  FormOf(f)'
<1>1. Entries(f)' = {} /\ Own(f)' = {}
  BY DEF FormOf, Entries, Own, Asked
<1>2. agreement' # f
  BY DeskAssumption DEF FormOf
<1>. QED BY <1>1, <1>2 DEF FormOf, Failures

(* The decisions there were are still there. *)
LEMMA DecisionsGrow ==
    ASSUME record \subseteq record'
    PROVE  Decisions \subseteq Decisions'
BY DEF Decisions

LEMMA DecisionsStay ==
    ASSUME record \subseteq record', \A x \in record' \ record : x.is # "decided"
    PROVE  Decisions' = Decisions
BY DEF Decisions

(* A page in the making is not touched by what goes on meanwhile. *)
LEMMA PageStays ==
    ASSUME PageHolds, UNCHANGED page, record \subseteq record'
    PROVE  PageHolds'
BY DecisionsGrow DEF PageHolds

(* Requests and decisions that stay as they were keep their numbers. *)
LEMMA NumbersStay ==
    ASSUME Types, Numbered, Decisions' = Decisions, Len(requests') = Len(requests), requests' \in Seq(Request),
           \A j \in Asked : /\ requests'[j].decided = requests[j].decided
                            /\ requests'[j].state = "waiting" <=> requests'[j].by = Nobody
    PROVE  Numbered'
<1>1. Asked' = Asked
  BY DEF Asked, Types
<1>. QED BY <1>1 DEF Numbered

(* And so do the announcements, when neither is who was told. *)
LEMMA AnnouncementsStay ==
    ASSUME Types, Announced, Decisions' = Decisions, Len(requests') = Len(requests), requests' \in Seq(Request),
           \A j \in Asked : requests'[j].decided = requests[j].decided /\ requests'[j].made = requests[j].made,
           UNCHANGED notes,
           agent'.pc = "answering" => agent.pc = "answering" /\ agent'.result = agent.result
    PROVE  Announced'
<1>1. Asked' = Asked
  BY DEF Asked, Types
<1>2. \A i \in 0 .. MaxDecisions : notes'[i] = IF i \in Asked' /\ requests'[i].made = "told" THEN 1 ELSE 0
  BY <1>1 DEF Announced
<1>. QED BY <1>1, <1>2 DEF Announced

-----------------------------------------------------------------------------
(* The steps *)

(* The agent asks: Asks(d) is all there is to know of it. *)
LEMMA AskingKeeps ==
    ASSUME DeskInv, AgentAsks
    PROVE  DeskInv'
<1>1. PICK d \in 1 .. MaxDecisions : d = Cardinality(Decisions) + 1 /\ Asks(d)
  BY AsksMoves DEF DeskInv
<1>2. PICK n \in 0 .. MaxDecisions :
        /\ Decisions = 1 .. n /\ Len(requests) <= n
        /\ \A i \in Asked : requests[i].decided <= n
  BY DEF DeskInv, Numbered
<1>3. d = n + 1
  <2>1. Cardinality(Decisions) = n
    BY <1>2, FS_Interval, DeskAssumption
  <2>. QED BY <1>1, <2>1
<1>4. PICK held : /\ Continues(held, d) /\ Moves(held) /\ Speaks(Len(held))
                  /\ \/ Writes({Said("decided", d, Nobody)})
                     \/ record' = record /\ held = requests /\ running' = running /\ Spoken({"error"})
  BY <1>1 DEF Asks
<1>5. UNCHANGED <<session, agreement, notes, forms, page>>
  BY DEF AgentAsks
<1>6. Types /\ Announced /\ PageHolds /\ requests \in Seq(Request) /\ Asked = 1 .. Len(requests) /\ Len(requests) \in Nat
  BY DEF DeskInv, Types, Asked
<1>7. PICK result \in Result : /\ result.is \in {"awaiting", "lapsed"} => result.about \in 1 .. Len(held)
                               /\ agent' = [agent EXCEPT !.pc = "answering", !.result = result]
  BY <1>4 DEF Speaks
<1>8. agent'.pc = "answering" /\ agent'.result = result /\ agent' \in [pc : {"idle", "asking", "answering"}, dropped : BOOLEAN, result : Result]
  BY <1>6, <1>7 DEF Types
<1>9. /\ Len(held) \in Nat /\ Len(requests') = Len(held) /\ requests' \in Seq(Request)
      /\ Asked' = 1 .. Len(held) /\ Asked \subseteq Asked'
  BY <1>4, <1>6 DEF Moves, Continues, Held, Asked
<1>10. \A j \in Asked : requests'[j].decided = requests[j].decided /\ requests'[j].made = requests[j].made
  BY <1>4, <1>6, <1>9 DEF Moves, Continues
<1>11. \A j \in Asked' \ Asked : requests'[j].decided = d /\ requests'[j].made = "call"
  BY <1>4, <1>9 DEF Moves, Continues
<1>12. record \subseteq record' /\ record' \subseteq Entry /\ running' \subseteq record'
  BY <1>4, <1>6 DEF Writes, Types
<1>13. ASSUME Writes({Said("decided", d, Nobody)})
       PROVE  Numbered' /\ Announced' /\ \A f \in Forms : \A x \in record' \ record : x.is \in Signed /\ x.by = f => agreement = f
  <2>. DEFINE decided == Said("decided", d, Nobody)
  <2>1. decided.is = "decided" /\ decided.of = d /\ decided.by = Nobody
    BY SaidTyped DEF Somebody
  <2>. HIDE DEF decided
  <2>2. decided \in record' /\ \A x \in record' \ record : x = decided \/ x.is = "approved" \/ (x.is = "yes" /\ x.by = agreement)
    BY <1>13 DEF Writes, decided
  <2>3. Decisions' = Decisions \cup {d}
    BY <1>12, <2>1, <2>2 DEF Decisions
  <2>4. Decisions' = 1 .. d
    BY <1>2, <1>3, <2>3
  <2>5. Cardinality(Decisions') = d
    BY <2>4, FS_Interval
  <2>6. Numbered'
    <3>1. Len(requests') <= d
      BY <1>2, <1>3, <1>4, <1>6, <1>9 DEF Continues
    <3>2. \A i \in Asked' : requests'[i].decided <= d
      <4>1. ASSUME NEW i \in Asked PROVE requests'[i].decided <= d
        <5>1. requests[i] \in Request /\ requests[i].decided <= n /\ requests'[i].decided = requests[i].decided
          BY <1>2, <1>6, <1>10
        <5>2. requests[i].decided \in Nat
          BY <5>1 DEF Request
        <5>. QED BY <1>3, <5>1, <5>2
      <4>. QED BY <1>11, <4>1
    <3>3. \A i \in Asked' : requests'[i].state = "waiting" <=> requests'[i].by = Nobody
      BY <1>4, <1>9 DEF Moves
    <3>. QED BY <2>4, <3>1, <3>2, <3>3 DEF Numbered
  <2>7. Announced'
    <3>1. \A i \in 0 .. MaxDecisions : notes'[i] = IF i \in Asked' /\ requests'[i].made = "told" THEN 1 ELSE 0
      BY <1>5, <1>6, <1>9, <1>10, <1>11 DEF Announced
    <3>2. ASSUME result.is \in {"awaiting", "lapsed"}, requests'[result.about].decided = d
          PROVE  requests'[result.about].made = "call"
      <4>1. result.about \in Asked'
        BY <1>7, <1>9, <3>2
      <4>2. result.about \notin Asked
        <5>1. SUFFICES ASSUME result.about \in Asked PROVE FALSE
          OBVIOUS
        <5>2. requests[result.about].decided = d /\ requests[result.about].decided <= n
          BY <1>2, <1>10, <3>2, <5>1
        <5>. QED BY <1>3, <5>2
      <4>. QED BY <1>11, <4>1, <4>2
    <3>. QED BY <1>7, <1>8, <1>9, <2>5, <3>1, <3>2 DEF Announced
  <2>8. \A f \in Forms : \A x \in record' \ record : x.is \in Signed /\ x.by = f => agreement = f
    BY <2>1, <2>2 DEF Signed
  <2>. QED BY <2>6, <2>7, <2>8
<1>14. ASSUME record' = record, held = requests, running' = running, Spoken({"error"})
       PROVE  Numbered' /\ Announced' /\ \A f \in Forms : \A x \in record' \ record : x.is \in Signed /\ x.by = f => agreement = f
  <2>1. result.is = "error"
    BY <1>8, <1>6, <1>14 DEF Spoken, Types
  <2>2. Decisions' = Decisions
    BY <1>14, DecisionsStay
  <2>3. Numbered'
    <3>1. Len(requests') = Len(requests) /\ \A j \in Asked : requests'[j].state = "waiting" <=> requests'[j].by = Nobody
      BY <1>4, <1>6, <1>9, <1>14 DEF Moves
    <3>. QED BY <1>6, <1>9, <1>10, <2>2, <3>1, NumbersStay DEF DeskInv
  <2>4. Announced'
    BY <1>5, <1>6, <1>8, <1>9, <1>10, <1>14, <2>1 DEF Announced
  <2>. QED BY <1>14, <2>3, <2>4
<1>15. Numbered' /\ Announced' /\ \A f \in Forms : \A x \in record' \ record : x.is \in Signed /\ x.by = f => agreement = f
  BY <1>4, <1>13, <1>14
<1>16. Types'
  BY <1>5, <1>6, <1>8, <1>9, <1>12 DEF Types
<1>17. ASSUME NEW f \in Forms PROVE FormOf(f)'
  <2>1. FormOf(f) /\ f # Nobody
    BY DeskAssumption DEF DeskInv
  <2>2. \A j \in Asked : requests[j].by = f => requests'[j].by = f
    BY <1>4, <1>6, <2>1 DEF Moves, Continues
  <2>3. \A j \in Asked' : requests'[j].by = f => agreement = f \/ (j \in Asked /\ requests[j].by = f)
    BY <1>4, <1>9, <2>1 DEF Moves, Continues
  <2>. QED BY <1>5, <1>9, <1>10, <1>12, <1>15, <2>1, <2>2, <2>3, FormStands
<1>18. PageHolds'
  BY <1>5, <1>6, <1>12, PageStays
<1>. QED BY <1>15, <1>16, <1>17, <1>18 DEF DeskInv
(* The agent, when its call is answered. *)
LEMMA AnsweringKeeps ==
    ASSUME DeskInv, AgentAnswered
    PROVE  DeskInv'
<1>. DEFINE result == agent.result
            i == result.about
            new == result.is \in {"awaiting", "lapsed"} /\ requests[i].decided = Cardinality(Decisions)
<1>1. /\ Types /\ Numbered /\ Announced /\ PageHolds /\ requests \in Seq(Request)
      /\ Asked = 1 .. Len(requests) /\ Len(requests) \in Nat /\ notes \in [0 .. MaxDecisions -> Nat]
      /\ agent \in [pc : {"idle", "asking", "answering"}, dropped : BOOLEAN, result : Result]
  BY DEF DeskInv, Types, Asked
<1>2. /\ agent.pc = "answering" /\ agent' = [agent EXCEPT !.pc = "idle"]
      /\ UNCHANGED <<record, running, session, agreement, forms, page>>
  BY DEF AgentAnswered
<1>3. agent'.pc = "idle" /\ agent' \in [pc : {"idle", "asking", "answering"}, dropped : BOOLEAN, result : Result]
  BY <1>1, <1>2
<1>4. new => i \in Asked /\ requests[i].made = "call" /\ i \in 0 .. MaxDecisions /\ notes[i] = 0
  <2>1. PICK n \in 0 .. MaxDecisions : Len(requests) <= n
    BY <1>1 DEF Numbered
  <2>2. new => i \in Asked /\ requests[i].made = "call"
    BY <1>1, <1>2 DEF Announced
  <2>3. new => i \in 0 .. MaxDecisions
    BY <1>1, <2>1, <2>2, DeskAssumption
  <2>. QED BY <1>1, <2>2, <2>3 DEF Announced
<1>5. PICK told \in {"told", "dropped"} :
         /\ requests' = IF new THEN [requests EXCEPT ![i].made = told] ELSE requests
         /\ notes' = IF new /\ told = "told" THEN [notes EXCEPT ![i] = 1] ELSE notes
  <2>1. CASE agent.dropped
    BY <2>1 DEF AgentAnswered
  <2>2. CASE ~agent.dropped
    <3>1. /\ notes' = [notes EXCEPT ![i] = IF new THEN @ + 1 ELSE @]
          /\ requests' = IF new THEN [requests EXCEPT ![i].made = "told"] ELSE requests
      BY <2>2 DEF AgentAnswered, Announces
    <3>2. CASE new
      <4>1. notes' = [notes EXCEPT ![i] = notes[i] + 1] /\ requests' = [requests EXCEPT ![i].made = "told"]
        BY <3>1, <3>2
      <4>2. notes[i] + 1 = 1
        BY <1>4, <3>2
      <4>3. notes' = [notes EXCEPT ![i] = 1]
        BY <4>1, <4>2
      <4>. QED BY <3>2, <4>1, <4>3
    <3>3. CASE ~new
      <4>1. notes' = [notes EXCEPT ![i] = @]
        BY <3>1, <3>3
      <4>2. notes' = notes
        BY <1>1, <4>1
      <4>. QED BY <3>1, <3>3, <4>2
    <3>. QED BY <3>2, <3>3
  <2>. QED BY <2>1, <2>2
<1>. HIDE DEF new
<1>6. /\ requests' \in Seq(Request) /\ Len(requests') = Len(requests)
      /\ \A j \in Asked : requests'[j] = IF new /\ j = i THEN [requests[j] EXCEPT !.made = told] ELSE requests[j]
  <2>1. CASE new
    <3>1. requests[i] \in Request
      BY <1>1, <1>4, <2>1
    <3>2. [requests[i] EXCEPT !.made = told] \in Request
      BY <3>1 DEF Request
    <3>3. requests' = [requests EXCEPT ![i] = [requests[i] EXCEPT !.made = told]]
      BY <1>5, <2>1
    <3>. DEFINE x == [requests[i] EXCEPT !.made = told]
    <3>4. x \in Request /\ requests' = [requests EXCEPT ![i] = x] /\ i \in Asked
      BY <1>4, <2>1, <3>2, <3>3
    <3>. HIDE DEF x
    <3>5. /\ requests' \in Seq(Request) /\ Len(requests') = Len(requests)
          /\ \A j \in Asked : requests'[j] = IF j = i THEN x ELSE requests[j]
      BY <1>1, <3>4
    <3>. QED BY <2>1, <3>5 DEF x
  <2>2. CASE ~new
    BY <1>1, <1>5, <2>2
  <2>. QED BY <2>1, <2>2
<1>7. Asked' = Asked
  BY <1>1, <1>6 DEF Asked
<1>8. \A j \in Asked : /\ requests'[j].decided = requests[j].decided /\ requests'[j].state = requests[j].state
                       /\ requests'[j].by = requests[j].by
                       /\ requests'[j].made = IF new /\ j = i THEN told ELSE requests[j].made
  <2>1. ASSUME NEW j \in Asked
        PROVE  /\ [requests[j] EXCEPT !.made = told].decided = requests[j].decided
               /\ [requests[j] EXCEPT !.made = told].state = requests[j].state
               /\ [requests[j] EXCEPT !.made = told].by = requests[j].by
               /\ [requests[j] EXCEPT !.made = told].made = told
    <3>1. requests[j] \in Request
      BY <1>1
    <3>. QED BY <3>1 DEF Request
  <2>. QED BY <1>6, <2>1
<1>9. Decisions' = Decisions
  BY <1>2 DEF Decisions
<1>10. Types'
  <2>1. notes' \in [0 .. MaxDecisions -> Nat]
    BY <1>1, <1>5
  <2>. QED BY <1>1, <1>2, <1>3, <1>6, <2>1 DEF Types
<1>11. Numbered'
  <2>1. \A j \in Asked : requests'[j].state = "waiting" <=> requests'[j].by = Nobody
    BY <1>1, <1>8 DEF Numbered
  <2>. QED BY <1>1, <1>6, <1>8, <1>9, <2>1, NumbersStay
<1>12. Announced'
  <2>1. ASSUME NEW j \in 0 .. MaxDecisions
        PROVE  notes'[j] = IF j \in Asked /\ requests'[j].made = "told" THEN 1 ELSE 0
    <3>1. notes[j] = IF j \in Asked /\ requests[j].made = "told" THEN 1 ELSE 0
      BY <1>1 DEF Announced
    <3>2. CASE new /\ j = i
      <4>1. requests'[j].made = told /\ j \in Asked /\ notes[j] = 0
        BY <1>4, <1>8, <3>2
      <4>2. notes'[j] = IF told = "told" THEN 1 ELSE 0
        BY <1>1, <1>5, <3>2, <4>1
      <4>. QED BY <4>1, <4>2
    <3>3. CASE ~(new /\ j = i)
      <4>1. notes'[j] = notes[j]
        BY <1>1, <1>5, <3>3
      <4>. QED BY <1>8, <3>1, <3>3, <4>1
    <3>. QED BY <3>2, <3>3
  <2>. QED BY <1>3, <1>7, <2>1 DEF Announced
<1>13. ASSUME NEW f \in Forms PROVE FormOf(f)'
  <2>1. FormOf(f)
    BY DEF DeskInv
  <2>. QED BY <1>2, <1>7, <1>8, <2>1, FormStands
<1>14. PageHolds'
  BY <1>1, <1>2, PageStays
<1>. QED BY <1>10, <1>11, <1>12, <1>13, <1>14 DEF DeskInv

(* Nothing is done to the requests, the announcements, the forms or the agreement. *)
LEMMA QuietKeeps ==
    ASSUME DeskInv, UNCHANGED <<requests, session, agreement, notes, forms>>,
           record \subseteq record', record' \subseteq Entry, running' \subseteq record',
           \A x \in record' \ record : x.is \notin Signed /\ x.is # "decided",
           agent' \in [pc : {"idle", "asking", "answering"}, dropped : BOOLEAN, result : Result],
           agent'.pc = "answering" => agent.pc = "answering" /\ agent'.result = agent.result,
           PageHolds'
    PROVE  DeskInv'
<1>1. Types /\ Numbered /\ Announced /\ requests \in Seq(Request)
  BY DEF DeskInv, Types
<1>2. Decisions' = Decisions /\ Asked' = Asked
  BY DecisionsStay DEF Asked
<1>3. Types'
  BY <1>1 DEF Types
<1>4. Numbered'
  BY <1>1, <1>2 DEF Numbered
<1>5. Announced'
  BY <1>1, <1>2 DEF Announced
<1>6. ASSUME NEW f \in Forms PROVE FormOf(f)'
  <2>1. FormOf(f)
    BY DEF DeskInv
  <2>. QED BY <1>2, <2>1, FormStands
<1>. QED BY <1>3, <1>4, <1>5, <1>6 DEF DeskInv

LEMMA CallingKeeps ==
    ASSUME DeskInv, AgentCalls \/ AgentDrops
    PROVE  DeskInv'
<1>1. /\ agent \in [pc : {"idle", "asking", "answering"}, dropped : BOOLEAN, result : Result]
      /\ record \subseteq Entry /\ running \subseteq record /\ PageHolds
  BY DEF DeskInv, Types
<1>2. UNCHANGED <<requests, record, running, session, agreement, notes, forms, page>>
  BY DEF AgentCalls, AgentDrops
<1>3. agent' \in [pc : {"idle", "asking", "answering"}, dropped : BOOLEAN, result : Result] /\ agent'.pc = "asking"
  BY <1>1 DEF AgentCalls, AgentDrops
<1>4. PageHolds'
  BY <1>1, <1>2, PageStays
<1>. QED BY <1>1, <1>2, <1>3, <1>4, QuietKeeps

(* A run is completed, or its reader leaves. *)
LEMMA RunningKeeps ==
    ASSUME DeskInv, NEW a \in running, RunRecorded(a) \/ ReaderLeaves(a)
    PROVE  DeskInv'
<1>1. /\ agent \in [pc : {"idle", "asking", "answering"}, dropped : BOOLEAN, result : Result]
      /\ record \subseteq Entry /\ running \subseteq record /\ PageHolds
  BY DEF DeskInv, Types
<1>2. UNCHANGED <<requests, session, agreement, agent, notes, forms, page>> /\ running' \subseteq running
  BY DEF RunRecorded, ReaderLeaves
<1>. DEFINE completed == Said("completed", a.of, Nobody)
<1>3. completed \in Entry /\ completed.is = "completed"
  <2>1. a.of \in Nat /\ Nobody \in Somebody
    BY <1>1 DEF Entry, Somebody
  <2>. QED BY <2>1, SaidTyped
<1>4. record' = record \/ record' = record \cup {completed}
  BY DEF RunRecorded, ReaderLeaves
<1>. HIDE DEF completed
<1>5. /\ record \subseteq record' /\ record' \subseteq Entry /\ running' \subseteq record'
      /\ \A x \in record' \ record : x.is \notin Signed /\ x.is # "decided"
  BY <1>1, <1>2, <1>3, <1>4 DEF Signed
<1>6. PageHolds'
  BY <1>1, <1>2, <1>5, PageStays
<1>. QED BY <1>1, <1>2, <1>5, <1>6, QuietKeeps

LEMMA StatusWords ==
    ASSUME NEW d
    PROVE  RecordedStatus(d) \notin {"Running", "Awaiting approval"}
BY DEF RecordedStatus

LEMMA PagingKeeps ==
    ASSUME DeskInv, LookAtWork \/ ShowActivity \/ PageUnavailable
    PROVE  DeskInv'
<1>1. /\ agent \in [pc : {"idle", "asking", "answering"}, dropped : BOOLEAN, result : Result]
      /\ record \subseteq Entry /\ running \subseteq record
  BY DEF DeskInv, Types
<1>2. UNCHANGED <<requests, record, running, session, agreement, agent, notes, forms>>
  BY DEF LookAtWork, ShowActivity, PageUnavailable
<1>3. PageHolds'
  <2>1. CASE ShowActivity \/ PageUnavailable
    <3>1. page'.pc = "asked"
      BY <2>1 DEF ShowActivity, PageUnavailable, NoPage
    <3>. QED BY <3>1 DEF PageHolds
  <2>2. CASE LookAtWork
    <3>1. /\ page'.shown = <<>> /\ page'.running = running
          /\ page'.waiting = {requests[i].decided : i \in {j \in Asked : Offered(j)}}
          /\ page'.before = [d \in Decisions |-> Status(d)]
      BY <2>2 DEF LookAtWork
    <3>2. Decisions' = Decisions /\ DOMAIN page'.before = Decisions
      BY <1>2, <3>1 DEF Decisions
    <3>3. ASSUME NEW d \in Decisions
          PROVE  IF \E a \in page'.running : a.of = d THEN page'.before[d] = "Running"
                 ELSE IF d \in page'.waiting THEN page'.before[d] = "Awaiting approval"
                 ELSE page'.before[d] \notin {"Running", "Awaiting approval"}
      <4>1. page'.before[d] = Status(d)
        BY <3>1
      <4>2. d \in page'.waiting <=> \E i \in Asked : Offered(i) /\ requests[i].decided = d
        BY <3>1
      <4>3. RecordedStatus(d) \notin {"Running", "Awaiting approval"}
        BY StatusWords
      <4>. QED BY <3>1, <4>1, <4>2, <4>3 DEF Status
    <3>. QED BY <1>1, <1>2, <3>1, <3>2, <3>3 DEF PageHolds
  <2>. QED BY <2>1, <2>2
<1>. QED BY <1>1, <1>2, <1>3, QuietKeeps

LEMMA ClosingKeeps ==
    ASSUME DeskInv, NEW i \in Asked, WindowCloses(i)
    PROVE  DeskInv'
<1>1. /\ Types /\ Numbered /\ Announced /\ PageHolds /\ requests \in Seq(Request) /\ Asked = 1 .. Len(requests)
  BY DEF DeskInv, Types, Asked
<1>2. requests' = [requests EXCEPT ![i].late = TRUE] /\ UNCHANGED <<record, running, session, agreement, agent, notes, forms, page>>
  BY DEF WindowCloses
<1>. DEFINE x == [requests[i] EXCEPT !.late = TRUE]
<1>3. requests[i] \in Request
  BY <1>1
<1>4. /\ x \in Request /\ x.decided = requests[i].decided /\ x.made = requests[i].made
      /\ x.state = requests[i].state /\ x.by = requests[i].by
  BY <1>3 DEF Request
<1>5. requests' = [requests EXCEPT ![i] = x]
  BY <1>1, <1>2
<1>. HIDE DEF x
<1>6. /\ requests' \in Seq(Request) /\ Len(requests') = Len(requests)
      /\ \A j \in Asked : requests'[j] = IF j = i THEN x ELSE requests[j]
  BY <1>1, <1>4, <1>5
<1>7. \A j \in Asked : /\ requests'[j].decided = requests[j].decided /\ requests'[j].made = requests[j].made
                       /\ requests'[j].state = requests[j].state /\ requests'[j].by = requests[j].by
  BY <1>4, <1>6
<1>8. Asked' = Asked /\ Decisions' = Decisions
  BY <1>1, <1>2, <1>6 DEF Asked, Decisions
<1>9. Types'
  BY <1>1, <1>2, <1>6 DEF Types
<1>10. Numbered'
  <2>1. \A j \in Asked : requests'[j].state = "waiting" <=> requests'[j].by = Nobody
    BY <1>1, <1>7 DEF Numbered
  <2>. QED BY <1>1, <1>6, <1>7, <1>8, <2>1, NumbersStay
<1>11. Announced'
  BY <1>1, <1>2, <1>6, <1>7, <1>8, AnnouncementsStay
<1>12. ASSUME NEW f \in Forms PROVE FormOf(f)'
  <2>1. FormOf(f)
    BY DEF DeskInv
  <2>. QED BY <1>2, <1>7, <1>8, <2>1, FormStands
<1>13. PageHolds'
  BY <1>1, <1>2, PageStays
<1>. QED BY <1>9, <1>10, <1>11, <1>12, <1>13 DEF DeskInv

(* What is done with a form is done in its name. *)
LEMMA HandlingKeeps ==
    ASSUME DeskInv, NEW f \in Forms, UNCHANGED <<running, agent, notes, page>>,
           forms' \in [Forms -> Form], \A g \in Forms \ {f} : forms'[g] = forms[g],
           requests' \in Seq(Request), Len(requests') = Len(requests),
           \A j \in Asked : /\ requests'[j].decided = requests[j].decided
                            /\ requests'[j].made = requests[j].made
                            /\ requests'[j].state = "waiting" <=> requests'[j].by = Nobody
                            /\ requests'[j].by = requests[j].by \/ (requests[j].by = Nobody /\ requests'[j].by = f),
           record \subseteq record', record' \subseteq Entry,
           \A x \in record' \ record : x.is # "decided" /\ x.by = f,
           agreement' \in {agreement, Nobody, f},
           session = "over" => session' = "over",
           FormOf(f)'
    PROVE  DeskInv'
<1>1. /\ Types /\ Numbered /\ Announced /\ PageHolds /\ requests \in Seq(Request)
  BY DEF DeskInv, Types
<1>2. Asked' = Asked /\ Decisions' = Decisions
  BY <1>1, DecisionsStay DEF Asked
<1>3. Types'
  BY <1>1 DEF Types, Somebody
<1>4. Numbered'
  BY <1>1, <1>2, NumbersStay
<1>5. Announced'
  BY <1>1, <1>2, AnnouncementsStay
<1>6. ASSUME NEW g \in Forms, g # f PROVE FormOf(g)'
  <2>1. FormOf(g) /\ g # Nobody
    BY DeskAssumption DEF DeskInv
  <2>2. forms'[g] = forms[g] /\ \A x \in record' \ record : x.is \in Signed /\ x.by = g => agreement = g
    BY <1>6
  <2>3. \A j \in Asked : j \in Asked' /\ requests'[j].decided = requests[j].decided
                           /\ (requests[j].by = g => requests'[j].by = g)
    BY <1>2, <2>1
  <2>4. \A j \in Asked' : requests'[j].by = g => agreement = g \/ (j \in Asked /\ requests[j].by = g)
    BY <1>2, <1>6
  <2>5. agreement' = g => agreement = g
    BY <1>6, <2>1
  <2>. QED BY <2>1, <2>2, <2>3, <2>4, <2>5, FormStands
<1>7. PageHolds'
  BY <1>1, PageStays
<1>. QED BY <1>3, <1>4, <1>5, <1>6, <1>7 DEF DeskInv

(* A response is set beside the form it answers. *)
LEMMA RespondsSets ==
    ASSUME DeskInv, NEW f \in Forms, NEW response \in {"see_other", "created", "not_recorded"} \cup Failures,
           Responds(f, response)
    PROVE  /\ forms' \in [Forms -> Form] /\ \A g \in Forms \ {f} : forms'[g] = forms[g]
           /\ forms'[f].pc = "done" /\ forms'[f].told = response
           /\ forms'[f].word = forms[f].word /\ forms'[f].about = forms[f].about
<1>1. forms \in [Forms -> Form] /\ forms[f] \in Form
  BY DEF DeskInv, Types
<1>. DEFINE x == [forms[f] EXCEPT !.pc = "done", !.told = response]
<1>2. x \in Form /\ x.pc = "done" /\ x.told = response /\ x.word = forms[f].word /\ x.about = forms[f].about
  BY <1>1 DEF Form
<1>3. forms' = [forms EXCEPT ![f] = x]
  BY <1>1 DEF Responds
<1>. QED BY <1>1, <1>2, <1>3

(* Nothing was done in the name of a form that is being handled. *)
LEMMA WorkingIsUntold ==
    ASSUME DeskInv, NEW f \in Forms, forms[f].pc # "done"
    PROVE  forms[f].told = "nothing" /\ Entries(f) = {} /\ Own(f) = {} /\ agreement # f
BY DEF DeskInv, FormOf

(* A request and a response, and nothing else. *)
LEMMA DecliningKeeps ==
    ASSUME DeskInv, NEW f \in Forms, UNCHANGED <<requests, record, running, session, agent, notes, page>>,
           agreement' \in {agreement, Nobody}, forms[f].pc # "done",
           forms' \in [Forms -> Form], \A g \in Forms \ {f} : forms'[g] = forms[g],
           \/ forms'[f].told \in Failures /\ forms'[f].pc = "done"
           \/ forms'[f].told = "nothing"
    PROVE  DeskInv'
<1>1. FormOf(f) /\ forms[f].told = "nothing"
  BY WorkingIsUntold DEF DeskInv
<1>2. FormOf(f)'
  BY <1>1, FormRefused
<1>3. requests \in Seq(Request) /\ record \subseteq Entry /\ \A j \in Asked : requests[j].state = "waiting" <=> requests[j].by = Nobody
  BY DEF DeskInv, Types, Numbered
<1>. QED BY <1>2, <1>3, HandlingKeeps

LEMMA SubmittingKeeps ==
    ASSUME DeskInv, NEW f \in Forms, NEW authenticated \in BOOLEAN, NEW sameOrigin \in BOOLEAN, NEW word \in Words,
           NEW about \in About(word), Submit(f, authenticated, sameOrigin, word, about)
    PROVE  DeskInv'
<1>1. /\ forms \in [Forms -> Form] /\ forms[f] \in Form /\ forms[f].pc = "new"
      /\ UNCHANGED <<requests, record, running, session, agreement, agent, notes, page>>
  BY DEF DeskInv, Types, Submit
<1>2. forms[f].told = "nothing"
  BY <1>1, WorkingIsUntold
<1>3. about \in Nat
  BY DeskAssumption DEF About
<1>4. PICK x : /\ forms' = [forms EXCEPT ![f] = x]
               /\ \/ \E told \in {"unauthorized", "forbidden", "bad_request"} : x = [forms[f] EXCEPT !.pc = "done", !.told = told]
                  \/ x = [pc |-> "done", word |-> word, about |-> about, told |-> NoWorker(word)]
                  \/ x = [pc |-> "working", word |-> word, about |-> about, told |-> "nothing"]
  BY <1>1 DEF Submit
<1>5. NoWorker(word) \in Failures
  BY DEF NoWorker, Failure, Failures
<1>6. x \in Form /\ ((x.told \in Failures /\ x.pc = "done") \/ x.told = "nothing")
  <2>1. ASSUME NEW told \in {"unauthorized", "forbidden", "bad_request"}
        PROVE  /\ [forms[f] EXCEPT !.pc = "done", !.told = told] \in Form
               /\ [forms[f] EXCEPT !.pc = "done", !.told = told].told = told
               /\ [forms[f] EXCEPT !.pc = "done", !.told = told].pc = "done"
    BY <1>1 DEF Form, Failures
  <2>2. CASE \E told \in {"unauthorized", "forbidden", "bad_request"} : x = [forms[f] EXCEPT !.pc = "done", !.told = told]
    <3>1. PICK told \in {"unauthorized", "forbidden", "bad_request"} : x = [forms[f] EXCEPT !.pc = "done", !.told = told]
      BY <2>2
    <3>2. x \in Form /\ x.told = told /\ x.pc = "done"
      BY <2>1, <3>1
    <3>. QED BY <3>2 DEF Failures
  <2>3. CASE x = [pc |-> "done", word |-> word, about |-> about, told |-> NoWorker(word)]
    <3>1. x.told \in Failures /\ x.pc = "done"
      BY <1>5, <2>3
    <3>2. x \in Form
      BY <1>3, <1>5, <2>3 DEF Form
    <3>. QED BY <3>1, <3>2
  <2>4. CASE x = [pc |-> "working", word |-> word, about |-> about, told |-> "nothing"]
    BY <1>3, <2>4 DEF Form
  <2>. QED BY <1>4, <2>2, <2>3, <2>4
<1>7. forms' \in [Forms -> Form] /\ forms'[f] = x /\ \A g \in Forms \ {f} : forms'[g] = forms[g]
  BY <1>1, <1>4, <1>6
<1>. QED BY <1>1, <1>6, <1>7, DecliningKeeps

LEMMA RevokingKeeps ==
    ASSUME DeskInv, NEW f \in Forms, Revokes(f)
    PROVE  DeskInv'
<1>1. /\ forms[f].pc = "working" /\ forms[f].word = "revoke" /\ agreement' = Nobody
      /\ UNCHANGED <<requests, record, running, session, agent, notes, page>>
  BY DEF Revokes
<1>2. CASE Responds(f, "not_found")
  <2>1. /\ forms' \in [Forms -> Form] /\ \A g \in Forms \ {f} : forms'[g] = forms[g]
        /\ forms'[f].pc = "done" /\ forms'[f].told = "not_found"
    BY <1>2, RespondsSets DEF Failures
  <2>. QED BY <1>1, <2>1, DecliningKeeps DEF Failures
<1>3. CASE Responds(f, "see_other")
  <2>1. /\ forms' \in [Forms -> Form] /\ \A g \in Forms \ {f} : forms'[g] = forms[g]
        /\ forms'[f].pc = "done" /\ forms'[f].told = "see_other" /\ forms'[f].word = "revoke"
    BY <1>1, <1>3, RespondsSets
  <2>2. FormOf(f)'
    BY <1>1, <2>1, DeskAssumption DEF FormOf, Deciding, Failures
  <2>3. requests \in Seq(Request) /\ record \subseteq Entry /\ \A j \in Asked : requests[j].state = "waiting" <=> requests[j].by = Nobody
    BY DEF DeskInv, Types, Numbered
  <2>. QED BY <1>1, <2>1, <2>2, <2>3, HandlingKeeps
<1>. QED BY <1>2, <1>3 DEF Revokes

(* An entry in the name of the form, and what is told of it. *)
LEMMA WritingKeeps ==
    ASSUME DeskInv, NEW f \in Forms, UNCHANGED <<requests, running, agent, notes, page>>,
           NEW is \in {"terminated", "evaluated"}, NEW of \in Nat, record' = record \cup {Said(is, of, f)},
           agreement' \in {agreement, Nobody}, session = "over" => session' = "over",
           forms[f].pc = "working", forms[f].word \notin Deciding,
           \/ Responds(f, "created") /\ forms[f].word # "terminate" /\ is = "evaluated" /\ of = forms[f].about
           \/ Responds(f, "see_other") /\ session' = "over"
    PROVE  DeskInv'
<1>. DEFINE entry == Said(is, of, f)
<1>1. entry \in Entry /\ entry.is = is /\ entry.of = of /\ entry.by = f
  BY SaidTyped DEF Somebody
<1>2. record' = record \cup {entry}
  OBVIOUS
<1>. HIDE DEF entry
<1>3. entry \in Entries(f)' /\ agreement' # f
  <2>1. agreement # f /\ f # Nobody
    BY WorkingIsUntold, DeskAssumption
  <2>. QED BY <1>1, <1>2, <2>1 DEF Entries, Signed
<1>4. requests \in Seq(Request) /\ record \subseteq Entry /\ \A j \in Asked : requests[j].state = "waiting" <=> requests[j].by = Nobody
  BY DEF DeskInv, Types, Numbered
<1>5. PICK response \in {"created", "see_other"} :
         /\ Responds(f, response) /\ (response = "see_other" => session' = "over")
         /\ response = "created" => /\ forms[f].word # "terminate"
                                    /\ \E x \in record' : x.is = "evaluated" /\ x.of = forms[f].about
  BY <1>1, <1>2
<1>6. /\ forms' \in [Forms -> Form] /\ \A g \in Forms \ {f} : forms'[g] = forms[g]
      /\ forms'[f].pc = "done" /\ forms'[f].told = response
      /\ forms'[f].word = forms[f].word /\ forms'[f].about = forms[f].about
  BY <1>5, RespondsSets
<1>7. FormOf(f)'
  BY <1>3, <1>5, <1>6 DEF FormOf, Failures, InRecord
<1>. QED BY <1>1, <1>2, <1>4, <1>6, <1>7, HandlingKeeps

LEMMA TerminatingKeeps ==
    ASSUME DeskInv, NEW f \in Forms, Terminates(f)
    PROVE  DeskInv'
<1>1. /\ forms[f].pc = "working" /\ forms[f].word = "terminate" /\ forms[f].word \notin Deciding
      /\ UNCHANGED <<requests, running, agent, notes, page>>
  BY DEF Terminates, Deciding
<1>2. ASSUME NEW response \in Failures, Responds(f, response), UNCHANGED <<record, session, agreement>>
      PROVE  DeskInv'
  <2>1. /\ forms' \in [Forms -> Form] /\ \A g \in Forms \ {f} : forms'[g] = forms[g]
        /\ forms'[f].pc = "done" /\ forms'[f].told = response
    BY <1>2, RespondsSets
  <2>. QED BY <1>1, <1>2, <2>1, DecliningKeeps
<1>3. ASSUME session' = "over", agreement' = Nobody, record' = record \cup {Said("terminated", 0, f)}, Responds(f, "see_other")
      PROVE  DeskInv'
  BY <1>1, <1>3, WritingKeeps
<1>. QED BY <1>2, <1>3 DEF Terminates, Failures

LEMMA EvaluatingKeeps ==
    ASSUME DeskInv, NEW f \in Forms, Evaluates(f)
    PROVE  DeskInv'
<1>1. /\ forms[f].pc = "working" /\ forms[f].word = "evaluate" /\ forms[f].word \notin Deciding
      /\ UNCHANGED <<requests, running, session, agreement, agent, notes, page>>
  BY DEF Evaluates, Deciding
<1>2. ASSUME NEW response \in Failures, Responds(f, response), UNCHANGED record
      PROVE  DeskInv'
  <2>1. /\ forms' \in [Forms -> Form] /\ \A g \in Forms \ {f} : forms'[g] = forms[g]
        /\ forms'[f].pc = "done" /\ forms'[f].told = response
    BY <1>2, RespondsSets
  <2>. QED BY <1>1, <1>2, <2>1, DecliningKeeps
<1>3. ASSUME record' = record \cup {Said("evaluated", forms[f].about, f)}, Responds(f, "created")
      PROVE  DeskInv'
  <2>1. forms[f].about \in Nat
    BY DEF DeskInv, Types, Form
  <2>. QED BY <1>1, <1>3, <2>1, WritingKeeps
<1>4. ASSUME InRecord("evaluated", forms[f].about), Responds(f, "created"), UNCHANGED record
      PROVE  DeskInv'
  <2>1. /\ forms' \in [Forms -> Form] /\ \A g \in Forms \ {f} : forms'[g] = forms[g]
        /\ forms'[f].pc = "done" /\ forms'[f].told = "created" /\ forms'[f].about = forms[f].about
    BY <1>4, RespondsSets
  <2>2. agreement # f
    BY <1>1, WorkingIsUntold
  <2>3. FormOf(f)'
    BY <1>1, <1>4, <2>1, <2>2 DEF FormOf, Failures, InRecord
  <2>4. requests \in Seq(Request) /\ record \subseteq Entry /\ \A j \in Asked : requests[j].state = "waiting" <=> requests[j].by = Nobody
    BY DEF DeskInv, Types, Numbered
  <2>. QED BY <1>1, <1>4, <2>1, <2>3, <2>4, HandlingKeeps
<1>. QED BY <1>2, <1>3, <1>4 DEF Evaluates, Failures

(* An operator answers the request. *)
AnsweredBy(i, f) ==
    /\ Len(requests') = Len(requests) /\ requests' \in Seq(Request)
    /\ requests'[i].by = f /\ requests'[i].decided = requests[i].decided
    /\ \A j \in Asked \ {i} : requests'[j] = requests[j]
    /\ \A j \in Asked : /\ requests'[j].decided = requests[j].decided
                        /\ requests'[j].made = requests[j].made
                        /\ requests'[j].state = "waiting" <=> requests'[j].by = Nobody
                        /\ requests'[j].by = requests[j].by \/ (requests[j].by = Nobody /\ requests'[j].by = f)

AnswerWritten(i, f, state, recorded) ==
    requests' = [requests EXCEPT ![i].state = state, ![i].by = f, ![i].recorded = recorded]

LEMMA AnsweringWrites ==
    ASSUME Types, Numbered, NEW f \in Forms, NEW i \in Asked, Offered(i),
           NEW state \in {"approved", "refused"}, NEW recorded \in BOOLEAN,
           AnswerWritten(i, f, state, recorded)
    PROVE  AnsweredBy(i, f)
<1>1. /\ requests \in Seq(Request) /\ Asked = 1 .. Len(requests) /\ f \in Somebody /\ f # Nobody
  BY DeskAssumption DEF Types, Asked, Somebody
<1>. DEFINE x == [requests[i] EXCEPT !.state = state, !.by = f, !.recorded = recorded]
<1>2. requests[i] \in Request /\ requests[i].by = Nobody
  BY <1>1 DEF Offered, Waiting, Stands, Numbered
<1>3. /\ x \in Request /\ x.decided = requests[i].decided /\ x.made = requests[i].made
      /\ x.by = f /\ x.state = state
  BY <1>1, <1>2 DEF Request
<1>4. requests' = [requests EXCEPT ![i] = x]
  <2>. DEFINE first == [requests EXCEPT ![i].state = state]
              second == [first EXCEPT ![i].by = f]
  <2>1. requests' = [second EXCEPT ![i].recorded = recorded]
    BY DEF AnswerWritten
  <2>2. first = [requests EXCEPT ![i] = [requests[i] EXCEPT !.state = state]]
    OBVIOUS
  <2>3. second = [requests EXCEPT ![i] = [requests[i] EXCEPT !.state = state, !.by = f]]
    BY <1>1, <2>2
  <2>. QED BY <1>1, <2>1, <2>3
<1>. HIDE DEF x
<1>5. /\ requests' \in Seq(Request) /\ Len(requests') = Len(requests)
      /\ \A j \in Asked : requests'[j] = IF j = i THEN x ELSE requests[j]
  <2>1. x \in Request
    BY <1>3
  <2>2. requests' \in Seq(Request) /\ Len(requests') = Len(requests)
    BY <1>1, <1>4, <2>1
  <2>. QED BY <1>1, <1>4, <2>2
<1>6. \A j \in Asked : requests[j].state = "waiting" <=> requests[j].by = Nobody
  BY DEF Numbered
<1>. QED BY <1>1, <1>2, <1>3, <1>5, <1>6 DEF AnsweredBy

LEMMA DecidingKeeps ==
    ASSUME DeskInv, NEW f \in Forms, Answers(f)
    PROVE  DeskInv'
<1>. DEFINE i == forms[f].about
            is == IF forms[f].word = "refuse" THEN "no" ELSE "yes"
            state == IF forms[f].word = "refuse" THEN "refused" ELSE "approved"
            entry == Said(is, requests[i].decided, f)
            Applied(recorded) == AnswerWritten(i, f, state, recorded)
            Answered == AnsweredBy(i, f)
<1>1. /\ Types /\ Numbered /\ requests \in Seq(Request) /\ record \subseteq Entry /\ Asked = 1 .. Len(requests)
      /\ f \in Somebody /\ f # Nobody
  BY DeskAssumption DEF DeskInv, Types, Asked, Somebody
<1>2. /\ forms[f].pc = "working" /\ forms[f].word \in Deciding /\ forms[f].told = "nothing"
      /\ Entries(f) = {} /\ Own(f) = {} /\ agreement # f
      /\ UNCHANGED <<running, session, agent, notes, page>>
  BY WorkingIsUntold DEF Answers
<1>3. ASSUME i \in Asked, Offered(i), NEW recorded \in BOOLEAN, Applied(recorded)
      PROVE  Answered
  BY <1>1, <1>3, AnsweringWrites
<1>4. Answered => Asked' = Asked
  BY <1>1 DEF Asked, AnsweredBy
<1>5. CASE /\ i \in Asked /\ Offered(i) /\ Applied(TRUE)
           /\ record' = record \cup {entry} /\ agreement' \in {f, agreement}
           /\ Responds(f, "see_other")
  <2>1. Answered /\ Asked' = Asked
    BY <1>3, <1>4, <1>5
  <2>2. requests[i].decided \in Nat
    <3>1. requests[i] \in Request
      BY <1>1, <1>5
    <3>. QED BY <3>1 DEF Request
  <2>3. entry \in Entry /\ entry.is = is /\ entry.by = f
    BY <1>1, <2>2, SaidTyped
  <2>4. /\ forms' \in [Forms -> Form] /\ \A g \in Forms \ {f} : forms'[g] = forms[g]
        /\ forms'[f].pc = "done" /\ forms'[f].told = "see_other"
        /\ forms'[f].word = forms[f].word /\ forms'[f].about = i
    BY <1>5, RespondsSets
  <2>5. i \in Own(f)' /\ Said(is, requests'[i].decided, f) \in record'
    <3>1. requests'[i].by = f /\ requests'[i].decided = requests[i].decided /\ i \in Asked'
      BY <1>5, <2>1 DEF AnsweredBy
    <3>2. entry \in record'
      BY <1>5
    <3>. QED BY <3>1, <3>2 DEF Own
  <2>6. FormOf(f)'
    BY <1>2, <2>4, <2>5 DEF FormOf, Failures, Deciding
  <2>7. \A x \in record' \ record : x.is # "decided" /\ x.by = f
    BY <1>5, <2>3
  <2>. HIDE DEF entry
  <2>8. record \subseteq record' /\ record' \subseteq Entry
    BY <1>1, <1>5, <2>3
  <2>. QED BY <1>2, <1>5, <2>1, <2>4, <2>6, <2>7, <2>8, HandlingKeeps DEF AnsweredBy
<1>6. CASE /\ i \in Asked /\ Offered(i) /\ Applied(FALSE) /\ Responds(f, "not_recorded")
           /\ UNCHANGED <<record, agreement>>
  <2>1. Answered /\ Asked' = Asked
    BY <1>3, <1>4, <1>6
  <2>2. /\ forms' \in [Forms -> Form] /\ \A g \in Forms \ {f} : forms'[g] = forms[g]
        /\ forms'[f].pc = "done" /\ forms'[f].told = "not_recorded"
        /\ forms'[f].word = forms[f].word /\ forms'[f].about = i
    BY <1>6, RespondsSets
  <2>3. i \in Own(f)' /\ Entries(f)' = {} /\ agreement' # f
    BY <1>2, <1>6, <2>1 DEF Own, AnsweredBy, Entries
  <2>4. FormOf(f)'
    BY <2>2, <2>3 DEF FormOf, Failures
  <2>. QED BY <1>1, <1>2, <1>6, <2>1, <2>2, <2>4, HandlingKeeps DEF AnsweredBy
<1>7. CASE Responds(f, "conflict") /\ UNCHANGED <<requests, record, agreement>>
  <2>1. /\ forms' \in [Forms -> Form] /\ \A g \in Forms \ {f} : forms'[g] = forms[g]
        /\ forms'[f].pc = "done" /\ forms'[f].told = "conflict"
    BY <1>7, RespondsSets DEF Failures
  <2>. QED BY <1>2, <1>7, <2>1, DecliningKeeps DEF Failures
<1>8. \/ /\ i \in Asked /\ Offered(i) /\ Applied(TRUE)
         /\ record' = record \cup {entry} /\ agreement' \in {f, agreement}
         /\ Responds(f, "see_other")
      \/ /\ i \in Asked /\ Offered(i) /\ Applied(FALSE) /\ Responds(f, "not_recorded")
         /\ UNCHANGED <<record, agreement>>
      \/ Responds(f, "conflict") /\ UNCHANGED <<requests, record, agreement>>
  BY <1>2 DEF Answers, Failure, Deciding, AnswerWritten
<1>. QED BY <1>5, <1>6, <1>7, <1>8

LEMMA DeskStarts ==
    ASSUME DeskInit
    PROVE  DeskInv
<1>1. Asked = {} /\ Decisions = {} /\ Len(requests) = 0 /\ requests \in Seq(Request)
  BY DEF DeskInit, Asked, Decisions
<1>2. Types
  BY <1>1, DeskAssumption DEF DeskInit, Types, Somebody, Result, Form, Words
<1>3. Numbered
  <2>1. 0 \in 0 .. MaxDecisions /\ 1 .. 0 = {}
    BY DeskAssumption
  <2>. QED BY <1>1, <2>1 DEF Numbered
<1>4. Announced
  BY <1>1 DEF DeskInit, Announced
<1>5. ASSUME NEW f \in Forms PROVE FormOf(f)
  <2>1. Entries(f) = {} /\ Own(f) = {} /\ agreement # f /\ forms[f].told = "nothing"
    BY <1>1, DeskAssumption DEF DeskInit, Entries, Own
  <2>. QED BY <2>1 DEF FormOf
<1>6. PageHolds
  BY DEF DeskInit, NoPage, PageHolds
<1>. QED BY <1>2, <1>3, <1>4, <1>5, <1>6 DEF DeskInv

LEMMA DeskSteps ==
    ASSUME DeskInv, [DeskNext]_deskVars
    PROVE  DeskInv'
<1>1. CASE AgentCalls \/ AgentDrops
  BY <1>1, CallingKeeps
<1>2. CASE AgentAsks
  BY <1>2, AskingKeeps
<1>3. CASE AgentAnswered
  BY <1>3, AnsweringKeeps
<1>4. CASE \E i \in Asked : WindowCloses(i)
  BY <1>4, ClosingKeeps
<1>5. CASE \E a \in running : RunRecorded(a) \/ ReaderLeaves(a)
  BY <1>5, RunningKeeps
<1>6. CASE \E f \in Forms, authenticated, sameOrigin \in BOOLEAN, word \in Words :
             \E about \in About(word) : Submit(f, authenticated, sameOrigin, word, about)
  BY <1>6, SubmittingKeeps
<1>7. CASE \E f \in Forms : Handlers(f)
  BY <1>7, DecidingKeeps, RevokingKeeps, TerminatingKeeps, EvaluatingKeeps DEF Handlers
<1>8. CASE LookAtWork \/ ShowActivity \/ PageUnavailable
  BY <1>8, PagingKeeps
<1>9. CASE UNCHANGED deskVars
  <2>1. /\ agent \in [pc : {"idle", "asking", "answering"}, dropped : BOOLEAN, result : Result]
        /\ record \subseteq Entry /\ running \subseteq record /\ PageHolds
    BY DEF DeskInv, Types
  <2>2. UNCHANGED <<requests, record, running, session, agreement, agent, notes, forms, page>>
    BY <1>9 DEF deskVars
  <2>3. PageHolds'
    BY <2>1, <2>2, PageStays
  <2>. QED BY <2>1, <2>2, <2>3, QuietKeeps
<1>. QED BY <1>1, <1>2, <1>3, <1>4, <1>5, <1>6, <1>7, <1>8, <1>9 DEF DeskNext

-----------------------------------------------------------------------------
(* What follows *)

(* What is known of requests, of the record, of forms and of pages (tools.rs,
   dashboard.rs, evaluation.rs) holds whatever callers and operators do, and in which
   order. *)
THEOREM DeskInvariant == DeskSpec => []DeskInv
<1>1. DeskInit => DeskInv
  BY DeskStarts
<1>2. DeskInv /\ [DeskNext]_deskVars => DeskInv'
  BY DeskSteps
<1>. QED BY <1>1, <1>2, PTL DEF DeskSpec

(* tools.rs, announce: nobody is told twice of a request, and one that can be decided
   was announced when its call was answered, unless the call was given up. *)
THEOREM AlwaysAnnounced == DeskSpec => []WaitingIsAnnounced
<1>1. DeskInv => WaitingIsAnnounced
  <2>. SUFFICES ASSUME DeskInv PROVE WaitingIsAnnounced
    OBVIOUS
  <2>1. ASSUME NEW i \in Asked PROVE notes[i] = IF requests[i].made = "told" THEN 1 ELSE 0
    <3>1. PICK n \in 0 .. MaxDecisions : Len(requests) <= n
      BY DEF DeskInv, Numbered
    <3>2. i \in 0 .. MaxDecisions
      BY <3>1, DeskAssumption DEF DeskInv, Types, Asked
    <3>. QED BY <3>2 DEF DeskInv, Announced
  <2>. QED BY <2>1 DEF WaitingIsAnnounced
<1>. QED BY <1>1, DeskInvariant, PTL

(* dashboard.rs, decision_failure and its callers, and evaluation.rs: a form that is
   told of success left its entry in the record, or was an evaluation that is in it, and
   one that is told of a failure left nothing. *)
THEOREM ResponsesAlwaysTell == DeskSpec => []ResponseTells
<1>1. DeskInv => ResponseTells
  <2>. SUFFICES ASSUME DeskInv, NEW f \in Forms
                PROVE  /\ forms[f].told = "see_other" /\ forms[f].word \in Deciding =>
                             /\ forms[f].about \in Own(f)
                             /\ Said(IF forms[f].word = "refuse" THEN "no" ELSE "yes",
                                     requests[forms[f].about].decided, f) \in Entries(f)
                       /\ forms[f].told = "see_other" /\ forms[f].word = "terminate" => session = "over" /\ Entries(f) # {}
                       /\ forms[f].told = "created" => InRecord("evaluated", forms[f].about)
                       /\ forms[f].told = "not_recorded" => Entries(f) = {} /\ forms[f].about \in Own(f)
                       /\ forms[f].told \in {"unauthorized", "forbidden", "bad_request", "conflict", "not_found",
                                             "unavailable", "error"} => Entries(f) = {} /\ Own(f) = {} /\ agreement # f
    BY DEF ResponseTells, Entries, Own, Signed
  <2>1. FormOf(f)
    BY DEF DeskInv
  <2>2. ASSUME forms[f].told = "see_other", forms[f].word \in Deciding
        PROVE  Said(IF forms[f].word = "refuse" THEN "no" ELSE "yes",
                    requests[forms[f].about].decided, f) \in Entries(f)
    BY <2>1, <2>2 DEF FormOf, Entries, Said, Signed
  <2>. QED BY <2>1, <2>2 DEF FormOf, Failures
<1>. QED BY <1>1, DeskInvariant, PTL

(* dashboard.rs, session_transcript: it reads what runs, what waits and the record one
   after the other, and still a row is right about every command that did not change
   meanwhile. *)
THEOREM RowsAreTrue == DeskSpec => SteadyRowsAreTrue
<1>1. ASSUME DeskInv, [DeskNext]_deskVars
      PROVE  [page.pc = "looking" /\ page'.shown # <<>> =>
                \A d \in DOMAIN page.before :
                    page.before[d] = Status(d) => page'.shown[d] = Status(d)]_deskVars
  <2>. SUFFICES ASSUME page.pc = "looking", page'.shown # <<>>,
                       NEW d \in DOMAIN page.before, page.before[d] = Status(d)
                PROVE  page'.shown[d] = Status(d)
    OBVIOUS
  <2>1. /\ page.shown = <<>> /\ page.running \subseteq record /\ d \in Decisions
        /\ IF \E a \in page.running : a.of = d THEN page.before[d] = "Running"
           ELSE IF d \in page.waiting THEN page.before[d] = "Awaiting approval"
           ELSE page.before[d] \notin {"Running", "Awaiting approval"}
    BY <1>1 DEF DeskInv, PageHolds
  <2>2. CASE ShowActivity
    <3>1. page'.shown[d] = Overlaid(d)
      BY <2>1, <2>2 DEF ShowActivity, NoPage
    <3>2. Status(d) \notin {"Running", "Awaiting approval"} => Status(d) = RecordedStatus(d)
      BY DEF Status
    <3>. QED BY <2>1, <3>1, <3>2 DEF Overlaid
  <2>3. CASE PageUnavailable
    BY <2>3 DEF PageUnavailable, NoPage
  <2>4. ASSUME UNCHANGED page PROVE FALSE
    BY <2>1, <2>4
  <2>5. ShowActivity \/ PageUnavailable \/ UNCHANGED page
    <3>1. AgentCalls \/ AgentDrops \/ AgentAsks \/ AgentAnswered => UNCHANGED page
      BY DEF AgentCalls, AgentDrops, AgentAsks, AgentAnswered
    <3>2. \A i \in Asked : WindowCloses(i) => UNCHANGED page
      BY DEF WindowCloses
    <3>3. \A a \in running : RunRecorded(a) \/ ReaderLeaves(a) => UNCHANGED page
      BY DEF RunRecorded, ReaderLeaves
    <3>4. \A f, authenticated, sameOrigin, word, about : Submit(f, authenticated, sameOrigin, word, about) => UNCHANGED page
      BY DEF Submit
    <3>5. \A f : Handlers(f) => UNCHANGED page
      BY DEF Handlers, Answers, Revokes, Terminates, Evaluates
    <3>6. ~LookAtWork
      BY DEF LookAtWork
    <3>. QED BY <1>1, <3>1, <3>2, <3>3, <3>4, <3>5, <3>6 DEF DeskNext, deskVars
  <2>. QED BY <2>2, <2>3, <2>4, <2>5
<1>. QED BY <1>1, DeskInvariant, PTL DEF DeskSpec, SteadyRowsAreTrue
=============================================================================
