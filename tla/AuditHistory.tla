---------------------------- MODULE AuditHistory ----------------------------
(***************************************************************************)
(* Reading the record back: the pages of lines and of session transcripts  *)
(* an operator leafs through (ssh-server/audit_history.rs over the fleet's *)
(* log service, Ledger::session_activity over what the process still has), *)
(* and the journeys the dashboard tells from them (ssh-server/dashboard.rs *)
(* wire_journeys), while the record goes on growing.                       *)
(*                                                                         *)
(* A line is named by its sequence, which counts from 1 here.  One session *)
(* is read: every query is narrowed to it.  What the log service does with *)
(* a query is external: the newest lines of the range, both ends included, *)
(* and which of those that share a time is not said.  A line lands with    *)
(* the time of its source, not before the line written before it.          *)
(***************************************************************************)
EXTENDS Naturals, Sequences, FiniteSets, FiniteSetsExt

CONSTANTS
    Absent,      \* "no such value"
    Kinds,     \* bound: which readings are opened, of "page", "transcript", "activity"
    PageSize,  \* PAGE_SIZE
    LookBack,    \* the look-back
    Epoch,     \* when the reading starts
    MaxLines,  \* bound: lines of the session
    MaxClock   \* bound: the clock

ASSUME HistoryAssumption ==
    /\ PageSize \in Nat \ {0} /\ LookBack \in Nat /\ MaxLines \in Nat
    /\ Epoch \in Nat /\ MaxClock \in Nat
    /\ Epoch > LookBack \* a cursor is never 0
    /\ Absent \notin Nat

VARIABLES
    log,    \* the lines the log service has, oldest first
    clock,  \* its clock
    reading \* what one operator is looking at, or Absent

historyVars == <<log, clock, reading>>

-----------------------------------------------------------------------------
(* What the record says.  A decision that denies is to this reading what a hold is
   that nobody answers: an evaluation is all that can follow it. *)

Decided == {"permitted", "held"}
Answered == {"agreed", "refused"}
LineEvents == Decided \cup Answered \cup {"approved", "completed", "evaluated", "cancelled"}

Lines == DOMAIN log
Is(n, events) == log[n].event \in events
Of(events, about) == {n \in Lines : Is(n, events) /\ log[n].of \in about}
IsAuthority(n) == Is(n, {"permitted", "approved"})

(* One answer to a request, one approval of a yes, one completion of an
   authorization and one evaluation of a decision; a request to cancel is recorded
   whenever one is made.  It is the record, and who writes it, that see to the rest:
   Approvals, Ledger and Runs. *)
MaySay(event, n) ==
    \/ event \in Answered /\ Is(n, {"held"}) /\ Of(Answered, {n}) = {}
    \/ event = "approved" /\ Of({"agreed"}, {n}) # {} /\ Of({"approved"}, {n}) = {}
    \/ event = "completed" /\ IsAuthority(n) /\ Of({"completed"}, {n}) = {}
    \/ event = "cancelled" /\ IsAuthority(n)
    \/ event = "evaluated" /\ Is(n, Decided) /\ Of({"evaluated"}, {n}) = {}

Land(event, n, at) ==
    /\ Len(log) < MaxLines
    /\ log # <<>> => log[Len(log)].at <= at
    /\ log' = Append(log, [event |-> event, of |-> n, at |-> at])
    /\ UNCHANGED <<clock, reading>>

Decide(event, at) == Land(event, Absent, at)
Follow(event, n, at) == MaySay(event, n) /\ Land(event, n, at)

ClockTicks ==
    /\ clock < MaxClock
    /\ clock' = clock + 1
    /\ UNCHANGED <<log, reading>>

-----------------------------------------------------------------------------
(* The log service: at most `limit` of the lines asked for, the newest first. *)

Within(start, end) == {n \in Lines : log[n].at \in start .. end}
Fetched(I, limit) ==
    IF Cardinality(I) <= limit THEN {I}
    ELSE {F \in kSubset(limit, I) : \A n \in F, m \in I \ F : log[m].at <= log[n].at}

(* collision_safe_page: a page ends where a time does.  Mutant: it ends after so
   many lines. *)
Boundary(F) == Min({log[n].at : n \in F})
Page_Full(F) ==
    IF Cardinality(F) <= PageSize THEN F
    ELSE CHOOSE P \in kSubset(PageSize, F) : \A n \in P, m \in F \ P : log[m].at <= log[n].at
Page(F) ==
    IF Cardinality(F) <= PageSize THEN F ELSE {n \in F : log[n].at > Boundary(F)}
Cursor(F) == IF Cardinality(F) <= PageSize THEN Absent ELSE Boundary(F)

-----------------------------------------------------------------------------
(* Following the links of the dashboard *)

Short(a, b) == IF a < b THEN 0 ELSE a - b

(* read_window *)
Start(start, end) == Max({start, Short(end, LookBack)})

(* What the reader of a page has been given so far: `shown`, and of the last page
   `page` and the lines found about it.  `first` and `asked` are no part of the
   program: the lines there were at the first request, and at the latest. *)
Opened(kind, wanted) ==
    [kind |-> kind, wanted |-> wanted, at |-> "asking",
     start |-> Short(clock, LookBack), end |-> clock, before |-> Absent, next |-> Absent,
     first |-> Len(log), asked |-> Len(log), page |-> {}, found |-> {}, shown |-> {}]

Open(kind, wanted) ==
    /\ reading = Absent /\ kind \in Kinds
    /\ reading' = Opened(kind, wanted)
    /\ UNCHANGED <<log, clock>>

(* page_bounds, transcript_bounds, and the window read_transcript refuses *)
Accepted(before) == reading.start > 0 /\ reading.start <= before /\ before <= reading.end
OpenNext ==
    /\ reading # Absent
    /\ reading.at = "served" /\ reading.next # Absent
    /\ reading' = [reading EXCEPT
            !.at = IF reading.kind = "activity" \/ Accepted(reading.next) THEN "asking" ELSE "rejected",
            !.before = reading.next,
            !.asked = Len(log),
            !.shown = @ \cup reading.page,
            !.page = {}, !.found = {}]
    /\ UNCHANGED <<log, clock>>

(* The operator leaves, or starts again. *)
Leave ==
    /\ reading # Absent
    /\ reading' = Absent
    /\ UNCHANGED <<log, clock>>

At(kind, at) == reading # Absent /\ reading.kind = kind /\ reading.at = at
Upper == IF reading.before = Absent THEN reading.end ELSE reading.before

(* read *)
ReadPage ==
    /\ At("page", "asking")
    /\ \E F \in Fetched({n \in Within(Start(reading.start, Upper), Upper) : Is(n, reading.wanted)}, PageSize + 1) :
        reading' = [reading EXCEPT
            !.at = IF F # {} /\ Page(F) = {} THEN "unpageable" ELSE "served",
            !.page = Page(F),
            !.next = Cursor(F)]
    /\ UNCHANGED <<log, clock>>

(* read_transcript: the decisions, *)
ReadDecisions ==
    /\ At("transcript", "asking")
    /\ \E F \in Fetched({n \in Within(reading.start, Upper) : Is(n, Decided)}, PageSize + 1) :
        reading' = [reading EXCEPT
            !.at = IF F = {} THEN "served" ELSE IF Page(F) = {} THEN "unpageable" ELSE "relating",
            !.page = Page(F),
            !.next = Cursor(F)]
    /\ UNCHANGED <<log, clock>>

(* what was said about them, all of it or none, *)
RelatedMax == 4 * Cardinality(reading.page)
Approved(F, page) == {n \in F : Is(n, {"approved"}) /\ log[n].of \in page}
ReadRelations ==
    /\ At("transcript", "relating")
    /\ \E F \in Fetched(Of(LineEvents, reading.page) \cap Within(reading.start, reading.end), RelatedMax + 1) :
        reading' = [reading EXCEPT
            !.at = IF Cardinality(F) > RelatedMax THEN "malformed"
                   ELSE IF Approved(F, reading.page) = {} THEN "served" ELSE "completing",
            !.found = F]
    /\ UNCHANGED <<log, clock>>

(* and what became of those a person approved. *)
ReadCompletions ==
    /\ At("transcript", "completing")
    /\ LET approvals == Approved(reading.found, reading.page)
           max == Cardinality(approvals)
       IN \E F \in Fetched(Of({"completed"}, approvals) \cap Within(reading.start, reading.end), max + 1) :
            reading' = [reading EXCEPT
                !.at = IF Cardinality(F) > max THEN "malformed" ELSE "served",
                !.found = @ \cup F]
    /\ UNCHANGED <<log, clock>>

(* session_activity, under the ledger's lock. *)
Newest(I, limit) ==
    IF Cardinality(I) <= limit THEN I
    ELSE {n \in I : Cardinality({m \in I : m >= n}) <= limit}
ReadActivity ==
    /\ At("activity", "asking")
    /\ LET decisions == {n \in Lines : Is(n, Decided) /\ (reading.before = Absent \/ n < reading.before)}
           page == Newest(decisions, PageSize)
       IN reading' = [reading EXCEPT
            !.at = "served",
            !.page = page,
            !.next = IF page = decisions THEN Absent ELSE Min(page),
            !.found = Of(Answered \cup {"approved", "evaluated"}, page)
                        \cup Of({"completed"}, page \cup Approved(Lines, page))]
    /\ UNCHANGED <<log, clock>>

(* The source does not answer in time; the same link can be followed again. *)
Unavailable ==
    /\ reading # Absent
    /\ reading.kind = "transcript" /\ reading.at \in {"relating", "completing"}
    /\ reading' = [reading EXCEPT !.at = "asking", !.page = {}, !.found = {}, !.next = Absent]
    /\ UNCHANGED <<log, clock>>

-----------------------------------------------------------------------------
(* wire_journeys: what the dashboard tells of a decision.  Mutant: only a permit
   authorizes. *)
Journey_Permits(n) ==
    LET about(events, of) == {m \in reading.found : Is(m, events) /\ log[m].of \in of}
        approval == about({"approved"}, {n})
    IN [answer |-> about(Answered, {n}),
        approval |-> approval,
        completion |-> about({"completed"}, {n}),
        evaluation |-> about({"evaluated"}, {n})]
Journey(n) ==
    LET about(events, of) == {m \in reading.found : Is(m, events) /\ log[m].of \in of}
        approval == about({"approved"}, {n})
        authorizations == approval \cup (IF Is(n, {"permitted"}) THEN {n} ELSE {})
    IN [answer |-> about(Answered, {n}),
        approval |-> approval,
        completion |-> about({"completed"}, authorizations),
        evaluation |-> about({"evaluated"}, {n})]

-----------------------------------------------------------------------------
HistoryInit ==
    /\ log = <<>>
    /\ clock = Epoch
    /\ reading = Absent

HistoryNext ==
    \/ \E at \in Epoch .. clock :
        \/ \E event \in Decided : Decide(event, at)
        \/ \E event \in LineEvents \ Decided, n \in Lines : Follow(event, n, at)
    \/ ClockTicks
    \/ \E wanted \in {LineEvents, {"evaluated"}} : Open("page", wanted)
    \/ Open("transcript", Decided) \/ Open("activity", Decided)
    \/ OpenNext \/ Leave
    \/ ReadPage \/ ReadDecisions \/ ReadRelations \/ ReadCompletions \/ ReadActivity
    \/ Unavailable

HistorySpec == HistoryInit /\ [][HistoryNext]_historyVars

-----------------------------------------------------------------------------
(* Properties *)

Served == reading # Absent /\ reading.at = "served"

(* What the first request of a reading could see, and was asked for. *)
Promised ==
    {n \in 1 .. reading.first :
        /\ Is(n, reading.wanted)
        /\ reading.kind # "activity" => log[n].at \in reading.start .. reading.end}

(* collision_safe_page: "Keep the entire boundary timestamp for the next inclusive
   query rather than splitting a tie and skipping its tail."  No line is shown on two
   pages; when there is no next page, every line the first request could see has been
   shown; and the link to the next page is one the dashboard accepts. *)
EveryLineOnce ==
    /\ reading # Absent => reading.at # "rejected" /\ reading.page \cap reading.shown = {}
    /\ Served /\ reading.next = Absent => Promised \subseteq reading.shown \cup reading.page

(* wire_journeys over either source: what was recorded about a decision on the page
   when it was asked for is told of it, through its approval if it has one, and
   nothing is told of it that is about another. *)
Decision(n) == IF log[log[n].of].event = "approved" THEN log[log[n].of].of ELSE log[n].of
JourneysTold ==
    Served /\ reading.kind # "page" =>
        \A n \in reading.page :
            LET Recorded(events) ==
                    {m \in 1 .. reading.asked :
                        /\ Is(m, events) /\ Decision(m) = n
                        /\ reading.kind = "activity" \/ log[m].at <= reading.end}
                told == Journey(n)
            IN /\ Recorded(Answered) \subseteq told.answer
               /\ Recorded({"approved"}) \subseteq told.approval
               /\ Recorded({"completed"}) \subseteq told.completion
               /\ Recorded({"evaluated"}) \subseteq told.evaluation
               /\ \A m \in told.answer \cup told.completion \cup told.evaluation : Decision(m) = n

(* read_transcript: "An exact decision can have one answer, one approval, one
   completion, and one evaluation.  Fetch one extra row so a broken producer cannot
   silently turn an overfull relationship set into a complete page."  So a record the
   program itself wrote is never taken for a broken producer's. *)
TranscriptServed == reading # Absent => reading.at # "malformed"
=============================================================================
