------------------------------- MODULE Ledger -------------------------------
(***************************************************************************)
(* The audit record (ssh-core/audit.rs and audit/retention.rs): a chain of *)
(* entries of which a window is kept and only some of the window can still *)
(* be read; the proofs that keep an authorization good while retention     *)
(* takes its entry away; completions and evaluations, each written once.   *)
(* And the output it must cross to first (ssh-server/shipped.rs).          *)
(*                                                                         *)
(* Every operation holds Ledger::state from its first look to its last     *)
(* change, so each is one step, with the three ends an append can have: no *)
(* room, not recorded, written.  The thread that writes the output is not  *)
(* held up by the mutex: a line nobody waits for any more may still land.  *)
(*                                                                         *)
(* An entry is its sequence, what it says and the digest before it.  All   *)
(* entries of one record carry different sequences, so no two hash alike,  *)
(* and Hash names a digest by the sequence of its entry.  `check`'s end    *)
(* RetentionCorrupt is left out: ChainVerifies says the links never break. *)
(***************************************************************************)
EXTENDS Naturals, Sequences, FiniteSets, Functions

CONSTANTS
    Artifacts,     \* identifiers of evaluations
    None,          \* "no such value"
    Sizes,         \* encoded sizes an entry can have
    EntriesLimit, ReadableBytes, ReadableMillis, ActiveProofs, ProofBytes, EvaluationIds, \* Limits
    MaxIssued,     \* bound: entries ever written
    MaxTime        \* bound: the clock

ASSUME LedgerAssumption ==
    /\ Sizes \subseteq Nat
    /\ EntriesLimit \in Nat \ {0}
    /\ ReadableBytes \in Nat /\ ReadableMillis \in Nat
    /\ ActiveProofs \in Nat /\ ProofBytes \in Nat /\ EvaluationIds \in Nat
    /\ MaxIssued \in Nat /\ MaxTime \in Nat
    /\ None \notin Artifacts

VARIABLES
    state, \* Ledger::state
    sink,  \* what the entries say that crossed the recording boundary, oldest first
    alive, \* the Proofs somebody still holds, by the sequence of their entry
    writer, \* ToAuditOutput: "late" while a line nobody waits for may land; poisoned but for "serving"
    output, \* the complete lines the output has
    now    \* Clock

outputVars == <<writer, output>>
vars == <<state, sink, alive, outputVars, now>>

-----------------------------------------------------------------------------
(* Entries *)

(* What an entry says, as far as any rule depends on it.  A refusal, an answer, a
   request to cancel and the beginning and end of a session are "other"; who an
   entry is about travels with what it is about. *)
Events == {"permitted", "held", "approved", "completed", "evaluated", "other"}
Content == [event : Events, of : Nat \cup {None}, artifact : Artifacts \cup {None}]
Says(event, of, artifact) == [event |-> event, of |-> of, artifact |-> artifact]
Other == Says("other", None, None)

Entry == [says : Content, at : Nat, bytes : Sizes]
ASSUME EntryAssumption == None \notin Entry \* an entry is never mistaken for its absence

(* Active holders keep this alive; what it proves is in the sink. *)
Proof == [bytes : Sizes, completed : BOOLEAN]

Genesis == 0
Hash(sequence) == sequence + 1

(* Intact, or Sealed: the links without the content. *)
Held == [sequence : Nat, previous : Nat, digest : Nat, entry : Entry \cup {None}]
Intact(h) == h.entry # None

(* Entries that authorize, or wait for somebody to: what they say must outlive
   retention. *)
Pinned(says) == says.event \in {"permitted", "held", "approved"}
Authorizes(n) == sink[n + 1].event \in {"permitted", "approved"}

-----------------------------------------------------------------------------
(* State *)

New ==
    [entries |-> <<>>, digests |-> <<>>, sizes |-> <<>>,
     retired |-> 0, total |-> 0, checkpoint |-> Genesis, readable_bytes |-> 0,
     proofs |-> {}, decisions |-> {}, artifacts |-> [a \in Artifacts |-> None],
     issued_ids |-> {}, evaluated |-> {}]

Window(st) == DOMAIN st.entries
Sum(sizes, I) == FoldFunctionOnSet(+, 0, sizes, I)
Less(a, b) == IF a < b THEN 0 ELSE a - b

(* get *)
Holds(st, n) == n >= st.retired /\ n - st.retired < Len(st.entries)
Get(st, n) == st.entries[n - st.retired + 1]
Readable(st, n) == Holds(st, n) /\ Intact(Get(st, n))

(* active_proof *)
Active(st, n) == n \in st.proofs \cap DOMAIN alive

(* seal, of every index in I *)
Seal(st, I) ==
    [st EXCEPT
        !.entries = [i \in Window(st) |-> IF i \in I THEN [st.entries[i] EXCEPT !.entry = None]
                                                     ELSE st.entries[i]],
        !.sizes = [i \in DOMAIN st.sizes |-> IF i \in I THEN 0 ELSE st.sizes[i]],
        !.readable_bytes = Less(@, Sum(st.sizes, I))]

(* prune_indexes: a proof is listed while it is held, whatever became of its entry;
   decisions and evaluations while they can be read.  Mutant: proofs go with their
   entries. *)
Pruned_WithEntries(st) ==
    [st EXCEPT
        !.proofs = {n \in @ : n \in DOMAIN alive /\ Holds(st, n)},
        !.decisions = {n \in @ : Readable(st, n)},
        !.artifacts = [a \in Artifacts |->
            IF st.artifacts[a] # None /\ Readable(st, st.artifacts[a]) THEN st.artifacts[a] ELSE None]]
Pruned(st) ==
    [st EXCEPT
        !.proofs = @ \cap DOMAIN alive,
        !.decisions = {n \in @ : Readable(st, n)},
        !.artifacts = [a \in Artifacts |->
            IF st.artifacts[a] # None /\ Readable(st, st.artifacts[a]) THEN st.artifacts[a] ELSE None]]

(* reclaim *)
Expired(st) ==
    {i \in Window(st) : Intact(st.entries[i]) /\ Less(now, st.entries[i].entry.at) >= ReadableMillis}
Reclaimed(st) == Pruned(Seal(st, Expired(st)))

(* retire_front, k times.  Mutant: the window moves and its anchor does not. *)
Retired_KeepsCheckpoint(st, k) ==
    [st EXCEPT
        !.entries = SubSeq(@, k + 1, Len(@)),
        !.digests = SubSeq(@, k + 1, Len(@)),
        !.sizes = SubSeq(@, k + 1, Len(@)),
        !.retired = @ + k,
        !.readable_bytes = Less(@, Sum(st.sizes, 1 .. k))]
Retired(st, k) ==
    [st EXCEPT
        !.entries = SubSeq(@, k + 1, Len(@)),
        !.digests = SubSeq(@, k + 1, Len(@)),
        !.sizes = SubSeq(@, k + 1, Len(@)),
        !.checkpoint = IF k = 0 THEN @ ELSE st.entries[k].digest,
        !.retired = @ + k,
        !.readable_bytes = Less(@, Sum(st.sizes, 1 .. k))]
Surplus(st) == Less(Len(st.entries) + 1, EntriesLimit)

(* The body of an outcome that is too large to keep is not kept; its links are.
   Mutant: it is charged for all the same. *)
Charge_Oversized(bytes) == bytes
Charge(bytes) == IF bytes <= ReadableBytes THEN bytes ELSE 0

(* The oldest entries are sealed, one after the other, until the new one fits. *)
Fits(st, k, charge) == Less(st.readable_bytes, Sum(st.sizes, 1 .. k)) + charge <= ReadableBytes
Sealing(st, charge) ==
    CHOOSE k \in 0 .. Len(st.entries) :
        /\ Fits(st, k, charge) \/ k = Len(st.entries)
        /\ \A j \in 0 .. (k - 1) : ~Fits(st, j, charge)

(* prepare.  What is pinned is not up to retention, so it is counted before
   anything is retired. *)
PinnedBytes(st) == Sum([n \in DOMAIN alive |-> alive[n].bytes], st.proofs \cap DOMAIN alive)
HasRoom(st, bytes, pin) ==
    pin => /\ bytes <= ReadableBytes
           /\ Cardinality(st.proofs) < ActiveProofs
           /\ PinnedBytes(st) + bytes <= ProofBytes
Prepared(st, bytes) ==
    LET kept == Retired(st, Surplus(st))
    IN Pruned(Seal(kept, 1 .. Sealing(kept, Charge(bytes))))

(* commit; the links were made out before anything was retired. *)
LastDigest(st) == IF st.entries = <<>> THEN st.checkpoint ELSE st.entries[Len(st.entries)].digest
Committed(st, before, says, bytes) ==
    LET n == before.total
        body == [says |-> says, at |-> now, bytes |-> bytes]
    IN [st EXCEPT
        !.entries = Append(@, [sequence |-> n, previous |-> LastDigest(before), digest |-> Hash(n),
                               entry |-> IF bytes <= ReadableBytes THEN body ELSE None]),
        !.digests = Append(@, Hash(n)),
        !.sizes = Append(@, Charge(bytes)),
        !.total = @ + 1,
        !.readable_bytes = @ + Charge(bytes),
        !.proofs = IF Pinned(says) THEN @ \cup {n} ELSE @]

-----------------------------------------------------------------------------
(* append_to: the ends of it *)

(* ToAuditOutput::wrote fails, and the output is refused from then on.  The line
   that failed first may be there in part, may have landed but for the flush, or
   may still land. *)
Refuses ==
    /\ writer' = IF writer = "serving" THEN "late" ELSE writer
    /\ UNCHANGED output

Line == [sequence |-> state.total, previous |-> LastDigest(state)]

(* There is no room, or the entry does not cross the boundary: what retention did
   for it is done, and nothing was written. *)
NotWritten(says, bytes) ==
    LET room == Reclaimed(state)
    IN /\ IF HasRoom(room, bytes, Pinned(says))
          THEN state' = Prepared(room, bytes) /\ Refuses
          ELSE state' = room /\ UNCHANGED outputVars
       /\ UNCHANGED <<sink, alive, now>>

(* Mutant: the output is asked again after it has failed. *)
CanWrite_Retrying(says, bytes) ==
    state.total < MaxIssued /\ HasRoom(Reclaimed(state), bytes, Pinned(says))
CanWrite(says, bytes) ==
    /\ writer = "serving"
    /\ state.total < MaxIssued
    /\ HasRoom(Reclaimed(state), bytes, Pinned(says))
Written(says, bytes) == Committed(Prepared(Reclaimed(state), bytes), state, says, bytes)

(* A new proof is held by whoever gets the entry. *)
Issue(proofs, says, bytes) ==
    /\ sink' = Append(sink, says)
    /\ output' = Append(output, Line)
    /\ alive' = IF Pinned(says)
                THEN [n \in DOMAIN proofs \cup {state.total} |->
                        IF n = state.total THEN [bytes |-> bytes, completed |-> FALSE] ELSE proofs[n]]
                ELSE proofs
    /\ UNCHANGED <<writer, now>>

Append_(says, bytes) ==
    \/ NotWritten(says, bytes)
    \/ /\ CanWrite(says, bytes)
       /\ state' = Written(says, bytes)
       /\ Issue(alive, says, bytes)

-----------------------------------------------------------------------------
(* Operations *)

(* record_intent: what policy said; the evaluator may ask about it while it can be
   read. *)
RecordIntent(verdict, bytes) ==
    LET says == Says(verdict, None, None)
        st == Written(says, bytes)
    IN \/ NotWritten(says, bytes)
       \/ /\ CanWrite(says, bytes)
          /\ state' = [st EXCEPT !.decisions = IF Readable(st, state.total) THEN @ \cup {state.total} ELSE @]
          /\ Issue(alive, says, bytes)

(* this_deliberation *)
ThisDeliberation(n) ==
    /\ Holds(state, n) \/ Active(state, n)
    /\ Holds(state, n) => Get(state, n).digest = Hash(n)
    /\ IF Holds(state, n)
       THEN Intact(Get(state, n)) => Get(state, n).entry.says.event = "held"
       ELSE sink[n + 1].event = "held"

(* record_approval and record_answer, for the Intended and the request somebody
   holds.  They let go of the state between the check and the append; what is held
   cannot be lost meanwhile. *)
Asks(n) ==
    /\ n \in DOMAIN alive
    /\ sink[n + 1].event = "held"
    /\ ThisDeliberation(n)
RecordApproval(n, bytes) == Asks(n) /\ Append_(Says("approved", None, None), bytes)
RecordAnswer(n, bytes) == Asks(n) /\ Append_(Other, bytes)

(* this_records_decision *)
ThisRecordsDecision(n) ==
    /\ Active(state, n)
    /\ Holds(state, n) => Get(state, n).digest = Hash(n)
    /\ IF Holds(state, n)
       THEN Intact(Get(state, n)) => Get(state, n).entry.says.event \in {"permitted", "approved"}
       ELSE Authorizes(n)

(* The authorization of a run. *)
Permits(n) ==
    /\ n \in DOMAIN alive
    /\ Authorizes(n)
    /\ ThisRecordsDecision(n)

(* record_outcome, of a run that has settled.  Mutant: the authorization is marked
   before the append that can fail. *)
Marked(n) == [alive EXCEPT ![n].completed = TRUE]
RecordOutcome_MarksFirst(n, bytes) ==
    LET says == Says("completed", n, None)
    IN /\ Permits(n)
       /\ ~alive[n].completed
       /\ \/ /\ state' = Reclaimed(state)
             /\ alive' = Marked(n)
             /\ UNCHANGED <<sink, outputVars, now>>
          \/ /\ CanWrite(says, bytes)
             /\ state' = Written(says, bytes)
             /\ Issue(Marked(n), says, bytes)
RecordOutcome(n, bytes) ==
    LET says == Says("completed", n, None)
    IN /\ Permits(n)
       /\ ~alive[n].completed
       /\ \/ NotWritten(says, bytes)
          \/ /\ CanWrite(says, bytes)
             /\ state' = Written(says, bytes)
             /\ Issue(Marked(n), says, bytes)

RecordCancellation(n, bytes) == Permits(n) /\ Append_(Other, bytes)

(* record_session_opened, _closed and _terminated *)
RecordSession(bytes) == Append_(Other, bytes)

(* record_evaluation.  A name is taken for good, and so is a decision; a decision
   can be named only while it can be read.  Mutant: only artifacts that can still be
   read are remembered. *)
Evaluable_ReadableNames(st, a, n) ==
    /\ st.artifacts[a] = None
    /\ n \notin st.evaluated
    /\ n \in st.decisions
Evaluable(st, a, n) ==
    /\ a \notin st.issued_ids
    /\ n \notin st.evaluated
    /\ Cardinality(st.issued_ids) < EvaluationIds
    /\ n \in st.decisions

RecordEvaluation(a, n, bytes) ==
    LET says == Says("evaluated", n, a)
        st == Written(says, bytes)
    IN \/ /\ ~Evaluable(Reclaimed(state), a, n)
          /\ state' = Reclaimed(state)
          /\ UNCHANGED <<sink, alive, outputVars, now>>
       \/ /\ Evaluable(Reclaimed(state), a, n)
          /\ NotWritten(says, bytes)
       \/ /\ Evaluable(Reclaimed(state), a, n)
          /\ CanWrite(says, bytes)
          /\ state' = [st EXCEPT
                !.issued_ids = @ \cup {a},
                !.evaluated = @ \cup {n},
                !.artifacts[a] = IF Readable(st, state.total) THEN state.total ELSE @]
          /\ Issue(alive, says, bytes)

(* seal_before *)
SealBefore(n) ==
    /\ state' = Pruned(Seal(state, {i \in Window(state) : state.entries[i].sequence < n}))
    /\ UNCHANGED <<sink, alive, outputVars, now>>

(* Housekeeping's reclaim *)
Reclaim ==
    /\ state' = Reclaimed(state)
    /\ UNCHANGED <<sink, alive, outputVars, now>>

(* The last holder of a proof lets go of it, outside the lock. *)
DropProof(n) ==
    /\ n \in DOMAIN alive
    /\ alive' = [m \in DOMAIN alive \ {n} |-> alive[m]]
    /\ UNCHANGED <<state, sink, outputVars, now>>

(* write_lines gets to the line nobody waits for, or fails at it for good. *)
LateLine ==
    /\ writer = "late"
    /\ writer' = "stopped"
    /\ output' \in {output, Append(output, Line)}
    /\ UNCHANGED <<state, sink, alive, now>>

Tick ==
    /\ now < MaxTime
    /\ now' = now + 1
    /\ UNCHANGED <<state, sink, alive, outputVars>>

-----------------------------------------------------------------------------
Init ==
    /\ state = New
    /\ sink = <<>>
    /\ alive = <<>>
    /\ writer = "serving"
    /\ output = <<>>
    /\ now = 0

Issued == 0 .. (state.total - 1)

Next ==
    \/ \E bytes \in Sizes :
        \/ \E verdict \in {"other", "permitted", "held"} : RecordIntent(verdict, bytes)
        \/ \E n \in Issued :
            \/ RecordApproval(n, bytes) \/ RecordAnswer(n, bytes)
            \/ RecordOutcome(n, bytes) \/ RecordCancellation(n, bytes)
            \/ \E a \in Artifacts : RecordEvaluation(a, n, bytes)
        \/ RecordSession(bytes)
    \/ \E n \in Issued : SealBefore(n + 1) \/ DropProof(n)
    \/ Reclaim
    \/ LateLine
    \/ Tick

Spec == Init /\ [][Next]_vars

-----------------------------------------------------------------------------
(* Properties *)

(* verify_window over the newest `limit` entries: what it compares, link by link. *)
Verifies(limit) ==
    LET start == Less(Len(state.entries), limit)
        Before(i) == IF i = 1 THEN state.checkpoint ELSE state.entries[i - 1].digest
    IN /\ \A i \in (start + 1) .. Len(state.entries) :
            /\ state.entries[i].sequence = state.retired + i - 1
            /\ state.entries[i].previous = Before(i)
            /\ i \in DOMAIN state.digests /\ state.digests[i] = state.entries[i].digest
            /\ Intact(state.entries[i]) => state.entries[i].digest = Hash(state.entries[i].sequence)
       /\ state.retired + Len(state.entries) = state.total
       /\ Len(state.digests) = Len(state.entries)

(* Ledger::verify, and verify_recent for every window: the chain verifies from its
   checkpoint whatever was sealed, retired or refused, and what can be read of it is
   what crossed the recording boundary. *)
ChainVerifies ==
    /\ \A limit \in 0 .. Len(state.entries) : Verifies(limit)
    /\ state.total = Len(sink)
    /\ \A i \in Window(state) :
        Intact(state.entries[i]) => state.entries[i].entry.says = sink[state.entries[i].sequence + 1]

(* Proof: while an authorization or a request for approval is held, the record
   recognises its entry, whatever retention has done to it; so a completion, a
   cancellation, an answer or an approval is never refused for that. *)
AuthorityKeepsItsDecision ==
    \A n \in DOMAIN alive :
        /\ Authorizes(n) => ThisRecordsDecision(n)
        /\ sink[n + 1].event = "held" => ThisDeliberation(n)

(* record_outcome: one authorization has one completion, and is marked exactly when
   the record has it. *)
CompletedOnce ==
    /\ \A n \in DOMAIN alive :
        alive[n].completed <=> \E m \in DOMAIN sink : sink[m].event = "completed" /\ sink[m].of = n
    /\ \A l, m \in DOMAIN sink :
        (sink[l].event = "completed" /\ sink[m].event = "completed" /\ sink[l].of = sink[m].of) => l = m

(* record_evaluation: an identifier and a decision are each used once, also after
   retention has taken the evaluation away. *)
EvaluatedOnce ==
    \A l, m \in DOMAIN sink :
        (/\ sink[l].event = "evaluated"
         /\ sink[m].event = "evaluated"
         /\ sink[l].of = sink[m].of \/ sink[l].artifact = sink[m].artifact) => l = m

(* Limits: the budget is charged exactly for what can be read, is never exceeded,
   and nothing that cannot be read is offered to the evaluator. *)
ReadableAccounted ==
    /\ Len(state.sizes) = Len(state.entries)
    /\ state.readable_bytes = Sum(state.sizes, DOMAIN state.sizes)
    /\ state.readable_bytes <= ReadableBytes
    /\ Len(state.entries) <= EntriesLimit
    /\ \A i \in Window(state) :
        state.sizes[i] = IF Intact(state.entries[i]) THEN state.entries[i].entry.bytes ELSE 0
    /\ \A n \in state.decisions \cup ({state.artifacts[a] : a \in Artifacts} \ {None}) : Readable(state, n)
    /\ Cardinality(state.proofs \cap DOMAIN alive) <= ActiveProofs

(* The lines of the output are one chain: every entry of the record, and at most the
   one it was refused after them.  shipped.rs: "so that late line can only be the
   terminal link, never a link followed by a second entry built from the same
   predecessor". *)
OutputIsAChain ==
    /\ Len(output) \in Len(sink) .. Len(sink) + 1
    /\ \A i \in DOMAIN output :
        output[i] = [sequence |-> i - 1, previous |-> IF i = 1 THEN Genesis ELSE Hash(i - 2)]
=============================================================================
