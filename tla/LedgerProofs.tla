---------------------------- MODULE LedgerProofs ----------------------------
(***************************************************************************)
(* Proofs about Ledger for every number of artifacts, all sizes of entries *)
(* and all limits: first the chain, the proofs and the indexes, which hold *)
(* whatever is sealed or retired, then what the sizes come to, for which a *)
(* sum by a fold is taken apart index by index.                            *)
(***************************************************************************)
EXTENDS Ledger, SequenceTheorems, FiniteSetTheorems, WellFoundedInduction, TLAPS

-----------------------------------------------------------------------------
(* The chain *)

LEMMA FunctionIsSeq ==
    ASSUME NEW S, NEW n \in Nat, NEW f \in [1 .. n -> S]
    PROVE  f \in Seq(S) /\ Len(f) = n
<1>1. f \in Seq(S)
  BY SeqDef
<1>2. Len(f) \in Nat /\ DOMAIN f = 1 .. Len(f) /\ DOMAIN f = 1 .. n
  BY <1>1, LenProperties
<1>. QED BY <1>1, <1>2

Fields == {"entries", "digests", "sizes", "retired", "total", "checkpoint", "readable_bytes",
           "proofs", "decisions", "artifacts", "issued_ids", "evaluated"}

(* The links of the window of `st`: entry i is the entry `retired + i - 1` of the log,
   and what can be read of it is what the log says. *)
Links(st, log) ==
    /\ DOMAIN st = Fields
    /\ st.entries \in Seq(Held) /\ st.digests \in Seq(Nat) /\ Len(st.digests) = Len(st.entries)
    /\ st.retired \in Nat /\ st.total = st.retired + Len(st.entries)
    /\ st.checkpoint = st.retired
    /\ \A i \in 1 .. Len(st.entries) :
        /\ st.entries[i].sequence = st.retired + i - 1
        /\ st.entries[i].previous = st.retired + i - 1
        /\ st.entries[i].digest = st.retired + i
        /\ st.digests[i] = st.retired + i
        /\ Intact(st.entries[i]) => st.entries[i].entry.says = log[st.retired + i]

(* What sealing, retiring and pruning leave alone. *)
Same(st, new) ==
    /\ new.total = st.total
    /\ new.issued_ids = st.issued_ids
    /\ new.evaluated = st.evaluated
    /\ st.proofs \cap DOMAIN alive \subseteq new.proofs

(* seal *)
LEMMA SealLinks ==
    ASSUME NEW st, NEW log, NEW I, Links(st, log)
    PROVE  Links(Seal(st, I), log) /\ Same(st, Seal(st, I))
<1>. DEFINE new == Seal(st, I)
            entries == [i \in Window(st) |-> IF i \in I THEN [st.entries[i] EXCEPT !.entry = None]
                                                       ELSE st.entries[i]]
<1>1. /\ DOMAIN new = Fields /\ new.entries = entries /\ new.digests = st.digests
      /\ new.retired = st.retired /\ new.total = st.total /\ new.checkpoint = st.checkpoint
      /\ new.proofs = st.proofs /\ new.issued_ids = st.issued_ids /\ new.evaluated = st.evaluated
  BY DEF Links, Fields, Seal
<1>2. Window(st) = 1 .. Len(st.entries) /\ Len(st.entries) \in Nat
      /\ \A i \in 1 .. Len(st.entries) : st.entries[i] \in Held
  BY LenProperties, ElementOfSeq DEF Links, Window
<1>3. \A i \in 1 .. Len(st.entries) :
        /\ entries[i] \in Held
        /\ entries[i].sequence = st.entries[i].sequence
        /\ entries[i].previous = st.entries[i].previous
        /\ entries[i].digest = st.entries[i].digest
        /\ entries[i].entry # None => entries[i].entry = st.entries[i].entry /\ st.entries[i].entry # None
  BY <1>2 DEF Held
<1>4. entries \in Seq(Held) /\ Len(entries) = Len(st.entries)
  <2>1. entries \in [1 .. Len(st.entries) -> Held]
    BY <1>2, <1>3
  <2>. HIDE DEF entries
  <2>. QED BY <1>2, <2>1, FunctionIsSeq
<1>. HIDE DEF entries, new
<1>5. Links(new, log)
  <2>1. /\ new.digests \in Seq(Nat) /\ Len(new.digests) = Len(new.entries)
        /\ new.retired \in Nat /\ new.total = new.retired + Len(new.entries)
        /\ new.checkpoint = new.retired
    BY <1>1, <1>4 DEF Links
  <2>2. ASSUME NEW i \in 1 .. Len(new.entries)
        PROVE  /\ new.entries[i].sequence = new.retired + i - 1
               /\ new.entries[i].previous = new.retired + i - 1
               /\ new.entries[i].digest = new.retired + i
               /\ new.digests[i] = new.retired + i
               /\ Intact(new.entries[i]) => new.entries[i].entry.says = log[new.retired + i]
    <3>1. i \in 1 .. Len(st.entries)
      BY <1>1, <1>4
    <3>. QED BY <1>1, <1>3, <3>1 DEF Links, Intact
  <2>. QED BY <1>1, <1>4, <2>1, <2>2 DEF Links
<1>6. Same(st, new)
  BY <1>1 DEF Same
<1>. QED BY <1>5, <1>6 DEF new

(* prune_indexes *)
LEMMA PruneLinks ==
    ASSUME NEW st, NEW log, Links(st, log)
    PROVE  Links(Pruned(st), log) /\ Same(st, Pruned(st))
<1>1. /\ DOMAIN Pruned(st) = Fields /\ Pruned(st).entries = st.entries /\ Pruned(st).digests = st.digests
      /\ Pruned(st).retired = st.retired /\ Pruned(st).total = st.total /\ Pruned(st).checkpoint = st.checkpoint
      /\ Pruned(st).issued_ids = st.issued_ids /\ Pruned(st).evaluated = st.evaluated
      /\ Pruned(st).proofs = st.proofs \cap DOMAIN alive
  BY DEF Links, Fields, Pruned
<1>. QED BY <1>1 DEF Links, Same

(* retire_front *)
LEMMA RetireLinks ==
    ASSUME NEW st, NEW log, NEW k \in Nat, Links(st, log), k <= Len(st.entries)
    PROVE  Links(Retired(st, k), log) /\ Same(st, Retired(st, k))
<1>. DEFINE new == Retired(st, k)
<1>1. /\ DOMAIN new = Fields
      /\ new.entries = SubSeq(st.entries, k + 1, Len(st.entries))
      /\ new.digests = SubSeq(st.digests, k + 1, Len(st.digests))
      /\ new.retired = st.retired + k /\ new.total = st.total
      /\ new.checkpoint = IF k = 0 THEN st.checkpoint ELSE st.entries[k].digest
      /\ new.proofs = st.proofs /\ new.issued_ids = st.issued_ids /\ new.evaluated = st.evaluated
  BY DEF Links, Fields, Retired
<1>2. /\ Len(st.entries) \in Nat /\ Len(st.digests) = Len(st.entries) /\ st.retired \in Nat
      /\ \A i \in 1 .. Len(st.entries) : st.entries[i] \in Held /\ st.digests[i] \in Nat
  BY LenProperties, ElementOfSeq DEF Links
<1>3. /\ new.entries \in Seq(Held) /\ Len(new.entries) = Len(st.entries) - k
      /\ \A i \in 1 .. Len(st.entries) - k : new.entries[i] = st.entries[i + k]
  <2>1. \A i \in (k + 1) .. Len(st.entries) : st.entries[i] \in Held
    BY <1>2
  <2>. HIDE DEF new
  <2>. QED BY <1>1, <1>2, <2>1, SubSeqProperties
<1>4. /\ new.digests \in Seq(Nat) /\ Len(new.digests) = Len(st.entries) - k
      /\ \A i \in 1 .. Len(st.entries) - k : new.digests[i] = st.digests[i + k]
  <2>1. \A i \in (k + 1) .. Len(st.digests) : st.digests[i] \in Nat
    BY <1>2
  <2>. HIDE DEF new
  <2>. QED BY <1>1, <1>2, <2>1, SubSeqProperties
<1>5. new.checkpoint = new.retired
  BY <1>1, <1>2 DEF Links
<1>. HIDE DEF new
<1>6. new.retired \in Nat /\ new.total = new.retired + Len(new.entries)
  <2>1. st.total = st.retired + Len(st.entries)
    BY DEF Links
  <2>. QED BY <1>1, <1>2, <1>3, <2>1
<1>7. \A i \in 1 .. Len(new.entries) :
        /\ new.entries[i].sequence = new.retired + i - 1
        /\ new.entries[i].previous = new.retired + i - 1
        /\ new.entries[i].digest = new.retired + i
        /\ new.digests[i] = new.retired + i
        /\ Intact(new.entries[i]) => new.entries[i].entry.says = log[new.retired + i]
  <2>. TAKE i \in 1 .. Len(new.entries)
  <2>1. i + k \in 1 .. Len(st.entries) /\ new.entries[i] = st.entries[i + k] /\ new.digests[i] = st.digests[i + k]
        /\ st.retired + (i + k) = new.retired + i /\ st.retired + (i + k) - 1 = new.retired + i - 1
    <3>1. i \in Nat /\ 1 <= i /\ i <= Len(st.entries) - k
      BY <1>2, <1>3
    <3>2. i + k \in 1 .. Len(st.entries) /\ i \in 1 .. Len(st.entries) - k
      BY <1>2, <3>1
    <3>3. st.retired + (i + k) = new.retired + i /\ st.retired + (i + k) - 1 = new.retired + i - 1
      BY <1>1, <1>2, <3>1
    <3>. QED BY <1>3, <1>4, <3>2, <3>3
  <2>. QED BY <2>1 DEF Links
<1>. QED BY <1>1, <1>3, <1>4, <1>5, <1>6, <1>7 DEF Links, Same, new

LEMMA SameTransitive ==
    ASSUME NEW a, NEW b, NEW c, Same(a, b), Same(b, c)
    PROVE  Same(a, c)
BY DEF Same

(* reclaim, and what prepare does for an entry *)
LEMMA ReclaimLinks ==
    ASSUME NEW st, NEW log, Links(st, log)
    PROVE  Links(Reclaimed(st), log) /\ Same(st, Reclaimed(st))
<1>. DEFINE sealed == Seal(st, Expired(st))
<1>1. Links(sealed, log) /\ Same(st, sealed)
  BY SealLinks
<1>2. Reclaimed(st) = Pruned(sealed)
  BY DEF Reclaimed
<1>. HIDE DEF sealed
<1>. QED BY <1>1, <1>2, PruneLinks, SameTransitive

LEMMA PrepareLinks ==
    ASSUME NEW st, NEW log, NEW bytes, Links(st, log)
    PROVE  Links(Prepared(st, bytes), log) /\ Same(st, Prepared(st, bytes))
<1>1. Surplus(st) \in Nat /\ Surplus(st) <= Len(st.entries)
  <2>1. Len(st.entries) \in Nat /\ EntriesLimit \in Nat \ {0}
    BY LenProperties, LedgerAssumption DEF Links
  <2>. QED BY <2>1 DEF Surplus, Less
<1>. DEFINE kept == Retired(st, Surplus(st))
            sealed == Seal(kept, 1 .. Sealing(kept, Charge(bytes)))
<1>2. Links(kept, log) /\ Same(st, kept)
  BY <1>1, RetireLinks
<1>3. Prepared(st, bytes) = Pruned(sealed)
  BY DEF Prepared
<1>. HIDE DEF kept
<1>4. Links(sealed, log) /\ Same(kept, sealed)
  BY <1>2, SealLinks
<1>. HIDE DEF sealed
<1>. QED BY <1>2, <1>3, <1>4, PruneLinks, SameTransitive

(* The newest digest is the one of the entry before the next. *)
LEMMA NewestDigest ==
    ASSUME NEW st, NEW log, Links(st, log)
    PROVE  st.total \in Nat /\ LastDigest(st) = st.total
<1>1. Len(st.entries) \in Nat /\ st.retired \in Nat /\ st.total = st.retired + Len(st.entries)
  BY LenProperties DEF Links
<1>2. CASE st.entries = <<>>
  <2>1. Len(st.entries) = 0
    BY <1>2, EmptySeq
  <2>. QED BY <1>1, <1>2, <2>1 DEF LastDigest, Links
<1>3. CASE st.entries # <<>>
  <2>1. Len(st.entries) \in 1 .. Len(st.entries)
    BY <1>1, <1>3, EmptySeq DEF Links
  <2>2. st.entries[Len(st.entries)].digest = st.retired + Len(st.entries)
    BY <2>1 DEF Links
  <2>. QED BY <1>1, <1>3, <2>2 DEF LastDigest
<1>. QED BY <1>1, <1>2, <1>3

(* commit *)
LEMMA CommitLinks ==
    ASSUME NEW st, NEW before, NEW log \in Seq(Content), NEW says \in Content, NEW bytes \in Sizes,
           now \in Nat, Links(st, log), Links(before, log), Same(before, st), Len(log) = before.total
    PROVE  LET new == Committed(st, before, says, bytes)
           IN /\ Links(new, Append(log, says))
              /\ new.total = before.total + 1
              /\ new.issued_ids = before.issued_ids /\ new.evaluated = before.evaluated
              /\ before.proofs \cap DOMAIN alive \subseteq new.proofs
              /\ Pinned(says) => before.total \in new.proofs
<1>. DEFINE new == Committed(st, before, says, bytes)
            n == before.total
            body == [says |-> says, at |-> now, bytes |-> bytes]
            held == [sequence |-> n, previous |-> LastDigest(before), digest |-> Hash(n),
                     entry |-> IF bytes <= ReadableBytes THEN body ELSE None]
<1>1. /\ DOMAIN new = Fields /\ new.entries = Append(st.entries, held) /\ new.digests = Append(st.digests, Hash(n))
      /\ new.retired = st.retired /\ new.total = st.total + 1 /\ new.checkpoint = st.checkpoint
      /\ new.issued_ids = st.issued_ids /\ new.evaluated = st.evaluated
      /\ new.proofs = IF Pinned(says) THEN st.proofs \cup {n} ELSE st.proofs
  BY DEF Links, Fields, Committed
<1>2. n \in Nat /\ LastDigest(before) = n /\ st.total = n
  BY NewestDigest DEF Same
<1>3. /\ held.sequence = n /\ held.previous = n /\ held.digest = n + 1
      /\ Intact(held) => held.entry.says = says
      /\ held \in Held
  BY <1>2 DEF Hash, Intact, Held, Entry
<1>. HIDE DEF held, new
<1>4. /\ Len(st.entries) \in Nat /\ st.retired \in Nat /\ st.retired + Len(st.entries) = n
      /\ st.entries \in Seq(Held) /\ st.digests \in Seq(Nat) /\ Len(st.digests) = Len(st.entries)
      /\ st.checkpoint = st.retired
  BY <1>2, LenProperties DEF Links
<1>5. /\ new.entries \in Seq(Held) /\ Len(new.entries) = Len(st.entries) + 1
      /\ \A i \in 1 .. Len(st.entries) : new.entries[i] = st.entries[i]
      /\ new.entries[Len(st.entries) + 1] = held
  BY <1>1, <1>3, <1>4
<1>6. /\ new.digests \in Seq(Nat) /\ Len(new.digests) = Len(st.entries) + 1
      /\ \A i \in 1 .. Len(st.entries) : new.digests[i] = st.digests[i]
      /\ new.digests[Len(st.entries) + 1] = n + 1
  BY <1>1, <1>2, <1>4 DEF Hash
<1>7. /\ \A i \in 1 .. n : Append(log, says)[i] = log[i]
      /\ Append(log, says)[n + 1] = says
  BY <1>2
<1>8. ASSUME NEW i \in 1 .. Len(new.entries)
      PROVE  /\ new.entries[i].sequence = new.retired + i - 1
             /\ new.entries[i].previous = new.retired + i - 1
             /\ new.entries[i].digest = new.retired + i
             /\ new.digests[i] = new.retired + i
             /\ Intact(new.entries[i]) => new.entries[i].entry.says = Append(log, says)[new.retired + i]
  <2>1. CASE i \in 1 .. Len(st.entries)
    <3>1. st.retired + i \in 1 .. n
      BY <1>4, <2>1
    <3>2. Append(log, says)[st.retired + i] = log[st.retired + i]
      BY <1>7, <3>1
    <3>3. new.entries[i] = st.entries[i] /\ new.digests[i] = st.digests[i] /\ new.retired = st.retired
      BY <1>1, <1>5, <1>6, <2>1
    <3>4. /\ st.entries[i].sequence = st.retired + i - 1
          /\ st.entries[i].previous = st.retired + i - 1
          /\ st.entries[i].digest = st.retired + i
          /\ st.digests[i] = st.retired + i
          /\ Intact(st.entries[i]) => st.entries[i].entry.says = log[st.retired + i]
      BY <2>1 DEF Links
    <3>. QED BY <3>2, <3>3, <3>4
  <2>2. CASE i = Len(st.entries) + 1
    <3>1. new.retired + i = n + 1 /\ new.retired + i - 1 = n
      BY <1>1, <1>4, <2>2
    <3>2. new.entries[i] = held /\ new.digests[i] = n + 1
      BY <1>5, <1>6, <2>2
    <3>. QED BY <1>3, <1>7, <3>1, <3>2
  <2>3. i \in 1 .. Len(st.entries) \/ i = Len(st.entries) + 1
    <3>1. i \in 1 .. Len(st.entries) + 1
      BY <1>5
    <3>. QED BY <1>4, <3>1
  <2>. QED BY <2>1, <2>2, <2>3
<1>9. new.retired \in Nat /\ new.total = new.retired + Len(new.entries) /\ new.checkpoint = new.retired
  BY <1>1, <1>2, <1>4, <1>5
<1>10. Links(new, Append(log, says))
  BY <1>1, <1>5, <1>6, <1>8, <1>9 DEF Links
<1>11. /\ new.total = before.total + 1
       /\ new.issued_ids = before.issued_ids /\ new.evaluated = before.evaluated
       /\ before.proofs \cap DOMAIN alive \subseteq new.proofs
       /\ Pinned(says) => before.total \in new.proofs
  BY <1>1, <1>2 DEF Same
<1>. QED BY <1>10, <1>11 DEF new

-----------------------------------------------------------------------------
(* The inductive invariant *)

(* What is held is listed, and the record knows which entry it is about. *)
Holding ==
    \A n \in DOMAIN alive :
        /\ n \in Nat /\ n < state.total /\ n \in state.proofs
        /\ Pinned(sink[n + 1])
        /\ DOMAIN alive[n] = {"bytes", "completed"} /\ alive[n].completed \in BOOLEAN

(* A completion names an entry before it, so the next entry has none. *)
Completions ==
    /\ CompletedOnce
    /\ \A m \in DOMAIN sink : sink[m].event = "completed" => sink[m].of \in 0 .. (Len(sink) - 1)

(* The names and decisions of the evaluations are remembered. *)
Evaluations ==
    /\ EvaluatedOnce
    /\ \A m \in DOMAIN sink : sink[m].event = "evaluated" =>
        sink[m].of \in state.evaluated /\ sink[m].artifact \in state.issued_ids

(* Until the line nobody waits for has landed, the output has what the record has. *)
Writing ==
    /\ OutputIsAChain
    /\ output \in Seq([sequence : Nat, previous : Nat])
    /\ writer \in {"serving", "late"} => Len(output) = Len(sink)

Recording ==
    /\ Links(state, sink)
    /\ sink \in Seq(Content) /\ Len(sink) = state.total
    /\ now \in Nat

LedgerInv == Recording /\ Holding /\ Completions /\ Evaluations /\ Writing

-----------------------------------------------------------------------------
(* What a step can be *)

(* Nothing crosses the boundary; a proof may be let go of. *)
Quiet ==
    /\ sink' = sink /\ now' \in Nat
    /\ Links(state', sink) /\ Same(state, state')
    /\ DOMAIN alive' \subseteq DOMAIN alive
    /\ \A n \in DOMAIN alive' : alive'[n] = alive[n]
    /\ DOMAIN alive' = DOMAIN alive \/ state' = state
    /\ \/ writer' = writer /\ output' = output
       \/ Refuses
       \/ writer = "late" /\ writer' = "stopped" /\ output' \in {output, Append(output, Line)}

(* One entry crosses it. *)
Crosses(says) ==
    /\ sink' = Append(sink, says) /\ now' \in Nat
    /\ Links(state', Append(sink, says))
    /\ state'.total = state.total + 1
    /\ state.proofs \cap DOMAIN alive \subseteq state'.proofs
    /\ Pinned(says) => state.total \in state'.proofs
    /\ writer = "serving" /\ writer' = writer
    /\ output' = Append(output, Line)

Plainly(says) ==
    /\ says.event \notin {"completed", "evaluated"}
    /\ state'.issued_ids = state.issued_ids /\ state'.evaluated = state.evaluated
    /\ IF Pinned(says)
       THEN /\ DOMAIN alive' = DOMAIN alive \cup {state.total}
            /\ DOMAIN alive'[state.total] = {"bytes", "completed"}
            /\ alive'[state.total].completed = FALSE
            /\ \A n \in DOMAIN alive \ {state.total} : alive'[n] = alive[n]
       ELSE alive' = alive

Completes(says, n) ==
    /\ says = Says("completed", n, None)
    /\ n \in DOMAIN alive /\ ~alive[n].completed
    /\ state'.issued_ids = state.issued_ids /\ state'.evaluated = state.evaluated
    /\ DOMAIN alive' = DOMAIN alive
    /\ DOMAIN alive'[n] = DOMAIN alive[n] /\ alive'[n].completed = TRUE
    /\ \A m \in DOMAIN alive \ {n} : alive'[m] = alive[m]

Evaluates(says, a, n) ==
    /\ says = Says("evaluated", n, a)
    /\ a \notin state.issued_ids /\ n \notin state.evaluated
    /\ state'.issued_ids = state.issued_ids \cup {a} /\ state'.evaluated = state.evaluated \cup {n}
    /\ alive' = alive

LEMMA RefusalIsQuiet ==
    ASSUME LedgerInv, NEW says, NEW bytes, NotWritten(says, bytes)
    PROVE  Quiet
<1>. DEFINE room == Reclaimed(state)
<1>1. Links(room, sink) /\ Same(state, room)
  BY ReclaimLinks DEF LedgerInv, Recording
<1>2. Links(Prepared(room, bytes), sink) /\ Same(room, Prepared(room, bytes))
  BY <1>1, PrepareLinks
<1>3. Same(state, Prepared(room, bytes))
  BY <1>1, <1>2, SameTransitive
<1>4. /\ state' = room \/ state' = Prepared(room, bytes)
      /\ sink' = sink /\ alive' = alive /\ now' = now
      /\ Refuses \/ (writer' = writer /\ output' = output)
  BY DEF NotWritten, outputVars
<1>. HIDE DEF room
<1>. QED BY <1>1, <1>2, <1>3, <1>4 DEF Quiet, LedgerInv, Recording

LEMMA ReclaimIsQuiet ==
    ASSUME LedgerInv, state' = Reclaimed(state), UNCHANGED <<sink, alive, outputVars, now>>
    PROVE  Quiet
<1>1. Links(Reclaimed(state), sink) /\ Same(state, Reclaimed(state))
  BY ReclaimLinks DEF LedgerInv, Recording
<1>. QED BY <1>1 DEF Quiet, LedgerInv, Recording, outputVars

(* What an entry that is written leaves of the state. *)
LEMMA WrittenLinks ==
    ASSUME LedgerInv, NEW says \in Content, NEW bytes \in Sizes
    PROVE  LET new == Written(says, bytes)
           IN /\ Links(new, Append(sink, says))
              /\ new.total = state.total + 1
              /\ new.issued_ids = state.issued_ids /\ new.evaluated = state.evaluated
              /\ state.proofs \cap DOMAIN alive \subseteq new.proofs
              /\ Pinned(says) => state.total \in new.proofs
<1>1. Links(Reclaimed(state), sink) /\ Same(state, Reclaimed(state))
  BY ReclaimLinks DEF LedgerInv, Recording
<1>. DEFINE st == Prepared(Reclaimed(state), bytes)
<1>2. Links(st, sink) /\ Same(Reclaimed(state), st)
  BY <1>1, PrepareLinks
<1>3. Same(state, st)
  BY <1>1, <1>2, SameTransitive
<1>4. Written(says, bytes) = Committed(st, state, says, bytes)
  BY DEF Written
<1>5. sink \in Seq(Content) /\ Len(sink) = state.total /\ now \in Nat /\ Links(state, sink)
  BY DEF LedgerInv, Recording
<1>. HIDE DEF st
<1>6. LET new == Committed(st, state, says, bytes)
      IN /\ Links(new, Append(sink, says))
         /\ new.total = state.total + 1
         /\ new.issued_ids = state.issued_ids /\ new.evaluated = state.evaluated
         /\ state.proofs \cap DOMAIN alive \subseteq new.proofs
         /\ Pinned(says) => state.total \in new.proofs
  BY <1>2, <1>3, <1>5, CommitLinks
<1>. QED BY <1>4, <1>6

(* The indexes of what can be read are no part of the links. *)
LEMMA IndexesAreNoLinks ==
    ASSUME NEW st, NEW new, NEW log, Links(st, log), DOMAIN new = DOMAIN st,
           new.entries = st.entries, new.digests = st.digests, new.retired = st.retired,
           new.total = st.total, new.checkpoint = st.checkpoint
    PROVE  Links(new, log)
BY DEF Links

LEMMA IssueCrosses ==
    ASSUME LedgerInv, NEW says \in Content, NEW bytes \in Sizes, NEW proofs,
           CanWrite(says, bytes), Issue(proofs, says, bytes),
           Links(state', Append(sink, says)), state'.total = state.total + 1,
           state.proofs \cap DOMAIN alive \subseteq state'.proofs,
           Pinned(says) => state.total \in state'.proofs
    PROVE  Crosses(says)
<1>1. now \in Nat
  BY DEF LedgerInv, Recording
<1>. QED BY <1>1 DEF CanWrite, Issue, Crosses

(* An entry that is neither a completion nor an evaluation. *)
LEMMA AppendKinds ==
    ASSUME LedgerInv, NEW says \in Content, NEW bytes \in Sizes,
           says.event \notin {"completed", "evaluated"}, Append_(says, bytes)
    PROVE  Quiet \/ \E s \in Content : Crosses(s) /\ Plainly(s)
<1>1. CASE NotWritten(says, bytes)
  BY <1>1, RefusalIsQuiet
<1>2. CASE CanWrite(says, bytes) /\ state' = Written(says, bytes) /\ Issue(alive, says, bytes)
  <2>1. Crosses(says)
    BY <1>2, WrittenLinks, IssueCrosses
  <2>2. state'.issued_ids = state.issued_ids /\ state'.evaluated = state.evaluated
    BY <1>2, WrittenLinks
  <2>3. Plainly(says)
    BY <1>2, <2>2 DEF Issue, Plainly
  <2>. QED BY <2>1, <2>3
<1>. QED BY <1>1, <1>2 DEF Append_

LEMMA IntentKinds ==
    ASSUME LedgerInv, NEW verdict \in {"other", "permitted", "held"}, NEW bytes \in Sizes,
           RecordIntent(verdict, bytes)
    PROVE  Quiet \/ \E s \in Content : Crosses(s) /\ Plainly(s)
<1>. DEFINE says == Says(verdict, None, None)
            st == Written(says, bytes)
            decisions == IF Readable(st, state.total) THEN st.decisions \cup {state.total} ELSE st.decisions
<1>0. says \in Content /\ says.event \notin {"completed", "evaluated"}
  BY DEF Says, Content, Events
<1>1. CASE NotWritten(says, bytes)
  BY <1>1, RefusalIsQuiet
<1>2. CASE CanWrite(says, bytes) /\ state' = [st EXCEPT !.decisions = decisions] /\ Issue(alive, says, bytes)
  <2>. HIDE DEF decisions, says
  <2>1. /\ Links(st, Append(sink, says)) /\ st.total = state.total + 1
        /\ st.issued_ids = state.issued_ids /\ st.evaluated = state.evaluated
        /\ state.proofs \cap DOMAIN alive \subseteq st.proofs
        /\ Pinned(says) => state.total \in st.proofs
    BY <1>0, WrittenLinks
  <2>. HIDE DEF st
  <2>2. /\ DOMAIN state' = DOMAIN st /\ state'.entries = st.entries /\ state'.digests = st.digests
        /\ state'.retired = st.retired /\ state'.total = st.total /\ state'.checkpoint = st.checkpoint
        /\ state'.proofs = st.proofs /\ state'.issued_ids = st.issued_ids /\ state'.evaluated = st.evaluated
    BY <1>2, <2>1 DEF Links, Fields
  <2>3. Links(state', Append(sink, says))
    BY <2>1, <2>2, IndexesAreNoLinks
  <2>4. Crosses(says)
    BY <1>0, <1>2, <2>1, <2>2, <2>3, IssueCrosses
  <2>5. Plainly(says)
    BY <1>0, <1>2, <2>1, <2>2 DEF Issue, Plainly
  <2>. QED BY <1>0, <2>4, <2>5
<1>3. NotWritten(says, bytes)
      \/ (CanWrite(says, bytes) /\ state' = [st EXCEPT !.decisions = decisions] /\ Issue(alive, says, bytes))
  BY DEF RecordIntent
<1>. QED BY <1>1, <1>2, <1>3

LEMMA OutcomeKinds ==
    ASSUME LedgerInv, NEW n \in Issued, NEW bytes \in Sizes, RecordOutcome(n, bytes)
    PROVE  Quiet \/ \E s \in Content : Crosses(s) /\ Completes(s, n)
<1>. DEFINE says == Says("completed", n, None)
<1>0. says \in Content /\ ~Pinned(says)
  <2>1. n \in Nat
    BY DEF Issued
  <2>. QED BY <2>1 DEF Says, Content, Events, Pinned
<1>1. CASE NotWritten(says, bytes)
  BY <1>1, RefusalIsQuiet
<1>2. CASE CanWrite(says, bytes) /\ state' = Written(says, bytes) /\ Issue(Marked(n), says, bytes)
  <2>1. n \in DOMAIN alive /\ ~alive[n].completed
    BY DEF RecordOutcome, Permits
  <2>2. Crosses(says)
    <3>. HIDE DEF says
    <3>. QED BY <1>0, <1>2, WrittenLinks, IssueCrosses
  <2>3. state'.issued_ids = state.issued_ids /\ state'.evaluated = state.evaluated
    <3>. HIDE DEF says
    <3>. QED BY <1>0, <1>2, WrittenLinks
  <2>4. alive' = Marked(n)
    BY <1>0, <1>2 DEF Issue
  <2>5. "completed" \in DOMAIN alive[n]
    BY <2>1 DEF LedgerInv, Holding
  <2>6. DOMAIN alive' = DOMAIN alive /\ (\A m \in DOMAIN alive \ {n} : alive'[m] = alive[m])
    BY <2>4 DEF Marked
  <2>7. DOMAIN alive'[n] = DOMAIN alive[n] /\ alive'[n].completed = TRUE
    BY <2>1, <2>4, <2>5 DEF Marked
  <2>. QED BY <1>0, <2>1, <2>2, <2>3, <2>6, <2>7 DEF Completes
<1>. QED BY <1>1, <1>2 DEF RecordOutcome

LEMMA EvaluationKinds ==
    ASSUME LedgerInv, NEW n \in Issued, NEW a \in Artifacts, NEW bytes \in Sizes,
           RecordEvaluation(a, n, bytes)
    PROVE  Quiet \/ \E s \in Content : Crosses(s) /\ Evaluates(s, a, n)
<1>. DEFINE says == Says("evaluated", n, a)
            st == Written(says, bytes)
            artifacts == IF Readable(st, state.total) THEN state.total ELSE st.artifacts[a]
            new == [st EXCEPT !.issued_ids = @ \cup {a}, !.evaluated = @ \cup {n}, !.artifacts[a] = artifacts]
<1>0. says \in Content /\ ~Pinned(says)
  <2>1. n \in Nat
    BY DEF Issued
  <2>. QED BY <2>1 DEF Says, Content, Events, Pinned
<1>1. CASE NotWritten(says, bytes)
  BY <1>1, RefusalIsQuiet
<1>2. CASE state' = Reclaimed(state) /\ UNCHANGED <<sink, alive, outputVars, now>>
  BY <1>2, ReclaimIsQuiet
<1>3. CASE Evaluable(Reclaimed(state), a, n) /\ CanWrite(says, bytes) /\ state' = new /\ Issue(alive, says, bytes)
  <2>0. a \notin state.issued_ids /\ n \notin state.evaluated
    <3>1. Same(state, Reclaimed(state))
      BY ReclaimLinks DEF LedgerInv, Recording
    <3>. QED BY <1>3, <3>1 DEF Evaluable, Same
  <2>. HIDE DEF artifacts, says
  <2>1. /\ Links(st, Append(sink, says)) /\ st.total = state.total + 1
        /\ st.issued_ids = state.issued_ids /\ st.evaluated = state.evaluated
        /\ state.proofs \cap DOMAIN alive \subseteq st.proofs
    BY <1>0, WrittenLinks
  <2>. HIDE DEF st
  <2>2. /\ DOMAIN state' = DOMAIN st /\ state'.entries = st.entries /\ state'.digests = st.digests
        /\ state'.retired = st.retired /\ state'.total = st.total /\ state'.checkpoint = st.checkpoint
        /\ state'.proofs = st.proofs /\ state'.issued_ids = st.issued_ids \cup {a}
        /\ state'.evaluated = st.evaluated \cup {n}
    BY <1>3, <2>1 DEF Links, Fields
  <2>3. Links(state', Append(sink, says))
    BY <2>1, <2>2, IndexesAreNoLinks
  <2>4. Crosses(says)
    BY <1>0, <1>3, <2>1, <2>2, <2>3, IssueCrosses
  <2>5. alive' = alive
    BY <1>0, <1>3 DEF Issue
  <2>6. Evaluates(says, a, n)
    BY <2>0, <2>1, <2>2, <2>5 DEF Evaluates, says
  <2>. QED BY <1>0, <2>4, <2>6
<1>. QED BY <1>1, <1>2, <1>3 DEF RecordEvaluation

(* Every step is quiet, or writes one entry of one of three kinds. *)
LEMMA StepKinds ==
    ASSUME LedgerInv, [Next]_vars
    PROVE  \/ Quiet
           \/ \E s \in Content : Crosses(s) /\ Plainly(s)
           \/ \E s \in Content, n \in Issued : Crosses(s) /\ Completes(s, n)
           \/ \E s \in Content, n \in Issued, a \in Artifacts : Crosses(s) /\ Evaluates(s, a, n)
<1>0. Links(state, sink) /\ Same(state, state) /\ now \in Nat
  BY DEF LedgerInv, Recording, Same
<1>1. ASSUME NEW bytes \in Sizes, NEW verdict \in {"other", "permitted", "held"}, RecordIntent(verdict, bytes)
      PROVE  Quiet \/ \E s \in Content : Crosses(s) /\ Plainly(s)
  BY <1>1, IntentKinds
<1>2. ASSUME NEW bytes \in Sizes, NEW n \in Issued, RecordOutcome(n, bytes)
      PROVE  Quiet \/ \E s \in Content : Crosses(s) /\ Completes(s, n)
  BY <1>2, OutcomeKinds
<1>3. ASSUME NEW bytes \in Sizes, NEW n \in Issued, NEW a \in Artifacts, RecordEvaluation(a, n, bytes)
      PROVE  Quiet \/ \E s \in Content : Crosses(s) /\ Evaluates(s, a, n)
  BY <1>3, EvaluationKinds
<1>4. /\ Other \in Content /\ Other.event \notin {"completed", "evaluated"}
      /\ Says("approved", None, None) \in Content
      /\ Says("approved", None, None).event \notin {"completed", "evaluated"}
  BY DEF Other, Says, Content, Events
<1>5. ASSUME NEW bytes \in Sizes,
             \/ RecordSession(bytes)
             \/ \E n \in Issued : RecordApproval(n, bytes) \/ RecordAnswer(n, bytes) \/ RecordCancellation(n, bytes)
      PROVE  Quiet \/ \E s \in Content : Crosses(s) /\ Plainly(s)
  <2>1. Append_(Other, bytes) \/ Append_(Says("approved", None, None), bytes)
    BY <1>5 DEF RecordSession, RecordApproval, RecordAnswer, RecordCancellation
  <2>. QED BY <1>4, <2>1, AppendKinds
<1>6. ASSUME NEW n \in Issued, SealBefore(n + 1)
      PROVE  Quiet
  <2>. DEFINE sealed == Seal(state, {i \in Window(state) : state.entries[i].sequence < n + 1})
  <2>1. Links(sealed, sink) /\ Same(state, sealed)
    BY <1>0, SealLinks
  <2>2. state' = Pruned(sealed) /\ UNCHANGED <<sink, alive, outputVars, now>>
    BY <1>6 DEF SealBefore
  <2>. HIDE DEF sealed
  <2>3. Links(Pruned(sealed), sink) /\ Same(state, Pruned(sealed))
    BY <2>1, PruneLinks, SameTransitive
  <2>. QED BY <1>0, <2>2, <2>3 DEF Quiet, outputVars
<1>7. ASSUME NEW n \in Issued, DropProof(n)
      PROVE  Quiet
  BY <1>0, <1>7 DEF DropProof, Quiet, outputVars
<1>8. CASE Reclaim
  BY <1>8, ReclaimIsQuiet DEF Reclaim
<1>9. CASE LateLine
  BY <1>0, <1>9 DEF LateLine, Quiet
<1>10. CASE Tick
  BY <1>0, <1>10 DEF Tick, Quiet, outputVars
<1>11. CASE UNCHANGED vars
  BY <1>0, <1>11 DEF vars, Quiet, outputVars
<1>. QED BY <1>1, <1>2, <1>3, <1>5, <1>6, <1>7, <1>8, <1>9, <1>10, <1>11 DEF Next

-----------------------------------------------------------------------------
(* Every step preserves the invariant *)

LEMMA RecordingKept ==
    ASSUME LedgerInv, [Next]_vars
    PROVE  Recording'
<1>1. Links(state, sink) /\ sink \in Seq(Content) /\ Len(sink) = state.total
  BY DEF LedgerInv, Recording
<1>2. CASE Quiet
  BY <1>1, <1>2 DEF Quiet, Same, Recording
<1>3. CASE \E s \in Content : Crosses(s)
  <2>. PICK s \in Content : Crosses(s)
    BY <1>3
  <2>1. sink' \in Seq(Content) /\ Len(sink') = Len(sink) + 1
    BY <1>1 DEF Crosses
  <2>2. state'.total = state.total + 1 /\ Links(state', sink') /\ now' \in Nat
    BY DEF Crosses
  <2>. QED BY <1>1, <2>1, <2>2 DEF Recording
<1>. QED BY <1>2, <1>3, StepKinds

(* The log before and after an entry crosses. *)
LEMMA LogGrows ==
    ASSUME LedgerInv, NEW s \in Content, Crosses(s)
    PROVE  /\ Len(sink) \in Nat /\ state.total = Len(sink) /\ state'.total = Len(sink) + 1
           /\ DOMAIN sink = 1 .. Len(sink) /\ DOMAIN sink' = 1 .. (Len(sink) + 1) /\ Len(sink') = Len(sink) + 1
           /\ \A m \in DOMAIN sink : sink'[m] = sink[m]
           /\ sink'[Len(sink) + 1] = s
<1>1. sink \in Seq(Content) /\ Len(sink) = state.total
  BY DEF LedgerInv, Recording
<1>. QED BY <1>1 DEF Crosses

LEMMA HoldingKept ==
    ASSUME LedgerInv, [Next]_vars
    PROVE  Holding'
<1>0. Holding
  BY DEF LedgerInv
<1>1. CASE Quiet
  <2>. SUFFICES ASSUME NEW n \in DOMAIN alive'
               PROVE  /\ n \in Nat /\ n < state'.total /\ n \in state'.proofs
                      /\ Pinned(sink'[n + 1])
                      /\ DOMAIN alive'[n] = {"bytes", "completed"} /\ alive'[n].completed \in BOOLEAN
    BY DEF Holding, Pinned
  <2>1. n \in DOMAIN alive /\ alive'[n] = alive[n] /\ sink' = sink /\ Same(state, state')
    BY <1>1 DEF Quiet
  <2>2. n \in Nat /\ n < state.total /\ n \in state.proofs /\ Pinned(sink[n + 1])
        /\ DOMAIN alive[n] = {"bytes", "completed"} /\ alive[n].completed \in BOOLEAN
    BY <1>0, <2>1 DEF Holding
  <2>3. state'.total = state.total /\ n \in state'.proofs
    BY <2>1, <2>2 DEF Same
  <2>. QED BY <2>1, <2>2, <2>3
<1>2. ASSUME NEW s \in Content, Crosses(s),
             \/ Plainly(s)
             \/ \E n \in Issued : Completes(s, n)
             \/ \E n \in Issued, a \in Artifacts : Evaluates(s, a, n)
      PROVE  Holding'
  <2>. SUFFICES ASSUME NEW n \in DOMAIN alive'
               PROVE  /\ n \in Nat /\ n < state'.total /\ n \in state'.proofs
                      /\ Pinned(sink'[n + 1])
                      /\ DOMAIN alive'[n] = {"bytes", "completed"} /\ alive'[n].completed \in BOOLEAN
    BY DEF Holding, Pinned
  <2>1. CASE n \in DOMAIN alive
    <3>1. n \in Nat /\ n < state.total /\ n \in state.proofs /\ Pinned(sink[n + 1])
          /\ DOMAIN alive[n] = {"bytes", "completed"} /\ alive[n].completed \in BOOLEAN
      BY <1>0, <2>1 DEF Holding
    <3>2. n # state.total /\ n < state'.total /\ n + 1 \in DOMAIN sink
      BY <1>2, <3>1, LogGrows
    <3>3. sink'[n + 1] = sink[n + 1]
      BY <1>2, <3>2, LogGrows
    <3>4. n \in state'.proofs
      BY <1>2, <2>1, <3>1 DEF Crosses
    <3>5. DOMAIN alive'[n] = {"bytes", "completed"} /\ alive'[n].completed \in BOOLEAN
      BY <1>2, <2>1, <3>1, <3>2 DEF Plainly, Completes, Evaluates
    <3>. QED BY <3>1, <3>2, <3>3, <3>4, <3>5
  <2>2. CASE n \notin DOMAIN alive
    <3>1. Plainly(s) /\ Pinned(s) /\ n = state.total
      BY <1>2, <2>2 DEF Plainly, Completes, Evaluates
    <3>2. DOMAIN alive'[n] = {"bytes", "completed"} /\ alive'[n].completed = FALSE
      BY <3>1 DEF Plainly
    <3>3. n \in Nat /\ n < state'.total /\ sink'[n + 1] = s
      BY <1>2, <3>1, LogGrows
    <3>4. n \in state'.proofs
      BY <1>2, <3>1 DEF Crosses
    <3>. QED BY <3>1, <3>2, <3>3, <3>4
  <2>. QED BY <2>1, <2>2
<1>. QED BY <1>1, <1>2, StepKinds

LEMMA CompletionsKept ==
    ASSUME LedgerInv, [Next]_vars
    PROVE  Completions'
<1>. DEFINE Done(m, n) == sink[m].event = "completed" /\ sink[m].of = n
<1>0. /\ \A n \in DOMAIN alive : alive[n].completed <=> \E m \in DOMAIN sink : Done(m, n)
      /\ \A l, m \in DOMAIN sink :
          (sink[l].event = "completed" /\ sink[m].event = "completed" /\ sink[l].of = sink[m].of) => l = m
      /\ \A m \in DOMAIN sink : sink[m].event = "completed" => sink[m].of \in 0 .. (Len(sink) - 1)
  BY DEF LedgerInv, Completions, CompletedOnce
<1>1. CASE Quiet
  <2>1. /\ sink' = sink /\ DOMAIN alive' \subseteq DOMAIN alive
        /\ \A n \in DOMAIN alive' : alive'[n] = alive[n]
    BY <1>1 DEF Quiet
  <2>. QED BY <1>0, <2>1 DEF Completions, CompletedOnce
<1>2. ASSUME NEW s \in Content, Crosses(s),
             Plainly(s) \/ \E n \in Issued, a \in Artifacts : Evaluates(s, a, n)
      PROVE  Completions'
  <2>1. s.event # "completed"
    BY <1>2 DEF Plainly, Evaluates, Says
  <2>2. \A m \in DOMAIN sink' : sink'[m].event = "completed" => m \in DOMAIN sink /\ sink'[m] = sink[m]
    BY <1>2, <2>1, LogGrows
  <2>3. \A m \in DOMAIN sink : m \in DOMAIN sink' /\ sink'[m] = sink[m]
    BY <1>2, LogGrows
  <2>4. \A m \in DOMAIN sink' : sink'[m].event = "completed" => sink'[m].of \in 0 .. (Len(sink') - 1)
    <3>1. \A k : k \in 0 .. (Len(sink) - 1) => k \in 0 .. (Len(sink') - 1)
      BY <1>2, LogGrows
    <3>. QED BY <1>0, <2>2, <3>1
  <2>5. \A l, m \in DOMAIN sink' :
          (sink'[l].event = "completed" /\ sink'[m].event = "completed" /\ sink'[l].of = sink'[m].of) => l = m
    BY <1>0, <2>2
  <2>6. ASSUME NEW n \in DOMAIN alive'
        PROVE  alive'[n].completed <=> \E m \in DOMAIN sink' : sink'[m].event = "completed" /\ sink'[m].of = n
    <3>1. CASE n \in DOMAIN alive
      <4>1. alive'[n] = alive[n]
        <5>1. n # state.total
          <6>1. n \in Nat /\ n < state.total /\ state.total \in Nat
            BY <1>2, <3>1, LogGrows DEF LedgerInv, Holding
          <6>. QED BY <6>1
        <5>. QED BY <1>2, <3>1, <5>1 DEF Plainly, Evaluates
      <4>. QED BY <1>0, <2>2, <2>3, <3>1, <4>1
    <3>2. CASE n \notin DOMAIN alive
      <4>1. n = state.total /\ alive'[n].completed = FALSE
        BY <1>2, <3>2 DEF Plainly, Evaluates
      <4>2. state.total \notin 0 .. (Len(sink) - 1)
        BY <1>2, LogGrows
      <4>. QED BY <1>0, <2>2, <4>1, <4>2
    <3>. QED BY <3>1, <3>2
  <2>. QED BY <2>4, <2>5, <2>6 DEF Completions, CompletedOnce
<1>3. ASSUME NEW s \in Content, NEW n \in Issued, Crosses(s), Completes(s, n)
      PROVE  Completions'
  <2>0. s.event = "completed" /\ s.of = n /\ n \in DOMAIN alive /\ ~alive[n].completed
    BY <1>3 DEF Completes, Says
  <2>1. \A m \in DOMAIN sink : sink[m].event = "completed" => sink[m].of # n
    BY <1>0, <2>0
  <2>2. \A m \in DOMAIN sink' : (m \in DOMAIN sink /\ sink'[m] = sink[m]) \/ (m = Len(sink) + 1 /\ sink'[m] = s)
    BY <1>3, LogGrows
  <2>3. /\ \A m \in DOMAIN sink : m \in DOMAIN sink' /\ sink'[m] = sink[m]
        /\ Len(sink) + 1 \in DOMAIN sink' /\ sink'[Len(sink) + 1] = s
    BY <1>3, LogGrows
  <2>4. ASSUME NEW m \in DOMAIN sink', sink'[m].event = "completed"
        PROVE  sink'[m].of \in 0 .. (Len(sink') - 1)
    <3>1. n \in 0 .. (Len(sink') - 1) /\ \A k : k \in 0 .. (Len(sink) - 1) => k \in 0 .. (Len(sink') - 1)
      <4>1. n \in 0 .. (Len(sink) - 1)
        BY <1>3, LogGrows DEF Issued
      <4>. QED BY <1>3, <4>1, LogGrows
    <3>. QED BY <1>0, <2>0, <2>2, <2>4, <3>1
  <2>5. \A l, m \in DOMAIN sink' :
          (sink'[l].event = "completed" /\ sink'[m].event = "completed" /\ sink'[l].of = sink'[m].of) => l = m
    BY <1>0, <2>0, <2>1, <2>2
  <2>6. ASSUME NEW k \in DOMAIN alive'
        PROVE  alive'[k].completed <=> \E m \in DOMAIN sink' : sink'[m].event = "completed" /\ sink'[m].of = k
    <3>1. CASE k = n
      BY <1>3, <2>0, <2>3, <3>1 DEF Completes
    <3>2. CASE k # n
      <4>1. k \in DOMAIN alive /\ alive'[k] = alive[k]
        BY <1>3, <3>2 DEF Completes
      <4>. QED BY <1>0, <2>0, <2>2, <2>3, <3>2, <4>1
    <3>. QED BY <3>1, <3>2
  <2>. QED BY <2>4, <2>5, <2>6 DEF Completions, CompletedOnce
<1>. QED BY <1>1, <1>2, <1>3, StepKinds

LEMMA EvaluationsKept ==
    ASSUME LedgerInv, [Next]_vars
    PROVE  Evaluations'
<1>0. /\ \A l, m \in DOMAIN sink :
          (/\ sink[l].event = "evaluated" /\ sink[m].event = "evaluated"
           /\ sink[l].of = sink[m].of \/ sink[l].artifact = sink[m].artifact) => l = m
      /\ \A m \in DOMAIN sink : sink[m].event = "evaluated" =>
          sink[m].of \in state.evaluated /\ sink[m].artifact \in state.issued_ids
  BY DEF LedgerInv, Evaluations, EvaluatedOnce
<1>1. CASE Quiet
  <2>1. sink' = sink /\ state'.evaluated = state.evaluated /\ state'.issued_ids = state.issued_ids
    BY <1>1 DEF Quiet, Same
  <2>. QED BY <1>0, <2>1 DEF Evaluations, EvaluatedOnce
<1>2. ASSUME NEW s \in Content, Crosses(s), Plainly(s) \/ \E n \in Issued : Completes(s, n)
      PROVE  Evaluations'
  <2>1. s.event # "evaluated" /\ state'.evaluated = state.evaluated /\ state'.issued_ids = state.issued_ids
    BY <1>2 DEF Plainly, Completes, Says
  <2>2. \A m \in DOMAIN sink' : sink'[m].event = "evaluated" => m \in DOMAIN sink /\ sink'[m] = sink[m]
    BY <1>2, <2>1, LogGrows
  <2>. QED BY <1>0, <2>1, <2>2 DEF Evaluations, EvaluatedOnce
<1>3. ASSUME NEW s \in Content, NEW n \in Issued, NEW a \in Artifacts, Crosses(s), Evaluates(s, a, n)
      PROVE  Evaluations'
  <2>1. /\ s.of = n /\ s.artifact = a /\ n \notin state.evaluated /\ a \notin state.issued_ids
        /\ state'.evaluated = state.evaluated \cup {n} /\ state'.issued_ids = state.issued_ids \cup {a}
    BY <1>3 DEF Evaluates, Says
  <2>2. \A m \in DOMAIN sink' : (m \in DOMAIN sink /\ sink'[m] = sink[m]) \/ (m = Len(sink) + 1 /\ sink'[m] = s)
    BY <1>3, LogGrows
  <2>3. \A m \in DOMAIN sink : sink[m].event = "evaluated" => sink[m].of # n /\ sink[m].artifact # a
    BY <1>0, <2>1
  <2>. QED BY <1>0, <2>1, <2>2, <2>3 DEF Evaluations, EvaluatedOnce
<1>. QED BY <1>1, <1>2, <1>3, StepKinds

LEMMA WritingKept ==
    ASSUME LedgerInv, [Next]_vars
    PROVE  Writing'
<1>. DEFINE Lines == [sequence : Nat, previous : Nat]
            Chained(i) == [sequence |-> i - 1, previous |-> IF i = 1 THEN Genesis ELSE Hash(i - 2)]
<1>0. /\ Len(sink) \in Nat /\ state.total = Len(sink) /\ sink \in Seq(Content)
      /\ output \in Seq(Lines) /\ Len(output) \in Len(sink) .. Len(sink) + 1
      /\ \A i \in DOMAIN output : output[i] = Chained(i)
      /\ writer \in {"serving", "late"} => Len(output) = Len(sink)
  BY LenProperties DEF LedgerInv, Recording, Writing, OutputIsAChain
<1>1. Line = [sequence |-> Len(sink), previous |-> Len(sink)]
  BY <1>0, NewestDigest DEF Line, LedgerInv, Recording
<1>2. ASSUME Len(output) = Len(sink)
      PROVE  /\ Append(output, Line) \in Seq(Lines)
             /\ Len(Append(output, Line)) = Len(sink) + 1
             /\ \A i \in DOMAIN Append(output, Line) : Append(output, Line)[i] = Chained(i)
  <2>1. Line \in Lines /\ output \in Seq(Lines)
    BY <1>0, <1>1
  <2>2. /\ Append(output, Line) \in Seq(Lines) /\ Len(Append(output, Line)) = Len(sink) + 1
        /\ DOMAIN Append(output, Line) = 1 .. (Len(sink) + 1)
        /\ DOMAIN output = 1 .. Len(sink)
        /\ \A i \in 1 .. Len(sink) : Append(output, Line)[i] = output[i]
        /\ Append(output, Line)[Len(sink) + 1] = Line
    <3>. HIDE DEF Lines
    <3>. QED BY <1>0, <1>2, <2>1
  <2>3. Line = Chained(Len(sink) + 1)
    <3>1. (Len(sink) + 1) - 1 = Len(sink)
          /\ (IF Len(sink) + 1 = 1 THEN Genesis ELSE Hash(Len(sink) + 1 - 2)) = Len(sink)
      BY <1>0 DEF Genesis, Hash
    <3>. QED BY <1>1, <3>1
  <2>4. ASSUME NEW i \in 1 .. (Len(sink) + 1)
        PROVE  Append(output, Line)[i] = Chained(i)
    <3>1. i \in 1 .. Len(sink) \/ i = Len(sink) + 1
      BY <1>0
    <3>. HIDE DEF Chained
    <3>. QED BY <1>0, <2>2, <2>3, <3>1
  <2>. QED BY <2>2, <2>4
<1>. HIDE DEF Lines, Chained
<1>3. CASE Quiet
  <2>1. sink' = sink
    BY <1>3 DEF Quiet
  <2>2. CASE writer' = writer /\ output' = output
    BY <1>0, <2>1, <2>2 DEF Writing, OutputIsAChain, Lines, Chained
  <2>3. CASE Refuses
    BY <1>0, <2>1, <2>3 DEF Refuses, Writing, OutputIsAChain, Lines, Chained
  <2>4. CASE writer = "late" /\ writer' = "stopped" /\ output' \in {output, Append(output, Line)}
    <3>1. /\ output' \in Seq(Lines) /\ Len(output') \in Len(sink) .. Len(sink) + 1
          /\ \A i \in DOMAIN output' : output'[i] = Chained(i)
      BY <1>0, <1>2, <2>4
    <3>. QED BY <2>1, <2>4, <3>1 DEF Writing, OutputIsAChain, Lines, Chained
  <2>. QED BY <1>3, <2>2, <2>3, <2>4 DEF Quiet
<1>4. ASSUME NEW s \in Content, Crosses(s)
      PROVE  Writing'
  <2>1. writer = "serving" /\ output' = Append(output, Line)
    BY <1>4 DEF Crosses
  <2>2. Len(sink') = Len(sink) + 1
    BY <1>4, LogGrows
  <2>3. /\ output' \in Seq(Lines) /\ Len(output') = Len(sink')
        /\ \A i \in DOMAIN output' : output'[i] = Chained(i)
    BY <1>0, <1>2, <2>1, <2>2
  <2>4. Len(output') \in Len(sink') .. Len(sink') + 1
    BY <1>0, <2>2, <2>3
  <2>. QED BY <2>3, <2>4 DEF Writing, OutputIsAChain, Lines, Chained
<1>. QED BY <1>3, <1>4, StepKinds

LEMMA LedgerStarts ==
    ASSUME Init
    PROVE  LedgerInv
<1>1. sink = <<>> /\ output = <<>> /\ alive = <<>> /\ now = 0 /\ state = New
  BY DEF Init
<1>2. /\ sink \in Seq(Content) /\ Len(sink) = 0 /\ DOMAIN sink = {}
      /\ output \in Seq([sequence : Nat, previous : Nat]) /\ Len(output) = 0 /\ DOMAIN output = {}
      /\ DOMAIN alive = {}
  BY <1>1
<1>3. /\ DOMAIN state = Fields /\ state.entries = <<>> /\ state.digests = <<>> /\ state.retired = 0
      /\ state.total = 0 /\ state.checkpoint = 0
  BY <1>1 DEF New, Fields, Genesis
<1>4. Links(state, sink)
  <2>1. state.entries \in Seq(Held) /\ state.digests \in Seq(Nat) /\ Len(state.entries) = 0 /\ Len(state.digests) = 0
    BY <1>3
  <2>. QED BY <1>3, <2>1 DEF Links
<1>5. Recording
  BY <1>1, <1>2, <1>3, <1>4 DEF Recording
<1>6. Holding /\ Completions /\ Evaluations /\ Writing
  BY <1>2 DEF Holding, Completions, CompletedOnce, Evaluations, EvaluatedOnce, Writing, OutputIsAChain
<1>. QED BY <1>5, <1>6 DEF LedgerInv

LEMMA Chaining == Spec => []LedgerInv
<1>1. LedgerInv /\ [Next]_vars => LedgerInv'
  BY RecordingKept, HoldingKept, CompletionsKept, EvaluationsKept, WritingKept DEF LedgerInv
<1>. QED BY LedgerStarts, <1>1, PTL DEF Spec

-----------------------------------------------------------------------------
(* What follows *)

(* Ledger::verify holds of the record whatever was sealed, retired or refused, and
   what can be read of it is what crossed the recording boundary. *)
THEOREM RecordVerifies == Spec => []ChainVerifies
<1>1. LedgerInv => ChainVerifies
  <2>. SUFFICES ASSUME LedgerInv PROVE ChainVerifies
    OBVIOUS
  <2>0. Links(state, sink) /\ Len(sink) = state.total
    BY DEF LedgerInv, Recording
  <2>1. /\ Len(state.entries) \in Nat /\ state.retired \in Nat
        /\ DOMAIN state.entries = 1 .. Len(state.entries) /\ DOMAIN state.digests = 1 .. Len(state.entries)
    BY <2>0, LenProperties DEF Links
  <2>2. ASSUME NEW i \in 1 .. Len(state.entries)
        PROVE  /\ state.entries[i].sequence = state.retired + i - 1
               /\ state.entries[i].previous
                    = IF i = 1 THEN state.checkpoint ELSE state.entries[i - 1].digest
               /\ i \in DOMAIN state.digests /\ state.digests[i] = state.entries[i].digest
               /\ state.entries[i].digest = Hash(state.entries[i].sequence)
               /\ Intact(state.entries[i]) =>
                    state.entries[i].entry.says = sink[state.entries[i].sequence + 1]
    <3>1. /\ state.entries[i].sequence = state.retired + i - 1
          /\ state.entries[i].previous = state.retired + i - 1
          /\ state.entries[i].digest = state.retired + i
          /\ state.digests[i] = state.retired + i
          /\ Intact(state.entries[i]) => state.entries[i].entry.says = sink[state.retired + i]
      BY <2>0 DEF Links
    <3>2. state.retired + i - 1 + 1 = state.retired + i
      BY <2>1
    <3>3. state.entries[i].previous = IF i = 1 THEN state.checkpoint ELSE state.entries[i - 1].digest
      <4>1. CASE i = 1
        BY <2>0, <2>1, <3>1, <4>1 DEF Links
      <4>2. CASE i # 1
        <5>1. i - 1 \in 1 .. Len(state.entries) /\ state.retired + (i - 1) = state.retired + i - 1
          BY <2>1, <4>2
        <5>2. state.entries[i - 1].digest = state.retired + (i - 1)
          BY <2>0, <5>1 DEF Links
        <5>. QED BY <3>1, <4>2, <5>1, <5>2
      <4>. QED BY <4>1, <4>2
    <3>. QED BY <2>1, <3>1, <3>2, <3>3 DEF Hash
  <2>3. ASSUME NEW limit \in 0 .. Len(state.entries)
        PROVE  Verifies(limit)
    <3>1. \A i \in (Less(Len(state.entries), limit) + 1) .. Len(state.entries) : i \in 1 .. Len(state.entries)
      BY <2>1 DEF Less
    <3>2. state.retired + Len(state.entries) = state.total /\ Len(state.digests) = Len(state.entries)
      BY <2>0 DEF Links
    <3>. QED BY <2>2, <3>1, <3>2 DEF Verifies
  <2>. QED BY <2>0, <2>1, <2>2, <2>3 DEF ChainVerifies, Window
<1>. QED BY <1>1, Chaining, PTL

(* Proof: whoever holds an authorization, or a request for approval, is recognised,
   whatever retention has done to its entry. *)
THEOREM HeldAuthorityStands == Spec => []AuthorityKeepsItsDecision
<1>1. LedgerInv => AuthorityKeepsItsDecision
  <2>. SUFFICES ASSUME LedgerInv, NEW n \in DOMAIN alive
               PROVE  /\ Authorizes(n) => ThisRecordsDecision(n)
                      /\ sink[n + 1].event = "held" => ThisDeliberation(n)
    BY DEF AuthorityKeepsItsDecision
  <2>1. Links(state, sink) /\ n \in Nat /\ Active(state, n)
    BY DEF LedgerInv, Recording, Holding, Active
  <2>2. ASSUME Holds(state, n)
        PROVE  /\ Get(state, n).digest = Hash(n)
               /\ Intact(Get(state, n)) => Get(state, n).entry.says = sink[n + 1]
    <3>. DEFINE i == n - state.retired + 1
    <3>1. Len(state.entries) \in Nat /\ state.retired \in Nat
      BY <2>1, LenProperties DEF Links
    <3>2. i \in 1 .. Len(state.entries) /\ state.retired + i = n + 1
      BY <2>1, <2>2, <3>1 DEF Holds
    <3>3. Get(state, n) = state.entries[i]
      BY DEF Get
    <3>. HIDE DEF i
    <3>. QED BY <2>1, <3>2, <3>3 DEF Links, Hash
  <2>. QED BY <2>1, <2>2 DEF ThisRecordsDecision, ThisDeliberation, Authorizes
<1>. QED BY <1>1, Chaining, PTL

(* record_outcome: an authorization has one completion, and is marked exactly when the
   record has it. *)
THEOREM OneCompletion == Spec => []CompletedOnce
<1>1. LedgerInv => CompletedOnce
  BY DEF LedgerInv, Completions
<1>. QED BY <1>1, Chaining, PTL

(* record_evaluation: a name and a decision are used once, also after retention took
   the evaluation away. *)
THEOREM OneEvaluation == Spec => []EvaluatedOnce
<1>1. LedgerInv => EvaluatedOnce
  BY DEF LedgerInv, Evaluations
<1>. QED BY <1>1, Chaining, PTL

(* shipped.rs: the lines that land are one chain, the late one at its end. *)
THEOREM LateLineIsTerminal == Spec => []OutputIsAChain
<1>1. LedgerInv => OutputIsAChain
  BY DEF LedgerInv, Writing
<1>. QED BY <1>1, Chaining, PTL

-----------------------------------------------------------------------------
(* Sums over sizes *)

LEMMA LeastIsThere ==
    ASSUME NEW T \in SUBSET Nat, T # {}
    PROVE  \E x \in T : \A y \in T : x <= y
<1>1. \E x \in T : \A y \in T : ~(<<y, x>> \in OpToRel(<, Nat))
  BY NatLessThanWellFounded, WFMin, Zenon
<1>2. PICK x \in T : \A y \in T : ~(<<y, x>> \in OpToRel(<, Nat))
  BY <1>1
<1>3. ASSUME NEW y \in T, y < x PROVE <<y, x>> \in OpToRel(<, Nat)
  <2>1. <<y, x>> \in Nat \X Nat /\ <<y, x>>[1] = y /\ <<y, x>>[2] = x
    OBVIOUS
  <2>. QED BY <1>3, <2>1, Zenon DEF OpToRel
<1>4. \A y \in T : ~(y < x)
  BY <1>2, <1>3, Zenon
<1>. QED BY <1>4

(* What holds of 0 and of the successor of whatever it holds of, up to n. *)
LEMMA StepByStep ==
    ASSUME NEW n \in Nat, NEW T, 0 \in T, \A i \in Nat : i < n /\ i \in T => i + 1 \in T
    PROVE  \A i \in 0 .. n : i \in T
<1>. DEFINE Missing == {i \in 0 .. n : i \notin T}
<1>1. SUFFICES ASSUME Missing # {} PROVE FALSE
  OBVIOUS
<1>2. PICK x \in Missing : \A y \in Missing : x <= y
  <2>1. Missing \in SUBSET Nat
    OBVIOUS
  <2>. HIDE DEF Missing
  <2>. QED BY <1>1, <2>1, LeastIsThere
<1>3. x \in Nat /\ x # 0 /\ x <= n /\ x \notin T
  BY <1>2
<1>4. x - 1 \in Nat /\ x - 1 < n /\ (x - 1) + 1 = x /\ x - 1 \in 0 .. n /\ ~(x <= x - 1)
  BY <1>3
<1>5. x - 1 \in T
  BY <1>2, <1>4
<1>. QED BY <1>3, <1>4, <1>5

LEMMA SumUnfolds ==
    ASSUME NEW f, NEW I
    PROVE  Sum(f, I) = (CHOOSE g : g = [s \in SUBSET I |->
              IF s = {} THEN 0 ELSE f[CHOOSE x \in s : TRUE] + g[s \ {CHOOSE x \in s : TRUE}]])[I]
BY DEF Sum, FoldFunctionOnSet, MapThenFoldSet

(* The sum of w up to each index. *)
SumsUp(p, w, n) ==
    p \in [0 .. n -> Nat] /\ p[0] = 0 /\ \A i \in 1 .. n : p[i] = p[i - 1] + w[i]

LEMMA SumsUpExist ==
    ASSUME NEW n \in Nat, NEW w, \A i \in 1 .. n : w[i] \in Nat
    PROVE  \E p : SumsUp(p, w, n)
<1>. DEFINE T == {m \in 0 .. n : \E p : SumsUp(p, w, m)}
<1>1. 0 \in T
  <2>1. SumsUp([i \in 0 .. 0 |-> 0], w, 0)
    BY DEF SumsUp
  <2>. QED BY <2>1
<1>2. ASSUME NEW m \in Nat, m < n, m \in T PROVE m + 1 \in T
  <2>1. PICK p : SumsUp(p, w, m)
    BY <1>2
  <2>. DEFINE q == [i \in 0 .. m + 1 |-> IF i = m + 1 THEN p[m] + w[m + 1] ELSE p[i]]
  <2>2. p \in [0 .. m -> Nat] /\ p[0] = 0 /\ \A i \in 1 .. m : p[i] = p[i - 1] + w[i]
    BY <2>1 DEF SumsUp
  <2>3. m + 1 \in 1 .. n /\ w[m + 1] \in Nat /\ p[m] + w[m + 1] \in Nat
    BY <1>2, <2>2
  <2>4. q \in [0 .. m + 1 -> Nat]
    <3>1. \A i \in 0 .. m + 1 : i # m + 1 => i \in 0 .. m
      OBVIOUS
    <3>. QED BY <2>2, <2>3, <3>1
  <2>5. q[0] = 0
    BY <1>2, <2>2
  <2>6. ASSUME NEW i \in 1 .. m + 1 PROVE q[i] = q[i - 1] + w[i]
    <3>1. CASE i = m + 1
      <4>1. i - 1 = m /\ m \in 0 .. m + 1 /\ m # m + 1 /\ i \in 0 .. m + 1
        BY <3>1
      <4>. QED BY <3>1, <4>1
    <3>2. CASE i # m + 1
      <4>1. i \in 1 .. m /\ i - 1 \in 0 .. m + 1 /\ i - 1 # m + 1 /\ i \in 0 .. m + 1
        BY <3>2
      <4>. QED BY <2>2, <3>2, <4>1
    <3>. QED BY <3>1, <3>2
  <2>. HIDE DEF q
  <2>7. SumsUp(q, w, m + 1)
    BY <2>4, <2>5, <2>6 DEF SumsUp
  <2>. QED BY <2>3, <2>7
<1>. HIDE DEF T
<1>3. \A m \in Nat : m < n /\ m \in T => m + 1 \in T
  BY <1>2
<1>4. \A m \in 0 .. n : m \in T
  BY <1>1, <1>3, StepByStep
<1>5. n \in T
  BY <1>4
<1>. QED BY <1>5 DEF T

(* The sum of f over I, as one of the numbers up to n. *)
Part(f, I) == [i \in Nat |-> IF i \in I THEN f[i] ELSE 0]
Total(f, I, n) == (CHOOSE p : SumsUp(p, Part(f, I), n))[n]

LEMMA TotalIs ==
    ASSUME NEW n \in Nat, NEW f, NEW I, \A i \in 1 .. n : f[i] \in Nat
    PROVE  \E p : SumsUp(p, Part(f, I), n) /\ p[n] = Total(f, I, n)
<1>1. \A i \in 1 .. n : Part(f, I)[i] \in Nat
  BY DEF Part
<1>2. \E p : SumsUp(p, Part(f, I), n)
  BY <1>1, SumsUpExist
<1>. QED BY <1>2 DEF Total

LEMMA TotalAdds ==
    ASSUME NEW n \in Nat, NEW f, \A i \in 1 .. n : f[i] \in Nat
    PROVE  /\ Total(f, {}, n) = 0
           /\ \A I \in SUBSET (1 .. n) : Total(f, I, n) \in Nat
           /\ \A I \in SUBSET (1 .. n) : \A x \in I : Total(f, I, n) = f[x] + Total(f, I \ {x}, n)
<1>1. Total(f, {}, n) = 0
  <2>1. PICK p : SumsUp(p, Part(f, {}), n) /\ p[n] = Total(f, {}, n)
    BY TotalIs
  <2>. DEFINE T == {m \in 0 .. n : p[m] = 0}
  <2>2. 0 \in T
    BY <2>1 DEF SumsUp
  <2>3. ASSUME NEW m \in Nat, m < n, m \in T PROVE m + 1 \in T
    <3>1. m + 1 \in 1 .. n /\ (m + 1) - 1 = m /\ Part(f, {})[m + 1] = 0
      BY <2>3 DEF Part
    <3>2. p[m + 1] = p[m] + 0
      BY <2>1, <3>1 DEF SumsUp
    <3>. QED BY <2>3, <3>1, <3>2
  <2>. HIDE DEF T
  <2>5. \A m \in Nat : m < n /\ m \in T => m + 1 \in T
    BY <2>3
  <2>6. \A m \in 0 .. n : m \in T
    BY <2>2, <2>5, StepByStep
  <2>4. n \in T
    BY <2>6
  <2>. QED BY <2>1, <2>4 DEF T
<1>2. ASSUME NEW I \in SUBSET (1 .. n) PROVE Total(f, I, n) \in Nat
  BY TotalIs DEF SumsUp
<1>3. ASSUME NEW I \in SUBSET (1 .. n), NEW x \in I
      PROVE  Total(f, I, n) = f[x] + Total(f, I \ {x}, n)
  <2>1. PICK p : SumsUp(p, Part(f, I), n) /\ p[n] = Total(f, I, n)
    BY TotalIs
  <2>2. PICK q : SumsUp(q, Part(f, I \ {x}), n) /\ q[n] = Total(f, I \ {x}, n)
    BY TotalIs
  <2>. DEFINE T == {m \in 0 .. n : p[m] = IF m < x THEN q[m] ELSE f[x] + q[m]}
  <2>3. x \in 1 .. n /\ x \in Nat /\ f[x] \in Nat
    OBVIOUS
  <2>4. 0 \in T
    BY <2>1, <2>2, <2>3 DEF SumsUp
  <2>5. ASSUME NEW m \in Nat, m < n, m \in T PROVE m + 1 \in T
    <3>1. m + 1 \in 1 .. n /\ (m + 1) - 1 = m /\ m \in 0 .. n /\ m + 1 \in 0 .. n
      BY <2>5
    <3>2. p[m + 1] = p[m] + Part(f, I)[m + 1] /\ q[m + 1] = q[m] + Part(f, I \ {x})[m + 1]
      BY <2>1, <2>2, <3>1 DEF SumsUp
    <3>3. p[m] \in Nat /\ q[m] \in Nat /\ q[m + 1] \in Nat
      BY <2>1, <2>2, <3>1 DEF SumsUp
    <3>4. p[m] = IF m < x THEN q[m] ELSE f[x] + q[m]
      BY <2>5
    <3>5. CASE m + 1 = x
      <4>1. Part(f, I)[m + 1] = f[x] /\ Part(f, I \ {x})[m + 1] = 0
        BY <3>5 DEF Part
      <4>. QED BY <2>3, <3>1, <3>2, <3>3, <3>4, <3>5, <4>1
    <3>6. CASE m + 1 # x
      <4>1. Part(f, I)[m + 1] = Part(f, I \ {x})[m + 1] /\ Part(f, I)[m + 1] \in Nat
        BY <3>1, <3>6 DEF Part
      <4>2. m < x <=> m + 1 < x
        BY <2>3, <3>6
      <4>. QED BY <2>3, <3>1, <3>2, <3>3, <3>4, <4>1, <4>2
    <3>. QED BY <3>5, <3>6
  <2>. HIDE DEF T
  <2>8. \A m \in Nat : m < n /\ m \in T => m + 1 \in T
    BY <2>5
  <2>9. \A m \in 0 .. n : m \in T
    BY <2>4, <2>8, StepByStep
  <2>6. n \in T
    BY <2>9
  <2>7. ~(n < x)
    BY <2>3
  <2>. QED BY <2>1, <2>2, <2>6, <2>7 DEF T
<1>. QED BY <1>1, <1>2, <1>3

LEMMA SumIs ==
    ASSUME NEW n \in Nat, NEW f, \A i \in 1 .. n : f[i] \in Nat, NEW I \in SUBSET (1 .. n)
    PROVE  Sum(f, I) = Total(f, I, n)
<1>. DEFINE Any(s) == CHOOSE x \in s : TRUE
            Goes(g) == g = [s \in SUBSET I |-> IF s = {} THEN 0 ELSE f[Any(s)] + g[s \ {Any(s)}]]
            h == [s \in SUBSET I |-> Total(f, s, n)]
            g == CHOOSE k : Goes(k)
<1>1. \A s \in SUBSET I : s # {} => Any(s) \in s /\ s \ {Any(s)} \in SUBSET I
  OBVIOUS
<1>. HIDE DEF Any
<1>2. Goes(h)
  <2>1. \A s \in SUBSET I : h[s] = IF s = {} THEN 0 ELSE f[Any(s)] + h[s \ {Any(s)}]
    <3>1. ASSUME NEW s \in SUBSET I PROVE h[s] = IF s = {} THEN 0 ELSE f[Any(s)] + h[s \ {Any(s)}]
      <4>1. CASE s = {}
        BY <4>1, TotalAdds
      <4>2. CASE s # {}
        <5>1. Any(s) \in s /\ s \ {Any(s)} \in SUBSET I /\ s \in SUBSET (1 .. n)
          BY <1>1, <4>2
        <5>2. Total(f, s, n) = f[Any(s)] + Total(f, s \ {Any(s)}, n)
          BY <5>1, TotalAdds
        <5>. QED BY <4>2, <5>1, <5>2
      <4>. QED BY <4>1, <4>2
    <3>. QED BY <3>1
  <2>2. h = [s \in SUBSET I |-> h[s]]
    OBVIOUS
  <2>. HIDE DEF h
  <2>3. [s \in SUBSET I |-> h[s]] = [s \in SUBSET I |-> IF s = {} THEN 0 ELSE f[Any(s)] + h[s \ {Any(s)}]]
    BY <2>1
  <2>. QED BY <2>2, <2>3
<1>3. Sum(f, I) = g[I]
  BY SumUnfolds, Zenon DEF Any
<1>4. Goes(g)
  <2>. HIDE DEF Goes, h
  <2>. QED BY <1>2
<1>. HIDE DEF g
<1>5. \A s \in SUBSET I : g[s] = IF s = {} THEN 0 ELSE f[Any(s)] + g[s \ {Any(s)}]
  BY <1>4, Zenon
<1>6. \A s \in SUBSET I : IsFiniteSet(s) /\ Cardinality(s) \in 0 .. n
  <2>1. IsFiniteSet(1 .. n) /\ Cardinality(1 .. n) = n
    BY FS_Interval
  <2>2. ASSUME NEW s \in SUBSET I PROVE IsFiniteSet(s) /\ Cardinality(s) \in 0 .. n
    <3>1. s \in SUBSET (1 .. n)
      OBVIOUS
    <3>2. IsFiniteSet(s) /\ Cardinality(s) <= Cardinality(1 .. n)
      BY <2>1, <3>1, FS_Subset
    <3>3. Cardinality(s) \in Nat
      BY <3>2, FS_CardinalityType
    <3>. QED BY <2>1, <3>2, <3>3
  <2>. QED BY <2>2
<1>. DEFINE UpTo(m) == \A s \in SUBSET I : Cardinality(s) <= m => g[s] = h[s]
            T == {m \in 0 .. n : UpTo(m)}
<1>7. \A s \in SUBSET I : Cardinality(s) <= 0 => s = {}
  BY <1>6, FS_EmptySet
<1>8. g[{}] = h[{}]
  <2>1. {} \in SUBSET I
    OBVIOUS
  <2>2. g[{}] = 0
    BY <1>5, <2>1
  <2>3. h[{}] = 0
    BY <2>1, TotalAdds
  <2>. QED BY <2>2, <2>3
<1>9. 0 \in T
  <2>1. UpTo(0)
    BY <1>7, <1>8
  <2>. HIDE DEF UpTo
  <2>. QED BY <2>1
<1>10. ASSUME NEW m \in Nat, m < n, m \in T PROVE m + 1 \in T
  <2>1. ASSUME NEW s \in SUBSET I, Cardinality(s) <= m + 1, s # {} PROVE g[s] = h[s]
    <3>1. Any(s) \in s /\ s \ {Any(s)} \in SUBSET I
      BY <1>1, <2>1
    <3>2. Cardinality(s \ {Any(s)}) = Cardinality(s) - 1
      BY <1>6, <3>1, FS_RemoveElement
    <3>3. Cardinality(s \ {Any(s)}) <= m
      BY <1>6, <2>1, <3>2
    <3>4. g[s \ {Any(s)}] = h[s \ {Any(s)}]
      BY <1>10, <3>1, <3>3
    <3>5. h[s] = f[Any(s)] + h[s \ {Any(s)}]
      <4>1. s \in SUBSET (1 .. n)
        OBVIOUS
      <4>2. Total(f, s, n) = f[Any(s)] + Total(f, s \ {Any(s)}, n)
        BY <3>1, <4>1, TotalAdds
      <4>. QED BY <3>1, <4>2
    <3>6. g[s] = f[Any(s)] + g[s \ {Any(s)}]
      BY <1>5, <2>1
    <3>. QED BY <3>4, <3>5, <3>6
  <2>2. UpTo(m + 1)
    BY <1>8, <2>1
  <2>. HIDE DEF UpTo
  <2>. QED BY <1>10, <2>2
<1>. HIDE DEF T, h
<1>14. \A m \in Nat : m < n /\ m \in T => m + 1 \in T
  BY <1>10
<1>15. \A m \in 0 .. n : m \in T
  BY <1>9, <1>14, StepByStep
<1>11. n \in T
  BY <1>15
<1>12. Cardinality(I) <= n
  BY <1>6
<1>13. g[I] = h[I]
  BY <1>11, <1>12 DEF T
<1>. QED BY <1>3, <1>13 DEF h

(* A sum, index by index. *)
Amounts(f, n) == n \in Nat /\ \A i \in 1 .. n : f[i] \in Nat

LEMMA SumStep ==
    ASSUME NEW n, NEW f, Amounts(f, n), NEW I \in SUBSET (1 .. n)
    PROVE  /\ Sum(f, I) \in Nat
           /\ \A x \in I : Sum(f, I) = f[x] + Sum(f, I \ {x})
<1>. USE DEF Amounts
<1>1. Sum(f, I) = Total(f, I, n) /\ Total(f, I, n) \in Nat
  BY SumIs, TotalAdds
<1>2. ASSUME NEW x \in I PROVE Sum(f, I) = f[x] + Sum(f, I \ {x})
  <2>1. I \ {x} \in SUBSET (1 .. n)
    OBVIOUS
  <2>2. Sum(f, I \ {x}) = Total(f, I \ {x}, n)
    BY <2>1, SumIs
  <2>3. Total(f, I, n) = f[x] + Total(f, I \ {x}, n)
    BY TotalAdds
  <2>. QED BY <1>1, <2>2, <2>3
<1>. QED BY <1>1, <1>2

LEMMA SumFirst ==
    ASSUME NEW n \in Nat, NEW f, \A i \in 1 .. n : f[i] \in Nat
    PROVE  /\ Sum(f, {}) = 0
           /\ \A m \in 0 .. n : Sum(f, 1 .. m) \in Nat
           /\ \A m \in 0 .. n : m < n => Sum(f, 1 .. m + 1) = Sum(f, 1 .. m) + f[m + 1]
<1>1. Sum(f, {}) = 0
  <2>1. {} \in SUBSET (1 .. n)
    OBVIOUS
  <2>2. Sum(f, {}) = Total(f, {}, n)
    BY <2>1, SumIs
  <2>. QED BY <2>2, TotalAdds
<1>2. ASSUME NEW m \in 0 .. n PROVE Sum(f, 1 .. m) \in Nat
  <2>1. 1 .. m \in SUBSET (1 .. n)
    OBVIOUS
  <2>. QED BY <2>1, SumStep DEF Amounts
<1>3. ASSUME NEW m \in 0 .. n, m < n PROVE Sum(f, 1 .. m + 1) = Sum(f, 1 .. m) + f[m + 1]
  <2>. DEFINE x == m + 1
              I == 1 .. x
  <2>1. I \in SUBSET (1 .. n) /\ x \in I /\ x \in 1 .. n
    BY <1>3
  <2>2. I \ {x} = 1 .. m
    OBVIOUS
  <2>3. Sum(f, 1 .. m) \in Nat /\ f[x] \in Nat
    BY <1>2, <2>1
  <2>. HIDE DEF I, x
  <2>4. Sum(f, I) = f[x] + Sum(f, I \ {x})
    <3>1. Amounts(f, n)
      BY DEF Amounts
    <3>2. \A y \in I : Sum(f, I) = f[y] + Sum(f, I \ {y})
      BY <2>1, <3>1, SumStep
    <3>. QED BY <2>1, <3>2
  <2>5. Sum(f, I) = Sum(f, 1 .. m) + f[x]
    <3>1. Sum(f, I) = f[x] + Sum(f, 1 .. m)
      BY <2>2, <2>4, Zenon
    <3>. QED BY <2>3, <3>1
  <2>. QED BY <2>5 DEF I, x
<1>. QED BY <1>1, <1>2, <1>3

(* What is added at the end is added to the sum. *)
LEMMA SumAppended ==
    ASSUME NEW n \in Nat, NEW f, NEW g, \A i \in 1 .. n : f[i] \in Nat /\ g[i] = f[i], g[n + 1] \in Nat
    PROVE  Sum(g, 1 .. n + 1) = Sum(f, 1 .. n) + g[n + 1]
<1>1. \A i \in 1 .. n + 1 : g[i] \in Nat
  <2>1. \A i \in 1 .. n + 1 : i \in 1 .. n \/ i = n + 1
    OBVIOUS
  <2>. QED BY <2>1
<1>2. n + 1 \in Nat /\ n < n + 1 /\ \A m \in 0 .. n : m \in 0 .. n + 1 /\ m < n + 1
  OBVIOUS
<1>3. \A m \in 0 .. n : Sum(g, 1 .. m + 1) = Sum(g, 1 .. m) + g[m + 1]
  BY <1>1, <1>2, SumFirst
<1>4. \A m \in 0 .. n : m < n => Sum(f, 1 .. m + 1) = Sum(f, 1 .. m) + f[m + 1]
  BY SumFirst
<1>. DEFINE Agrees(m) == Sum(g, 1 .. m) = Sum(f, 1 .. m)
            T == {m \in 0 .. n : Agrees(m)}
<1>5. Agrees(0)
  <2>1. 1 .. 0 = {}
    OBVIOUS
  <2>2. Sum(f, {}) = 0 /\ Sum(g, {}) = 0
    BY <1>1, <1>2, SumFirst
  <2>. QED BY <2>1, <2>2
<1>6. ASSUME NEW m \in Nat, m < n, Agrees(m) PROVE Agrees(m + 1)
  <2>1. m \in 0 .. n /\ m + 1 \in 1 .. n
    BY <1>6
  <2>. QED BY <1>3, <1>4, <1>6, <2>1
<1>. HIDE DEF Agrees
<1>7. 0 \in T /\ \A m \in Nat : m < n /\ m \in T => m + 1 \in T
  BY <1>5, <1>6
<1>. HIDE DEF T
<1>8. \A m \in 0 .. n : m \in T
  BY <1>7, StepByStep
<1>9. n \in 0 .. n
  OBVIOUS
<1>10. Agrees(n)
  BY <1>8, <1>9 DEF T
<1>. QED BY <1>3, <1>9, <1>10 DEF Agrees

(* What is taken away in front is taken from the sum. *)
LEMMA SumShifted ==
    ASSUME NEW n \in Nat, NEW k \in 0 .. n, NEW f, NEW g, \A i \in 1 .. n : f[i] \in Nat,
           \A i \in 1 .. n - k : g[i] = f[i + k]
    PROVE  Sum(f, 1 .. n) = Sum(f, 1 .. k) + Sum(g, 1 .. n - k)
<1>1. n - k \in Nat /\ \A i \in 1 .. n - k : i + k \in 1 .. n /\ g[i] \in Nat
  <2>1. n - k \in Nat /\ \A i \in 1 .. n - k : i + k \in 1 .. n
    OBVIOUS
  <2>. QED BY <2>1
<1>2. \A m \in 0 .. n : m < n => Sum(f, 1 .. m + 1) = Sum(f, 1 .. m) + f[m + 1]
  BY SumFirst
<1>3. \A m \in 0 .. n - k : m < n - k => Sum(g, 1 .. m + 1) = Sum(g, 1 .. m) + g[m + 1]
  BY <1>1, SumFirst
<1>4. (\A m \in 0 .. n : Sum(f, 1 .. m) \in Nat) /\ (\A m \in 0 .. n - k : Sum(g, 1 .. m) \in Nat)
  BY <1>1, SumFirst
<1>. DEFINE Adds(m) == Sum(f, 1 .. k + m) = Sum(f, 1 .. k) + Sum(g, 1 .. m)
            T == {m \in 0 .. n - k : Adds(m)}
<1>5. Adds(0)
  <2>1. 1 .. 0 = {} /\ k + 0 = k
    OBVIOUS
  <2>2. Sum(g, {}) = 0 /\ Sum(f, 1 .. k) \in Nat
    BY <1>1, <1>4, SumFirst
  <2>. QED BY <2>1, <2>2
<1>6. ASSUME NEW m \in Nat, m < n - k, Adds(m) PROVE Adds(m + 1)
  <2>1. m \in 0 .. n - k /\ k + m \in 0 .. n /\ k + m < n /\ k + (m + 1) = (k + m) + 1 /\ m + 1 \in 1 .. n - k
        /\ (m + 1) + k = (k + m) + 1
    BY <1>6
  <2>2. g[m + 1] = f[(k + m) + 1] /\ g[m + 1] \in Nat
    BY <1>1, <2>1
  <2>3. Sum(f, 1 .. (k + m) + 1) = Sum(f, 1 .. k + m) + f[(k + m) + 1]
    BY <1>2, <2>1
  <2>4. Sum(g, 1 .. m + 1) = Sum(g, 1 .. m) + g[m + 1]
    BY <1>3, <1>6, <2>1
  <2>5. Sum(f, 1 .. k) \in Nat /\ Sum(g, 1 .. m) \in Nat
    BY <1>4, <2>1
  <2>6. Sum(f, 1 .. k + m) = Sum(f, 1 .. k) + Sum(g, 1 .. m)
    BY <1>6
  <2>7. Sum(f, 1 .. k + (m + 1)) = (Sum(f, 1 .. k) + Sum(g, 1 .. m)) + g[m + 1]
    BY <2>1, <2>2, <2>3, <2>6
  <2>. QED BY <2>2, <2>4, <2>5, <2>7
<1>. HIDE DEF Adds
<1>7. 0 \in T /\ \A m \in Nat : m < n - k /\ m \in T => m + 1 \in T
  BY <1>1, <1>5, <1>6
<1>. HIDE DEF T
<1>8. \A m \in 0 .. n - k : m \in T
  BY <1>1, <1>7, StepByStep
<1>9. n - k \in 0 .. n - k /\ k + (n - k) = n
  BY <1>1
<1>10. Adds(n - k)
  BY <1>8, <1>9 DEF T
<1>. QED BY <1>9, <1>10 DEF Adds

(* What is set to nothing is taken from the sum. *)
LEMMA SumCleared ==
    ASSUME NEW n \in Nat, NEW I \in SUBSET (1 .. n), NEW f, NEW g, \A i \in 1 .. n : f[i] \in Nat,
           \A i \in 1 .. n : g[i] = IF i \in I THEN 0 ELSE f[i]
    PROVE  Sum(f, 1 .. n) = Sum(f, I) + Sum(g, 1 .. n)
<1>1. \A i \in 1 .. n : g[i] \in Nat
  OBVIOUS
<1>2. \A m \in 0 .. n : m < n => Sum(f, 1 .. m + 1) = Sum(f, 1 .. m) + f[m + 1]
  BY SumFirst
<1>3. \A m \in 0 .. n : m < n => Sum(g, 1 .. m + 1) = Sum(g, 1 .. m) + g[m + 1]
  BY <1>1, SumFirst
<1>4. (\A m \in 0 .. n : Sum(f, 1 .. m) \in Nat) /\ (\A m \in 0 .. n : Sum(g, 1 .. m) \in Nat)
  BY <1>1, SumFirst
<1>5. \A m \in 0 .. n : I \cap (1 .. m) \in SUBSET (1 .. n)
  OBVIOUS
<1>. DEFINE Up(m) == I \cap (1 .. m)
<1>6. ASSUME NEW m \in 0 .. n
      PROVE  Sum(f, Up(m)) \in Nat /\ \A x \in Up(m) : Sum(f, Up(m)) = f[x] + Sum(f, Up(m) \ {x})
  <2>. DEFINE J == Up(m)
  <2>1. J \in SUBSET (1 .. n)
    BY <1>5
  <2>. HIDE DEF J
  <2>2. Sum(f, J) \in Nat /\ \A x \in J : Sum(f, J) = f[x] + Sum(f, J \ {x})
    <3>1. Amounts(f, n)
      BY DEF Amounts
    <3>. QED BY <2>1, <3>1, SumStep
  <2>. QED BY <2>2 DEF J
<1>. DEFINE Adds(m) == Sum(f, 1 .. m) = Sum(f, Up(m)) + Sum(g, 1 .. m)
            T == {m \in 0 .. n : Adds(m)}
<1>7. Adds(0)
  <2>1. 1 .. 0 = {} /\ Up(0) = {}
    OBVIOUS
  <2>2. Sum(g, {}) = 0 /\ Sum(f, {}) = 0
    BY <1>1, SumFirst
  <2>. HIDE DEF Up
  <2>. QED BY <2>1, <2>2
<1>8. ASSUME NEW m \in Nat, m < n, Adds(m) PROVE Adds(m + 1)
  <2>1. m \in 0 .. n /\ m + 1 \in 0 .. n /\ m + 1 \in 1 .. n
    BY <1>8
  <2>2. /\ Sum(f, 1 .. m + 1) = Sum(f, 1 .. m) + f[m + 1]
        /\ Sum(g, 1 .. m + 1) = Sum(g, 1 .. m) + g[m + 1]
    BY <1>2, <1>3, <1>8, <2>1
  <2>3. f[m + 1] \in Nat /\ Sum(f, Up(m)) \in Nat /\ Sum(g, 1 .. m) \in Nat
    <3>. HIDE DEF Up
    <3>. QED BY <1>4, <1>6, <2>1
  <2>4. Sum(f, 1 .. m) = Sum(f, Up(m)) + Sum(g, 1 .. m)
    BY <1>8
  <2>5. CASE m + 1 \in I
    <3>1. m + 1 \in Up(m + 1) /\ Up(m + 1) \ {m + 1} = Up(m)
      BY <2>1, <2>5
    <3>4. g[m + 1] = 0
      BY <2>1, <2>5
    <3>. HIDE DEF Up
    <3>2. Sum(f, Up(m + 1)) = f[m + 1] + Sum(f, Up(m + 1) \ {m + 1})
      BY <1>6, <2>1, <3>1
    <3>3. Sum(f, Up(m + 1)) = f[m + 1] + Sum(f, Up(m))
      BY <3>1, <3>2, Zenon
    <3>. QED BY <2>2, <2>3, <2>4, <3>3, <3>4
  <2>6. CASE m + 1 \notin I
    <3>1. Up(m + 1) = Up(m)
      BY <2>1, <2>6
    <3>2. g[m + 1] = f[m + 1]
      BY <2>1, <2>6
    <3>. HIDE DEF Up
    <3>. QED BY <2>2, <2>3, <2>4, <3>1, <3>2
  <2>. QED BY <2>5, <2>6
<1>. HIDE DEF Adds
<1>9. 0 \in T /\ \A m \in Nat : m < n /\ m \in T => m + 1 \in T
  BY <1>7, <1>8
<1>. HIDE DEF T
<1>10. \A m \in 0 .. n : m \in T
  BY <1>9, StepByStep
<1>11. n \in 0 .. n /\ Up(n) = I
  <2>1. \A i : i \in Up(n) <=> i \in I
    OBVIOUS
  <2>2. Up(n) = I
    BY <2>1
  <2>. HIDE DEF Up
  <2>. QED BY <2>2
<1>. HIDE DEF Up
<1>12. Adds(n)
  BY <1>10, <1>11 DEF T
<1>. QED BY <1>11, <1>12 DEF Adds

-----------------------------------------------------------------------------
(* The budget of what can be read *)

(* Every entry of the window is charged for what can be read of it, and the budget for
   their sum. *)
Sized(st) ==
    /\ st.sizes \in Seq(Nat) /\ Len(st.sizes) = Len(st.entries)
    /\ \A i \in 1 .. Len(st.entries) :
        st.sizes[i] = IF Intact(st.entries[i]) THEN st.entries[i].entry.bytes ELSE 0
    /\ st.readable_bytes = Sum(st.sizes, 1 .. Len(st.entries))
    /\ st.readable_bytes <= ReadableBytes
    /\ Len(st.entries) <= EntriesLimit

(* What the sizes of a window come to. *)
LEMMA SizesAdd ==
    ASSUME NEW st, NEW log, Links(st, log), Sized(st)
    PROVE  /\ Len(st.entries) \in Nat /\ DOMAIN st.entries = 1 .. Len(st.entries)
           /\ DOMAIN st.sizes = 1 .. Len(st.entries)
           /\ Amounts(st.sizes, Len(st.entries))
           /\ st.readable_bytes \in Nat
           /\ ReadableBytes \in Nat
<1>1. Len(st.entries) \in Nat /\ DOMAIN st.entries = 1 .. Len(st.entries)
  BY LenProperties DEF Links
<1>2. DOMAIN st.sizes = 1 .. Len(st.entries) /\ \A i \in 1 .. Len(st.entries) : st.sizes[i] \in Nat
  BY LenProperties, ElementOfSeq DEF Sized
<1>3. Amounts(st.sizes, Len(st.entries))
  BY <1>1, <1>2 DEF Amounts
<1>. DEFINE all == 1 .. Len(st.entries)
<1>4. all \in SUBSET (1 .. Len(st.entries))
  OBVIOUS
<1>. HIDE DEF all
<1>5. Sum(st.sizes, all) \in Nat
  BY <1>3, <1>4, SumStep
<1>. QED BY <1>1, <1>2, <1>3, <1>5, LedgerAssumption DEF Sized, all

LEMMA SealSized ==
    ASSUME NEW st, NEW log, Links(st, log), Sized(st), NEW I \in SUBSET (1 .. Len(st.entries))
    PROVE  /\ Sized(Seal(st, I))
           /\ Sum(st.sizes, I) \in Nat /\ Sum(st.sizes, I) <= st.readable_bytes
           /\ Seal(st, I).readable_bytes = st.readable_bytes - Sum(st.sizes, I)
           /\ Len(Seal(st, I).entries) = Len(st.entries)
<1>. DEFINE new == Seal(st, I)
            n == Len(st.entries)
<1>1. /\ n \in Nat /\ DOMAIN st.entries = 1 .. n /\ DOMAIN st.sizes = 1 .. n
      /\ Amounts(st.sizes, n) /\ st.readable_bytes \in Nat /\ ReadableBytes \in Nat
  BY SizesAdd
<1>2. /\ new.entries = [i \in 1 .. n |-> IF i \in I THEN [st.entries[i] EXCEPT !.entry = None]
                                                   ELSE st.entries[i]]
      /\ new.sizes = [i \in 1 .. n |-> IF i \in I THEN 0 ELSE st.sizes[i]]
      /\ new.readable_bytes = Less(st.readable_bytes, Sum(st.sizes, I))
  BY <1>1 DEF Links, Fields, Seal, Window
<1>3. Links(new, log)
  BY SealLinks
<1>. HIDE DEF new
<1>4. Len(new.entries) = n
  <2>1. Len(new.entries) \in Nat /\ DOMAIN new.entries = 1 .. Len(new.entries)
    BY <1>3, LenProperties DEF Links
  <2>2. DOMAIN new.entries = 1 .. n
    BY <1>2
  <2>. HIDE DEF n
  <2>. QED BY <1>1, <2>1, <2>2
<1>5. new.sizes \in Seq(Nat) /\ Len(new.sizes) = n
  <2>1. new.sizes \in [1 .. n -> Nat]
    BY <1>1, <1>2 DEF Amounts
  <2>. HIDE DEF n
  <2>. QED BY <1>1, <2>1, FunctionIsSeq
<1>6. ASSUME NEW i \in 1 .. n
      PROVE  new.sizes[i] = IF Intact(new.entries[i]) THEN new.entries[i].entry.bytes ELSE 0
  <2>1. st.entries[i] \in Held
    BY <1>1, ElementOfSeq DEF Links
  <2>2. st.sizes[i] = IF Intact(st.entries[i]) THEN st.entries[i].entry.bytes ELSE 0
    BY DEF Sized
  <2>3. CASE i \in I
    <3>1. new.sizes[i] = 0 /\ new.entries[i] = [st.entries[i] EXCEPT !.entry = None]
      BY <1>2, <2>3
    <3>2. new.entries[i].entry = None
      BY <2>1, <3>1 DEF Held
    <3>. QED BY <3>1, <3>2 DEF Intact
  <2>4. CASE i \notin I
    <3>1. new.sizes[i] = st.sizes[i] /\ new.entries[i] = st.entries[i]
      BY <1>2, <2>4
    <3>. QED BY <2>2, <3>1
  <2>. QED BY <2>3, <2>4
<1>7. Sum(st.sizes, I) \in Nat
  <2>. HIDE DEF n
  <2>1. I \in SUBSET (1 .. n)
    BY DEF n
  <2>. QED BY <1>1, <2>1, SumStep
<1>8. Sum(new.sizes, 1 .. n) \in Nat
  <2>1. new.sizes \in [1 .. n -> Nat]
    BY <1>1, <1>2 DEF Amounts
  <2>2. Amounts(new.sizes, n)
    BY <1>1, <2>1 DEF Amounts
  <2>. DEFINE all == 1 .. n
  <2>3. all \in SUBSET (1 .. n)
    OBVIOUS
  <2>. HIDE DEF all, n
  <2>4. Sum(new.sizes, all) \in Nat
    BY <2>2, <2>3, SumStep
  <2>. QED BY <2>4 DEF all
<1>9. st.readable_bytes = Sum(st.sizes, I) + Sum(new.sizes, 1 .. n)
  <2>1. \A i \in 1 .. n : st.sizes[i] \in Nat
    BY <1>1 DEF Amounts
  <2>2. \A i \in 1 .. n : new.sizes[i] = IF i \in I THEN 0 ELSE st.sizes[i]
    BY <1>2
  <2>3. st.readable_bytes = Sum(st.sizes, 1 .. n)
    BY DEF Sized
  <2>4. I \in SUBSET (1 .. n)
    OBVIOUS
  <2>. HIDE DEF n
  <2>. QED BY <1>1, <2>1, <2>2, <2>3, <2>4, SumCleared
<1>10. new.readable_bytes = st.readable_bytes - Sum(st.sizes, I) /\ Sum(st.sizes, I) <= st.readable_bytes
  BY <1>1, <1>2, <1>7, <1>8, <1>9 DEF Less
<1>11. new.readable_bytes = Sum(new.sizes, 1 .. n)
  BY <1>7, <1>8, <1>9, <1>10
<1>12. Sized(new)
  <2>1. st.readable_bytes <= ReadableBytes /\ n <= EntriesLimit
    BY DEF Sized
  <2>2. new.readable_bytes <= ReadableBytes
    BY <1>1, <1>7, <1>10, <2>1
  <2>. HIDE DEF n
  <2>. QED BY <1>4, <1>5, <1>6, <1>11, <2>1, <2>2 DEF Sized
<1>. QED BY <1>4, <1>7, <1>10, <1>12 DEF new

LEMMA RetireSized ==
    ASSUME NEW st, NEW log, Links(st, log), Sized(st), NEW k \in 0 .. Len(st.entries)
    PROVE  /\ Sized(Retired(st, k))
           /\ Len(Retired(st, k).entries) = Len(st.entries) - k
<1>. DEFINE new == Retired(st, k)
            n == Len(st.entries)
<1>1. /\ n \in Nat /\ DOMAIN st.entries = 1 .. n /\ DOMAIN st.sizes = 1 .. n
      /\ Amounts(st.sizes, n) /\ st.readable_bytes \in Nat /\ ReadableBytes \in Nat
  BY SizesAdd
<1>2. /\ new.entries = SubSeq(st.entries, k + 1, n)
      /\ new.sizes = SubSeq(st.sizes, k + 1, Len(st.sizes))
      /\ new.readable_bytes = Less(st.readable_bytes, Sum(st.sizes, 1 .. k))
  BY DEF Links, Fields, Retired
<1>. HIDE DEF new
<1>3. /\ Len(new.entries) = n - k
      /\ \A i \in 1 .. n - k : new.entries[i] = st.entries[i + k]
  <2>1. st.entries \in Seq(Held) /\ \A i \in (k + 1) .. n : st.entries[i] \in Held
    BY <1>1, ElementOfSeq DEF Links
  <2>. QED BY <1>1, <1>2, <2>1, SubSeqProperties
<1>4. /\ new.sizes \in Seq(Nat) /\ Len(new.sizes) = n - k
      /\ \A i \in 1 .. n - k : new.sizes[i] = st.sizes[i + k]
  <2>1. st.sizes \in Seq(Nat) /\ Len(st.sizes) = n /\ \A i \in (k + 1) .. n : st.sizes[i] \in Nat
    BY <1>1 DEF Sized, Amounts
  <2>. QED BY <1>1, <1>2, <2>1, SubSeqProperties
<1>5. \A i \in 1 .. n - k :
        new.sizes[i] = IF Intact(new.entries[i]) THEN new.entries[i].entry.bytes ELSE 0
  <2>. TAKE i \in 1 .. n - k
  <2>1. i + k \in 1 .. n
    BY <1>1
  <2>2. st.sizes[i + k] = IF Intact(st.entries[i + k]) THEN st.entries[i + k].entry.bytes ELSE 0
    BY <2>1 DEF Sized
  <2>. QED BY <1>3, <1>4, <2>2
<1>6. st.readable_bytes = Sum(st.sizes, 1 .. k) + Sum(new.sizes, 1 .. n - k)
  <2>1. \A i \in 1 .. n : st.sizes[i] \in Nat
    BY <1>1 DEF Amounts
  <2>2. st.readable_bytes = Sum(st.sizes, 1 .. n) /\ k \in 0 .. n
    BY DEF Sized
  <2>. DEFINE f == st.sizes
              g == new.sizes
  <2>3. (\A i \in 1 .. n : f[i] \in Nat) /\ (\A i \in 1 .. n - k : g[i] = f[i + k])
    BY <1>4, <2>1
  <2>4. n \in Nat /\ k \in 0 .. n
    BY <1>1
  <2>. HIDE DEF n, f, g
  <2>5. Sum(f, 1 .. n) = Sum(f, 1 .. k) + Sum(g, 1 .. n - k)
    BY <2>3, <2>4, SumShifted
  <2>. QED BY <2>2, <2>5 DEF f, g
<1>7. Sum(st.sizes, 1 .. k) \in Nat
  <2>1. (\A i \in 1 .. n : st.sizes[i] \in Nat) /\ k \in 0 .. n
    BY <1>1 DEF Amounts
  <2>. HIDE DEF n
  <2>. QED BY <1>1, <2>1, SumFirst
<1>8. n - k \in Nat /\ Sum(new.sizes, 1 .. n - k) \in Nat
  <2>. DEFINE m == n - k
  <2>1. m \in Nat /\ m \in 0 .. m
    BY <1>1
  <2>2. \A i \in 1 .. m : new.sizes[i] \in Nat
    BY <1>4, ElementOfSeq
  <2>. HIDE DEF m
  <2>3. Sum(new.sizes, 1 .. m) \in Nat
    BY <2>1, <2>2, SumFirst
  <2>. QED BY <2>1, <2>3 DEF m
<1>9. new.readable_bytes = Sum(new.sizes, 1 .. n - k) /\ new.readable_bytes <= st.readable_bytes
  BY <1>1, <1>2, <1>6, <1>7, <1>8 DEF Less
<1>10. Sized(new)
  <2>1. st.readable_bytes <= ReadableBytes /\ n <= EntriesLimit /\ EntriesLimit \in Nat
    BY LedgerAssumption DEF Sized
  <2>2. new.readable_bytes <= ReadableBytes /\ n - k <= EntriesLimit
    BY <1>1, <1>8, <1>9, <2>1
  <2>. HIDE DEF n
  <2>. QED BY <1>3, <1>4, <1>5, <1>9, <2>2 DEF Sized
<1>. QED BY <1>3, <1>10 DEF new

(* What is offered to the evaluator can be read. *)
Named(st) == st.decisions \in SUBSET Nat /\ st.artifacts \in [Artifacts -> Nat \cup {None}]
Offered(st) ==
    /\ Named(st)
    /\ \A n \in st.decisions : Readable(st, n)
    /\ \A a \in Artifacts : st.artifacts[a] # None => Readable(st, st.artifacts[a])

Budget(st) == Sized(st) /\ Offered(st) /\ IsFiniteSet(st.proofs)

LEMMA PruneBudget ==
    ASSUME NEW st, NEW log, Links(st, log), Sized(st), Named(st), IsFiniteSet(st.proofs)
    PROVE  /\ Budget(Pruned(st))
           /\ Pruned(st).proofs = st.proofs \cap DOMAIN alive
           /\ Pruned(st).entries = st.entries /\ Pruned(st).readable_bytes = st.readable_bytes
<1>. DEFINE new == Pruned(st)
<1>1. /\ new.entries = st.entries /\ new.sizes = st.sizes /\ new.readable_bytes = st.readable_bytes
      /\ new.retired = st.retired
      /\ new.proofs = st.proofs \cap DOMAIN alive
      /\ new.decisions = {n \in st.decisions : Readable(st, n)}
      /\ new.artifacts = [a \in Artifacts |->
            IF st.artifacts[a] # None /\ Readable(st, st.artifacts[a]) THEN st.artifacts[a] ELSE None]
  BY DEF Links, Fields, Pruned
<1>. HIDE DEF new
<1>2. \A n : Readable(new, n) <=> Readable(st, n)
  BY <1>1 DEF Readable, Holds, Get
<1>3. Sized(new)
  BY <1>1 DEF Sized
<1>4. Named(new)
  BY <1>1 DEF Named
<1>5. Offered(new)
  BY <1>1, <1>2, <1>4 DEF Offered
<1>6. IsFiniteSet(new.proofs)
  BY <1>1, FS_Subset
<1>. QED BY <1>1, <1>3, <1>5, <1>6 DEF Budget, new

LEMMA SealBudget ==
    ASSUME NEW st, NEW log, Links(st, log), Budget(st), NEW I \in SUBSET (1 .. Len(st.entries))
    PROVE  /\ Budget(Pruned(Seal(st, I)))
           /\ Pruned(Seal(st, I)).proofs = st.proofs \cap DOMAIN alive
<1>. DEFINE sealed == Seal(st, I)
<1>1. Links(sealed, log) /\ Sized(sealed)
  BY SealLinks, SealSized DEF Budget
<1>2. sealed.decisions = st.decisions /\ sealed.artifacts = st.artifacts /\ sealed.proofs = st.proofs
  BY DEF Links, Fields, Seal
<1>3. Named(sealed) /\ IsFiniteSet(sealed.proofs)
  BY <1>2 DEF Budget, Offered, Named
<1>. HIDE DEF sealed
<1>. QED BY <1>1, <1>2, <1>3, PruneBudget DEF sealed

LEMMA ReclaimBudget ==
    ASSUME NEW st, NEW log, Links(st, log), Budget(st)
    PROVE  Budget(Reclaimed(st)) /\ Reclaimed(st).proofs = st.proofs \cap DOMAIN alive
<1>1. Expired(st) \in SUBSET (1 .. Len(st.entries))
  BY LenProperties DEF Expired, Window, Links
<1>. QED BY <1>1, SealBudget DEF Reclaimed

(* prepare seals the oldest entries until the new one fits, or all of them. *)
LEMMA SealingFits ==
    ASSUME NEW st, NEW charge, Len(st.entries) \in Nat
    PROVE  LET k == Sealing(st, charge)
           IN k \in 0 .. Len(st.entries) /\ (Fits(st, k, charge) \/ k = Len(st.entries))
<1>. DEFINE n == Len(st.entries)
            Ends(k) == Fits(st, k, charge) \/ k = n
            K == {k \in 0 .. n : Ends(k)}
            First(k) == Ends(k) /\ \A j \in 0 .. (k - 1) : ~Fits(st, j, charge)
<1>1. K \in SUBSET Nat /\ n \in K
  OBVIOUS
<1>2. PICK k \in K : \A j \in K : k <= j
  <2>. HIDE DEF K
  <2>. QED BY <1>1, LeastIsThere
<1>3. k \in 0 .. n /\ Ends(k)
  OBVIOUS
<1>4. ASSUME NEW j \in 0 .. (k - 1) PROVE ~Fits(st, j, charge)
  <2>1. j \in 0 .. n /\ ~(k <= j)
    BY <1>3
  <2>. QED BY <1>2, <2>1
<1>5. \E i \in 0 .. n : First(i)
  BY <1>3, <1>4
<1>6. Sealing(st, charge) = CHOOSE i \in 0 .. n : First(i)
  BY DEF Sealing
<1>. HIDE DEF First
<1>7. Sealing(st, charge) \in 0 .. n /\ First(Sealing(st, charge))
  BY <1>5, <1>6, Zenon
<1>. QED BY <1>7 DEF First

LEMMA PrepareBudget ==
    ASSUME NEW st, NEW log, NEW bytes \in Sizes, Links(st, log), Budget(st)
    PROVE  /\ Budget(Prepared(st, bytes))
           /\ Prepared(st, bytes).proofs = st.proofs \cap DOMAIN alive
           /\ Prepared(st, bytes).readable_bytes + Charge(bytes) <= ReadableBytes
           /\ Len(Prepared(st, bytes).entries) + 1 <= EntriesLimit
<1>. DEFINE kept == Retired(st, Surplus(st))
            charge == Charge(bytes)
            k == Sealing(kept, charge)
            sealed == Seal(kept, 1 .. k)
<1>1. /\ Surplus(st) \in 0 .. Len(st.entries) /\ Len(st.entries) \in Nat
      /\ (Len(st.entries) - Surplus(st)) + 1 <= EntriesLimit
  <2>1. Len(st.entries) \in Nat /\ EntriesLimit \in Nat \ {0} /\ Len(st.entries) <= EntriesLimit
    BY LenProperties, LedgerAssumption DEF Links, Budget, Sized
  <2>. QED BY <2>1 DEF Surplus, Less
<1>2. Links(kept, log)
  BY <1>1, RetireLinks
<1>3. Sized(kept) /\ Len(kept.entries) = Len(st.entries) - Surplus(st)
  BY <1>1, RetireSized DEF Budget
<1>4. kept.decisions = st.decisions /\ kept.artifacts = st.artifacts /\ kept.proofs = st.proofs
  BY DEF Links, Fields, Retired
<1>5. Prepared(st, bytes) = Pruned(sealed)
  BY DEF Prepared
<1>. HIDE DEF kept
<1>6. /\ Len(kept.entries) \in Nat /\ Amounts(kept.sizes, Len(kept.entries))
      /\ kept.readable_bytes \in Nat /\ ReadableBytes \in Nat
  BY <1>2, <1>3, SizesAdd
<1>7. k \in 0 .. Len(kept.entries) /\ (Fits(kept, k, charge) \/ k = Len(kept.entries))
  <2>. HIDE DEF charge
  <2>. QED BY <1>6, SealingFits
<1>8. charge \in Nat /\ charge <= ReadableBytes
  BY LedgerAssumption DEF Charge
<1>. HIDE DEF charge, k
<1>. DEFINE I == 1 .. k
<1>9. I \in SUBSET (1 .. Len(kept.entries))
  BY <1>6, <1>7
<1>10. sealed = Seal(kept, I)
  OBVIOUS
<1>. HIDE DEF sealed, I
<1>11. /\ Sized(sealed) /\ Sum(kept.sizes, I) \in Nat /\ Sum(kept.sizes, I) <= kept.readable_bytes
       /\ sealed.readable_bytes = kept.readable_bytes - Sum(kept.sizes, I)
       /\ Len(sealed.entries) = Len(kept.entries)
  BY <1>2, <1>3, <1>9, <1>10, SealSized
<1>12. Links(sealed, log)
  BY <1>2, <1>10, SealLinks
<1>13. /\ sealed.decisions = st.decisions /\ sealed.artifacts = st.artifacts /\ sealed.proofs = st.proofs
  BY <1>2, <1>4, <1>10 DEF Links, Fields, Seal
<1>14. Named(sealed) /\ IsFiniteSet(sealed.proofs)
  BY <1>13 DEF Budget, Offered, Named
<1>15. sealed.readable_bytes + charge <= ReadableBytes
  <2>1. CASE Fits(kept, k, charge)
    <3>1. Less(kept.readable_bytes, Sum(kept.sizes, I)) + charge <= ReadableBytes
      BY <2>1 DEF Fits, I
    <3>2. Less(kept.readable_bytes, Sum(kept.sizes, I)) = sealed.readable_bytes
      BY <1>6, <1>11 DEF Less
    <3>. QED BY <3>1, <3>2
  <2>2. CASE k = Len(kept.entries)
    <3>1. kept.readable_bytes = Sum(kept.sizes, I)
      BY <1>3, <2>2 DEF Sized, I
    <3>2. sealed.readable_bytes = 0
      BY <1>6, <1>11, <3>1
    <3>. QED BY <1>8, <3>2
  <2>. QED BY <1>7, <2>1, <2>2
<1>16. /\ Budget(Pruned(sealed))
       /\ Pruned(sealed).proofs = sealed.proofs \cap DOMAIN alive
       /\ Pruned(sealed).entries = sealed.entries /\ Pruned(sealed).readable_bytes = sealed.readable_bytes
  BY <1>11, <1>12, <1>14, PruneBudget
<1>17. Len(sealed.entries) + 1 <= EntriesLimit
  BY <1>1, <1>3, <1>11
<1>. QED BY <1>5, <1>13, <1>15, <1>16, <1>17 DEF charge

LEMMA CommitBudget ==
    ASSUME NEW st, NEW before, NEW log, NEW says \in Content, NEW bytes \in Sizes, now \in Nat,
           Links(st, log), Links(before, log), Same(before, st), Budget(st),
           st.readable_bytes + Charge(bytes) <= ReadableBytes, Len(st.entries) + 1 <= EntriesLimit
    PROVE  LET new == Committed(st, before, says, bytes)
           IN /\ Budget(new)
              /\ new.proofs = IF Pinned(says) THEN st.proofs \cup {before.total} ELSE st.proofs
<1>. DEFINE new == Committed(st, before, says, bytes)
            n == before.total
            body == [says |-> says, at |-> now, bytes |-> bytes]
            charge == Charge(bytes)
            held == [sequence |-> n, previous |-> LastDigest(before), digest |-> Hash(n),
                     entry |-> IF bytes <= ReadableBytes THEN body ELSE None]
            size == Len(st.entries)
<1>1. /\ new.entries = Append(st.entries, held) /\ new.sizes = Append(st.sizes, charge)
      /\ new.readable_bytes = st.readable_bytes + charge /\ new.retired = st.retired
      /\ new.decisions = st.decisions /\ new.artifacts = st.artifacts
      /\ new.proofs = IF Pinned(says) THEN st.proofs \cup {n} ELSE st.proofs
  BY DEF Links, Fields, Committed
<1>2. n \in Nat /\ LastDigest(before) \in Nat
  BY NewestDigest
<1>3. charge \in Nat /\ charge = IF Intact(held) THEN held.entry.bytes ELSE 0
  <2>1. bytes \in Nat /\ ReadableBytes \in Nat
    BY LedgerAssumption
  <2>2. body \in Entry
    BY DEF Entry
  <2>3. body # None
    BY <2>2, EntryAssumption
  <2>4. body.bytes = bytes
    OBVIOUS
  <2>. HIDE DEF body
  <2>. QED BY <2>1, <2>3, <2>4 DEF Charge, Intact
<1>4. held \in Held
  BY <1>2 DEF Held, Entry, Hash
<1>. HIDE DEF held, charge, new
<1>5. /\ size \in Nat /\ st.entries \in Seq(Held) /\ st.sizes \in Seq(Nat) /\ Len(st.sizes) = size
      /\ Amounts(st.sizes, size)
  BY SizesAdd DEF Links, Budget, Sized
<1>6. /\ Len(new.entries) = size + 1
      /\ \A i \in 1 .. size : new.entries[i] = st.entries[i]
      /\ new.entries[size + 1] = held
  BY <1>1, <1>4, <1>5
<1>7. /\ new.sizes \in Seq(Nat) /\ Len(new.sizes) = size + 1
      /\ \A i \in 1 .. size : new.sizes[i] = st.sizes[i]
      /\ new.sizes[size + 1] = charge
  BY <1>1, <1>3, <1>5
<1>8. Sum(new.sizes, 1 .. size + 1) = Sum(st.sizes, 1 .. size) + charge
  <2>. DEFINE f == st.sizes
              g == new.sizes
  <2>1. (\A i \in 1 .. size : f[i] \in Nat /\ g[i] = f[i]) /\ g[size + 1] \in Nat
    BY <1>3, <1>5, <1>7 DEF Amounts
  <2>. HIDE DEF f, g, size
  <2>2. Sum(g, 1 .. size + 1) = Sum(f, 1 .. size) + g[size + 1]
    BY <1>5, <2>1, SumAppended
  <2>. QED BY <1>7, <2>2 DEF f, g
<1>9. Sized(new)
  <2>1. new.readable_bytes = Sum(new.sizes, 1 .. Len(new.entries))
    BY <1>1, <1>6, <1>8 DEF Budget, Sized
  <2>2. ASSUME NEW i \in 1 .. Len(new.entries)
        PROVE  new.sizes[i] = IF Intact(new.entries[i]) THEN new.entries[i].entry.bytes ELSE 0
    <3>1. i \in 1 .. size \/ i = size + 1
      BY <1>5, <1>6
    <3>2. CASE i \in 1 .. size
      <4>1. st.sizes[i] = IF Intact(st.entries[i]) THEN st.entries[i].entry.bytes ELSE 0
        BY <3>2 DEF Budget, Sized
      <4>. QED BY <1>6, <1>7, <3>2, <4>1
    <3>3. CASE i = size + 1
      BY <1>3, <1>6, <1>7, <3>3
    <3>. QED BY <3>1, <3>2, <3>3
  <2>3. new.readable_bytes <= ReadableBytes /\ Len(new.entries) <= EntriesLimit
    BY <1>1, <1>6 DEF charge
  <2>. QED BY <1>6, <1>7, <2>1, <2>2, <2>3 DEF Sized
<1>10. ASSUME NEW m \in Nat, Readable(st, m) PROVE Readable(new, m)
  <2>1. st.retired \in Nat /\ new.retired = st.retired
    BY <1>1 DEF Links
  <2>2. m >= st.retired /\ m - st.retired < size /\ Intact(st.entries[m - st.retired + 1])
    BY <1>10 DEF Readable, Holds, Get
  <2>3. m - st.retired + 1 \in 1 .. size
    BY <1>5, <2>1, <2>2
  <2>4. new.entries[m - st.retired + 1] = st.entries[m - st.retired + 1]
    BY <1>6, <2>3
  <2>5. m - new.retired < Len(new.entries)
    BY <1>5, <1>6, <2>1, <2>2
  <2>. QED BY <2>1, <2>2, <2>4, <2>5 DEF Readable, Holds, Get
<1>11. Offered(new)
  <2>1. Named(new) /\ (\A m \in st.decisions : m \in Nat /\ Readable(st, m))
    BY <1>1 DEF Budget, Offered, Named
  <2>2. ASSUME NEW a \in Artifacts, st.artifacts[a] # None PROVE Readable(new, st.artifacts[a])
    <3>1. st.artifacts[a] \in Nat /\ Readable(st, st.artifacts[a])
      BY <2>2 DEF Budget, Offered, Named
    <3>. QED BY <1>10, <3>1
  <2>. QED BY <1>1, <1>10, <2>1, <2>2 DEF Offered
<1>12. IsFiniteSet(new.proofs)
  <2>1. IsFiniteSet(st.proofs)
    BY DEF Budget
  <2>2. IsFiniteSet(st.proofs \cup {n})
    BY <2>1, FS_AddElement
  <2>. HIDE DEF n
  <2>. QED BY <1>1, <2>1, <2>2
<1>. QED BY <1>1, <1>9, <1>11, <1>12 DEF Budget, new

(* What an append that is written leaves, whatever the entry says. *)
LEMMA WrittenBudget ==
    ASSUME LedgerInv, Budget(state), NEW says \in Content, NEW bytes \in Sizes
    PROVE  LET new == Written(says, bytes)
           IN /\ Budget(new)
              /\ new.proofs = IF Pinned(says) THEN (state.proofs \cap DOMAIN alive) \cup {state.total}
                                              ELSE state.proofs \cap DOMAIN alive
<1>. DEFINE room == Reclaimed(state)
            st == Prepared(room, bytes)
<1>1. now \in Nat /\ Links(state, sink)
  BY DEF LedgerInv, Recording
<1>2. Links(room, sink) /\ Same(state, room) /\ Budget(room) /\ room.proofs = state.proofs \cap DOMAIN alive
  BY <1>1, ReclaimLinks, ReclaimBudget
<1>3. Written(says, bytes) = Committed(st, state, says, bytes)
  BY DEF Written
<1>. HIDE DEF room
<1>4. /\ Links(st, sink) /\ Same(room, st) /\ Budget(st)
      /\ st.proofs = room.proofs \cap DOMAIN alive
      /\ st.readable_bytes + Charge(bytes) <= ReadableBytes
      /\ Len(st.entries) + 1 <= EntriesLimit
  BY <1>2, PrepareLinks, PrepareBudget
<1>. HIDE DEF st
<1>5. Same(state, st)
  BY <1>2, <1>4, SameTransitive
<1>. DEFINE new == Committed(st, state, says, bytes)
<1>6. Budget(new) /\ new.proofs = IF Pinned(says) THEN st.proofs \cup {state.total} ELSE st.proofs
  BY <1>1, <1>4, <1>5, CommitBudget
<1>. HIDE DEF new
<1>7. st.proofs = state.proofs \cap DOMAIN alive
  BY <1>2, <1>4
<1>. QED BY <1>3, <1>6, <1>7 DEF new

(* No more proofs are held than the limit allows. *)
Counted == Cardinality(state.proofs \cap DOMAIN alive) <= ActiveProofs

BudgetInv == Budget(state) /\ Counted

(* A set that is not larger than one that is counted. *)
LEMMA CountsLess ==
    ASSUME NEW S, NEW T \in SUBSET S, IsFiniteSet(S), Cardinality(S) <= ActiveProofs
    PROVE  Cardinality(T) <= ActiveProofs
<1>1. IsFiniteSet(T) /\ Cardinality(T) <= Cardinality(S)
  BY FS_Subset
<1>2. Cardinality(T) \in Nat /\ Cardinality(S) \in Nat /\ ActiveProofs \in Nat
  BY <1>1, FS_CardinalityType, LedgerAssumption
<1>. QED BY <1>1, <1>2

(* Retention, with what is held as it was or let go of. *)
LEMMA RetentionCounts ==
    ASSUME BudgetInv, Budget(state'), state'.proofs \subseteq state.proofs,
           DOMAIN alive' \subseteq DOMAIN alive
    PROVE  BudgetInv'
<1>1. IsFiniteSet(state.proofs \cap DOMAIN alive)
  BY FS_Subset DEF BudgetInv, Budget
<1>. DEFINE S == state.proofs \cap DOMAIN alive
            T == state'.proofs \cap DOMAIN alive'
<1>2. T \in SUBSET S /\ IsFiniteSet(S) /\ Cardinality(S) <= ActiveProofs
  BY <1>1 DEF BudgetInv, Counted
<1>. HIDE DEF S, T
<1>3. Cardinality(T) <= ActiveProofs
  BY <1>2, CountsLess
<1>. QED BY <1>3 DEF BudgetInv, Counted, T, Budget, Sized, Offered, Named, Readable, Holds, Get, Intact

(* An entry that is written, with a proof of it if it is pinned, for which there was room. *)
LEMMA WrittenCounts ==
    ASSUME LedgerInv, BudgetInv, NEW says \in Content, NEW bytes \in Sizes, NEW proofs,
           CanWrite(says, bytes), Issue(proofs, says, bytes), DOMAIN proofs = DOMAIN alive,
           Budget(state'), state'.proofs = Written(says, bytes).proofs
    PROVE  BudgetInv'
<1>. DEFINE S == state.proofs \cap DOMAIN alive
<1>1. IsFiniteSet(S) /\ Cardinality(S) <= ActiveProofs
  BY FS_Subset DEF BudgetInv, Budget, Counted
<1>2. state'.proofs = IF Pinned(says) THEN S \cup {state.total} ELSE S
  BY WrittenBudget DEF BudgetInv
<1>3. Reclaimed(state).proofs = S
  BY ReclaimBudget DEF LedgerInv, Recording, BudgetInv
<1>. HIDE DEF S
<1>4. IsFiniteSet(state'.proofs) /\ Cardinality(state'.proofs) <= ActiveProofs
  <2>1. CASE Pinned(says)
    <3>1. Cardinality(S) < ActiveProofs
      BY <1>3, <2>1 DEF CanWrite, HasRoom
    <3>2. /\ IsFiniteSet(S \cup {state.total})
          /\ Cardinality(S \cup {state.total}) = Cardinality(S) \/ Cardinality(S \cup {state.total}) = Cardinality(S) + 1
      BY <1>1, FS_AddElement
    <3>3. Cardinality(S) \in Nat /\ ActiveProofs \in Nat
      BY <1>1, FS_CardinalityType, LedgerAssumption
    <3>4. Cardinality(S \cup {state.total}) <= ActiveProofs
      BY <3>1, <3>2, <3>3
    <3>. QED BY <1>2, <2>1, <3>2, <3>4
  <2>2. CASE ~Pinned(says)
    BY <1>1, <1>2, <2>2
  <2>. QED BY <2>1, <2>2
<1>5. Counted'
  <2>. DEFINE all == state'.proofs
              T == all \cap DOMAIN alive'
  <2>1. T \in SUBSET all
    OBVIOUS
  <2>2. IsFiniteSet(all) /\ Cardinality(all) <= ActiveProofs
    BY <1>4
  <2>. HIDE DEF T, all
  <2>3. Cardinality(T) <= ActiveProofs
    BY <2>1, <2>2, CountsLess
  <2>. QED BY <2>3 DEF Counted, T, all
<1>. QED BY <1>5 DEF BudgetInv, Budget, Sized, Offered, Named, Readable, Holds, Get, Intact

(* An entry that is not written leaves what retention did for it. *)
LEMMA NotWrittenCounts ==
    ASSUME LedgerInv, BudgetInv, NEW says, NEW bytes \in Sizes, NotWritten(says, bytes)
    PROVE  BudgetInv'
<1>. DEFINE room == Reclaimed(state)
<1>1. Links(room, sink) /\ Budget(room) /\ room.proofs = state.proofs \cap DOMAIN alive
  BY ReclaimLinks, ReclaimBudget DEF LedgerInv, Recording, BudgetInv
<1>2. alive' = alive /\ (state' = Prepared(room, bytes) \/ state' = room)
  BY DEF NotWritten
<1>. HIDE DEF room
<1>3. Budget(Prepared(room, bytes)) /\ Prepared(room, bytes).proofs = room.proofs \cap DOMAIN alive
  BY <1>1, PrepareBudget
<1>4. Budget(state') /\ state'.proofs \subseteq state.proofs /\ DOMAIN alive' \subseteq DOMAIN alive
  <2>1. CASE state' = room
    BY <1>1, <1>2, <2>1
  <2>2. CASE state' = Prepared(room, bytes)
    BY <1>1, <1>2, <1>3, <2>2
  <2>. QED BY <1>2, <2>1, <2>2
<1>. QED BY <1>4, RetentionCounts

LEMMA AppendCounts ==
    ASSUME LedgerInv, BudgetInv, NEW says \in Content, NEW bytes \in Sizes, Append_(says, bytes)
    PROVE  BudgetInv'
<1>1. CASE NotWritten(says, bytes)
  BY <1>1, NotWrittenCounts
<1>2. CASE CanWrite(says, bytes) /\ state' = Written(says, bytes) /\ Issue(alive, says, bytes)
  <2>1. Budget(state') /\ state'.proofs = Written(says, bytes).proofs
    BY <1>2, WrittenBudget DEF BudgetInv
  <2>. QED BY <1>2, <2>1, WrittenCounts
<1>. QED BY <1>1, <1>2 DEF Append_

(* The evaluator is offered what can be read, beside what it was offered. *)
LEMMA OfferedBudget ==
    ASSUME NEW st, NEW new, Budget(st), new.entries = st.entries, new.sizes = st.sizes,
           new.readable_bytes = st.readable_bytes, new.retired = st.retired, new.proofs = st.proofs,
           Named(new), \A n \in new.decisions : Readable(st, n),
           \A a \in Artifacts : new.artifacts[a] # None => Readable(st, new.artifacts[a])
    PROVE  Budget(new)
<1>1. \A n : Readable(new, n) <=> Readable(st, n)
  BY DEF Readable, Holds, Get
<1>2. Sized(new) /\ IsFiniteSet(new.proofs)
  BY DEF Budget, Sized
<1>3. Offered(new)
  BY <1>1 DEF Offered
<1>. QED BY <1>2, <1>3 DEF Budget

LEMMA IntentCounts ==
    ASSUME LedgerInv, BudgetInv, NEW verdict \in {"other", "permitted", "held"}, NEW bytes \in Sizes,
           RecordIntent(verdict, bytes)
    PROVE  BudgetInv'
<1>. DEFINE says == Says(verdict, None, None)
            st == Written(says, bytes)
<1>0. says \in Content
  BY DEF Says, Content, Events
<1>1. CASE NotWritten(says, bytes)
  <2>. HIDE DEF says
  <2>. QED BY <1>1, NotWrittenCounts
<1>2. CASE ~NotWritten(says, bytes)
  <2>1. /\ CanWrite(says, bytes) /\ Issue(alive, says, bytes)
        /\ state' = [st EXCEPT !.decisions = IF Readable(st, state.total) THEN @ \cup {state.total} ELSE @]
    BY <1>2 DEF RecordIntent
  <2>2. Budget(st) /\ Links(st, Append(sink, says)) /\ state.total \in Nat
    <3>1. state.total \in Nat
      BY NewestDigest DEF LedgerInv, Recording
    <3>. HIDE DEF says
    <3>. QED BY <1>0, <3>1, WrittenBudget, WrittenLinks DEF BudgetInv
  <2>. HIDE DEF says, st
  <2>3. /\ state'.entries = st.entries /\ state'.sizes = st.sizes /\ state'.proofs = st.proofs
        /\ state'.readable_bytes = st.readable_bytes /\ state'.retired = st.retired
        /\ state'.artifacts = st.artifacts
        /\ state'.decisions = IF Readable(st, state.total) THEN st.decisions \cup {state.total}
                                                           ELSE st.decisions
    BY <2>1, <2>2 DEF Links, Fields
  <2>4. Named(st) /\ (\A n \in st.decisions : Readable(st, n))
        /\ \A a \in Artifacts : st.artifacts[a] # None => Readable(st, st.artifacts[a])
    BY <2>2 DEF Budget, Offered
  <2>5. Named(state')
    BY <2>2, <2>3, <2>4 DEF Named
  <2>6. \A n \in state'.decisions : Readable(st, n)
    BY <2>3, <2>4
  <2>7. Budget(state')
    BY <2>2, <2>3, <2>4, <2>5, <2>6, OfferedBudget
  <2>. QED BY <1>0, <2>1, <2>3, <2>7, WrittenCounts DEF st
<1>. QED BY <1>1, <1>2

LEMMA OutcomeCounts ==
    ASSUME LedgerInv, BudgetInv, NEW n \in Issued, NEW bytes \in Sizes, RecordOutcome(n, bytes)
    PROVE  BudgetInv'
<1>. DEFINE says == Says("completed", n, None)
<1>0. says \in Content
  <2>1. state.total \in Nat
    BY NewestDigest DEF LedgerInv, Recording
  <2>. QED BY <2>1 DEF Says, Content, Events, Issued
<1>1. CASE NotWritten(says, bytes)
  <2>. HIDE DEF says
  <2>. QED BY <1>1, NotWrittenCounts
<1>2. CASE ~NotWritten(says, bytes)
  <2>1. CanWrite(says, bytes) /\ state' = Written(says, bytes) /\ Issue(Marked(n), says, bytes)
    BY <1>2 DEF RecordOutcome
  <2>2. DOMAIN Marked(n) = DOMAIN alive
    BY DEF Marked
  <2>. HIDE DEF says
  <2>3. Budget(state') /\ state'.proofs = Written(says, bytes).proofs
    BY <1>0, <2>1, WrittenBudget DEF BudgetInv
  <2>. QED BY <1>0, <2>1, <2>2, <2>3, WrittenCounts
<1>. QED BY <1>1, <1>2

LEMMA ReclaimCounts ==
    ASSUME LedgerInv, BudgetInv, state' = Reclaimed(state), alive' = alive
    PROVE  BudgetInv'
<1>1. Budget(Reclaimed(state)) /\ Reclaimed(state).proofs = state.proofs \cap DOMAIN alive
  BY ReclaimBudget DEF LedgerInv, Recording, BudgetInv
<1>2. Budget(state') /\ state'.proofs \subseteq state.proofs /\ DOMAIN alive' \subseteq DOMAIN alive
  BY <1>1
<1>. QED BY <1>2, RetentionCounts

LEMMA EvaluationCounts ==
    ASSUME LedgerInv, BudgetInv, NEW n \in Issued, NEW a \in Artifacts, NEW bytes \in Sizes,
           RecordEvaluation(a, n, bytes)
    PROVE  BudgetInv'
<1>. DEFINE says == Says("evaluated", n, a)
            st == Written(says, bytes)
<1>0. says \in Content /\ state.total \in Nat
  <2>1. state.total \in Nat
    BY NewestDigest DEF LedgerInv, Recording
  <2>. QED BY <2>1 DEF Says, Content, Events, Issued
<1>1. CASE NotWritten(says, bytes)
  <2>. HIDE DEF says
  <2>. QED BY <1>1, NotWrittenCounts
<1>2. CASE state' = Reclaimed(state) /\ alive' = alive
  BY <1>2, ReclaimCounts
<1>3. CASE ~NotWritten(says, bytes) /\ ~(state' = Reclaimed(state) /\ alive' = alive)
  <2>1. /\ CanWrite(says, bytes) /\ Issue(alive, says, bytes)
        /\ state' = [st EXCEPT
                !.issued_ids = @ \cup {a},
                !.evaluated = @ \cup {n},
                !.artifacts[a] = IF Readable(st, state.total) THEN state.total ELSE @]
    BY <1>3 DEF RecordEvaluation
  <2>2. Budget(st) /\ Links(st, Append(sink, says))
    <3>. HIDE DEF says
    <3>. QED BY <1>0, WrittenBudget, WrittenLinks DEF BudgetInv
  <2>. HIDE DEF says, st
  <2>3. /\ state'.entries = st.entries /\ state'.sizes = st.sizes /\ state'.proofs = st.proofs
        /\ state'.readable_bytes = st.readable_bytes /\ state'.retired = st.retired
        /\ state'.decisions = st.decisions
        /\ state'.artifacts = [st.artifacts EXCEPT ![a] = IF Readable(st, state.total) THEN state.total ELSE @]
    BY <2>1, <2>2 DEF Links, Fields
  <2>4. Named(st) /\ (\A m \in st.decisions : Readable(st, m))
        /\ \A b \in Artifacts : st.artifacts[b] # None => Readable(st, st.artifacts[b])
    BY <2>2 DEF Budget, Offered
  <2>5. Named(state')
    BY <1>0, <2>3, <2>4 DEF Named
  <2>6. ASSUME NEW b \in Artifacts, state'.artifacts[b] # None
        PROVE  Readable(st, state'.artifacts[b])
    <3>1. CASE b = a /\ Readable(st, state.total)
      <4>1. state'.artifacts[b] = state.total
        BY <2>3, <2>4, <3>1 DEF Named
      <4>. QED BY <3>1, <4>1
    <3>2. CASE ~(b = a /\ Readable(st, state.total))
      <4>1. state'.artifacts[b] = st.artifacts[b]
        BY <2>3, <2>4, <3>2 DEF Named
      <4>. QED BY <2>4, <2>6, <4>1
    <3>. QED BY <3>1, <3>2
  <2>7. Budget(state')
    BY <2>2, <2>3, <2>4, <2>5, <2>6, OfferedBudget
  <2>. QED BY <1>0, <2>1, <2>3, <2>7, WrittenCounts DEF st
<1>. QED BY <1>1, <1>2, <1>3

LEMMA BudgetKept ==
    ASSUME LedgerInv, BudgetInv, [Next]_vars
    PROVE  BudgetInv'
<1>0. state.total \in Nat
  BY NewestDigest DEF LedgerInv, Recording
<1>1. ASSUME NEW bytes \in Sizes, NEW verdict \in {"other", "permitted", "held"}, RecordIntent(verdict, bytes)
      PROVE  BudgetInv'
  BY <1>1, IntentCounts
<1>2. ASSUME NEW bytes \in Sizes, NEW n \in Issued,
             RecordApproval(n, bytes) \/ RecordAnswer(n, bytes) \/ RecordCancellation(n, bytes)
             \/ RecordSession(bytes)
      PROVE  BudgetInv'
  <2>1. Says("approved", None, None) \in Content /\ Other \in Content
    BY DEF Says, Content, Events, Other
  <2>. QED BY <1>2, <2>1, AppendCounts DEF RecordApproval, RecordAnswer, RecordCancellation, RecordSession
<1>3. ASSUME NEW bytes \in Sizes, NEW n \in Issued, RecordOutcome(n, bytes)
      PROVE  BudgetInv'
  BY <1>3, OutcomeCounts
<1>4. ASSUME NEW bytes \in Sizes, NEW n \in Issued, NEW a \in Artifacts, RecordEvaluation(a, n, bytes)
      PROVE  BudgetInv'
  BY <1>4, EvaluationCounts
<1>5. ASSUME NEW bytes \in Sizes, RecordSession(bytes)
      PROVE  BudgetInv'
  <2>1. Other \in Content
    BY DEF Says, Content, Events, Other
  <2>. QED BY <1>5, <2>1, AppendCounts DEF RecordSession
<1>6. ASSUME NEW n \in Issued, SealBefore(n + 1)
      PROVE  BudgetInv'
  <2>. DEFINE I == {i \in Window(state) : state.entries[i].sequence < n + 1}
  <2>1. I \in SUBSET (1 .. Len(state.entries)) /\ Links(state, sink) /\ Budget(state)
    BY LenProperties DEF LedgerInv, Recording, BudgetInv, Window, Links
  <2>2. state' = Pruned(Seal(state, I)) /\ alive' = alive
    BY <1>6 DEF SealBefore
  <2>. HIDE DEF I
  <2>3. Budget(state') /\ state'.proofs = state.proofs \cap DOMAIN alive
    BY <2>1, <2>2, SealBudget
  <2>. QED BY <2>2, <2>3, RetentionCounts
<1>7. ASSUME NEW n \in Issued, DropProof(n)
      PROVE  BudgetInv'
  <2>1. state' = state /\ DOMAIN alive' \subseteq DOMAIN alive
    BY <1>7 DEF DropProof
  <2>2. Budget(state')
    BY <2>1 DEF BudgetInv
  <2>. QED BY <2>1, <2>2, RetentionCounts
<1>8. CASE Reclaim
  BY <1>8, ReclaimCounts DEF Reclaim
<1>9. CASE LateLine \/ Tick \/ UNCHANGED vars
  <2>1. state' = state /\ alive' = alive
    BY <1>9 DEF LateLine, Tick, vars
  <2>2. Budget(state')
    BY <2>1 DEF BudgetInv
  <2>. QED BY <2>1, <2>2, RetentionCounts
<1>. QED BY <1>1, <1>2, <1>3, <1>4, <1>5, <1>6, <1>7, <1>8, <1>9 DEF Next

LEMMA BudgetStarts ==
    ASSUME Init
    PROVE  BudgetInv
<1>1. state = New /\ alive = <<>>
  BY DEF Init
<1>2. /\ state.entries = <<>> /\ state.sizes = <<>> /\ state.readable_bytes = 0 /\ state.proofs = {}
      /\ state.decisions = {} /\ state.artifacts = [a \in Artifacts |-> None]
  BY <1>1 DEF New
<1>3. Len(state.entries) = 0 /\ Len(state.sizes) = 0 /\ state.sizes \in Seq(Nat)
  BY <1>2
<1>4. Sum(state.sizes, 1 .. Len(state.entries)) = 0
  <2>1. 1 .. Len(state.entries) = {}
    BY <1>3
  <2>2. Sum(state.sizes, {}) = 0
    <3>1. 0 \in Nat /\ \A i \in 1 .. 0 : state.sizes[i] \in Nat
      OBVIOUS
    <3>. QED BY <3>1, SumFirst
  <2>. QED BY <2>1, <2>2
<1>5. Sized(state)
  BY <1>2, <1>3, <1>4, LedgerAssumption DEF Sized
<1>6. Offered(state)
  BY <1>2 DEF Offered, Named
<1>7. IsFiniteSet(state.proofs) /\ Cardinality(state.proofs) = 0
  BY <1>2, FS_EmptySet
<1>8. Counted
  <2>1. state.proofs \cap DOMAIN alive = state.proofs
    BY <1>2
  <2>. QED BY <1>7, <2>1, LedgerAssumption DEF Counted
<1>. QED BY <1>5, <1>6, <1>7, <1>8 DEF BudgetInv, Budget

(* audit.rs and retention.rs: the budget is charged for what can be read of the window
   and is never exceeded, the window and the proofs are within their limits, and what is
   offered to the evaluator can be read, for all limits and sizes. *)
THEOREM BudgetIsKept == Spec => []ReadableAccounted
<1>1. LedgerInv /\ BudgetInv => ReadableAccounted
  <2>. SUFFICES ASSUME LedgerInv, BudgetInv PROVE ReadableAccounted
    OBVIOUS
  <2>1. Links(state, sink) /\ Sized(state) /\ Offered(state) /\ Counted
    BY DEF LedgerInv, Recording, BudgetInv, Budget
  <2>2. DOMAIN state.sizes = 1 .. Len(state.entries) /\ DOMAIN state.entries = 1 .. Len(state.entries)
    BY <2>1, SizesAdd
  <2>3. \A n \in state.decisions \cup ({state.artifacts[a] : a \in Artifacts} \ {None}) : Readable(state, n)
    BY <2>1 DEF Offered
  <2>. QED BY <2>1, <2>2, <2>3 DEF ReadableAccounted, Sized, Counted, Window
<1>2. LedgerInv /\ BudgetInv /\ [Next]_vars => BudgetInv'
  BY BudgetKept
<1>. QED BY <1>1, <1>2, Chaining, BudgetStarts, PTL DEF Spec
=============================================================================
